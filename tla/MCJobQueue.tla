----------------------------- MODULE MCJobQueue -----------------------------
(* Instances of JobQueue for TLC. *)
EXTENDS JobQueueProperties

CONSTANTS j1, j2, w1, w2, h1, h2, h3

OwnHost    == w1 :> h1 @@ w2 :> h2      \* one HOSTNAME per container
AllHandled == w1 :> Job @@ w2 :> Job
\* A rolling deployment: w1 is the old image and has no handler for j2.
OldImage   == w1 :> Job \ {j2} @@ w2 :> Job
=============================================================================
