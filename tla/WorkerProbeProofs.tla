------------------------- MODULE WorkerProbeProofs -------------------------
(***************************************************************************)
(* What the probe and the grace period guarantee, for whatever times the   *)
(* manifest and the worker are given.                                      *)
(***************************************************************************)
EXTENDS WorkerProbe, TLAPS

Running == pc # "down" /\ ~stop

Numbers ==
  /\ left \in Nat /\ backoff \in 1..MaxBackoff /\ grace \in 0..Grace
  /\ age \in Nat /\ turn \in Nat
  /\ next \in 0..(InitialDelay + Period) /\ strikes \in 0..FailureThreshold
  /\ Running => strikes < FailureThreshold

Places ==
  /\ pc \in {"down", "recover", "top", "backoff", "wedged"} \cup InLoop
  /\ stop \in BOOLEAN /\ touched \in BOOLEAN /\ interrupted \in BOOLEAN
  /\ pc # "down" /\ touched => age = turn
  /\ pc \in InLoop \cup {"wedged"} => touched

\* Every number stays in its range, step by step.
LEMMA NumbersStep == Numbers /\ [Next]_vars => Numbers'
<1> SUFFICES ASSUME Numbers, [Next]_vars PROVE Numbers'
  OBVIOUS
<1> USE ConstantsAssumption DEF Numbers, Running, Enter, Sigterm, process, signal, kubelet, history
<1>1. CASE Start
  BY <1>1 DEF Start, stale
<1>2. CASE Terminate \/ Sigkill
  BY <1>2 DEF Terminate, Sigkill
<1>3. CASE Probe
  BY <1>3 DEF Probe
<1>4. CASE Recovered \/ Turn
  BY <1>4 DEF Recovered, Turn, _heartbeat
<1>5. CASE Advance \/ BackoffEnd \/ Wedge
  BY <1>5 DEF Advance, BackoffEnd, Wedge
<1>6. CASE Error
  BY <1>6 DEF Error, nextBackoff
<1>7. CASE Tick \/ TickDown
  BY <1>7 DEF Tick, TickDown
<1>8. CASE UNCHANGED vars
  BY <1>8 DEF vars
<1>9. QED
  BY <1>1, <1>2, <1>3, <1>4, <1>5, <1>6, <1>7, <1>8 DEF Next

\* Once the loop has had a turn, the file is as old as the turn.
LEMMA PlacesStep == Numbers /\ Places /\ [Next]_vars => Places'
<1> SUFFICES ASSUME Numbers, Places, [Next]_vars PROVE Places'
  OBVIOUS
<1> USE DEF Places, InLoop, Enter, Sigterm, process, signal, kubelet, history
<1>1. CASE Start
  BY <1>1 DEF Start
<1>2. CASE Terminate \/ Sigkill
  <2>1. CASE Terminate
    BY <2>1 DEF Terminate
  <2>2. CASE Sigkill
    <3>1. interrupted' \in BOOLEAN
      BY <2>2, Zenon DEF Sigkill
    <3>2. QED
      BY <2>2, <3>1 DEF Sigkill
  <2>3. QED
    BY <1>2, <2>1, <2>2
<1>3. CASE Probe
  BY <1>3 DEF Probe
<1>4. CASE Recovered \/ Turn
  <2>1. CASE Recovered
    BY <2>1 DEF Recovered
  <2>2. CASE Turn
    <3>1. CASE stop
      BY <2>2, <3>1 DEF Turn
    <3>2. CASE ~stop
      <4>1. pc' = "llen" /\ age' = 0 /\ turn' = 0 /\ stop' = stop /\ interrupted' = interrupted
        BY <2>2, <3>2, Zenon DEF Turn, _heartbeat
      <4>2. touched'
        BY <2>2, <3>2, Zenon DEF Turn
      <4>3. touched' \in BOOLEAN
        BY <2>2, <3>2, Zenon DEF Turn
      <4>4. QED
        BY <4>1, <4>2, <4>3
    <3>3. QED
      BY <3>1, <3>2
  <2>3. QED
    BY <1>4, <2>1, <2>2
<1>5. CASE Advance \/ BackoffEnd \/ Wedge \/ Error
  BY <1>5 DEF Advance, BackoffEnd, Wedge, Error
<1>6. CASE Tick
  BY <1>6 DEF Tick, Numbers
<1>7. CASE TickDown \/ UNCHANGED vars
  BY <1>7 DEF TickDown, vars
<1>8. QED
  BY <1>1, <1>2, <1>3, <1>4, <1>5, <1>6, <1>7 DEF Next

LEMMA InvInit == Init => Numbers /\ Places
<1> SUFFICES ASSUME Init PROVE Numbers /\ Places
  OBVIOUS
<1>1. Numbers
  BY ConstantsAssumption DEF Init, Numbers, Running
<1>2. Places
  BY DEF Init, Places, InLoop
<1>3. QED
  BY <1>1, <1>2

\* The types, and that the file is as old as the turn.
THEOREM TypeCorrect == Spec => []TypeOK
<1>1. Numbers /\ Places => TypeOK
  BY DEF Numbers, Places, TypeOK
<1>2. QED
  BY <1>1, InvInit, NumbersStep, PlacesStep, PTL DEF Spec

-----------------------------------------------------------------------------
(* The grace period *)

\* The longest way from a heartbeat to the next.
LoopTime == Reply + (Block + Reply) + MaxHandler + 2 * Reply

\* What may come after the place the loop is in.
Rest == CASE pc = "llen"   -> (Block + Reply) + MaxHandler + 2 * Reply
          [] pc = "fetch"  -> MaxHandler + 2 * Reply
          [] pc = "handle" -> 2 * Reply
          [] OTHER         -> 0

EndsInTime ==
  /\ ~interrupted
  /\ pc \in InLoop => left + Rest <= LoopTime
  /\ pc \in InLoop /\ stop => left + Rest < grace

\* A turn ends before SIGKILL wherever SIGTERM finds it.
LEMMA EndsInTimeStep ==
  ASSUME LoopTime < Grace, Numbers, EndsInTime, [Next]_vars
  PROVE  EndsInTime'
<1> USE ConstantsAssumption
    DEF EndsInTime, InLoop, Rest, LoopTime, Enter, Sigterm, process, signal, kubelet, history
<1>1. CASE Start \/ Recovered
  BY <1>1 DEF Start, Recovered
<1>2. CASE Terminate
  BY <1>2 DEF Terminate, Numbers
<1>3. CASE Sigkill
  <2>1. pc \notin {"handle", "record"}
    BY <1>3 DEF Sigkill, Numbers
  <2>2. QED
    BY <1>3, <2>1 DEF Sigkill
<1>4. CASE Probe
  BY <1>4 DEF Probe, Numbers
<1>5. CASE Turn
  BY <1>5 DEF Turn
<1>6. CASE Advance
  BY <1>6 DEF Advance, Numbers
<1>7. CASE Error \/ BackoffEnd \/ Wedge
  BY <1>7 DEF Error, BackoffEnd, Wedge
<1>8. CASE Tick
  BY <1>8 DEF Tick, Numbers
<1>9. CASE TickDown \/ UNCHANGED vars
  BY <1>9 DEF TickDown, vars
<1>10. QED
  BY <1>1, <1>2, <1>3, <1>4, <1>5, <1>6, <1>7, <1>8, <1>9 DEF Next

\* If the grace period is longer than a turn, SIGTERM at any point of a turn
\* leaves its job the time it needs.
THEOREM JobsFinish == ASSUME LoopTime < Grace PROVE Spec => []NoJobInterrupted
<1>1. Init => EndsInTime
  BY DEF Init, EndsInTime, InLoop
<1>2. Numbers /\ EndsInTime /\ [Next]_vars => EndsInTime'
  BY EndsInTimeStep
<1>3. EndsInTime => NoJobInterrupted
  BY DEF EndsInTime, NoJobInterrupted
<1>4. QED
  BY <1>1, <1>2, <1>3, InvInit, NumbersStep, PTL DEF Spec

-----------------------------------------------------------------------------
(* The probe *)

\* Failed probes are a Period apart and the first finds a file that is stale,
\* or comes after the delay; but for a turn of the loop since the last one.
StrikesAreSlow ==
  Running =>
    /\ strikes = 0 /\ ~touched => turn + next >= InitialDelay
    /\ strikes > 0 =>
         /\ next <= Period
         /\ \/ turn + next >= strikes * Period + (IF touched THEN Stale ELSE InitialDelay)
            \/ touched /\ turn + next <= Period

LEMMA Product ==
  ASSUME NEW n \in Nat
  PROVE  /\ (n + 1) * Period = n * Period + Period
         /\ n * Period >= 0
  BY ConstantsAssumption, Z3

\* A probe that fails adds a Period to what the strikes before it show.
LEMMA StrikesAreSlowProbe ==
  ASSUME Numbers, Places, StrikesAreSlow, Probe
  PROVE  /\ StrikesAreSlow'
         /\ stale => turn >= strikes * Period + (IF touched THEN Stale ELSE InitialDelay)
<1> DEFINE base == IF touched THEN Stale ELSE InitialDelay
<1> USE ConstantsAssumption, ProbeAssumption
<1>1. /\ Running /\ next = 0 /\ next' = Period /\ UNCHANGED <<turn, touched, pc>>
      /\ turn \in Nat /\ strikes \in Nat /\ base \in Nat /\ (touched => age = turn)
  BY DEF Probe, Running, Numbers, Places, history, process
<1>2. CASE stale
  <2>1. touched => turn >= Stale
    BY <1>1, <1>2 DEF stale
  <2>2. turn >= strikes * Period + base
    BY <1>1, <2>1 DEF StrikesAreSlow
  <2>3. strikes' = strikes + 1 /\ strikes' * Period = strikes * Period + Period
    BY <1>1, <1>2, Product DEF Probe
  <2>4. turn' + next' >= strikes' * Period + base
    BY <1>1, <2>2, <2>3, Product
  <2>5. QED
    BY <1>1, <2>2, <2>3, <2>4 DEF StrikesAreSlow
<1>3. CASE ~stale
  <2>1. strikes' = 0
    BY <1>3 DEF Probe
  <2>2. ~touched => turn >= InitialDelay
    BY <1>1, Product DEF StrikesAreSlow
  <2>3. QED
    BY <1>1, <1>3, <2>1, <2>2 DEF StrikesAreSlow
<1>4. QED
  BY <1>2, <1>3

\* A step of FirstProbe that the provers do not take on primed variables.
LEMMA SumAtLeast ==
  ASSUME NEW a \in Nat, NEW b \in Nat, NEW c \in Nat, b >= c
  PROVE  a + b >= c
  OBVIOUS

\* In a container that has just started the first probe is a delay away.
LEMMA FirstProbe ==
  ASSUME Start PROVE turn' + next' >= InitialDelay /\ strikes' = 0
<1>1. strikes' = 0 /\ turn' = 0 /\ next' \in InitialDelay..(InitialDelay + Period)
  BY Zenon DEF Start
<1>2. InitialDelay \in Nat /\ Period \in Nat
  BY ConstantsAssumption
<1>3. turn' \in Nat /\ next' \in Nat /\ next' >= InitialDelay
  BY <1>1, <1>2
<1>4. turn' + next' >= InitialDelay
  BY <1>2, <1>3, SumAtLeast
<1>5. QED
  BY <1>1, <1>4

LEMMA StrikesAreSlowStep ==
  ASSUME Numbers, Places, StrikesAreSlow, [Next]_vars
  PROVE  StrikesAreSlow'
<1> USE ConstantsAssumption
    DEF StrikesAreSlow, Running, Numbers, Enter, process, signal, kubelet, history
<1>1. CASE Start
  BY <1>1, FirstProbe
<1>2. CASE Terminate \/ Sigkill
  BY <1>2 DEF Terminate, Sigkill, Sigterm
<1>3. CASE Probe
  BY <1>3, StrikesAreSlowProbe
<1>4. CASE Recovered
  BY <1>4 DEF Recovered
<1>5. CASE Turn
  BY <1>5 DEF Turn
<1>6. CASE Advance \/ BackoffEnd \/ Wedge \/ Error
  BY <1>6 DEF Advance, BackoffEnd, Wedge, Error
<1>7. CASE Tick
  BY <1>7 DEF Tick
<1>8. CASE TickDown \/ UNCHANGED vars
  BY <1>8 DEF TickDown, vars
<1>9. QED
  BY <1>1, <1>2, <1>3, <1>4, <1>5, <1>6, <1>7, <1>8 DEF Next

\* The probe ends a container only after the loop has had no turn for as long
\* as all its failures take.
THEOREM ProbeSparesWorkers == Spec => OnlySlowTurnsAreStopped
<1>1. Init => StrikesAreSlow
  BY DEF Init, StrikesAreSlow, Running
<1>2. Numbers /\ Places /\ StrikesAreSlow /\ [Next]_vars =>
        [strikes < FailureThreshold /\ strikes' = FailureThreshold => turn >= TurnLimit]_vars
  <2> SUFFICES ASSUME Numbers, Places, StrikesAreSlow, Next,
                      strikes < FailureThreshold, strikes' = FailureThreshold
               PROVE  turn >= TurnLimit
    BY DEF vars
  <2>1. CASE Probe
    <3>1. stale /\ strikes' = strikes + 1
      BY <2>1, ConstantsAssumption DEF Probe
    <3>2. strikes = FailureThreshold - 1
      BY <3>1, ConstantsAssumption DEF Numbers
    <3>3. QED
      BY <2>1, <3>1, <3>2, StrikesAreSlowProbe DEF TurnLimit
  <2>2. CASE ~Probe
    BY <2>2, ConstantsAssumption DEF Next, Start, Terminate, Sigkill, Recovered, Turn, Advance,
          Error, BackoffEnd, Wedge, Tick, TickDown, kubelet
  <2>3. QED
    BY <2>1, <2>2
<1>3. Numbers /\ Places /\ StrikesAreSlow /\ [Next]_vars => StrikesAreSlow'
  BY StrikesAreSlowStep
<1>4. QED
  BY <1>1, <1>2, <1>3, InvInit, NumbersStep, PlacesStep, PTL DEF Spec, OnlySlowTurnsAreStopped

-----------------------------------------------------------------------------
(* A loop that hangs *)

\* The time the failures still needed take, and all the time the probe needs.
Remaining(s) == (FailureThreshold - 1 - s) * Period
Budget == Stale + FailureThreshold * Period

\* From the loop's last turn on there is time for the probe, and then for the
\* grace period.
Replaced ==
  /\ Running /\ touched => turn + next + Remaining(strikes) <= Budget
  /\ pc # "down" /\ stop /\ touched => turn + grace <= Budget + Grace

\* A failure takes one Period off what remains.
LEMMA RemainingFacts ==
  ASSUME NEW s \in 0..FailureThreshold, s < FailureThreshold
  PROVE  /\ Remaining(s) \in Nat /\ Budget \in Nat
         /\ Remaining(s) + InitialDelay + Period <= Budget
         /\ s + 1 < FailureThreshold => Remaining(s) = Remaining(s + 1) + Period
         /\ Stale + Remaining(0) + Period = Budget
<1> USE ConstantsAssumption DEF Remaining, Budget
<1>1. Remaining(s) \in Nat
  <2>1. FailureThreshold - 1 - s \in Nat
    OBVIOUS
  <2>2. QED
    BY <2>1, Product, Z3
<1>2. s * Period \in Nat /\ FailureThreshold * Period \in Nat
  BY Product, Z3
<1>3. Remaining(s) + s * Period + Period = FailureThreshold * Period
  BY Z3
<1>4. Remaining(0) + Period = FailureThreshold * Period
  BY Z3
<1>5. s + 1 < FailureThreshold => Remaining(s) = Remaining(s + 1) + Period
  BY Z3
<1>6. Budget \in Nat
  BY <1>2
<1>7. InitialDelay <= Stale
  BY ProbeAssumption
<1>8. Remaining(s) + InitialDelay + Period <= Budget
  BY <1>1, <1>2, <1>3, <1>7
<1>9. QED
  BY <1>1, <1>2, <1>4, <1>5, <1>6, <1>8

\* A running loop has had its last turn within the budget.
LEMMA BudgetFact ==
  ASSUME Numbers, Replaced
  PROVE  Budget \in Nat /\ (Running /\ touched => turn <= Budget)
<1>1. 0 \in 0..FailureThreshold /\ 0 < FailureThreshold
  BY ConstantsAssumption
<1>2. Budget \in Nat
  BY <1>1, RemainingFacts
<1>3. ASSUME Running, touched PROVE turn <= Budget
  <2>1. Remaining(strikes) \in Nat
    BY <1>3, RemainingFacts DEF Numbers
  <2>2. turn + next + Remaining(strikes) <= Budget
    BY <1>3 DEF Replaced
  <2>3. QED
    BY <1>2, <2>1, <2>2 DEF Numbers
<1>4. QED
  BY <1>2, <1>3

\* A probe that passes finds a young file, one that fails takes its Period off.
LEMMA ReplacedProbe ==
  ASSUME Numbers, Places, Replaced, Probe
  PROVE  Replaced'
<1> USE ConstantsAssumption
<1>1. /\ Running /\ next = 0 /\ next' = Period /\ UNCHANGED <<turn, touched, pc>>
      /\ turn \in Nat /\ strikes \in 0..FailureThreshold /\ strikes < FailureThreshold
      /\ (touched => age = turn)
  BY DEF Probe, Running, Numbers, Places, history, process
<1>2. CASE stale
  <2>1. strikes' = strikes + 1
    BY <1>2 DEF Probe
  <2>2. touched => turn <= Budget
    BY <1>1, BudgetFact
  <2>3. CASE strikes' = FailureThreshold
    <3>1. stop' /\ grace' = Grace
      BY <1>2, <2>3 DEF Probe, Sigterm
    <3>2. QED
      BY <1>1, <2>2, <3>1, BudgetFact DEF Replaced, Running
  <2>4. CASE strikes' # FailureThreshold
    <3>1. stop' = stop /\ ~stop
      BY <1>1, <1>2, <2>4 DEF Probe, signal, Running
    <3>2. Remaining(strikes) = Remaining(strikes') + Period /\ Remaining(strikes) \in Nat
      BY <1>1, <2>1, <2>4, RemainingFacts
    <3>3. Remaining(strikes') \in Nat
      BY <1>1, <2>1, <2>4, RemainingFacts
    <3>4. touched => turn' + next' + Remaining(strikes') <= Budget
      BY <1>1, <3>2, <3>3, BudgetFact DEF Replaced
    <3>5. QED
      BY <1>1, <3>1, <3>4 DEF Replaced, Running
  <2>5. QED
    BY <2>3, <2>4
<1>3. CASE ~stale
  <2>1. strikes' = 0 /\ stop' = stop /\ ~stop
    BY <1>1, <1>3 DEF Probe, signal, Running
  <2>2. touched => turn < Stale
    BY <1>1, <1>3 DEF stale
  <2>3. 0 \in 0..FailureThreshold /\ 0 < FailureThreshold
    OBVIOUS
  <2>4. Stale + Remaining(0) + Period = Budget /\ Remaining(0) \in Nat
    BY <2>3, RemainingFacts
  <2>5. touched => turn' + next' + Remaining(strikes') <= Budget
    BY <1>1, <2>1, <2>2, <2>4, BudgetFact
  <2>6. QED
    BY <1>1, <2>1, <2>5 DEF Replaced, Running
<1>4. QED
  BY <1>2, <1>3

\* Time passes for the loop and the probe alike.
LEMMA ReplacedStep ==
  ASSUME Numbers, Places, Replaced, [Next]_vars
  PROVE  Replaced'
<1> USE DEF Replaced, Running, Enter, process, signal, kubelet, history
<1>1. CASE Start
  BY <1>1 DEF Start
<1>2. CASE Terminate
  <2>1. pc' # "down" /\ stop' /\ grace' = Grace /\ touched' = touched /\ turn' = turn
    BY <1>2 DEF Terminate, Sigterm
  <2>2. touched => turn <= Budget
    BY <1>2, BudgetFact DEF Terminate
  <2>3. QED
    BY <2>1, <2>2, BudgetFact, ConstantsAssumption DEF Numbers
<1>3. CASE Probe
  BY <1>3, ReplacedProbe
<1>4. CASE Turn
  <2>1. CASE stop
    BY <1>4, <2>1 DEF Turn
  <2>2. CASE ~stop
    <3>1. stop' = stop /\ turn' = 0 /\ next' = next /\ strikes' = strikes /\ pc # "down"
      BY <1>4, <2>2 DEF Turn
    <3>2. /\ Remaining(strikes) \in Nat /\ Budget \in Nat
          /\ Remaining(strikes) + InitialDelay + Period <= Budget
      BY <2>2, <3>1, RemainingFacts DEF Numbers
    <3>3. 0 + next + Remaining(strikes) <= Budget
      BY <3>2, ConstantsAssumption DEF Numbers
    <3>4. QED
      BY <2>2, <3>1, <3>3
  <2>3. QED
    BY <2>1, <2>2
<1>5. CASE Sigkill \/ Recovered
  BY <1>5 DEF Sigkill, Recovered
<1>6. CASE Advance \/ BackoffEnd \/ Wedge \/ Error
  BY <1>6 DEF Advance, BackoffEnd, Wedge, Error
<1>7. CASE Tick
  <2>1. UNCHANGED <<pc, stop, strikes, touched>> /\ turn' = turn + 1
    BY <1>7 DEF Tick
  <2>2. CASE stop
    <3>1. grace' = grace - 1
      BY <1>7, <2>2 DEF Tick
    <3>2. QED
      BY <2>1, <2>2, <3>1 DEF Numbers
  <2>3. CASE ~stop
    <3>1. next' = next - 1
      BY <1>7, <2>3 DEF Tick
    <3>2. QED
      BY <2>1, <2>3, <3>1 DEF Numbers
  <2>4. QED
    BY <2>2, <2>3
<1>8. CASE TickDown \/ UNCHANGED vars
  BY <1>8 DEF TickDown, vars
<1>9. QED
  BY <1>1, <1>2, <1>3, <1>4, <1>5, <1>6, <1>7, <1>8 DEF Next

\* A loop that hangs is killed, wherever in the probe's round it hangs.
THEOREM HungLoopsAreReplaced == Spec => []WedgedIsReplaced
<1>1. Init => Replaced
  BY DEF Init, Replaced, Running
<1>2. Numbers /\ Places /\ Replaced => WedgedIsReplaced
  <2> SUFFICES ASSUME Numbers, Places, Replaced, pc = "wedged"
               PROVE  turn <= Budget + Grace
    BY DEF WedgedIsReplaced, Budget
  <2>1. touched /\ pc # "down"
    BY DEF Places
  <2>2. CASE stop
    BY <2>1, <2>2, BudgetFact, ConstantsAssumption DEF Replaced, Numbers
  <2>3. CASE ~stop
    <3>1. Running /\ Remaining(strikes) \in Nat /\ Budget \in Nat
      BY <2>1, <2>3, RemainingFacts DEF Running, Numbers
    <3>2. QED
      BY <2>1, <3>1, ConstantsAssumption DEF Replaced, Numbers
  <2>4. QED
    BY <2>2, <2>3
<1>3. Numbers /\ Places /\ Replaced /\ [Next]_vars => Replaced'
  BY ReplacedStep
<1>4. QED
  BY <1>1, <1>2, <1>3, InvInit, NumbersStep, PlacesStep, PTL DEF Spec
=============================================================================
