---------------------------- MODULE MCCacheAside ----------------------------
(* An instance of CacheAside for TLC: three tasks of one process, one of another. *)
EXTENDS CacheAside, TLC
CONSTANTS t1, t2, t3, u1, p, q

Homes == [t \in Task |-> IF t = u1 THEN q ELSE p]
=============================================================================
