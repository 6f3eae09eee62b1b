----------------------------- MODULE MCBreaker -----------------------------
(***************************************************************************)
(* Instances of Breaker for TLC: which processes, calls and keys, clocks   *)
(* and environment events each run explores.                               *)
(***************************************************************************)
EXTENDS Breaker, TLC

CONSTANTS i1, i2, c1, c2, c3, rule

\* Clocks that agree, and one that runs a unit ahead.
SameClocks == [i \in Instances |-> 0]
AheadClock == [i \in Instances |-> IF i = i1 THEN 0 ELSE 1]

FlushFaults  == {"memo_flush"}
ServerFaults == {"reply_lost", "redis_down", "crash", "reset"}

\* Calls are interchangeable; so are instances whose clocks agree.
CallSymmetry == Permutations(Calls)

=============================================================================
