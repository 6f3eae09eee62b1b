----------------------------- MODULE MCBudget -----------------------------
(***************************************************************************)
(* Instances of Budget for TLC.                                            *)
(***************************************************************************)
EXTENDS Budget, TLC

CONSTANTS p1, p2, r1, r2, r3, key, global,
          TheLimit, TheThreshold, TheEstimate, MaxCost

\* Every budget has the same limits; every request is charged to all of them,
\* or r1 to the global budget only.
SameLimit     == [b \in Budgets |-> TheLimit]
SameThreshold == [b \in Budgets |-> TheThreshold]
AppliesToAll  == [r \in Requests |-> Budgets]
AppliesSome   == [r \in Requests |-> IF r = r1 THEN {global} ELSE Budgets]
SameEstimate  == [r \in Requests |-> TheEstimate]
SameCosts     == [r \in Requests |-> 0 .. MaxCost]

NoFaults    == {}
GateFaults  == {"spend_fails", "crash"}
AlertFaults == {"load_fails", "mark_fails", "reset"}

\* Processes and requests are interchangeable.
Symmetric == Permutations(Processes) \cup Permutations(Requests)
\* All but r1, where it is charged to other budgets.
ProcSymmetric == Permutations(Processes) \cup Permutations(Requests \ {r1})

=============================================================================
