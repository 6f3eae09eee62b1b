------------------------------- MODULE Ledger -------------------------------
(***************************************************************************)
(* What accounting promises of every request: its cost reaches the budgets *)
(* at most once, and once decided the outcome does not change.             *)
(***************************************************************************)

CONSTANT Requests

VARIABLE account   \* per request: "open", "charged" or "lost"

LInit == account = [r \in Requests |-> "open"]

Settle(r) ==
  /\ account[r] = "open"
  /\ \E outcome \in {"charged", "lost"} : account' = [account EXCEPT ![r] = outcome]

\* The process ends: whatever is open is lost.
Abandon == account' = [r \in Requests |-> IF account[r] = "open" THEN "lost" ELSE account[r]]

LNext == (\E r \in Requests : Settle(r)) \/ Abandon

LSpec == LInit /\ [][LNext]_account

=============================================================================
