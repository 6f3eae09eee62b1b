------------------------------ MODULE MCQuota -------------------------------
(***************************************************************************)
(* An instance of Quota for TLC: a key with a short and a long window, two *)
(* models, the second a fallback tier of the first, and one provider.      *)
(***************************************************************************)
EXTENDS Quota, TLC

CONSTANTS r1, r2, key, m1, m2, policy, column

OneTier   == <<m2>>
TwoGates  == <<policy, column>>

\* Seconds and days, as windows of one unit and of two.
Widths == [rps |-> 1, daily |-> 2]
Limits ==
  key    :> [rps |-> 1, daily |-> 2] @@
  m1     :> [rps |-> 1, daily |-> 0] @@
  m2     :> [rps |-> 0, daily |-> 1] @@
  policy :> [rps |-> 0, daily |-> 1] @@
  column :> [rps |-> 1, daily |-> 0]

RequestSymmetry == Permutations(Requests)

=============================================================================
