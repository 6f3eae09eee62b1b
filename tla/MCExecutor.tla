---------------------------- MODULE MCExecutor ----------------------------
(***************************************************************************)
(* Instances of Executor for TLC: two handlers, a provider with one slot   *)
(* and one without a limit.                                                *)
(***************************************************************************)
EXTENDS Executor, TLC

CONSTANTS r1, r2, p1, p2

OneSlotAtP1 == p1 :> 1 @@ p2 :> 0

Via(p, m, n, e) == [provider |-> p, model |-> m, retries |-> n, pool |-> e]

\* A rule with retries and an egress pool, a combo with a budget, a stream.
RulePlan == [cands |-> <<Via(p1, "m1", 5, "e1"), Via(p2, "m1", 0, None)>>,
             attempts |-> 2, budget |-> 0, streaming |-> FALSE]
ComboPlan == [cands |-> <<Via(p1, "m1", -1, None), Via(p2, "m1", -1, None), Via(p1, "m2", -1, None)>>,
              attempts |-> 2, budget |-> 2, streaming |-> FALSE]
StreamPlan == [cands |-> <<Via(p1, "m1", -1, None)>>,
               attempts |-> 1, budget |-> 0, streaming |-> TRUE]

\* No provider serves the model.
EmptyPlan == [RulePlan EXCEPT !.cands = <<>>]

ComboAndOthers == r1 :> {ComboPlan} @@ r2 :> {RulePlan, StreamPlan, EmptyPlan}

=============================================================================
