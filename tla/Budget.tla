------------------------------- MODULE Budget -------------------------------
(***************************************************************************)
(* Enforcement of budgets: internal/billing/billing.go (Enforcer), as      *)
(* internal/gateway/guard.go asks it before a request runs and as the      *)
(* usage recorder adds the request's cost afterwards, over the rows of     *)
(* internal/database/repo/policy/budgets.go.                               *)
(*                                                                         *)
(* Each gateway process decides from a copy of the rows at most CopyTTL    *)
(* old, and on the holds of requests it let through; a hold is never       *)
(* released, it expires after HoldTTL.  When a period ends is up to the    *)
(* environment (PeriodEnds, PeriodRenews).                                 *)
(*                                                                         *)
(* Amounts of money are small integers.  Times are ages: how long ago a    *)
(* copy was loaded.  The list of a budget's holds is kept as what matters  *)
(* of it: what those that are still alive in t ticks add up to.            *)
(***************************************************************************)
EXTENDS Integers, FiniteSets

CONSTANTS
  Processes, Requests, Budgets,
  Limit, Threshold,  \* per budget: the limit and the amount of its alert percentage
  Blocking,          \* budgets with action_on_exceed = block; the others only warn
  Periodic,          \* budgets whose period ends
  Applies,           \* per request: the budgets among its targets
  Estimate,          \* per request: what it reserves; 0: no reservation
  Costs,             \* per request: what it may turn out to cost
  CopyTTL, RetryPause, HoldTTL,
  LoadTime,          \* longest query of the rows (tenggatMuatKebijakan)
  MaxRun,            \* longest time from the decision to the spend
  SpendCap,          \* bound: spending counts up to here
  Faults             \* environment events of a run, a subset of FaultKinds

FaultKinds == {"load_fails", "mark_fails", "spend_fails", "crash", "reset"}
Kinds == {"threshold", "exceeded"}
Nobody == "nobody"

ASSUME BudgetAssumption ==
  /\ Limit \in [Budgets -> Nat \ {0}] /\ Threshold \in [Budgets -> Nat \ {0}]
  /\ \A b \in Budgets : Threshold[b] <= Limit[b] /\ Limit[b] < SpendCap
  /\ Blocking \subseteq Budgets /\ Periodic \subseteq Budgets
ASSUME RequestAssumption ==
  /\ Applies \in [Requests -> SUBSET Budgets]
  /\ Estimate \in [Requests -> Nat] /\ Costs \in [Requests -> SUBSET Nat]
  /\ Nobody \notin Requests /\ IsFiniteSet(Requests)
ASSUME TimeAssumption ==
  {CopyTTL, RetryPause, HoldTTL, LoadTime, MaxRun, SpendCap} \subseteq Nat \ {0}
ASSUME FaultAssumption == Faults \subseteq FaultKinds

VARIABLES
  row,     \* the rows in the database
  logged,  \* per budget: cost in the request log since its period ended
  copy,    \* per process: its copy of the rows and the age of that copy
  failed,  \* per process: the age of the last failed load (RetryPause: none counts)
  load,    \* per process: the query under way, if any
  hold,    \* per process and budget: what its holds amount to, t ticks ahead
  req,     \* the requests
  sent     \* history: alerts sent about each budget in its current period

vars == <<row, logged, copy, failed, load, hold, req, sent>>

-----------------------------------------------------------------------------
(* A row (Budget) and the questions asked of it.                            *)

FreshRow == [spent |-> 0, alerted |-> FALSE, exceeded |-> FALSE, active |-> TRUE]

Exceeded(b, rw) == rw.spent >= Limit[b]

\* Mutant: before B-107, a threshold jumped over was never announced.
ThresholdDue_NotJumped(b, rw) ==
  ~rw.alerted /\ ~Exceeded(b, rw) /\ rw.spent >= Threshold[b]

\* ShouldAlertThreshold, or the threshold was jumped over (Announce, B-107).
ThresholdDue(b, rw) ==
  ~rw.alerted /\ IF Exceeded(b, rw) THEN ~rw.exceeded ELSE rw.spent >= Threshold[b]
ExceededDue(b, rw) == Exceeded(b, rw) /\ ~rw.exceeded

-----------------------------------------------------------------------------
(* One process: copy and holds.                                             *)

NoLoad   == [by |-> Nobody, rows |-> [b \in Budgets |-> FreshRow], age |-> 0]
\* Nothing loaded yet, or invalidated: no budget is known, or the old copy is
\* too old to use.
NoCopy   == [rows |-> [b \in Budgets |-> [FreshRow EXCEPT !.active = FALSE]], age |-> CopyTTL]
Ahead    == 0 .. (HoldTTL - 1)
NoHolds  == [b \in Budgets |-> [t \in Ahead |-> 0]]

Fresh(p)          == copy[p].age < CopyTTL
RecentlyFailed(p) == failed[p] < RetryPause

\* A load under way is not told: it will store its rows as fresh.
Invalidated(p) == copy' = [copy EXCEPT ![p].age = CopyTTL]

\* totalTahanTerkunci: what the holds on b that are alive add up to.
HeldAmount(p, b) == hold[p][b][0]

-----------------------------------------------------------------------------
(* Requests.  A request slot is used again after it is done.                *)

Idle == [phase |-> "idle", proc |-> Nobody, todo |-> {}, blocked |-> FALSE,
         on |-> {}, age |-> 0]

ReqPhases == {"idle", "loading", "announcing", "running"}

(* The decision over the copy `rows': Check without an estimate, Tahan with *)
(* one.  A budget that is not in the copy does not apply.                   *)

Applicable(r, rows) == {b \in Applies[r] : rows[b].active}

\* Budget b has no room left for r, counting the holds of process p.
Full(r, p, rows, b) ==
  IF Estimate[r] = 0 THEN rows[b].spent >= Limit[b]
  ELSE rows[b].spent + HeldAmount(p, b) + Estimate[r] > Limit[b]

Due(k, b, rw) == IF k = "threshold" THEN ThresholdDue(b, rw) ELSE ExceededDue(b, rw)
AlertsDue(r, rows) ==
  {alert \in Applicable(r, rows) \X Kinds : Due(alert[2], alert[1], rows[alert[1]])}

\* Mutant: a hold lasts no longer than the request (B-189).
Reserves_Short(r, p, on) ==
  hold' = [hold EXCEPT ![p] = [b \in Budgets |->
             [t \in Ahead |-> IF b \in on /\ t < MaxRun THEN @[b][t] + Estimate[r] ELSE @[b][t]]]]

\* A hold on each of the budgets, which lasts HoldTTL.
Reserves(r, p, on) ==
  hold' = [hold EXCEPT ![p] = [b \in Budgets |->
             [t \in Ahead |-> IF b \in on THEN @[b][t] + Estimate[r] ELSE @[b][t]]]]

\* Decision and holds are one step, under the write lock: every blocking budget
\* has room, or none is touched.
Decides(r, p, rows) ==
  LET bound   == Applicable(r, rows) \cap Blocking
      blocked == \E b \in bound : Full(r, p, rows, b)
      on      == IF blocked \/ Estimate[r] = 0 THEN {} ELSE bound
      todo    == AlertsDue(r, rows)
  IN
  /\ Reserves(r, p, on)
  /\ req' = [req EXCEPT ![r] =
       IF blocked /\ todo = {} THEN Idle
       ELSE [Idle EXCEPT !.phase = IF todo = {} THEN "running" ELSE "announcing",
                         !.proc = p, !.todo = todo, !.blocked = blocked, !.on = on]]

\* A fresh copy, or a load that failed just now: the copy is used as it is.
Arrives(r, p) ==
  /\ req[r].phase = "idle"
  /\ Fresh(p) \/ (load[p].by = Nobody /\ RecentlyFailed(p))
  /\ Decides(r, p, copy[p].rows)
  /\ UNCHANGED <<row, logged, copy, failed, load, sent>>

\* muat: one request loads, the others wait for it.  The query reads the rows
\* that are enabled and whose period has not ended.
LoadBegins(r, p) ==
  /\ req[r].phase = "idle"
  /\ ~Fresh(p) /\ ~RecentlyFailed(p) /\ load[p].by = Nobody
  /\ load' = [load EXCEPT ![p] = [by |-> r, rows |-> row, age |-> 0]]
  /\ req'  = [req EXCEPT ![r] = [Idle EXCEPT !.phase = "loading", !.proc = p]]
  /\ UNCHANGED <<row, logged, copy, failed, hold, sent>>

LoadEnds(r) ==
  LET p == req[r].proc IN
  /\ req[r].phase = "loading"
  /\ copy'   = [copy EXCEPT ![p] =
                  [rows |-> load[p].rows, age |-> 0]]
  /\ failed' = [failed EXCEPT ![p] = RetryPause]
  /\ load'   = [load EXCEPT ![p] = NoLoad]
  /\ Decides(r, p, load[p].rows)
  /\ UNCHANGED <<row, logged, sent>>

\* The old copy stays in use; the next attempt waits RetryPause.
LoadFails(r) ==
  LET p == req[r].proc IN
  /\ "load_fails" \in Faults
  /\ req[r].phase = "loading"
  /\ failed' = [failed EXCEPT ![p] = 0]
  /\ load'   = [load EXCEPT ![p] = NoLoad]
  /\ Decides(r, p, copy[p].rows)
  /\ UNCHANGED <<row, logged, copy, sent>>

-----------------------------------------------------------------------------
(* Announce: mark each alert in the database; whoever marks it first sends  *)
(* it.  The threshold of a budget comes before its limit.                   *)

Flagged(b, k) == IF k = "threshold" THEN row[b].alerted ELSE row[b].exceeded
WithFlag(rw, k) ==
  IF k = "threshold" THEN [rw EXCEPT !.alerted = TRUE] ELSE [rw EXCEPT !.exceeded = TRUE]

\* Mutant: the update lacks `and alerted_at is null'.
SendsFirst_Always(b, k) == TRUE

SendsFirst(b, k) == ~Flagged(b, k)

Marks(r, b, k, ok) ==
  /\ req[r].phase = "announcing"
  /\ <<b, k>> \in req[r].todo
  /\ k = "exceeded" => <<b, "threshold">> \notin req[r].todo
  /\ IF ok
     THEN /\ row'  = [row EXCEPT ![b] = WithFlag(@, k)]
          /\ sent' = IF SendsFirst(b, k) THEN [sent EXCEPT ![b][k] = @ + 1] ELSE sent
     ELSE UNCHANGED <<row, sent>>
  /\ req' = [req EXCEPT ![r].todo = @ \ {<<b, k>>}]
  /\ UNCHANGED <<logged, copy, failed, load, hold>>

\* The copy is dropped, so that the flags are read anew; the verdict stands.
AnnounceEnds(r) ==
  /\ req[r].phase = "announcing" /\ req[r].todo = {}
  /\ Invalidated(req[r].proc)
  /\ req' = [req EXCEPT ![r] = IF @.blocked THEN Idle ELSE [@ EXCEPT !.phase = "running"]]
  /\ UNCHANGED <<row, logged, failed, load, hold, sent>>

-----------------------------------------------------------------------------
(* The request ends and the recorder adds its cost: to every budget of its  *)
(* targets that is active now, whatever it was measured against.  Its holds *)
(* stay.                                                                    *)

Capped(n) == IF n > SpendCap THEN SpendCap ELSE n

AddSpend(r, cost) ==
  row' = [b \in Budgets |-> IF b \in Applies[r] /\ row[b].active
                            THEN [row[b] EXCEPT !.spent = Capped(@ + cost)] ELSE row[b]]

\* The row in the request log: between two periods it counts for the next.
Insert(r, cost) ==
  logged' = [b \in Budgets |-> IF b \in Applies[r] /\ ~row[b].active
                               THEN Capped(logged[b] + cost) ELSE logged[b]]

Lands(r, cost, ok) ==
  /\ req[r].phase = "running"
  /\ Insert(r, cost)
  /\ IF ok THEN AddSpend(r, cost) ELSE UNCHANGED row
  /\ req' = [req EXCEPT ![r] = Idle]
  /\ UNCHANGED <<copy, failed, load, hold, sent>>

-----------------------------------------------------------------------------
(* The environment.                                                         *)

PeriodEnds(b) ==
  /\ b \in Periodic /\ row[b].active
  /\ row' = [row EXCEPT ![b].active = FALSE]
  /\ UNCHANGED <<logged, copy, failed, load, hold, req, sent>>

\* Mutant: the alert marks of the old period stay.
Renewed_KeepsMarks(b, spent) ==
  /\ row'  = [row EXCEPT ![b].spent = spent, ![b].active = TRUE]
  /\ logged' = [logged EXCEPT ![b] = 0]
  /\ sent' = [sent EXCEPT ![b] = [k \in Kinds |-> 0]]

\* A new period: its spending so far, and no alert sent.
Renewed(b, spent) ==
  /\ row'  = [row EXCEPT ![b] = [FreshRow EXCEPT !.spent = spent]]
  /\ logged' = [logged EXCEPT ![b] = 0]
  /\ sent' = [sent EXCEPT ![b] = [k \in Kinds |-> 0]]

\* The worker begins the next period, with whatever the request log holds for it
\* already (ResetPeriodWithSpend).  No process is told.
PeriodRenews(b) ==
  /\ ~row[b].active
  /\ Renewed(b, logged[b])
  /\ UNCHANGED <<copy, failed, load, hold, req>>

\* An operator resets a budget through process p.
AdminResets(b, p) ==
  /\ "reset" \in Faults
  /\ Renewed(b, 0)
  /\ Invalidated(p)
  /\ UNCHANGED <<failed, load, hold, req>>

Crash(p) ==
  /\ "crash" \in Faults
  /\ copy'   = [copy EXCEPT ![p] = NoCopy]
  /\ failed' = [failed EXCEPT ![p] = RetryPause]
  /\ load'   = [load EXCEPT ![p] = NoLoad]
  /\ hold'   = [hold EXCEPT ![p] = NoHolds]
  /\ req'    = [r \in Requests |-> IF req[r].proc = p THEN Idle ELSE req[r]]
  /\ UNCHANGED <<row, logged, sent>>

Older(n, max) == IF n < max THEN n + 1 ELSE n

\* Mutant: the query of the rows has no deadline of its own (before V-LN-11).
InTime_NoDeadline == \A r \in Requests : req[r].age < MaxRun

\* What cannot wait: a query and a request have deadlines.
InTime ==
  /\ \A r \in Requests : req[r].age < MaxRun
  /\ \A p \in Processes : load[p].age < LoadTime

\* sapuTahanTerkunci: holds that have expired no longer count.
Swept(h) == [t \in Ahead |-> IF t + 1 \in Ahead THEN h[t + 1] ELSE 0]

Tick ==
  /\ InTime
  /\ copy'   = [p \in Processes |-> [copy[p] EXCEPT !.age = Older(@, CopyTTL)]]
  /\ failed' = [p \in Processes |-> Older(failed[p], RetryPause)]
  /\ load'   = [p \in Processes |-> IF load[p].by = Nobody THEN load[p]
                                    ELSE [load[p] EXCEPT !.age = @ + 1]]
  /\ hold'   = [p \in Processes |-> [b \in Budgets |-> Swept(hold[p][b])]]
  /\ req'    = [r \in Requests |-> IF req[r].phase \in {"announcing", "running"}
                                   THEN [req[r] EXCEPT !.age = @ + 1] ELSE req[r]]
  /\ UNCHANGED <<row, logged, sent>>

-----------------------------------------------------------------------------

Init ==
  /\ row    = [b \in Budgets |-> FreshRow]
  /\ logged = [b \in Budgets |-> 0]
  /\ copy   = [p \in Processes |-> NoCopy]
  /\ failed = [p \in Processes |-> RetryPause]
  /\ load   = [p \in Processes |-> NoLoad]
  /\ hold   = [p \in Processes |-> NoHolds]
  /\ req    = [r \in Requests |-> Idle]
  /\ sent   = [b \in Budgets |-> [k \in Kinds |-> 0]]

Outcomes(fault) == IF fault \in Faults THEN BOOLEAN ELSE {TRUE}

Asks(r)  == \E p \in Processes : Arrives(r, p) \/ LoadBegins(r, p)
Loads(r) == LoadEnds(r) \/ LoadFails(r)
Announces(r) ==
  \/ \E b \in Budgets, k \in Kinds, ok \in Outcomes("mark_fails") : Marks(r, b, k, ok)
  \/ AnnounceEnds(r)
Ends(r)  == \E cost \in Costs[r], ok \in Outcomes("spend_fails") : Lands(r, cost, ok)

RequestStep(r) == Asks(r) \/ Loads(r) \/ Announces(r) \/ Ends(r)

BudgetStep(b) ==
  PeriodEnds(b) \/ PeriodRenews(b) \/ \E p \in Processes : AdminResets(b, p)

Next ==
  \/ Tick
  \/ \E r \in Requests : RequestStep(r)
  \/ \E b \in Budgets : BudgetStep(b)
  \/ \E p \in Processes : Crash(p)

Spec == Init /\ [][Next]_vars

\* Time passes however busy the processes are, requests keep coming, and each of
\* their steps is taken: the database calls have deadlines.  Loads and marks that
\* are tried again and again do not fail for ever.
Fairness ==
  /\ WF_vars(Tick)
  /\ \A r \in Requests : WF_vars(Asks(r)) /\ WF_vars(Loads(r) \/ Announces(r) \/ Ends(r))
  /\ SF_vars(\E r \in Requests : LoadEnds(r))
  /\ SF_vars(\E r \in Requests, b \in Budgets, k \in Kinds : Marks(r, b, k, TRUE))

FairSpec == Spec /\ Fairness

-----------------------------------------------------------------------------
(* Properties.                                                              *)

RowType == [spent : 0 .. SpendCap, alerted : BOOLEAN, exceeded : BOOLEAN, active : BOOLEAN]
RowsType == [Budgets -> RowType]
CopyType == [rows : RowsType, age : 0 .. CopyTTL]
LoadType == [by : Requests \cup {Nobody}, rows : RowsType, age : 0 .. LoadTime]
ReqType  == [phase : ReqPhases, proc : Processes \cup {Nobody}, todo : SUBSET (Budgets \X Kinds),
             blocked : BOOLEAN, on : SUBSET Budgets, age : 0 .. MaxRun]

\* Every variable stays within its type.
TypeOK ==
  /\ row \in RowsType
  /\ logged \in [Budgets -> 0 .. SpendCap]
  /\ copy \in [Processes -> CopyType]
  /\ failed \in [Processes -> 0 .. RetryPause]
  /\ load \in [Processes -> LoadType]
  /\ hold \in [Processes -> [Budgets -> [Ahead -> Nat]]]
  /\ req \in [Requests -> ReqType]
  /\ sent \in [Budgets -> [Kinds -> Nat]]

\* The requests let through on budget b whose cost has not landed.
Running(b) == {r \in Requests : b \in req[r].on}

\* What requests reserve, counted unit by unit.
Units(R)  == UNION {{r} \X (1 .. Estimate[r]) : r \in R}
Amount(R) == Cardinality(Units(R))
Reserved(b) == Amount(Running(b))

\* A blocking budget is never overshot: what was spent in its period and what
\* the requests still running have reserved stay within the limit, as long as no
\* request costs more than it reserved.  A hold outlives its request until the
\* copy shows the spend (V-AB-16, B-189).
NoOvershoot == \A b \in Blocking : row[b].spent + Reserved(b) <= Limit[b]

\* In one period each alert of a budget is sent at most once, whichever
\* processes notice it, whatever the age of their copies.
AlertedOnce == \A b \in Budgets, k \in Kinds : sent[b][k] <= 1

\* A budget is never announced as exceeded without its threshold having been
\* announced, even when one request jumps over both (B-107) and whichever of the
\* processes' copies announces it, as long as the marks themselves succeed.
ThresholdFirst == \A b \in Budgets : row[b].exceeded => row[b].alerted

\* An exhausted budget is announced before its period ends, as long as requests
\* keep coming: a stale copy or a concurrent announcement delays the alert but
\* does not lose it.
ExhaustionAnnounced ==
  \A b \in Budgets :
    (row[b].active /\ row[b].spent >= Limit[b]) ~>
       (sent[b]["exceeded"] = 1 \/ row[b].spent < Limit[b] \/ ~row[b].active)

=============================================================================
