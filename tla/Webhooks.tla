------------------------------ MODULE Webhooks ------------------------------
(***************************************************************************)
(* The queue of webhook deliveries (internal/webhooks/webhooks.go and      *)
(* dispatcher.go, internal/worker/webhook.go): events become rows of       *)
(* webhook_deliveries, instances of the worker claim due rows under a      *)
(* lease, post them to the endpoint of a webhook and record how it went.   *)
(* A row whose worker died is recovered when its lease is old enough; only *)
(* the deadline of a round keeps a slow worker from meeting its successor. *)
(*                                                                         *)
(* Time is relative: ages of leases and rounds, and waits that run down.   *)
(* The columns consecutive_failures and last_delivery_* are left out, they *)
(* are shown to operators and decide nothing.                              *)
(***************************************************************************)
EXTENDS Integers, FiniteSets, Functions

CONSTANTS
  Workers,       \* instances of the worker, one per process
  Deliveries,    \* ids of rows of webhook_deliveries, all of one webhook
  Batch,         \* rows claimed at once (batchSize)
  Concurrency,   \* deliveries of a batch under way at once (concurrency)
  MaxRetries,    \* max_retries of the webhook
  Stuck,         \* age of a lease from which a row is recovered (5 minutes)
  Deadline,      \* age at which the context of a round ends (tenggatPutaran)
  Waits,         \* backoffs, exponential with jitter in the code
  MaxFaults,     \* bound: crashes and statements that fail
  MaxEdits,      \* bound: changes of the webhook by an operator
  None

ASSUME BoundsAssumption ==
  /\ {Batch, Concurrency, Stuck, Deadline} \cup Waits \subseteq Nat \ {0}
  /\ {MaxRetries, MaxFaults, MaxEdits} \subseteq Nat

ASSUME NoneAssumption == None \notin Workers

\* A lease older than Stuck belongs to a round that is over.
ASSUME LeaseAssumption == Deadline <= Stuck

VARIABLES
  hook,     \* the webhook: "enabled", "disabled" or "deleted"
  row,      \* table webhook_deliveries
  item,     \* per worker and row: the delivery in its memory
  age,      \* per worker: the age of its round, 0 without one
  unread,   \* deliveries that were given up because their webhook was not read
  faults, edits

vars == <<hook, row, item, age, unread, faults, edits>>

Statuses == {"none", "pending", "delivering", "delivered", "failed", "abandoned", "gone"}
Final    == {"delivered", "abandoned", "gone"}
Stages   == {"none", "queued", "posting", "accepted", "refused", "abandoning", "ended"}

NoRow  == [status |-> "none", attempts |-> 0, wait |-> 0, lease |-> 0, by |-> None]
NoItem == [at |-> "none", attempts |-> 0]

\* Mutant: locked_by is not cleared.
Released_KeepsOwner(rw, status) == [rw EXCEPT !.status = status, !.lease = 0]

\* The row after a statement that moves it out of "delivering".
Released(rw, status) == [rw EXCEPT !.status = status, !.lease = 0, !.by = None]

NoBatch == [d \in Deliveries |-> NoItem]

\* The batch of w's round, what is left of it, and what is under way of that.
InBatch(w)  == {d \in Deliveries : item[w][d].at # "none"}
Holds(w)    == {d \in InBatch(w) : item[w][d].at # "ended"}
UnderWay(w) == {d \in Holds(w) : item[w][d].at # "queued"}
Idle(w)     == InBatch(w) = {}

\* Mutant: a round has no deadline.
Cut_Never(w) == FALSE

\* The context of the round is done: no statement and no request succeeds any more.
Cut(w) == age[w] >= Deadline

\* The delivery d of w's batch ends; the last one ends the round.
Ends(w, d) ==
  IF Holds(w) = {d}
  THEN item' = [item EXCEPT ![w] = NoBatch] /\ age' = [age EXCEPT ![w] = 0]
  ELSE item' = [item EXCEPT ![w][d] = [at |-> "ended", attempts |-> 0]] /\ UNCHANGED age

Goes(w, d, at) == item' = [item EXCEPT ![w][d].at = at] /\ UNCHANGED age

-----------------------------------------------------------------------------

\* Enqueue: an event for an enabled webhook becomes a row that is due at once.
Enqueue(d) ==
  /\ hook = "enabled" /\ row[d].status = "none"
  /\ row' = [row EXCEPT ![d].status = "pending"]
  /\ UNCHANGED <<hook, item, age, unread, faults, edits>>

\* RecoverStuck, at the start of a round: rows whose lease is too old are queued
\* again, with the attempts and the due time they had.
RecoverStuck(w) ==
  LET stuck == {d \in Deliveries : row[d].status = "delivering" /\ row[d].lease > Stuck} IN
  /\ Idle(w) /\ stuck # {}
  /\ row' = [d \in Deliveries |-> IF d \in stuck THEN Released(row[d], "pending") ELSE row[d]]
  /\ UNCHANGED <<hook, item, age, unread, faults, edits>>

\* ClaimDue: one statement leases due rows that no other statement has locked.
ClaimDue(w) ==
  LET due == {d \in Deliveries : row[d].status \in {"pending", "failed"} /\ row[d].wait = 0} IN
  /\ Idle(w)
  /\ \E D \in SUBSET due :
       /\ Cardinality(D) \in 1 .. Batch
       /\ row' = [d \in Deliveries |->
            IF d \in D THEN [row[d] EXCEPT !.status = "delivering", !.lease = 0, !.by = w]
            ELSE row[d]]
       /\ item' = [item EXCEPT ![w] = [d \in Deliveries |->
            IF d \in D THEN [at |-> "queued", attempts |-> row[d].attempts] ELSE NoItem]]
  /\ UNCHANGED <<hook, age, unread, faults, edits>>

\* jagaSewa renews the leases of the whole batch, of what is done with too.
RenewLeases(w) ==
  /\ ~Idle(w) /\ ~Cut(w)
  /\ row' = [d \in Deliveries |->
       IF d \in InBatch(w) /\ row[d].status = "delivering" /\ row[d].by = w
       THEN [row[d] EXCEPT !.lease = 0] ELSE row[d]]
  /\ UNCHANGED <<hook, item, age, unread, faults, edits>>

Fault == faults < MaxFaults /\ faults' = faults + 1

\* Dispatch reads the webhook.  When it is gone, disabled or cannot be used, the
\* delivery is abandoned without a request.
Dispatch(w, d) ==
  /\ item[w][d].at = "queued" /\ ~Cut(w) /\ Cardinality(UnderWay(w)) < Concurrency
  /\ Goes(w, d, IF hook = "enabled" THEN "posting" ELSE "abandoning")
  /\ UNCHANGED <<hook, row, unread, faults, edits>>

\* The webhook cannot be read just then, which Dispatch takes for gone.
Unread(w, d) ==
  /\ Fault
  /\ item[w][d].at = "queued" /\ ~Cut(w) /\ Cardinality(UnderWay(w)) < Concurrency
  /\ Goes(w, d, "abandoning")
  /\ unread' = unread \cup {d}
  /\ UNCHANGED <<hook, row, edits>>

\* The endpoint answers 2xx, or anything else, or not in time.
Posts(w, d) ==
  /\ item[w][d].at = "posting" /\ ~Cut(w)
  /\ \E at \in {"accepted", "refused"} : Goes(w, d, at)
  /\ UNCHANGED <<hook, row, unread, faults, edits>>

\* The CHECK webhook_deliveries_delivered_consistent: a delivered row keeps its
\* delivered_at, so a statement that gives it another status fails.
Keeps(d, status) == row[d].status = "gone" \/ (row[d].status = "delivered" /\ status # "delivered")
Writes(d, rw) == row' = [row EXCEPT ![d] = IF Keeps(d, rw.status) THEN @ ELSE rw]

RecordSuccess(w, d) ==
  /\ item[w][d].at = "accepted" /\ ~Cut(w)
  /\ Writes(d, Released(row[d], "delivered"))
  /\ Ends(w, d)
  /\ UNCHANGED <<hook, unread, faults, edits>>

\* Mutant: the result is recorded in a context of its own, as tokens are.
RecordFailure_OwnContext(w, d) ==
  LET n == item[w][d].attempts + 1 IN
  /\ item[w][d].at = "refused"
  /\ \E wait \in Waits :
       Writes(d, [Released(row[d], IF n > MaxRetries THEN "abandoned" ELSE "failed")
                    EXCEPT !.attempts = n, !.wait = wait])
  /\ Ends(w, d)
  /\ UNCHANGED <<hook, unread, faults, edits>>

\* Mutant: max_retries is taken for the number of all attempts.
RecordFailure_Early(w, d) ==
  LET n == item[w][d].attempts + 1 IN
  /\ item[w][d].at = "refused" /\ ~Cut(w)
  /\ \E wait \in Waits :
       Writes(d, [Released(row[d], IF n >= MaxRetries THEN "abandoned" ELSE "failed")
                    EXCEPT !.attempts = n, !.wait = wait])
  /\ Ends(w, d)
  /\ UNCHANGED <<hook, unread, faults, edits>>

\* RecordFailure: the attempt counts on what Dispatch was given, and when all of
\* 1 + max_retries are used up the delivery is abandoned.
RecordFailure(w, d) ==
  LET n == item[w][d].attempts + 1 IN
  /\ item[w][d].at = "refused" /\ ~Cut(w)
  /\ \E wait \in Waits :
       Writes(d, [Released(row[d], IF n > MaxRetries THEN "abandoned" ELSE "failed")
                    EXCEPT !.attempts = n, !.wait = wait])
  /\ Ends(w, d)
  /\ UNCHANGED <<hook, unread, faults, edits>>

\* Mutant: the terminal paths call RecordFailure with attempts = max_retries and
\* are due at once (before V-WH-01).
RecordAbandoned_Retries(w, d) ==
  /\ item[w][d].at = "abandoning" /\ ~Cut(w)
  /\ Writes(d, [Released(row[d], "failed") EXCEPT !.attempts = MaxRetries])
  /\ Ends(w, d)
  /\ UNCHANGED <<hook, unread, faults, edits>>

RecordAbandoned(w, d) ==
  /\ item[w][d].at = "abandoning" /\ ~Cut(w)
  /\ Writes(d, [Released(row[d], "abandoned") EXCEPT !.attempts = item[w][d].attempts + 1])
  /\ Ends(w, d)
  /\ UNCHANGED <<hook, unread, faults, edits>>

\* The round is over before the delivery is: it is not started, its request is
\* aborted or its result not recorded, and the row stays leased.
Drop(w, d) ==
  /\ d \in Holds(w) /\ Cut(w)
  /\ Ends(w, d)
  /\ UNCHANGED <<hook, row, unread, faults, edits>>

\* DeleteRetention removes what has ended.
DeleteRetention(d) ==
  /\ row[d].status \in {"delivered", "abandoned"}
  /\ row' = [row EXCEPT ![d] = [NoRow EXCEPT !.status = "gone"]]
  /\ UNCHANGED <<hook, item, age, unread, faults, edits>>

-----------------------------------------------------------------------------

\* An operator disables, enables or deletes the webhook; its rows stay (B-115).
Edit ==
  /\ edits < MaxEdits /\ edits' = edits + 1
  /\ hook # "deleted" /\ hook' \in {"enabled", "disabled", "deleted"} \ {hook}
  /\ UNCHANGED <<row, item, age, unread, faults>>

\* The process ends, or is shut down: what its worker had in memory is lost.
Crash(w) ==
  /\ Fault
  /\ ~Idle(w)
  /\ item' = [item EXCEPT ![w] = NoBatch]
  /\ age' = [age EXCEPT ![w] = 0]
  /\ UNCHANGED <<hook, row, unread, edits>>

\* The statement that records a result fails; Dispatch returns its error.
RecordFails(w, d) ==
  /\ Fault
  /\ item[w][d].at \in {"accepted", "refused", "abandoning"}
  /\ Ends(w, d)
  /\ UNCHANGED <<hook, row, unread, edits>>

Older(n, limit) == IF n < limit THEN n + 1 ELSE n

Tick ==
  /\ row' = [d \in Deliveries |->
       [row[d] EXCEPT !.lease = IF row[d].status = "delivering" THEN Older(@, Stuck + 1) ELSE 0,
                      !.wait = IF @ > 0 THEN @ - 1 ELSE 0]]
  /\ age' = [w \in Workers |-> IF Idle(w) THEN 0 ELSE Older(age[w], Deadline)]
  /\ UNCHANGED <<hook, item, unread, faults, edits>>

Init ==
  /\ hook = "enabled"
  /\ row = [d \in Deliveries |-> NoRow]
  /\ item = [w \in Workers |-> NoBatch]
  /\ age = [w \in Workers |-> 0]
  /\ unread = {} /\ faults = 0 /\ edits = 0

\* The goroutine that delivers d records how it went.
Records(w, d) == RecordSuccess(w, d) \/ RecordFailure(w, d) \/ RecordAbandoned(w, d)

Next ==
  \/ Tick \/ Edit
  \/ \E d \in Deliveries : Enqueue(d) \/ DeleteRetention(d)
  \/ \E w \in Workers :
       \/ RecoverStuck(w) \/ ClaimDue(w) \/ RenewLeases(w) \/ Crash(w)
       \/ \E d \in Deliveries :
            \/ Dispatch(w, d) \/ Unread(w, d) \/ Posts(w, d)
            \/ Records(w, d) \/ Drop(w, d) \/ RecordFails(w, d)

Spec == Init /\ [][Next]_vars

\* Rounds are scheduled again and again and their goroutines run.  A request ends
\* within its timeout, which is shorter than a round, and a statement is short: a
\* delivery is not cut off in every one of its rounds.
Fairness ==
  /\ WF_vars(Tick)
  /\ WF_vars(\E w \in Workers : ClaimDue(w))
  /\ WF_vars(\E w \in Workers : RecoverStuck(w))
  /\ WF_vars(\E w \in Workers, d \in Deliveries : Drop(w, d))
  /\ SF_vars(\E w \in Workers, d \in Deliveries : Dispatch(w, d))
  /\ SF_vars(\E w \in Workers, d \in Deliveries : Posts(w, d))
  /\ SF_vars(\E w \in Workers, d \in Deliveries : Records(w, d))

FairSpec == Spec /\ Fairness

-----------------------------------------------------------------------------
(* Properties.                                                              *)

\* Every variable keeps its type, a row is leased exactly while it is being
\* delivered (webhook_deliveries_lease_consistent), and attempts remain to every
\* row that has not been given up.
TypeOK ==
  /\ hook \in {"enabled", "disabled", "deleted"}
  /\ row \in [Deliveries -> [status : Statuses, attempts : 0 .. MaxRetries + 1, wait : Nat,
                             lease : 0 .. Stuck + 1, by : Workers \cup {None}]]
  /\ \A d \in Deliveries : (row[d].status = "delivering") <=> (row[d].by # None)
  /\ \A d \in Deliveries : row[d].attempts > MaxRetries => row[d].status = "abandoned"
  /\ item \in [Workers -> [Deliveries -> [at : Stages, attempts : 0 .. MaxRetries]]]
  /\ age \in [Workers -> 0 .. Deadline]
  /\ unread \subseteq Deliveries
  /\ faults \in 0 .. MaxFaults /\ edits \in 0 .. MaxEdits

\* No two workers deliver one row at a time: as long as a worker can still post
\* or record a delivery it holds the row's lease, whatever died, was cut off or
\* was recovered before (V-WH-12, V-LN-10).
HolderIsLessee ==
  \A w \in Workers : ~Cut(w) =>
    \A d \in Holds(w) : row[d].status = "delivering" /\ row[d].by = w

\* What has been delivered or abandoned is never taken up again, though every
\* statement that records a result names the row by its id only.
FinalStays ==
  [][\A d \in Deliveries : row[d].status \in Final =>
       row'[d].status = row[d].status \/ row'[d].status = "gone"]_vars

\* A delivery is given up only when all its attempts failed, an operator has taken
\* its webhook out of service, or it could not be read: no crash, no round cut
\* off and no lost result costs an attempt.
AbandonedForCause ==
  \A d \in Deliveries : row[d].status = "abandoned" =>
    row[d].attempts > MaxRetries \/ edits > 0 \/ d \in unread

\* RecordAbandoned is for what trying again does not cure, a read that fails for a
\* moment not included.
OnlyHopelessAbandoned ==
  \A d \in Deliveries : row[d].status = "abandoned" => row[d].attempts > MaxRetries \/ edits > 0

\* Every delivery ends, delivered or abandoned, whatever crashed on the way
\* (V-WH-01: one whose webhook is disabled does not turn in the queue for ever).
EveryDeliveryEnds ==
  \A d \in Deliveries : row[d].status = "pending" ~> row[d].status \in Final

=============================================================================
