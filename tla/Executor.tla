------------------------------ MODULE Executor ------------------------------
(***************************************************************************)
(* The executor of internal/gateway/executor.go: concurrent requests work  *)
(* through their candidates under one table of provider slots.  For each   *)
(* attempt a request takes a slot, then a permit of the circuit breaker,   *)
(* calls the upstream, gives the slot back and reports to the breaker.     *)
(*                                                                         *)
(* A stream that opened keeps its slot and its permit: the handler reads   *)
(* it (Recv), writes the events to the client, and closes it; a guard      *)
(* closes a stream that stays silent.                                      *)
(*                                                                         *)
(* Errors are told apart by what the executor does with their kind.  The   *)
(* breaker's answers are arbitrary here (module Breaker has them).         *)
(***************************************************************************)
EXTENDS Integers, Sequences, FiniteSets

CONSTANTS
  Requests,        \* handlers, each serving one request after the other
  Providers,
  MaxConcurrent,   \* per provider: max_concurrent, 0 for no limit
  Plans,           \* per handler: the plans its requests may come with
  Kinds,           \* the failures that a call may meet
  None,            \* a candidate without known model or egress pool
  MaxEvents        \* bound: events of a stream after the first one

Candidates == [provider : Providers, model : STRING \cup {None}, retries : Int, pool : STRING \cup {None}]

\* Kinds of failure.  transient: timeout, network, rate_limit, overloaded,
\* server; late: a stream opened as its deadline passed; local: a limit of the
\* gateway, which refused the attempt before the upstream was contacted;
\* refused: quota, auth, permission; fatal: the others.
Failures == {"transient", "late", "local", "refused", "unknown_model", "invalid",
             "filtered", "canceled", "fatal"}

ASSUME LimitAssumption == MaxConcurrent \in [Providers -> Nat]
ASSUME PlanAssumption ==
  \A r \in Requests :
    /\ Plans[r] # {}
    /\ Plans[r] \subseteq [cands     : Seq(Candidates),
                           attempts  : Nat \ {0},      \* per candidate
                           budget    : Nat,            \* over all candidates, 0 for none
                           streaming : BOOLEAN]

ASSUME FiniteAssumption == IsFiniteSet(Requests)
ASSUME EventAssumption == MaxEvents \in Nat
ASSUME KindAssumption  == Kinds \subseteq Failures \ {"late"}

VARIABLES
  slotAktif,   \* per provider: slots in use
  req          \* per handler: the request it serves

vars == <<slotAktif, req>>

Retryable == {"transient", "late", "local"}
Failoverable == Retryable \cup {"refused", "unknown_model"}

\* Mutant: a refusal of the gateway itself counts against the provider.
Excluded_ButLocal == {"canceled", "invalid", "filtered", "unknown_model"}

\* Facts about the request, not about the provider: never reported.
Excluded == {"canceled", "invalid", "filtered", "unknown_model", "local"}

Fresh(plan) ==
  [pc |-> "idle", plan |-> plan, idx |-> 1, n |-> 1, allowed |-> 0, left |-> plan.budget,
   calls |-> 0,         \* hitungPercobaanNyata: the candidate's failed attempts
                        \* but the skipped ones, with those the gateway refused
   candErr |-> "none",  \* the last of their failures
   rejected |-> {},     \* modelDitolak
   err |-> "none", spare |-> FALSE,        \* out.Err, and whether errLewatan is set
   gone |-> FALSE,      \* the context has ended
   ended |-> FALSE,     \* Recv has returned an error
   idle |-> "no",       \* whom the handler waited for when the guard fired
   events |-> 0,
   got |-> "none", reports |-> <<>>,       \* history of the last permit
   tried |-> 0, refusals |-> {}, real |-> "none"]   \* history of the request

Cand(q) == q.plan.cands[q.idx]

-----------------------------------------------------------------------------
(* Slots.                                                                   *)

HasSlot(p) == MaxConcurrent[p] = 0 \/ slotAktif[p] < MaxConcurrent[p]
Reserve(p) == slotAktif' = [slotAktif EXCEPT ![p] = IF MaxConcurrent[p] = 0 THEN @ ELSE @ + 1]
Release(p) == slotAktif' = [slotAktif EXCEPT ![p] = IF @ > 0 THEN @ - 1 ELSE @]

Becomes(r, q) == req' = [req EXCEPT ![r] = q]

-----------------------------------------------------------------------------
(* The plan: which candidate is tried next, and with what the request ends. *)

\* Candidates behind an unhealthy egress pool are left out, unless all are.
Healthy(cands, bad) ==
  LET fit[i \in 0 .. Len(cands)] ==    \* what is left of the first i candidates
        IF i = 0 THEN <<>>
        ELSE IF cands[i].pool \in bad THEN fit[i - 1] ELSE Append(fit[i - 1], cands[i])
  IN IF fit[Len(cands)] = <<>> THEN cands ELSE fit[Len(cands)]

Arrives(r) ==
  /\ req[r].pc \in {"idle", "answered"}
  /\ \E plan \in Plans[r] :
       \E bad \in SUBSET ({plan.cands[i].pool : i \in DOMAIN plan.cands} \ {None}) :
         Becomes(r, [Fresh([plan EXCEPT !.cands = Healthy(@, bad)]) EXCEPT !.pc = "next"])
  /\ UNCHANGED slotAktif

\* The client leaves, or the time of the plan is over.
ContextEnds(r) ==
  /\ req[r].pc \notin {"idle", "answered"} /\ ~req[r].gone
  /\ Becomes(r, [req[r] EXCEPT !.gone = TRUE])
  /\ UNCHANGED slotAktif

Exhausted(q) == q.idx > Len(q.plan.cands)
Refused(q) == Cand(q).model # None /\ Cand(q).model \in q.rejected
OutOfBudget(q) == q.plan.budget > 0 /\ q.left <= 0
LeftAfter(q, n) == IF q.plan.budget > 0 THEN q.left - n ELSE q.left

Answered(q, err) == [q EXCEPT !.pc = "answered", !.err = err]

\* All candidates are through, or the budget is: the last real failure, or the
\* local one of a full slot, or "every circuit is open".  A plan without
\* candidates has no provider for its model.
PlanEnds(r) ==
  LET q == req[r] IN
  /\ q.pc = "next"
  /\ Exhausted(q) \/ (~Exhausted(q) /\ ~q.gone /\ ~Refused(q) /\ OutOfBudget(q))
  /\ Becomes(r, Answered(q, IF q.plan.cands = <<>> THEN "unknown_model"
                            ELSE IF q.err # "none" THEN q.err
                            ELSE IF q.spare THEN "local" ELSE "circuit_open"))
  /\ UNCHANGED slotAktif

GivesUp(r) ==
  LET q == req[r] IN
  /\ q.pc = "next" /\ ~Exhausted(q) /\ q.gone
  /\ Becomes(r, Answered(q, "canceled"))
  /\ UNCHANGED slotAktif

SkipsModel(r) ==
  LET q == req[r] IN
  /\ q.pc = "next" /\ ~Exhausted(q) /\ ~q.gone /\ Refused(q)
  /\ Becomes(r, [q EXCEPT !.idx = @ + 1])
  /\ UNCHANGED slotAktif

Least(a, b) == IF a < b THEN a ELSE b

\* Mutant: a budget does not limit the attempts of one candidate.
Allowance_NoBudget(q) ==
  IF Cand(q).retries >= 0 THEN Least(q.plan.attempts, Cand(q).retries + 1) ELSE q.plan.attempts

\* jatah: how often this candidate may be tried.
Allowance(q) ==
  LET budgeted == IF q.plan.budget > 0 THEN Least(q.plan.attempts, q.left) ELSE q.plan.attempts
  IN IF Cand(q).retries >= 0 THEN Least(budgeted, Cand(q).retries + 1) ELSE budgeted

Picks(r) ==
  LET q == req[r] IN
  /\ q.pc = "next" /\ ~Exhausted(q) /\ ~q.gone /\ ~Refused(q) /\ ~OutOfBudget(q)
  /\ Becomes(r, [q EXCEPT !.pc = "slot", !.n = 1, !.allowed = Allowance(q),
                          !.calls = 0, !.candErr = "none"])
  /\ UNCHANGED slotAktif

\* adaModelLainTersisa
OtherModelLeft(q) ==
  \E i \in q.idx + 1 .. Len(q.plan.cands) :
    LET m == q.plan.cands[i].model IN m \notin q.rejected \cup {None, Cand(q).model}

\* Mutant: a full slot passes for the candidate's failure (B-186).
AfterCandidate_LocalCounts(q, full) ==
  LET after == [q EXCEPT !.pc = "next", !.idx = @ + 1, !.left = LeftAfter(q, q.calls)]
  IN IF full THEN [after EXCEPT !.err = "local"]
     ELSE IF q.candErr = "none" THEN after
     ELSE IF q.candErr \in Failoverable THEN [after EXCEPT !.err = q.candErr]
     ELSE IF q.candErr = "invalid" /\ Cand(q).model # None /\ OtherModelLeft(q)
       THEN [after EXCEPT !.err = q.candErr, !.rejected = @ \cup {Cand(q).model}]
     ELSE Answered(q, q.candErr)

\* Mutant: skipped attempts use up the budget too (V-BR-05).
AfterCandidate_SkipsCount(q, full) ==
  LET after == [q EXCEPT !.pc = "next", !.idx = @ + 1, !.left = LeftAfter(q, q.n)]
  IN IF q.candErr = "none" THEN [after EXCEPT !.spare = @ \/ full]
     ELSE IF q.candErr \in Failoverable THEN [after EXCEPT !.err = q.candErr]
     ELSE Answered(q, q.candErr)

\* Mutant: a refused model is not remembered (B-178).
AfterCandidate_Forgets(q, full) ==
  LET after == [q EXCEPT !.pc = "next", !.idx = @ + 1, !.left = LeftAfter(q, q.calls)]
  IN IF q.candErr = "none" THEN [after EXCEPT !.spare = @ \/ full]
     ELSE IF q.candErr \in Failoverable \cup {"invalid"} THEN [after EXCEPT !.err = q.candErr]
     ELSE Answered(q, q.candErr)

\* cobaKandidat returned without a value: what the plan makes of the candidate.
AfterCandidate(q, full) ==
  LET after == [q EXCEPT !.pc = "next", !.idx = @ + 1, !.left = LeftAfter(q, q.calls)]
  IN IF q.candErr = "none" THEN [after EXCEPT !.spare = @ \/ full]
     ELSE IF q.candErr \in Failoverable THEN [after EXCEPT !.err = q.candErr]
     ELSE IF q.candErr = "invalid" /\ Cand(q).model # None /\ OtherModelLeft(q)
       THEN [after EXCEPT !.err = q.candErr, !.rejected = @ \cup {Cand(q).model}]
     ELSE Answered(q, q.candErr)

-----------------------------------------------------------------------------
(* One attempt.  The slot comes before the permit: a permit may be one of   *)
(* the few probes of a half-open circuit, and a full slot must not waste it.*)

TakesSlot(r) ==
  /\ req[r].pc = "slot" /\ HasSlot(Cand(req[r]).provider)
  /\ Reserve(Cand(req[r]).provider)
  /\ Becomes(r, [req[r] EXCEPT !.pc = "permit"])

FindsFull(r) ==
  /\ req[r].pc = "slot" /\ ~HasSlot(Cand(req[r]).provider)
  /\ Becomes(r, AfterCandidate(req[r], TRUE))
  /\ UNCHANGED slotAktif

\* izinkan: a guard that fails lets the request pass as well.
Permitted(r) ==
  /\ req[r].pc = "permit"
  /\ Becomes(r, [req[r] EXCEPT !.pc = "calling", !.got = "none", !.reports = <<>>])
  /\ UNCHANGED slotAktif

\* Mutant: a refusal keeps the slot.
Denied_KeepsSlot(r) ==
  /\ req[r].pc = "permit"
  /\ Becomes(r, AfterCandidate(req[r], FALSE))
  /\ UNCHANGED slotAktif

Denied(r) ==
  /\ req[r].pc = "permit"
  /\ Release(Cand(req[r]).provider)
  /\ Becomes(r, AfterCandidate(req[r], FALSE))

CallSucceeds(r) ==
  /\ req[r].pc = "calling" /\ ~req[r].plan.streaming
  /\ Release(Cand(req[r]).provider)
  /\ Becomes(r, Answered([req[r] EXCEPT !.got = "ok", !.reports = Append(@, "ok")], "none"))

\* The attempt failed: report it unless it says nothing about the provider,
\* then wait for another attempt, or leave the candidate.
Failed(q, k) ==
  [q EXCEPT !.got = k, !.candErr = k, !.calls = @ + 1,
            !.reports = IF k \in Excluded THEN @ ELSE Append(@, "fail"),
            !.tried = @ + 1, !.real = k,
            !.refusals = IF k = "invalid" THEN @ \cup {Cand(q).model} ELSE @]

AttemptFails(r, q, k) ==
  /\ Release(Cand(q).provider)
  /\ \/ Becomes(r, AfterCandidate(Failed(q, k), FALSE))
     \/ k \in Retryable /\ q.n < q.allowed /\ Becomes(r, [Failed(q, k) EXCEPT !.pc = "backoff"])

\* Without a value, without an event, or refused before the upstream was reached.
CallFails(r, k) ==
  /\ req[r].pc = "calling"
  /\ AttemptFails(r, req[r], k)

\* tidur: the pause is over, or the context ended in it.
BackoffEnds(r) ==
  LET q == req[r] IN
  /\ q.pc = "backoff"
  /\ \/ Becomes(r, [q EXCEPT !.pc = "slot", !.n = @ + 1])
     \/ q.gone /\ Becomes(r, AfterCandidate(q, FALSE))
  /\ UNCHANGED slotAktif

-----------------------------------------------------------------------------
(* Streams.                                                                 *)

\* laporkan: nothing is reported once the client has left.
Reported(q, verdict) == IF q.gone THEN q.reports ELSE Append(q.reports, verdict)

\* The first event is there; the handler gets it to write.
OpensStream(r) ==
  /\ req[r].pc = "calling" /\ req[r].plan.streaming
  /\ Becomes(r, [req[r] EXCEPT !.pc = "writing"])
  /\ UNCHANGED slotAktif

\* The first event is there, but the deadline fired meanwhile: the stream is
\* closed, which reports it, and the attempt has failed.
OpensLate(r) ==
  /\ req[r].pc = "calling" /\ req[r].plan.streaming
  /\ AttemptFails(r, [req[r] EXCEPT !.reports = Reported(req[r], "ok")], "late")

NextEvent(r) ==
  /\ req[r].pc = "streaming" /\ req[r].events < MaxEvents
  /\ Becomes(r, [req[r] EXCEPT !.pc = "writing", !.events = @ + 1])
  /\ UNCHANGED slotAktif

WritesEvent(r) ==
  /\ req[r].pc = "writing"
  /\ Becomes(r, [req[r] EXCEPT !.pc = "streaming"])
  /\ UNCHANGED slotAktif

WriteFails(r) ==
  /\ req[r].pc = "writing"
  /\ Becomes(r, [req[r] EXCEPT !.pc = "closing"])
  /\ UNCHANGED slotAktif

\* Mutant: the guard's timer is not started again after an event.
IdleFires_OnlyOnce(r) ==
  /\ req[r].pc \in {"streaming", "writing"} /\ req[r].idle = "no" /\ req[r].events = 0
  /\ Becomes(r, [req[r] EXCEPT !.idle = IF req[r].pc = "streaming" THEN "upstream" ELSE "client"])
  /\ UNCHANGED slotAktif

\* aliranPenjagaDiam: no Recv has returned an event for tenggatDiamAliran.
IdleFires(r) ==
  /\ req[r].pc \in {"streaming", "writing"} /\ req[r].idle = "no"
  /\ Becomes(r, [req[r] EXCEPT !.idle = IF req[r].pc = "streaming" THEN "upstream" ELSE "client"])
  /\ UNCHANGED slotAktif

\* Recv returns EOF or an error: a timeout, if the guard has closed the stream.
StreamEnds(r, k) ==
  LET q == req[r] IN
  /\ q.pc = "streaming"
  /\ q.idle # "no" => k \in {"ok", "transient"}
  /\ Release(Cand(q).provider)
  /\ Becomes(r, [q EXCEPT !.pc = "closing", !.ended = TRUE, !.got = k,
       !.reports = IF k \in Excluded THEN @ ELSE Reported(q, IF k = "ok" THEN "ok" ELSE "fail")])

\* Mutant: Close gives the slot back although Recv has.
Closes_Again(r) ==
  LET q == req[r] IN
  /\ q.pc = "closing"
  /\ Release(Cand(q).provider)
  /\ Becomes(r, IF q.ended THEN Answered(q, "none")
                ELSE Answered([q EXCEPT !.got = "ok", !.reports = Reported(q, "ok")], "none"))

\* Close, deferred by the handler: of a stream that has not ended, it gives the
\* slot back and reports a success, since at least one event was received.
Closes(r) ==
  LET q == req[r] IN
  /\ q.pc = "closing"
  /\ IF q.ended
     THEN Becomes(r, Answered(q, "none")) /\ UNCHANGED slotAktif
     ELSE /\ Becomes(r, Answered([q EXCEPT !.got = "ok", !.reports = Reported(q, "ok")], "none"))
          /\ Release(Cand(q).provider)

-----------------------------------------------------------------------------

Init ==
  /\ slotAktif = [p \in Providers |-> 0]
  /\ req = [r \in Requests |-> Fresh(CHOOSE plan \in Plans[r] : TRUE)]

CallEnds(r) ==
  \/ CallSucceeds(r) \/ OpensStream(r) \/ OpensLate(r)
  \/ \E k \in Kinds : CallFails(r, k)

\* The steps the process takes by itself, or within a deadline.
Step(r) ==
  \/ PlanEnds(r) \/ GivesUp(r) \/ SkipsModel(r) \/ Picks(r)
  \/ TakesSlot(r) \/ FindsFull(r) \/ Permitted(r) \/ Denied(r)
  \/ CallEnds(r) \/ BackoffEnds(r)
  \/ WritesEvent(r) \/ WriteFails(r) \/ Closes(r)

StreamStep(r) == \E k \in {"ok", "transient", "filtered", "canceled"} : StreamEnds(r, k)

Next == \E r \in Requests :
  Arrives(r) \/ ContextEnds(r) \/ Step(r) \/ NextEvent(r) \/ StreamStep(r) \/ IdleFires(r)

Spec == Init /\ [][Next]_vars

\* Handlers are scheduled, calls and pauses have deadlines, a write to the
\* client ends, the guard's timer fires while a Recv waits, and a Recv of a
\* closed stream returns.  No upstream has to end a stream or send anything.
Fairness == \A r \in Requests :
  /\ WF_vars(Step(r))
  /\ WF_vars(req[r].pc = "streaming" /\ IdleFires(r))
  /\ WF_vars(req[r].idle # "no" /\ StreamStep(r))

FairSpec == Spec /\ Fairness

-----------------------------------------------------------------------------
(* Properties.                                                              *)

PCs == {"idle", "next", "slot", "permit", "calling", "backoff", "writing", "streaming",
        "closing", "answered"}

\* Counters stay in their ranges; in particular the allowance of a candidate.
TypeOK ==
  /\ slotAktif \in [Providers -> Nat]
  /\ \A p \in Providers : slotAktif[p] <= MaxConcurrent[p]
  /\ \A r \in Requests :
       /\ req[r].pc \in PCs
       /\ req[r].n \in 1 .. req[r].plan.attempts /\ req[r].idx \in Nat \ {0}
       /\ req[r].left \in 0 .. req[r].plan.budget
       /\ req[r].got \in Failures \cup {"none", "ok"}
       /\ req[r].err \in Failures \cup {"none", "circuit_open"}

\* A slot belongs to a request from its reservation to the end of the attempt,
\* of a stream to its last Recv or its Close.
HoldsSlot(r, p) ==
  /\ req[r].pc \in {"permit", "calling", "writing", "streaming", "closing"} /\ ~req[r].ended
  /\ Cand(req[r]).provider = p

\* The counter of a provider is the number of attempts and open streams on it:
\* no end of either is missed or counted twice, in whichever way it comes
\* (V-BR-06).  With TypeOK, no more than max_concurrent are under way.
SlotsAreHeld ==
  \A p \in Providers : MaxConcurrent[p] > 0 =>
    slotAktif[p] = Cardinality({r \in Requests : HoldsSlot(r, p)})

\* What the breaker should hear of an attempt.
Verdict(got) ==
  CASE got = "ok" -> <<"ok">>
    [] got \in {"none", "canceled", "invalid", "filtered", "unknown_model", "local"} -> <<>>
    [] OTHER -> <<"fail">>

\* Once an attempt or its stream is over, the breaker has heard of its permit
\* what happened, once: also when a stream breaks and is closed after that, and
\* nothing when the failure is a fact about the request (F4, B-255).  A stream
\* whose client left may go unreported.  Openings discarded as late are apart.
ReportsMatchOutcome ==
  \A r \in Requests :
    LET q == req[r] IN
    q.pc \in {"next", "slot", "permit", "backoff", "answered"} /\ q.got # "late" =>
      q.reports = Verdict(q.got) \/ (q.plan.streaming /\ q.gone /\ q.reports = <<>>)

\* A request makes no more attempts than the budget of its plan, over all its
\* candidates, and a plan stops for its budget only when that many were made: none
\* is lost on candidates skipped for an open circuit, a full slot or a refused
\* model (V-BR-05).  An attempt that a limit of the gateway refused is made in this
\* sense and spends one, though the comment of `sisa' has attempts spend the budget
\* only when they contact an upstream.
BudgetIsForAttempts ==
  \A r \in Requests :
    LET q == req[r] IN
    q.plan.budget > 0 => /\ q.tried <= q.plan.budget
                         /\ q.pc = "next" /\ OutOfBudget(q) => q.tried = q.plan.budget

\* A model that has refused the request as invalid is not asked again, at any
\* provider (B-178).
RefusedModelNotAsked ==
  \A r \in Requests :
    req[r].pc \in {"slot", "permit", "calling"} =>
      Cand(req[r]).model \notin req[r].refusals \ {None}

\* A request ends with a value or an error, and the error is the last one that
\* an attempt met: a full slot or an open circuit is named only if there was no
\* attempt, the end of the context only if it ended (B-186, V-GW-11), and a model
\* without providers only if the plan has no candidates.
AnswerIsReal ==
  \A r \in Requests :
    LET q == req[r] IN
    q.pc = "answered" =>
      \/ q.err = "none" /\ q.got # "none" /\ (q.got = "ok" \/ q.plan.streaming)
      \/ q.err = q.real /\ q.real # "none"
      \/ q.err \in {"local", "circuit_open"} /\ q.tried = 0
      \/ q.err = "canceled" /\ q.gone
      \/ q.err = "unknown_model" /\ q.plan.cands = <<>>

\* Every request ends, whatever the upstreams and the breaker do; with
\* SlotsAreHeld, every slot comes back.
RequestsEnd == \A r \in Requests : (req[r].pc = "next") ~> (req[r].pc = "answered")

=============================================================================
