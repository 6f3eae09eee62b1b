--------------------------- MODULE ExecutorProofs ---------------------------
(***************************************************************************)
(* Theorems about Executor, for every number of handlers and providers,    *)
(* every limit of slots, every plan and every kind of failure.             *)
(***************************************************************************)
EXTENDS Executor, Induction, FiniteSetTheorems

(***************************************************************************)
(* What is left of a plan's candidates is a sequence of candidates.        *)
(***************************************************************************)

\* The recursion of Healthy, as an equation.
Filtered(fit, cands, bad, i) ==
  IF i = 0 THEN <<>>
  ELSE IF cands[i].pool \in bad THEN fit[i - 1] ELSE Append(fit[i - 1], cands[i])

IsFilter(fit, cands, bad, n) == fit = [i \in 0 .. n |-> Filtered(fit, cands, bad, i)]

\* A function that satisfies it exists, for every prefix of the candidates.
LEMMA FilterExists ==
  ASSUME NEW cands \in Seq(Candidates), NEW bad
  PROVE  \A n \in Nat : \E fit : IsFilter(fit, cands, bad, n)
<1> DEFINE Good == {n \in Nat : \E fit : IsFilter(fit, cands, bad, n)}
<1>1. 0 \in Good
  <2>1. IsFilter([i \in 0 .. 0 |-> <<>>], cands, bad, 0)
    BY DEF IsFilter
  <2> QED  BY <2>1
<1>2. ASSUME NEW n \in Nat, n \in Good PROVE n + 1 \in Good
  <2>1. PICK fit : IsFilter(fit, cands, bad, n)
    BY <1>2
  <2> DEFINE last == Filtered(fit, cands, bad, n + 1)
             longer == [i \in 0 .. n + 1 |-> IF i <= n THEN fit[i] ELSE last]
  <2>2. \A i \in 0 .. n : fit[i] = Filtered(fit, cands, bad, i)
    BY <2>1 DEF IsFilter
  <2>3. longer[n + 1] = last /\ \A i \in 0 .. n : longer[i] = fit[i]
    OBVIOUS
  <2>4. longer = [i \in 0 .. n + 1 |-> longer[i]]
    OBVIOUS
  <2> HIDE DEF longer
  <2>5. ASSUME NEW i \in 0 .. n + 1 PROVE longer[i] = Filtered(longer, cands, bad, i)
    <3>1. CASE i = 0
      <4>1. fit[0] = Filtered(fit, cands, bad, 0)
        BY <2>2
      <4> QED  BY <2>3, <3>1, <4>1 DEF Filtered
    <3>2. CASE i # 0
      <4>1. longer[i - 1] = fit[i - 1]
        BY <2>3, <3>2
      <4>2. longer[i] = Filtered(fit, cands, bad, i)
        <5>1. CASE i = n + 1
          BY <2>3, <5>1
        <5>2. CASE i # n + 1
          BY <2>2, <2>3, <5>2
        <5> QED  BY <5>1, <5>2
      <4> QED  BY <3>2, <4>1, <4>2 DEF Filtered
    <3> QED  BY <3>1, <3>2
  <2>7. IsFilter(longer, cands, bad, n + 1)
    <3> DEFINE again == [i \in 0 .. n + 1 |-> Filtered(longer, cands, bad, i)]
    <3>1. \A i \in 0 .. n + 1 : longer[i] = again[i]
      BY <2>5
    <3>2. again = [i \in 0 .. n + 1 |-> again[i]]
      OBVIOUS
    <3> HIDE DEF again
    <3>3. longer = again
      BY <2>4, <3>1, <3>2
    <3> QED  BY <3>3 DEF IsFilter, again
  <2> QED  BY <2>7
<1>3. Nat \subseteq Good
  <2> HIDE DEF Good
  <2> QED  BY <1>1, <1>2, SetInduction
<1> QED  BY <1>3

\* Every prefix is filtered to a sequence of candidates.
LEMMA FilterType ==
  ASSUME NEW cands \in Seq(Candidates), NEW bad, NEW fit,
         IsFilter(fit, cands, bad, Len(cands))
  PROVE  fit[Len(cands)] \in Seq(Candidates)
<1> DEFINE Good == {n \in Nat : n <= Len(cands) => fit[n] \in Seq(Candidates)}
<1>0. \A n \in 0 .. Len(cands) : fit[n] = Filtered(fit, cands, bad, n)
  BY DEF IsFilter
<1>1. 0 \in Good
  <2>1. Len(cands) \in Nat
    OBVIOUS
  <2>2. fit[0] = <<>>
    BY <1>0, <2>1 DEF Filtered
  <2>3. fit[0] \in Seq(Candidates)
    BY <2>2
  <2> QED  BY <2>3
<1>2. ASSUME NEW n \in Nat, n \in Good PROVE n + 1 \in Good
  <2> SUFFICES ASSUME n + 1 <= Len(cands) PROVE fit[n + 1] \in Seq(Candidates)
    OBVIOUS
  <2>1. fit[n] \in Seq(Candidates) /\ cands[n + 1] \in Candidates
    BY <1>2
  <2>2. fit[n + 1] = IF cands[n + 1].pool \in bad THEN fit[n] ELSE Append(fit[n], cands[n + 1])
    BY <1>0 DEF Filtered
  <2> QED  BY <2>1, <2>2
<1>3. Nat \subseteq Good
  <2> HIDE DEF Good
  <2> QED  BY <1>1, <1>2, SetInduction
<1> QED  BY <1>3

LEMMA HealthyType ==
  ASSUME NEW cands \in Seq(Candidates), NEW bad
  PROVE  Healthy(cands, bad) \in Seq(Candidates)
<1> DEFINE fit == CHOOSE g : IsFilter(g, cands, bad, Len(cands))
<1>1. Len(cands) \in Nat
  OBVIOUS
<1>2. IsFilter(fit, cands, bad, Len(cands))
  BY <1>1, FilterExists
<1>3. fit[Len(cands)] \in Seq(Candidates)
  BY <1>2, FilterType
<1>4. Healthy(cands, bad) \in {cands, fit[Len(cands)]}
  BY DEF Healthy, IsFilter, Filtered
<1> QED  BY <1>3, <1>4

(***************************************************************************)
(* The inductive invariant.  It speaks of one request at a time, except    *)
(* for the count of slots.                                                 *)
(***************************************************************************)

Models == STRING \cup {None}
Plan   == [cands : Seq(Candidates), attempts : Nat \ {0}, budget : Nat, streaming : BOOLEAN]

Fields == {"pc", "plan", "idx", "n", "allowed", "left", "calls", "candErr", "rejected", "err",
           "spare", "gone", "ended", "idle", "events", "got", "reports", "tried", "refusals", "real"}

Typed(q) ==
  /\ DOMAIN q = Fields
  /\ q.pc \in PCs /\ q.plan \in Plan /\ q.idx \in Nat \ {0} /\ q.n \in Nat \ {0}
  /\ q.allowed \in Nat /\ q.left \in Nat /\ q.calls \in Nat /\ q.tried \in Nat
  /\ q.candErr \in Failures \cup {"none"} /\ q.real \in Failures \cup {"none"}
  /\ q.err \in Failures \cup {"none", "circuit_open"}
  /\ q.got \in Failures \cup {"none", "ok"} /\ q.reports \in Seq({"ok", "fail"})
  /\ q.rejected \subseteq Models /\ q.refusals \subseteq Models
  /\ q.gone \in BOOLEAN /\ q.ended \in BOOLEAN

Trying == {"slot", "permit", "calling", "backoff"}

\* The attempts of a candidate stay within its allowance, the allowance within
\* what is left of the budget.
Counters(q) ==
  /\ q.n <= q.plan.attempts /\ q.left <= q.plan.budget
  /\ q.pc \in Trying =>
       /\ q.idx <= Len(q.plan.cands)
       /\ q.n <= q.allowed /\ q.allowed <= q.plan.attempts
       /\ q.plan.budget > 0 => q.allowed <= q.left
       /\ q.calls = IF q.pc = "backoff" THEN q.n ELSE q.n - 1
       /\ q.pc = "backoff" => q.n < q.allowed

\* What is left of the budget is what was not used; the attempts of the
\* candidate under way are taken off after it.
Accounted(q) ==
  q.plan.budget > 0 =>
    /\ q.tried <= q.plan.budget
    /\ q.pc = "next" => q.tried + q.left = q.plan.budget
    /\ q.pc \in Trying => q.tried + q.left = q.plan.budget + q.calls

\* The breaker has heard of the outcome, or need not have.
Heard(q) == q.reports = Verdict(q.got) \/ (q.plan.streaming /\ q.gone /\ q.reports = <<>>)

\* A permit is in use, or its outcome is known.
Open(q) == q.pc \in {"calling", "writing", "streaming"} \/ (q.pc = "closing" /\ ~q.ended)
Over(q) == q.pc \in {"next", "slot", "permit", "backoff", "answered"} \/ (q.pc = "closing" /\ q.ended)

\* While the outcome of a permit is open, nothing has been reported.
Told(q) ==
  /\ Open(q) => q.got = "none" /\ q.reports = <<>>
  /\ Over(q) /\ q.got # "late" => Heard(q)

\* The plan remembers the models that refused, and does not try them.
Remembered(q) ==
  /\ q.pc \in Trying \cup {"next"} => q.refusals \ {None} \subseteq q.rejected
  /\ q.pc \in Trying => Cand(q).model \notin q.rejected \ {None}

\* Between two candidates the plan's error is the last one of an attempt.
Settled(q) == IF q.tried = 0 THEN q.err = "none" /\ q.real = "none"
              ELSE q.err = q.real /\ q.real # "none"

LastError(q) ==
  /\ q.pc = "next" => Settled(q)
  /\ q.pc \in Trying =>
       /\ q.candErr \in Retryable \cup {"none"}
       /\ q.candErr = "none" => Settled(q)
       /\ q.candErr # "none" => q.candErr = q.real /\ q.tried > 0

\* Only a stream's Recv ends before its handler does.
Streams(q) ==
  /\ q.ended => q.pc \in {"closing", "answered"} /\ q.got # "none"
  /\ q.pc \in {"writing", "streaming", "closing"} => q.plan.streaming /\ q.idx <= Len(q.plan.cands)

Answer(q) ==
  q.pc = "answered" =>
    \/ q.err = "none" /\ q.got # "none" /\ (q.got = "ok" \/ q.plan.streaming)
    \/ q.err = q.real /\ q.real # "none"
    \/ q.err \in {"local", "circuit_open"} /\ q.tried = 0
    \/ q.err = "canceled" /\ q.gone
    \/ q.err = "unknown_model" /\ q.plan.cands = <<>>

Sound(q) == Counters(q) /\ Accounted(q) /\ Told(q) /\ Remembered(q)
            /\ LastError(q) /\ Streams(q) /\ Answer(q)

RequestsSound == DOMAIN req = Requests /\ \A r \in Requests : Typed(req[r]) /\ Sound(req[r])

(***************************************************************************)
(* A candidate is left with or without an error.                           *)
(***************************************************************************)

\* What the end of a candidate needs to know of its request.
Leaving(q) ==
  /\ Typed(q) /\ ~q.ended /\ q.idx <= Len(q.plan.cands)
  /\ q.n <= q.plan.attempts /\ q.left <= q.plan.budget
  /\ q.plan.budget > 0 => /\ q.calls <= q.left /\ q.tried <= q.plan.budget
                          /\ q.tried + q.left = q.plan.budget + q.calls
  /\ q.got # "late" => Heard(q)
  /\ q.refusals \ {None} \subseteq
       IF q.candErr = "invalid" THEN q.rejected \cup {Cand(q).model} ELSE q.rejected
  /\ q.candErr = "none" => Settled(q)
  /\ q.candErr # "none" => q.candErr = q.real /\ q.tried > 0

LEMMA CandType ==
  ASSUME NEW q, Typed(q), q.idx <= Len(q.plan.cands)
  PROVE  Cand(q) \in Candidates
BY DEF Typed, Plan, Cand

LEMMA AfterSound ==
  ASSUME NEW q, NEW full \in BOOLEAN, Leaving(q)
  PROVE  Typed(AfterCandidate(q, full)) /\ Sound(AfterCandidate(q, full))
<1> DEFINE after == [q EXCEPT !.pc = "next", !.idx = @ + 1, !.left = LeftAfter(q, q.calls)]
           err   == [after EXCEPT !.err = q.candErr]
           model == [after EXCEPT !.err = q.candErr, !.rejected = @ \cup {Cand(q).model}]
           spare == [after EXCEPT !.spare = @ \/ full]
           final == Answered(q, q.candErr)
<1>1. LeftAfter(q, q.calls) \in Nat /\ LeftAfter(q, q.calls) <= q.plan.budget
  BY DEF Leaving, LeftAfter, Typed, Plan
<1>2. Cand(q).model \in Models
  BY CandType DEF Leaving, Candidates, Models
<1>3. Typed(after) /\ Typed(err) /\ Typed(spare)
  BY <1>1, <1>2 DEF Leaving, Typed, PCs, Fields
<1>4. Typed(model)
  BY <1>1, <1>2 DEF Leaving, Typed, PCs, Fields
<1>5. Typed(final)
  BY <1>1, <1>2 DEF Leaving, Typed, PCs, Answered, Fields
<1> DEFINE Kept(z) == /\ z.pc = "next" /\ z.left = LeftAfter(q, q.calls)
                      /\ z.plan = q.plan /\ z.n = q.n /\ z.tried = q.tried /\ z.real = q.real
                      /\ z.got = q.got /\ z.reports = q.reports /\ z.gone = q.gone
                      /\ z.ended = q.ended /\ z.refusals = q.refusals
<1>6. Kept(after) /\ Kept(err) /\ Kept(model) /\ Kept(spare)
  <2> USE DEF Leaving, Typed, Fields
  <2>1. Kept(after)
    OBVIOUS
  <2>2. Kept(err)
    OBVIOUS
  <2>3. Kept(model)
    OBVIOUS
  <2>4. Kept(spare)
    OBVIOUS
  <2> QED  BY <2>1, <2>2, <2>3, <2>4
<1>7. ASSUME NEW z, Kept(z)
      PROVE  Counters(z) /\ Accounted(z) /\ Told(z) /\ Streams(z) /\ Answer(z)
  <2>1. q.plan.budget \in Nat /\ q.left \in Nat /\ q.calls \in Nat /\ q.tried \in Nat
    BY DEF Leaving, Typed, Plan
  <2>2. Counters(z)
    BY <1>1, <1>7, <2>1 DEF Leaving, Counters, Trying
  <2>3. Accounted(z)
    <3> SUFFICES ASSUME q.plan.budget > 0
                 PROVE  z.tried <= q.plan.budget /\ z.tried + z.left = q.plan.budget
      BY <1>7 DEF Accounted, Trying
    <3>1. z.left = q.left - q.calls
      BY <1>7 DEF LeftAfter
    <3> QED  BY <1>7, <2>1, <3>1 DEF Leaving
  <2>4. Told(z)
    BY <1>7 DEF Leaving, Told, Open, Over, Heard
  <2> QED  BY <1>7, <2>2, <2>3, <2>4 DEF Leaving, Streams, Answer
<1>8. CASE q.candErr = "none"
  <2>1. AfterCandidate(q, full) = spare
    BY <1>8 DEF AfterCandidate
  <2>2. /\ spare.err = q.err /\ spare.rejected = q.rejected /\ spare.pc = "next"
        /\ spare.refusals = q.refusals /\ spare.tried = q.tried /\ spare.real = q.real
    BY DEF Leaving, Typed, Fields
  <2>3. Remembered(spare) /\ LastError(spare)
    BY <1>8, <2>2 DEF Leaving, Remembered, LastError, Settled, Trying
  <2> QED  BY <1>3, <1>6, <1>7, <2>1, <2>3 DEF Sound
<1>9. CASE q.candErr # "none"
  <2>1. /\ err.err = q.candErr /\ err.rejected = q.rejected /\ err.pc = "next"
        /\ err.refusals = q.refusals /\ err.tried = q.tried /\ err.real = q.real
    BY DEF Leaving, Typed, Fields
  <2>2. /\ model.err = q.candErr /\ model.rejected = q.rejected \cup {Cand(q).model}
        /\ model.refusals = q.refusals /\ model.tried = q.tried /\ model.real = q.real
        /\ model.pc = "next"
    BY DEF Leaving, Typed, Fields
  <2>3. ASSUME q.candErr # "invalid" PROVE Remembered(err) /\ LastError(err)
    BY <1>9, <2>1, <2>3 DEF Leaving, Remembered, LastError, Settled, Trying
  <2>4. ASSUME q.candErr = "invalid" PROVE Remembered(model) /\ LastError(model)
    BY <1>9, <2>2, <2>4 DEF Leaving, Remembered, LastError, Settled, Trying
  <2>5. Sound(final)
    <3>1. /\ final.pc = "answered" /\ final.err = q.candErr /\ final.plan = q.plan
          /\ final.n = q.n /\ final.left = q.left /\ final.tried = q.tried
          /\ final.got = q.got /\ final.reports = q.reports /\ final.gone = q.gone
          /\ final.ended = q.ended /\ final.real = q.real
      BY DEF Leaving, Typed, Fields, Answered
    <3>2. Counters(final) /\ Accounted(final)
      BY <3>1 DEF Leaving, Counters, Accounted, Trying
    <3>3. Told(final) /\ Remembered(final)
      BY <3>1 DEF Leaving, Told, Open, Over, Heard, Remembered, Trying
    <3>4. LastError(final) /\ Streams(final) /\ Answer(final)
      BY <1>9, <3>1 DEF Leaving, LastError, Streams, Answer, Trying
    <3> QED  BY <3>2, <3>3, <3>4 DEF Sound
  <2>6. \/ AfterCandidate(q, full) = err /\ q.candErr # "invalid"
        \/ AfterCandidate(q, full) = model /\ q.candErr = "invalid"
        \/ AfterCandidate(q, full) = final
    BY <1>9 DEF AfterCandidate, Failoverable, Retryable
  <2> QED  BY <1>3, <1>4, <1>5, <1>6, <1>7, <2>3, <2>4, <2>5, <2>6 DEF Sound
<1> QED  BY <1>8, <1>9

(***************************************************************************)
(* The steps.  Each makes one request a sound one.                         *)
(***************************************************************************)

LEMMA BecomesSound ==
  ASSUME RequestsSound, NEW r \in Requests, NEW q, Typed(q), Sound(q), Becomes(r, q)
  PROVE  RequestsSound'
<1>1. DOMAIN req' = Requests /\ \A o \in Requests : req'[o] = IF o = r THEN q ELSE req[o]
  BY DEF RequestsSound, Becomes
<1>2. ASSUME NEW o \in Requests PROVE Typed(req'[o]) /\ Sound(req'[o])
  BY <1>1 DEF RequestsSound
<1> QED  BY <1>1, <1>2 DEF RequestsSound

\* A fresh request, also one that has just arrived.
LEMMA FreshSound ==
  ASSUME NEW plan \in Plan, NEW q, q = Fresh(plan) \/ q = [Fresh(plan) EXCEPT !.pc = "next"]
  PROVE  Typed(q) /\ Sound(q)
<1>1. /\ q.pc \in {"idle", "next"} /\ q.plan = plan /\ q.idx = 1 /\ q.n = 1 /\ q.allowed = 0
      /\ q.left = plan.budget /\ q.calls = 0 /\ q.tried = 0
      /\ q.candErr = "none" /\ q.real = "none" /\ q.err = "none" /\ q.got = "none"
      /\ q.reports = <<>> /\ q.rejected = {} /\ q.refusals = {}
      /\ q.gone = FALSE /\ q.ended = FALSE /\ DOMAIN q = Fields
  <2>1. CASE q = Fresh(plan)
    BY <2>1 DEF Fresh, Fields
  <2>2. CASE q = [Fresh(plan) EXCEPT !.pc = "next"]
    BY <2>2 DEF Fresh, Fields
  <2> QED  BY <2>1, <2>2
<1>2. plan.budget \in Nat /\ plan.attempts \in Nat \ {0}
  BY DEF Plan
<1>3. Typed(q)
  <2>1. <<>> \in Seq({"ok", "fail"})
    OBVIOUS
  <2>2. q.reports \in Seq({"ok", "fail"})
    BY <1>1, <2>1
  <2>3. q.pc \in PCs
    BY <1>1 DEF PCs
  <2>4. q.left \in Nat /\ q.idx \in Nat \ {0} /\ q.n \in Nat \ {0} /\ q.allowed \in Nat
    BY <1>1, <1>2
  <2> QED  BY <1>1, <2>2, <2>3, <2>4 DEF Typed
<1>4. Counters(q) /\ Accounted(q) /\ Remembered(q)
  BY <1>1, <1>2 DEF Counters, Accounted, Remembered, Trying
<1>5. Told(q)
  BY <1>1 DEF Told, Open, Over, Heard, Verdict
<1>6. LastError(q) /\ Streams(q) /\ Answer(q)
  BY <1>1 DEF LastError, Settled, Streams, Answer, Trying
<1> QED  BY <1>3, <1>4, <1>5, <1>6 DEF Sound

LEMMA PlansAreTyped ==
  ASSUME NEW r \in Requests
  PROVE  Plans[r] # {} /\ Plans[r] \subseteq Plan
BY PlanAssumption DEF Plan

LEMMA ArrivesSound ==
  ASSUME RequestsSound, NEW r \in Requests, Arrives(r) PROVE RequestsSound'
<1>1. PICK plan, bad :
        plan \in Plans[r] /\ Becomes(r, [Fresh([plan EXCEPT !.cands = Healthy(@, bad)]) EXCEPT !.pc = "next"])
  BY DEF Arrives
<1>2. plan \in Plan
  BY <1>1, PlansAreTyped
<1>3. Healthy(plan.cands, bad) \in Seq(Candidates)
  BY <1>2, HealthyType DEF Plan
<1>4. [plan EXCEPT !.cands = Healthy(@, bad)] \in Plan
  BY <1>2, <1>3 DEF Plan
<1> QED  BY <1>1, <1>4, FreshSound, BecomesSound

\* What only the end of an attempt or of a candidate changes.
Same(z, q) ==
  /\ DOMAIN z = Fields
  /\ z.plan = q.plan /\ z.left = q.left /\ z.tried = q.tried /\ z.real = q.real
  /\ z.refusals = q.refusals /\ z.rejected = q.rejected

\* The steps between two candidates, and the end of the context.
LEMMA PlanStepsSound ==
  ASSUME RequestsSound, NEW r \in Requests,
         ContextEnds(r) \/ PlanEnds(r) \/ GivesUp(r) \/ SkipsModel(r) \/ Picks(r)
  PROVE  RequestsSound'
<1> DEFINE q == req[r]
<1>1. Typed(q) /\ Sound(q)
  BY DEF RequestsSound
<1>2. /\ q.n \in Nat \ {0} /\ q.left \in Nat /\ q.calls \in Nat /\ q.tried \in Nat
      /\ q.idx \in Nat \ {0} /\ q.plan.budget \in Nat /\ q.plan.attempts \in Nat \ {0}
  BY <1>1 DEF Typed, Plan
<1>3. CASE ContextEnds(r)
  <2> DEFINE z == [q EXCEPT !.gone = TRUE]
  <2>1. /\ Same(z, q) /\ z.gone = TRUE /\ z.pc = q.pc /\ z.idx = q.idx /\ z.n = q.n
        /\ z.allowed = q.allowed /\ z.calls = q.calls /\ z.candErr = q.candErr /\ z.err = q.err
        /\ z.got = q.got /\ z.reports = q.reports /\ z.ended = q.ended
    BY <1>1 DEF Typed, Fields, Same
  <2> HIDE DEF z
  <2>2. Typed(z)
    BY <1>1, <2>1 DEF Typed, Same
  <2>3. Counters(z) /\ Accounted(z) /\ Remembered(z)
    BY <1>1, <2>1 DEF Sound, Same, Counters, Accounted, Remembered, Cand
  <2>4. Told(z)
    BY <1>1, <2>1 DEF Sound, Same, Told, Open, Over, Heard
  <2>5. LastError(z) /\ Streams(z) /\ Answer(z)
    BY <1>1, <2>1 DEF Sound, Same, LastError, Settled, Streams, Answer
  <2>6. Becomes(r, z)
    BY <1>3 DEF ContextEnds, z
  <2> QED  BY <2>2, <2>3, <2>4, <2>5, <2>6, BecomesSound DEF Sound
<1>4. CASE PlanEnds(r) \/ GivesUp(r)
  <2>1. PICK err \in {q.err, "local", "circuit_open", "canceled", "unknown_model"} :
          /\ Becomes(r, Answered(q, err))
          /\ \/ err = q.err /\ q.err # "none"
             \/ err \in {"local", "circuit_open"} /\ q.err = "none"
             \/ err = "canceled" /\ q.gone
             \/ err = "unknown_model" /\ q.plan.cands = <<>>
    BY <1>4 DEF PlanEnds, GivesUp
  <2> DEFINE z == Answered(q, err)
  <2>2. /\ Same(z, q) /\ z.pc = "answered" /\ z.err = err /\ z.n = q.n /\ z.idx = q.idx
        /\ z.allowed = q.allowed /\ z.calls = q.calls /\ z.candErr = q.candErr
        /\ z.got = q.got /\ z.reports = q.reports /\ z.ended = q.ended /\ z.gone = q.gone
    BY <1>1 DEF Typed, Fields, Same, Answered
  <2> HIDE DEF z
  <2>3. q.pc = "next"
    BY <1>4 DEF PlanEnds, GivesUp
  <2>4. Typed(z)
    <3>1. err \in Failures \cup {"none", "circuit_open"}
      BY <1>1, <2>1 DEF Typed, Failures
    <3> QED  BY <1>1, <2>2, <3>1 DEF Typed, Same, PCs
  <2>5. Counters(z) /\ Accounted(z) /\ Remembered(z)
    BY <1>1, <2>2 DEF Sound, Same, Counters, Accounted, Remembered, Trying
  <2>6. Told(z)
    BY <1>1, <2>2, <2>3 DEF Sound, Same, Told, Open, Over, Heard
  <2>7. LastError(z) /\ Streams(z)
    BY <1>1, <2>2, <2>3 DEF Sound, Same, LastError, Streams, Trying
  <2>8. Answer(z)
    BY <1>1, <2>1, <2>2, <2>3 DEF Sound, Same, LastError, Settled, Answer
  <2> QED  BY <2>1, <2>4, <2>5, <2>6, <2>7, <2>8, BecomesSound DEF Sound, z
<1>5. CASE SkipsModel(r)
  <2> DEFINE z == [q EXCEPT !.idx = @ + 1]
  <2>1. /\ Same(z, q) /\ z.gone = q.gone /\ z.pc = q.pc /\ z.idx = q.idx + 1 /\ z.n = q.n
        /\ z.allowed = q.allowed /\ z.calls = q.calls /\ z.candErr = q.candErr /\ z.err = q.err
        /\ z.got = q.got /\ z.reports = q.reports /\ z.ended = q.ended
    BY <1>1 DEF Typed, Fields, Same
  <2> HIDE DEF z
  <2>2. q.pc = "next" /\ Becomes(r, z)
    BY <1>5 DEF SkipsModel, z
  <2>3. Typed(z)
    BY <1>1, <1>2, <2>1 DEF Typed, Same
  <2>4. Counters(z) /\ Accounted(z) /\ Remembered(z)
    BY <1>1, <2>1, <2>2 DEF Sound, Same, Counters, Accounted, Remembered, Trying
  <2>5. Told(z)
    BY <1>1, <2>1, <2>2 DEF Sound, Same, Told, Open, Over, Heard
  <2>6. LastError(z) /\ Streams(z) /\ Answer(z)
    BY <1>1, <2>1, <2>2 DEF Sound, Same, LastError, Settled, Streams, Answer, Trying
  <2> QED  BY <2>2, <2>3, <2>4, <2>5, <2>6, BecomesSound DEF Sound
<1>6. CASE Picks(r)
  <2> DEFINE z == [q EXCEPT !.pc = "slot", !.n = 1, !.allowed = Allowance(q),
                            !.calls = 0, !.candErr = "none"]
  <2>1. /\ Same(z, q) /\ z.gone = q.gone /\ z.pc = "slot" /\ z.idx = q.idx /\ z.n = 1
        /\ z.allowed = Allowance(q) /\ z.calls = 0 /\ z.candErr = "none" /\ z.err = q.err
        /\ z.got = q.got /\ z.reports = q.reports /\ z.ended = q.ended
    BY <1>1 DEF Typed, Fields, Same
  <2>2. /\ q.pc = "next" /\ q.idx <= Len(q.plan.cands) /\ ~Refused(q)
        /\ q.plan.budget > 0 => q.left > 0
    <3>1. q.plan.cands \in Seq(Candidates)
      BY <1>1 DEF Typed, Plan
    <3> QED  BY <1>2, <1>6, <3>1 DEF Picks, Exhausted, OutOfBudget
  <2>3. Becomes(r, z)
    BY <1>6 DEF Picks
  <2> HIDE DEF z
  <2>4. /\ Allowance(q) \in Nat \ {0} /\ Allowance(q) <= q.plan.attempts
        /\ q.plan.budget > 0 => Allowance(q) <= q.left
    <3>1. Cand(q).retries \in Int
      BY <1>1, <2>2, CandType DEF Candidates
    <3> QED  BY <1>2, <2>2, <3>1 DEF Allowance, Least
  <2>5. Typed(z)
    BY <1>1, <2>1, <2>4 DEF Typed, Same, PCs
  <2>6. Counters(z) /\ Accounted(z)
    BY <1>1, <1>2, <2>1, <2>2, <2>4 DEF Sound, Same, Counters, Accounted, Trying
  <2>7. Remembered(z)
    BY <1>1, <2>1, <2>2 DEF Sound, Same, Remembered, Refused, Cand, Trying
  <2>8. Told(z)
    BY <1>1, <2>1, <2>2 DEF Sound, Same, Told, Open, Over, Heard
  <2>9. LastError(z) /\ Streams(z) /\ Answer(z)
    BY <1>1, <2>1, <2>2 DEF Sound, Same, LastError, Settled, Streams, Answer, Trying
  <2> QED  BY <2>3, <2>5, <2>6, <2>7, <2>8, <2>9, BecomesSound DEF Sound
<1> QED  BY <1>3, <1>4, <1>5, <1>6

\* A candidate that is left without another attempt.
LEMMA LeavesSound ==
  ASSUME RequestsSound, NEW r \in Requests, FindsFull(r) \/ Denied(r) PROVE RequestsSound'
<1> DEFINE q == req[r]
<1>1. Typed(q) /\ Sound(q) /\ q.pc \in {"slot", "permit"}
  BY DEF RequestsSound, FindsFull, Denied
<1>2. /\ q.n \in Nat \ {0} /\ q.left \in Nat /\ q.calls \in Nat /\ q.tried \in Nat
      /\ q.plan.budget \in Nat
  BY <1>1 DEF Typed, Plan
<1>3. Leaving(q)
  <2>1. q.refusals \ {None} \subseteq q.rejected /\ q.candErr # "invalid"
    BY <1>1 DEF Sound, Remembered, LastError, Retryable, Trying
  <2>2. q.candErr = "none" => Settled(q)
    BY <1>1 DEF Sound, LastError, Trying
  <2>3. q.candErr # "none" => q.candErr = q.real /\ q.tried > 0
    BY <1>1 DEF Sound, LastError, Trying
  <2>4. q.got # "late" => Heard(q)
    BY <1>1 DEF Sound, Told, Over
  <2>5. ~q.ended
    BY <1>1 DEF Sound, Streams
  <2>6. /\ q.idx <= Len(q.plan.cands) /\ q.n <= q.plan.attempts /\ q.left <= q.plan.budget
        /\ q.plan.budget > 0 => q.calls <= q.left
    <3>1. /\ q.idx <= Len(q.plan.cands) /\ q.n <= q.plan.attempts /\ q.left <= q.plan.budget
          /\ q.calls = q.n - 1 /\ q.n <= q.allowed
          /\ q.plan.budget > 0 => q.allowed <= q.left
      BY <1>1 DEF Sound, Counters, Trying
    <3>2. q.allowed \in Nat
      BY <1>1 DEF Typed
    <3> QED  BY <1>2, <3>1, <3>2
  <2>7. q.plan.budget > 0 => /\ q.tried <= q.plan.budget
                             /\ q.tried + q.left = q.plan.budget + q.calls
    BY <1>1, <1>2 DEF Sound, Accounted, Trying
  <2> QED  BY <1>1, <2>1, <2>2, <2>3, <2>4, <2>5, <2>6, <2>7 DEF Leaving
<1>4. PICK full \in BOOLEAN : Becomes(r, AfterCandidate(q, full))
  BY DEF FindsFull, Denied
<1> QED  BY <1>3, <1>4, AfterSound, BecomesSound

\* A slot is taken, a permit given.
LEMMA EntersSound ==
  ASSUME RequestsSound, NEW r \in Requests, TakesSlot(r) \/ Permitted(r) PROVE RequestsSound'
<1> DEFINE q == req[r]
<1>1. Typed(q) /\ Sound(q)
  BY DEF RequestsSound
<1>2. PICK z : /\ Becomes(r, z)
               /\ \/ q.pc = "slot" /\ z = [q EXCEPT !.pc = "permit"]
                  \/ q.pc = "permit" /\ z = [q EXCEPT !.pc = "calling", !.got = "none", !.reports = <<>>]
  BY DEF TakesSlot, Permitted
<1>3. /\ Same(z, q) /\ z.gone = q.gone /\ z.idx = q.idx /\ z.n = q.n
      /\ z.allowed = q.allowed /\ z.calls = q.calls /\ z.candErr = q.candErr /\ z.err = q.err
      /\ z.ended = q.ended
  BY <1>1, <1>2 DEF Typed, Fields, Same
<1>4. \/ q.pc = "slot" /\ z.pc = "permit" /\ z.got = q.got /\ z.reports = q.reports
      \/ q.pc = "permit" /\ z.pc = "calling" /\ z.got = "none" /\ z.reports = <<>>
  BY <1>1, <1>2 DEF Typed, Fields
<1>5. Typed(z)
  <2>0. <<>> \in Seq({"ok", "fail"})
    OBVIOUS
  <2>1. z.reports \in Seq({"ok", "fail"}) /\ z.got \in Failures \cup {"none", "ok"}
    <3>1. q.reports \in Seq({"ok", "fail"}) /\ q.got \in Failures \cup {"none", "ok"}
      BY <1>1 DEF Typed
    <3> QED  BY <1>4, <2>0, <3>1
  <2>2. z.pc \in PCs
    BY <1>4 DEF PCs
  <2> QED  BY <1>1, <1>3, <2>1, <2>2 DEF Typed, Same
<1>6. Counters(z) /\ Accounted(z) /\ Remembered(z)
  BY <1>1, <1>3, <1>4 DEF Sound, Same, Counters, Accounted, Remembered, Cand, Trying
<1>7. Told(z)
  BY <1>1, <1>3, <1>4 DEF Sound, Same, Told, Open, Over, Heard
<1>8. LastError(z) /\ Streams(z) /\ Answer(z)
  BY <1>1, <1>3, <1>4 DEF Sound, Same, LastError, Settled, Streams, Answer, Trying
<1> QED  BY <1>2, <1>5, <1>6, <1>7, <1>8, BecomesSound DEF Sound

\* An attempt that failed, reported already or not at all: the request waits
\* for another one, or leaves the candidate.
LEMMA FailsSound ==
  ASSUME RequestsSound, NEW r \in Requests, req[r].pc = "calling",
         NEW k \in Failures, NEW s, NEW reports \in Seq({"ok", "fail"}),
         \/ s = req[r] /\ reports = req[r].reports
         \/ s = [req[r] EXCEPT !.reports = reports] /\ k = "late",
         AttemptFails(r, s, k)
  PROVE  RequestsSound'
<1> DEFINE q == req[r]
           f == Failed(s, k)
           b == [f EXCEPT !.pc = "backoff"]
<1>1. Typed(q) /\ Sound(q)
  BY DEF RequestsSound
<1>2. /\ q.n \in Nat \ {0} /\ q.left \in Nat /\ q.calls \in Nat /\ q.tried \in Nat
      /\ q.plan.budget \in Nat /\ q.idx <= Len(q.plan.cands)
  BY <1>1 DEF Typed, Plan, Sound, Counters, Trying
<1>3. /\ DOMAIN s = Fields /\ s.reports = reports /\ Cand(s) = Cand(q)
      /\ s.pc = q.pc /\ s.plan = q.plan /\ s.idx = q.idx /\ s.n = q.n /\ s.allowed = q.allowed
      /\ s.left = q.left /\ s.calls = q.calls /\ s.rejected = q.rejected /\ s.err = q.err
      /\ s.gone = q.gone /\ s.ended = q.ended /\ s.tried = q.tried /\ s.refusals = q.refusals
  BY <1>1 DEF Typed, Fields, Cand
<1>4. /\ DOMAIN f = Fields
      /\ f.pc = q.pc /\ f.plan = q.plan /\ f.idx = q.idx /\ f.n = q.n /\ f.allowed = q.allowed
      /\ f.left = q.left /\ f.calls = q.calls + 1 /\ f.rejected = q.rejected /\ f.err = q.err
      /\ f.gone = q.gone /\ f.ended = q.ended /\ f.tried = q.tried + 1
      /\ f.got = k /\ f.candErr = k /\ f.real = k
      /\ f.reports = IF k \in Excluded THEN reports ELSE Append(reports, "fail")
      /\ f.refusals = IF k = "invalid" THEN q.refusals \cup {Cand(q).model} ELSE q.refusals
  BY <1>3 DEF Failed, Fields
<1> HIDE DEF f
<1>5. Cand(q).model \in Models
  BY <1>1, <1>2, CandType DEF Candidates, Models
<1>6. Typed(f)
  <2>1. f.reports \in Seq({"ok", "fail"}) /\ f.refusals \subseteq Models
    BY <1>1, <1>4, <1>5 DEF Typed
  <2> QED  BY <1>1, <1>2, <1>4, <2>1 DEF Typed
<1>7. f.got # "late" => Heard(f)
  <2> SUFFICES ASSUME k # "late" PROVE f.reports = Verdict(k)
    BY <1>4 DEF Heard
  <2>1. reports = q.reports /\ q.reports = <<>>
    BY <1>1 DEF Sound, Told, Open
  <2> QED  BY <1>4, <2>1 DEF Verdict, Excluded, Failures
<1>8. /\ q.n <= q.allowed /\ q.allowed <= q.plan.attempts /\ q.calls = q.n - 1
      /\ q.left <= q.plan.budget /\ q.n <= q.plan.attempts
      /\ q.plan.budget > 0 => q.allowed <= q.left
  BY <1>1, <1>2 DEF Sound, Counters, Trying
<1>9. /\ q.allowed \in Nat /\ q.plan.attempts \in Nat
      /\ q.plan.budget > 0 => q.tried + q.left = q.plan.budget + q.calls
  BY <1>1, <1>2 DEF Sound, Accounted, Trying, Typed, Plan
<1>10. q.plan.budget > 0 => /\ f.calls <= f.left /\ f.tried <= f.plan.budget
                            /\ f.tried + f.left = f.plan.budget + f.calls
  <2> SUFFICES ASSUME q.plan.budget > 0
               PROVE  /\ f.calls <= f.left /\ f.tried <= f.plan.budget
                      /\ f.tried + f.left = f.plan.budget + f.calls
    OBVIOUS
  <2>1. /\ f.calls = q.n /\ f.left = q.left /\ f.tried = q.tried + 1
        /\ f.plan.budget = q.plan.budget
    BY <1>2, <1>4, <1>8
  <2>2. q.n <= q.left /\ q.tried + q.left = q.plan.budget + q.n - 1
    BY <1>2, <1>8, <1>9
  <2>3. q.tried + 1 <= q.plan.budget
    <3>1. \A tried, left, budget, n \in Nat :
            n <= left /\ tried + left = budget + n - 1 => tried + 1 <= budget
      OBVIOUS
    <3> QED  BY <1>2, <2>2, <3>1
  <2>4. (q.tried + 1) + q.left = q.plan.budget + q.n
    <3>1. \A tried, left, budget, n \in Nat :
            tried + left = budget + n - 1 => (tried + 1) + left = budget + n
      OBVIOUS
    <3> QED  BY <1>2, <2>2, <3>1
  <2> QED  BY <2>1, <2>2, <2>3, <2>4
<1>11. q.refusals \ {None} \subseteq q.rejected /\ Cand(q).model \notin q.rejected \ {None} /\ ~q.ended
  BY <1>1 DEF Sound, Remembered, Streams, Trying
<1>12. Leaving(f)
  <2>1. Cand(f) = Cand(q)
    BY <1>4 DEF Cand
  <2>2. k # "none"
    BY DEF Failures
  <2>3. f.refusals \ {None} \subseteq IF f.candErr = "invalid" THEN f.rejected \cup {Cand(f).model}
                                      ELSE f.rejected
    BY <1>4, <1>11, <2>1
  <2>4. /\ f.idx <= Len(f.plan.cands) /\ f.n <= f.plan.attempts /\ f.left <= f.plan.budget
        /\ ~f.ended /\ f.candErr # "none" /\ f.candErr = f.real
    BY <1>2, <1>4, <1>8, <1>11, <2>2
  <2>5. f.tried > 0
    BY <1>2, <1>4
  <2>6. f.plan.budget > 0 => q.plan.budget > 0
    BY <1>4
  <2> QED  BY <1>6, <1>7, <1>10, <2>3, <2>4, <2>5, <2>6 DEF Leaving
<1>13. CASE Becomes(r, AfterCandidate(f, FALSE))
  BY <1>12, <1>13, AfterSound, BecomesSound
<1>14. CASE k \in Retryable /\ q.n < q.allowed /\ Becomes(r, b)
  <2>1. /\ Same(b, f) /\ b.pc = "backoff" /\ b.idx = f.idx /\ b.n = f.n /\ b.allowed = f.allowed
        /\ b.calls = f.calls /\ b.candErr = f.candErr /\ b.err = f.err /\ b.got = f.got
        /\ b.reports = f.reports /\ b.gone = f.gone /\ b.ended = f.ended
    BY <1>4 DEF Same, Fields
  <2> HIDE DEF b
  <2>2. Typed(b)
    BY <1>6, <2>1 DEF Typed, Same, PCs
  <2>3. Counters(b) /\ Accounted(b)
    <3>1. Counters(b)
      <4>1. /\ b.plan = q.plan /\ b.n = q.n /\ b.left = q.left /\ b.idx = q.idx
            /\ b.allowed = q.allowed /\ b.calls = q.n
        BY <1>2, <1>4, <1>8, <2>1 DEF Same
      <4> QED  BY <1>2, <1>8, <1>14, <2>1, <4>1 DEF Counters
    <3>2. Accounted(b)
      BY <1>4, <1>10, <2>1 DEF Same, Accounted, Trying
    <3> QED  BY <3>1, <3>2
  <2>4. Remembered(b)
    <3>1. k # "invalid" /\ Cand(b) = Cand(q)
      BY <1>4, <1>14, <2>1 DEF Retryable, Cand, Same
    <3> QED  BY <1>4, <1>11, <2>1, <3>1 DEF Same, Remembered, Trying
  <2>5. Told(b)
    BY <1>7, <2>1 DEF Same, Told, Open, Over, Heard
  <2>6. LastError(b) /\ Streams(b) /\ Answer(b)
    BY <1>2, <1>4, <1>11, <1>14, <2>1 DEF Same, LastError, Streams, Answer, Trying, Retryable
  <2> QED  BY <1>14, <2>2, <2>3, <2>4, <2>5, <2>6, BecomesSound DEF Sound
<1>15. \/ Becomes(r, AfterCandidate(f, FALSE))
       \/ k \in Retryable /\ q.n < q.allowed /\ Becomes(r, b)
  BY <1>3 DEF AttemptFails, f
<1> QED  BY <1>13, <1>14, <1>15

LEMMA CallFailsSound ==
  ASSUME RequestsSound, NEW r \in Requests, OpensLate(r) \/ \E k \in Kinds : CallFails(r, k)
  PROVE  RequestsSound'
<1> DEFINE q == req[r]
<1>1. q.pc = "calling" /\ q.reports \in Seq({"ok", "fail"})
  BY DEF OpensLate, CallFails, RequestsSound, Typed
<1>2. CASE OpensLate(r)
  <2>1. Reported(q, "ok") \in Seq({"ok", "fail"}) /\ "late" \in Failures
    BY <1>1 DEF Reported, Failures
  <2> QED  BY <1>1, <1>2, <2>1, FailsSound DEF OpensLate
<1>3. CASE \E k \in Kinds : CallFails(r, k)
  <2>1. PICK k \in Kinds : AttemptFails(r, q, k)
    BY <1>3 DEF CallFails
  <2>2. k \in Failures
    BY KindAssumption
  <2> QED  BY <1>1, <2>1, <2>2, FailsSound
<1> QED  BY <1>2, <1>3

\* Another attempt at the candidate, or its end in the pause before it.
LEMMA BackoffEndsSound ==
  ASSUME RequestsSound, NEW r \in Requests, BackoffEnds(r) PROVE RequestsSound'
<1> DEFINE q == req[r]
<1>1. Typed(q) /\ Sound(q) /\ q.pc = "backoff"
  BY DEF RequestsSound, BackoffEnds
<1>2. /\ q.n \in Nat \ {0} /\ q.left \in Nat /\ q.calls \in Nat /\ q.tried \in Nat
      /\ q.plan.budget \in Nat /\ q.plan.attempts \in Nat /\ q.allowed \in Nat
  BY <1>1 DEF Typed, Plan
<1>3. /\ q.idx <= Len(q.plan.cands) /\ q.n < q.allowed /\ q.allowed <= q.plan.attempts
      /\ q.n <= q.plan.attempts /\ q.left <= q.plan.budget /\ q.calls = q.n
      /\ q.plan.budget > 0 => q.allowed <= q.left
  BY <1>1 DEF Sound, Counters, Trying
<1>4. CASE Becomes(r, [q EXCEPT !.pc = "slot", !.n = @ + 1])
  <2> DEFINE z == [q EXCEPT !.pc = "slot", !.n = @ + 1]
  <2>1. /\ Same(z, q) /\ z.pc = "slot" /\ z.idx = q.idx /\ z.n = q.n + 1 /\ z.allowed = q.allowed
        /\ z.calls = q.calls /\ z.candErr = q.candErr /\ z.err = q.err /\ z.got = q.got
        /\ z.reports = q.reports /\ z.gone = q.gone /\ z.ended = q.ended
    BY <1>1 DEF Typed, Fields, Same
  <2> HIDE DEF z
  <2>2. Typed(z)
    BY <1>1, <1>2, <2>1 DEF Typed, Same, PCs
  <2>3. Counters(z)
    BY <1>2, <1>3, <2>1 DEF Counters, Same
  <2>4. Accounted(z) /\ Remembered(z)
    BY <1>1, <2>1 DEF Sound, Same, Accounted, Remembered, Cand, Trying
  <2>5. Told(z)
    BY <1>1, <2>1 DEF Sound, Same, Told, Open, Over, Heard
  <2>6. LastError(z) /\ Streams(z) /\ Answer(z)
    BY <1>1, <2>1 DEF Sound, Same, LastError, Settled, Streams, Answer, Trying
  <2> QED  BY <1>4, <2>2, <2>3, <2>4, <2>5, <2>6, BecomesSound DEF Sound, z
<1>5. CASE Becomes(r, AfterCandidate(q, FALSE))
  <2>1. q.refusals \ {None} \subseteq q.rejected /\ q.candErr # "invalid"
    BY <1>1 DEF Sound, Remembered, LastError, Retryable, Trying
  <2>2. /\ q.candErr = "none" => Settled(q)
        /\ q.candErr # "none" => q.candErr = q.real /\ q.tried > 0
    BY <1>1 DEF Sound, LastError, Trying
  <2>3. ~q.ended /\ (q.got # "late" => Heard(q))
    BY <1>1 DEF Sound, Told, Over, Streams
  <2>4. q.plan.budget > 0 => /\ q.calls <= q.left /\ q.tried <= q.plan.budget
                             /\ q.tried + q.left = q.plan.budget + q.calls
    BY <1>1, <1>2, <1>3 DEF Sound, Accounted, Trying
  <2>5. Leaving(q)
    BY <1>1, <1>3, <2>1, <2>2, <2>3, <2>4 DEF Leaving
  <2> QED  BY <1>5, <2>5, AfterSound, BecomesSound
<1> QED  BY <1>4, <1>5 DEF BackoffEnds

\* A stream is opened, read and written.
LEMMA StreamMovesSound ==
  ASSUME RequestsSound, NEW r \in Requests,
         OpensStream(r) \/ NextEvent(r) \/ WritesEvent(r) \/ WriteFails(r) \/ IdleFires(r)
  PROVE  RequestsSound'
<1> DEFINE q == req[r]
<1>1. Typed(q) /\ Sound(q)
  BY DEF RequestsSound
<1>2. PICK z : /\ Becomes(r, z)
               /\ \/ z = [q EXCEPT !.pc = "writing"] /\ q.pc = "calling" /\ q.plan.streaming
                  \/ z = [q EXCEPT !.pc = "writing", !.events = @ + 1] /\ q.pc = "streaming"
                  \/ z = [q EXCEPT !.pc = "streaming"] /\ q.pc = "writing"
                  \/ z = [q EXCEPT !.pc = "closing"] /\ q.pc = "writing"
                  \/ /\ q.pc \in {"streaming", "writing"}
                     /\ z = [q EXCEPT !.idle = IF q.pc = "streaming" THEN "upstream" ELSE "client"]
  BY DEF OpensStream, NextEvent, WritesEvent, WriteFails, IdleFires
<1>3. /\ Same(z, q) /\ z.gone = q.gone /\ z.idx = q.idx /\ z.n = q.n
      /\ z.allowed = q.allowed /\ z.calls = q.calls /\ z.candErr = q.candErr /\ z.err = q.err
      /\ z.ended = q.ended /\ z.got = q.got /\ z.reports = q.reports
      /\ z.pc \in {"writing", "streaming", "closing"}
  <2>1. DOMAIN q = Fields
    BY <1>1 DEF Typed
  <2>2. CASE z = [q EXCEPT !.pc = "writing"]
    BY <2>1, <2>2 DEF Fields, Same
  <2>3. CASE z = [q EXCEPT !.pc = "writing", !.events = @ + 1]
    BY <2>1, <2>3 DEF Fields, Same
  <2>4. CASE z = [q EXCEPT !.pc = "streaming"] \/ z = [q EXCEPT !.pc = "closing"]
    BY <2>1, <2>4 DEF Fields, Same
  <2>5. CASE \E i : z = [q EXCEPT !.idle = i] /\ q.pc \in {"streaming", "writing"}
    BY <2>1, <2>5 DEF Fields, Same
  <2> QED  BY <1>2, <2>2, <2>3, <2>4, <2>5
<1>4. \/ q.pc = "calling" /\ q.plan.streaming
      \/ q.pc \in {"writing", "streaming"}
  BY <1>2
<1>5. Typed(z)
  BY <1>1, <1>3 DEF Typed, Same, PCs
<1>6. Counters(z) /\ Accounted(z) /\ Remembered(z)
  BY <1>1, <1>3, <1>4 DEF Sound, Same, Counters, Accounted, Remembered, Trying
<1>7. Told(z)
  BY <1>1, <1>3, <1>4 DEF Sound, Same, Told, Open, Over, Streams
<1>8. LastError(z) /\ Streams(z) /\ Answer(z)
  BY <1>1, <1>3, <1>4 DEF Sound, Same, Counters, LastError, Streams, Answer, Trying
<1> QED  BY <1>2, <1>5, <1>6, <1>7, <1>8, BecomesSound DEF Sound

\* A value is there, or a stream has told how it ended.
LEMMA ValueSound ==
  ASSUME RequestsSound, NEW r \in Requests,
         CallSucceeds(r) \/ StreamStep(r) \/ Closes(r)
  PROVE  RequestsSound'
<1> DEFINE q == req[r]
<1>1. Typed(q) /\ Sound(q)
  BY DEF RequestsSound
<1>2. q.reports \in Seq({"ok", "fail"}) /\ (Open(q) => q.reports = <<>>)
  BY <1>1 DEF Typed, Sound, Told
<1>3. CASE CallSucceeds(r) \/ (Closes(r) /\ ~q.ended)
  <2>1. PICK reports : /\ Becomes(r, Answered([q EXCEPT !.got = "ok", !.reports = reports], "none"))
                       /\ \/ q.pc = "calling" /\ reports = Append(q.reports, "ok")
                          \/ q.pc = "closing" /\ ~q.ended /\ reports = Reported(q, "ok")
    BY <1>3 DEF CallSucceeds, Closes
  <2> DEFINE z == Answered([q EXCEPT !.got = "ok", !.reports = reports], "none")
  <2>2. /\ Same(z, q) /\ z.pc = "answered" /\ z.err = "none" /\ z.got = "ok" /\ z.reports = reports
        /\ z.idx = q.idx /\ z.n = q.n /\ z.allowed = q.allowed /\ z.calls = q.calls
        /\ z.candErr = q.candErr /\ z.gone = q.gone /\ z.ended = q.ended
    BY <1>1 DEF Typed, Fields, Same, Answered
  <2> HIDE DEF z
  <2>3. q.reports = <<>> /\ ~q.ended
    BY <1>1, <1>2, <2>1 DEF Open, Sound, Streams
  <2>4. reports = <<"ok">> \/ (reports = <<>> /\ q.gone /\ q.plan.streaming)
    <3>1. Append(<<>>, "ok") = <<"ok">>
      OBVIOUS
    <3> QED  BY <1>1, <2>1, <2>3, <3>1 DEF Reported, Sound, Streams
  <2>5. Typed(z)
    <3>1. reports \in Seq({"ok", "fail"})
      <4>1. <<>> \in Seq({"ok", "fail"}) /\ <<"ok">> \in Seq({"ok", "fail"})
        OBVIOUS
      <4> QED  BY <2>4, <4>1
    <3> QED  BY <1>1, <2>2, <3>1 DEF Typed, Same, PCs
  <2>6. Counters(z) /\ Accounted(z) /\ Remembered(z)
    BY <1>1, <2>2 DEF Sound, Same, Counters, Accounted, Remembered, Trying
  <2>7. Told(z)
    BY <2>2, <2>3, <2>4 DEF Same, Told, Open, Over, Heard, Verdict
  <2>8. LastError(z) /\ Streams(z) /\ Answer(z)
    BY <1>1, <2>2, <2>3 DEF Same, LastError, Streams, Answer, Trying
  <2> QED  BY <2>1, <2>5, <2>6, <2>7, <2>8, BecomesSound DEF Sound, z
<1>4. CASE Closes(r) /\ q.ended
  <2> DEFINE z == Answered(q, "none")
  <2>1. /\ Same(z, q) /\ z.pc = "answered" /\ z.err = "none" /\ z.got = q.got
        /\ z.reports = q.reports /\ z.idx = q.idx /\ z.n = q.n /\ z.allowed = q.allowed
        /\ z.calls = q.calls /\ z.candErr = q.candErr /\ z.gone = q.gone /\ z.ended = q.ended
    BY <1>1 DEF Typed, Fields, Same, Answered
  <2> HIDE DEF z
  <2>2. Becomes(r, z) /\ q.pc = "closing" /\ q.ended
    BY <1>4 DEF Closes, z
  <2>3. Typed(z)
    BY <1>1, <2>1 DEF Typed, Same, PCs
  <2>4. Counters(z) /\ Accounted(z) /\ Remembered(z)
    BY <1>1, <2>1 DEF Sound, Same, Counters, Accounted, Remembered, Trying
  <2>5. Told(z)
    BY <1>1, <2>1, <2>2 DEF Sound, Same, Told, Open, Over, Heard
  <2>6. LastError(z) /\ Streams(z) /\ Answer(z)
    BY <1>1, <2>1, <2>2 DEF Sound, Same, LastError, Streams, Answer, Trying
  <2> QED  BY <2>2, <2>3, <2>4, <2>5, <2>6, BecomesSound DEF Sound
<1>5. CASE StreamStep(r)
  <2>1. PICK k \in {"ok", "transient", "filtered", "canceled"} : StreamEnds(r, k)
    BY <1>5 DEF StreamStep
  <2> DEFINE reports == IF k \in Excluded THEN q.reports
                        ELSE Reported(q, IF k = "ok" THEN "ok" ELSE "fail")
             z == [q EXCEPT !.pc = "closing", !.ended = TRUE, !.got = k, !.reports = reports]
  <2>2. /\ Same(z, q) /\ z.pc = "closing" /\ z.err = q.err /\ z.got = k
        /\ z.reports = reports /\ z.idx = q.idx /\ z.n = q.n /\ z.allowed = q.allowed
        /\ z.calls = q.calls /\ z.candErr = q.candErr /\ z.gone = q.gone /\ z.ended = TRUE
    BY <1>1 DEF Typed, Fields, Same
  <2>3. Becomes(r, z) /\ q.pc = "streaming"
    <3>1. z = [q EXCEPT !.pc = "closing", !.ended = TRUE, !.got = k,
       !.reports = IF k \in Excluded THEN @ ELSE Reported(q, IF k = "ok" THEN "ok" ELSE "fail")]
      OBVIOUS
    <3> HIDE DEF z
    <3> QED  BY <2>1, <3>1 DEF StreamEnds
  <2> HIDE DEF z
  <2>4. q.reports = <<>> /\ q.plan.streaming /\ q.idx <= Len(q.plan.cands)
    BY <1>1, <1>2, <2>3 DEF Open, Sound, Streams
  <2>5. reports = Verdict(k) \/ (reports = <<>> /\ q.gone)
    <3>1. Append(<<>>, "ok") = <<"ok">> /\ Append(<<>>, "fail") = <<"fail">>
      OBVIOUS
    <3> QED  BY <2>4, <3>1 DEF Reported, Verdict, Excluded
  <2>6. Typed(z)
    <3>1. reports \in Seq({"ok", "fail"})
      BY <1>2 DEF Reported
    <3>2. k \in Failures \cup {"none", "ok"}
      BY DEF Failures
    <3> HIDE DEF reports
    <3> QED  BY <1>1, <2>2, <3>1, <3>2 DEF Typed, Same, PCs
  <2> HIDE DEF reports
  <2>7. Counters(z) /\ Accounted(z) /\ Remembered(z)
    BY <1>1, <2>2 DEF Sound, Same, Counters, Accounted, Remembered, Trying
  <2>8. Told(z)
    BY <2>2, <2>4, <2>5 DEF Same, Told, Open, Over, Heard
  <2>9. LastError(z) /\ Streams(z) /\ Answer(z)
    BY <2>2, <2>4 DEF Same, LastError, Streams, Answer, Trying
  <2> QED  BY <2>3, <2>6, <2>7, <2>8, <2>9, BecomesSound DEF Sound
<1> QED  BY <1>3, <1>4, <1>5 DEF Closes

(***************************************************************************)
(* The slots.                                                              *)
(***************************************************************************)

Holding(q, p) ==
  /\ q.pc \in {"permit", "calling", "writing", "streaming", "closing"} /\ ~q.ended
  /\ Cand(q).provider = p

Holders(p) == {r \in Requests : Holding(req[r], p)}

\* A provider with a limit counts its holders, one without counts nothing.
SlotsCounted ==
  /\ slotAktif \in [Providers -> Nat]
  /\ \A p \in Providers :
       /\ slotAktif[p] <= MaxConcurrent[p]
       /\ MaxConcurrent[p] > 0 => slotAktif[p] = Cardinality(Holders(p))

LEMMA HoldersFinite ==
  ASSUME NEW p
  PROVE  IsFiniteSet(Holders(p)) /\ Cardinality(Holders(p)) \in Nat
<1>1. Holders(p) \subseteq Requests
  BY DEF Holders
<1> QED  BY <1>1, FiniteAssumption, FS_Subset, FS_CardinalityType DEF FiniteAssumption

\* The three things that a step may do with the slots.
LEMMA KeepsSlots ==
  ASSUME RequestsSound, SlotsCounted, NEW r \in Requests, NEW z, Becomes(r, z), UNCHANGED slotAktif,
         \A p \in Providers : Holding(z, p) <=> Holding(req[r], p)
  PROVE  SlotsCounted'
<1>1. \A o \in Requests : req'[o] = IF o = r THEN z ELSE req[o]
  BY DEF RequestsSound, Becomes
<1>2. \A p \in Providers : Holders(p)' = Holders(p)
  BY <1>1 DEF Holders
<1> QED  BY <1>2 DEF SlotsCounted

LEMMA ReservesSlot ==
  ASSUME RequestsSound, SlotsCounted, NEW r \in Requests, NEW z, Becomes(r, z),
         NEW c \in Providers, HasSlot(c), Reserve(c),
         \A p \in Providers : ~Holding(req[r], p) /\ (Holding(z, p) <=> p = c)
  PROVE  SlotsCounted'
<1>1. \A o \in Requests : req'[o] = IF o = r THEN z ELSE req[o]
  BY DEF RequestsSound, Becomes
<1>2. \A p \in Providers : p # c => Holders(p)' = Holders(p)
  BY <1>1 DEF Holders
<1>3. Holders(c)' = Holders(c) \cup {r} /\ r \notin Holders(c)
  BY <1>1 DEF Holders
<1>4. Cardinality(Holders(c)') = Cardinality(Holders(c)) + 1
  BY <1>3, HoldersFinite, FS_AddElement
<1>5. /\ slotAktif' \in [Providers -> Nat]
      /\ \A p \in Providers : p # c => slotAktif'[p] = slotAktif[p]
      /\ slotAktif'[c] = IF MaxConcurrent[c] = 0 THEN slotAktif[c] ELSE slotAktif[c] + 1
  BY DEF Reserve, SlotsCounted
<1>6. MaxConcurrent[c] \in Nat /\ slotAktif[c] \in Nat
  BY LimitAssumption DEF SlotsCounted
<1>7. slotAktif'[c] <= MaxConcurrent[c]
  BY <1>5, <1>6 DEF HasSlot, SlotsCounted
<1>8. MaxConcurrent[c] > 0 => slotAktif'[c] = Cardinality(Holders(c)')
  BY <1>4, <1>5, <1>6 DEF SlotsCounted
<1> QED  BY <1>2, <1>5, <1>7, <1>8 DEF SlotsCounted

LEMMA ReleasesSlot ==
  ASSUME RequestsSound, SlotsCounted, NEW r \in Requests, NEW z, Becomes(r, z),
         NEW c \in Providers, Release(c),
         \A p \in Providers : ~Holding(z, p) /\ (Holding(req[r], p) <=> p = c)
  PROVE  SlotsCounted'
<1>1. \A o \in Requests : req'[o] = IF o = r THEN z ELSE req[o]
  BY DEF RequestsSound, Becomes
<1>2. \A p \in Providers : p # c => Holders(p)' = Holders(p)
  BY <1>1 DEF Holders
<1>3. Holders(c)' = Holders(c) \ {r} /\ r \in Holders(c)
  BY <1>1 DEF Holders
<1>4. Cardinality(Holders(c)') = Cardinality(Holders(c)) - 1
  BY <1>3, HoldersFinite, FS_RemoveElement
<1>5. Cardinality(Holders(c)) # 0
  BY <1>3, HoldersFinite, FS_EmptySet
<1>6. MaxConcurrent[c] \in Nat /\ slotAktif[c] \in Nat /\ Cardinality(Holders(c)) \in Nat
  BY LimitAssumption, HoldersFinite DEF SlotsCounted
<1>7. /\ slotAktif' \in [Providers -> Nat]
      /\ \A p \in Providers : p # c => slotAktif'[p] = slotAktif[p]
      /\ slotAktif'[c] = IF slotAktif[c] > 0 THEN slotAktif[c] - 1 ELSE slotAktif[c]
  BY <1>6 DEF Release, SlotsCounted
<1>8. slotAktif'[c] <= MaxConcurrent[c]
  BY <1>6, <1>7 DEF SlotsCounted
<1>9. MaxConcurrent[c] > 0 => slotAktif'[c] = Cardinality(Holders(c)')
  BY <1>4, <1>5, <1>6, <1>7 DEF SlotsCounted
<1> QED  BY <1>2, <1>7, <1>8, <1>9 DEF SlotsCounted

\* A candidate that is left holds no slot.
LEMMA AfterHoldsNone ==
  ASSUME NEW q, DOMAIN q = Fields, NEW full, NEW p
  PROVE  ~Holding(AfterCandidate(q, full), p)
<1> DEFINE after == [q EXCEPT !.pc = "next", !.idx = @ + 1, !.left = LeftAfter(q, q.calls)]
           z == AfterCandidate(q, full)
<1>1. DOMAIN after = Fields /\ after.pc = "next"
  BY DEF Fields
<1>2. \/ z = [after EXCEPT !.spare = @ \/ full]
      \/ z = [after EXCEPT !.err = q.candErr]
      \/ z = [after EXCEPT !.err = q.candErr, !.rejected = @ \cup {Cand(q).model}]
      \/ z = Answered(q, q.candErr)
  BY DEF AfterCandidate
<1> HIDE DEF after, z
<1>3. z.pc \in {"next", "answered"}
  <2>1. CASE z = [after EXCEPT !.spare = @ \/ full]
    BY <1>1, <2>1 DEF Fields
  <2>2. CASE z = [after EXCEPT !.err = q.candErr]
    BY <1>1, <2>2 DEF Fields
  <2>3. CASE z = [after EXCEPT !.err = q.candErr, !.rejected = @ \cup {Cand(q).model}]
    BY <1>1, <2>3 DEF Fields
  <2>4. CASE z = Answered(q, q.candErr)
    BY <2>4 DEF Fields, Answered
  <2> QED  BY <1>2, <2>1, <2>2, <2>3, <2>4
<1> QED  BY <1>3 DEF Holding, z
LEMMA FailedHoldsNone ==
  ASSUME NEW q, DOMAIN q = Fields, NEW k, NEW p
  PROVE  /\ DOMAIN Failed(q, k) = Fields
         /\ ~Holding([Failed(q, k) EXCEPT !.pc = "backoff"], p)
<1>1. DOMAIN Failed(q, k) = Fields
  BY DEF Failed, Fields
<1>2. [Failed(q, k) EXCEPT !.pc = "backoff"].pc = "backoff"
  BY <1>1 DEF Fields
<1> QED  BY <1>1, <1>2 DEF Holding

\* The two ways a stream is closed.
ClosesEnded(r) == Closes(r) /\ req[r].ended
ClosesOpen(r)  == Closes(r) /\ ~req[r].ended

\* The steps that leave the slots alone.
LEMMA KeepingSteps ==
  ASSUME RequestsSound, SlotsCounted, NEW r \in Requests,
         \/ Arrives(r) \/ ContextEnds(r) \/ PlanEnds(r) \/ GivesUp(r) \/ SkipsModel(r) \/ Picks(r)
         \/ FindsFull(r) \/ Permitted(r) \/ BackoffEnds(r) \/ OpensStream(r)
         \/ NextEvent(r) \/ WritesEvent(r) \/ WriteFails(r) \/ IdleFires(r)
         \/ ClosesEnded(r)
  PROVE  SlotsCounted'
<1> DEFINE q == req[r]
<1>1. DOMAIN q = Fields
  BY DEF RequestsSound, Typed
<1>2. UNCHANGED slotAktif
  BY DEF Arrives, ContextEnds, PlanEnds, GivesUp, SkipsModel, Picks, FindsFull, Permitted,
         BackoffEnds, OpensStream, NextEvent, WritesEvent, WriteFails, IdleFires, ClosesEnded, Closes
<1>3. CASE Arrives(r)
  <2>1. PICK plan, bad : Becomes(r, [Fresh([plan EXCEPT !.cands = Healthy(@, bad)]) EXCEPT !.pc = "next"])
    BY <1>3 DEF Arrives
  <2>2. [Fresh([plan EXCEPT !.cands = Healthy(@, bad)]) EXCEPT !.pc = "next"].pc = "next"
    BY DEF Fresh
  <2> QED  BY <1>2, <1>3, <2>1, <2>2, KeepsSlots DEF Holding, Arrives
<1>4. CASE ContextEnds(r)
  <2> DEFINE z == [q EXCEPT !.gone = TRUE]
  <2>1. z.pc = q.pc /\ z.ended = q.ended /\ Cand(z) = Cand(q)
    BY <1>1 DEF Fields, Cand
  <2>2. Becomes(r, z)
    BY <1>4 DEF ContextEnds
  <2> HIDE DEF z
  <2>3. \A p : Holding(z, p) <=> Holding(q, p)
    BY <2>1 DEF Holding
  <2> QED  BY <1>2, <2>2, <2>3, KeepsSlots
<1>5. CASE PlanEnds(r) \/ GivesUp(r)
  <2>1. PICK err : Becomes(r, Answered(q, err)) /\ q.pc = "next"
    BY <1>5 DEF PlanEnds, GivesUp
  <2>2. Answered(q, err).pc = "answered"
    BY <1>1 DEF Fields, Answered
  <2> QED  BY <1>2, <2>1, <2>2, KeepsSlots DEF Holding
<1>6. CASE SkipsModel(r)
  <2>1. [q EXCEPT !.idx = @ + 1].pc = "next" /\ q.pc = "next"
    BY <1>1, <1>6 DEF Fields, SkipsModel
  <2> QED  BY <1>2, <1>6, <2>1, KeepsSlots DEF Holding, SkipsModel
<1>7. CASE Picks(r)
  <2> DEFINE z == [q EXCEPT !.pc = "slot", !.n = 1, !.allowed = Allowance(q),
                            !.calls = 0, !.candErr = "none"]
  <2>1. z.pc = "slot" /\ q.pc = "next"
    BY <1>1, <1>7 DEF Fields, Picks
  <2>2. Becomes(r, z)
    BY <1>7 DEF Picks
  <2> QED  BY <1>2, <2>1, <2>2, KeepsSlots DEF Holding
<1>8. CASE FindsFull(r)
  <2>1. q.pc = "slot" /\ Becomes(r, AfterCandidate(q, TRUE))
    BY <1>8 DEF FindsFull
  <2>2. \A p : ~Holding(AfterCandidate(q, TRUE), p)
    BY <1>1, AfterHoldsNone
  <2> QED  BY <1>2, <2>1, <2>2, KeepsSlots DEF Holding
<1>9. CASE Permitted(r)
  <2> DEFINE z == [q EXCEPT !.pc = "calling", !.got = "none", !.reports = <<>>]
  <2>1. z.pc = "calling" /\ z.ended = q.ended /\ Cand(z) = Cand(q)
    BY <1>1 DEF Fields, Cand
  <2> QED  BY <1>2, <1>9, <2>1, KeepsSlots DEF Holding, Permitted
<1>10. CASE BackoffEnds(r)
  <2> DEFINE z == [q EXCEPT !.pc = "slot", !.n = @ + 1]
  <2>1. q.pc = "backoff" /\ (Becomes(r, z) \/ Becomes(r, AfterCandidate(q, FALSE)))
    BY <1>10 DEF BackoffEnds
  <2>2. z.pc = "slot" /\ \A p : ~Holding(AfterCandidate(q, FALSE), p)
    BY <1>1, AfterHoldsNone DEF Fields
  <2>3. \A p : ~Holding(z, p) /\ ~Holding(q, p)
    BY <2>1, <2>2 DEF Holding
  <2> HIDE DEF z
  <2> QED  BY <1>2, <2>1, <2>2, <2>3, KeepsSlots
<1>11. CASE OpensStream(r)
  <2> DEFINE z == [q EXCEPT !.pc = "writing"]
  <2>1. z.pc = "writing" /\ z.ended = q.ended /\ Cand(z) = Cand(q)
    BY <1>1 DEF Fields, Cand
  <2> QED  BY <1>2, <1>11, <2>1, KeepsSlots DEF Holding, OpensStream
<1>12. CASE NextEvent(r)
  <2> DEFINE z == [q EXCEPT !.pc = "writing", !.events = @ + 1]
  <2>1. z.pc = "writing" /\ z.ended = q.ended /\ Cand(z) = Cand(q)
    BY <1>1 DEF Fields, Cand
  <2> QED  BY <1>2, <1>12, <2>1, KeepsSlots DEF Holding, NextEvent
<1>13. CASE WritesEvent(r)
  <2> DEFINE z == [q EXCEPT !.pc = "streaming"]
  <2>1. z.pc = "streaming" /\ z.ended = q.ended /\ Cand(z) = Cand(q)
    BY <1>1 DEF Fields, Cand
  <2> QED  BY <1>2, <1>13, <2>1, KeepsSlots DEF Holding, WritesEvent
<1>14. CASE WriteFails(r)
  <2> DEFINE z == [q EXCEPT !.pc = "closing"]
  <2>1. z.pc = "closing" /\ z.ended = q.ended /\ Cand(z) = Cand(q)
    BY <1>1 DEF Fields, Cand
  <2>2. q.pc = "writing" /\ Becomes(r, z)
    BY <1>14 DEF WriteFails
  <2>3. \A p : Holding(z, p) <=> Holding(q, p)
    BY <2>1, <2>2 DEF Holding
  <2> HIDE DEF z
  <2> QED  BY <1>2, <2>2, <2>3, KeepsSlots
<1>15. CASE IdleFires(r)
  <2>1. PICK i : Becomes(r, [q EXCEPT !.idle = i])
    BY <1>15 DEF IdleFires
  <2> DEFINE z == [q EXCEPT !.idle = i]
  <2>2. z.pc = q.pc /\ z.ended = q.ended /\ Cand(z) = Cand(q)
    BY <1>1 DEF Fields, Cand
  <2> QED  BY <1>2, <2>1, <2>2, KeepsSlots DEF Holding
<1>16. CASE ClosesEnded(r)
  <2>1. Becomes(r, Answered(q, "none")) /\ Answered(q, "none").pc = "answered"
    BY <1>1, <1>16 DEF ClosesEnded, Closes, Answered, Fields
  <2> QED  BY <1>2, <1>16, <2>1, KeepsSlots DEF ClosesEnded, Holding
<1> QED  BY <1>3, <1>4, <1>5, <1>6, <1>7, <1>8, <1>9, <1>10, <1>11, <1>12, <1>13, <1>14, <1>15, <1>16

\* The steps that take a slot or give one back.
LEMMA CountingSteps ==
  ASSUME RequestsSound, SlotsCounted, NEW r \in Requests,
         \/ TakesSlot(r) \/ Denied(r) \/ CallSucceeds(r) \/ OpensLate(r)
         \/ \E k \in Kinds : CallFails(r, k)
         \/ StreamStep(r) \/ ClosesOpen(r)
  PROVE  SlotsCounted'
<1> DEFINE q == req[r]
           c == Cand(q).provider
<1>1. Typed(q) /\ Sound(q) /\ DOMAIN q = Fields
  BY DEF RequestsSound, Typed
<1>2. CASE TakesSlot(r)
  <2> DEFINE z == [q EXCEPT !.pc = "permit"]
  <2>1. q.pc = "slot" /\ HasSlot(c) /\ Reserve(c) /\ Becomes(r, z)
    BY <1>2 DEF TakesSlot
  <2>2. z.pc = "permit" /\ z.ended = q.ended /\ Cand(z) = Cand(q) /\ ~q.ended
    BY <1>1, <2>1 DEF Fields, Cand, Sound, Streams
  <2>3. c \in Providers
    BY <1>1, <2>1, CandType DEF Sound, Counters, Trying, Candidates
  <2>4. \A p \in Providers : ~Holding(q, p) /\ (Holding(z, p) <=> p = c)
    BY <2>1, <2>2 DEF Holding
  <2> HIDE DEF z, c
  <2> QED  BY <2>1, <2>3, <2>4, ReservesSlot
<1>3. CASE ~TakesSlot(r)
  <2>1. /\ q.pc \in {"permit", "calling", "streaming", "closing"}
        /\ q.pc = "closing" => ~q.ended
    BY <1>3 DEF Denied, CallSucceeds, OpensLate, CallFails, StreamStep, StreamEnds, ClosesOpen, Closes
  <2>2. ~q.ended
    BY <1>1, <2>1 DEF Sound, Streams
  <2>3. PICK z : Becomes(r, z) /\ Release(c) /\ \A p : ~Holding(z, p)
    <3>1. CASE Denied(r)
      BY <1>1, <3>1, AfterHoldsNone DEF Denied
    <3>2. CASE CallSucceeds(r)
      <4> DEFINE z == Answered([q EXCEPT !.got = "ok", !.reports = Append(@, "ok")], "none")
      <4>1. z.pc = "answered"
        BY <1>1 DEF Answered, Fields
      <4> QED  BY <3>2, <4>1 DEF CallSucceeds, Holding
    <3>3. ASSUME NEW s, NEW k, DOMAIN s = Fields, Cand(s) = Cand(q), AttemptFails(r, s, k)
          PROVE  \E z : Becomes(r, z) /\ Release(c) /\ \A p : ~Holding(z, p)
      <4>1. /\ \A p : ~Holding(AfterCandidate(Failed(s, k), FALSE), p)
            /\ \A p : ~Holding([Failed(s, k) EXCEPT !.pc = "backoff"], p)
        BY <3>3, FailedHoldsNone, AfterHoldsNone
      <4> QED  BY <3>3, <4>1 DEF AttemptFails
    <3>4. CASE OpensLate(r)
      <4> DEFINE s == [q EXCEPT !.reports = Reported(q, "ok")]
      <4>1. DOMAIN s = Fields /\ Cand(s) = Cand(q)
        BY <1>1 DEF Fields, Cand
      <4> QED  BY <3>3, <3>4, <4>1 DEF OpensLate
    <3>5. CASE \E k \in Kinds : CallFails(r, k)
      BY <1>1, <3>3, <3>5 DEF CallFails
    <3>6. CASE StreamStep(r)
      <4>1. PICK k, reports : /\ Release(c)
                              /\ Becomes(r, [q EXCEPT !.pc = "closing", !.ended = TRUE, !.got = k,
                                                      !.reports = reports])
        BY <3>6 DEF StreamStep, StreamEnds
      <4> DEFINE z == [q EXCEPT !.pc = "closing", !.ended = TRUE, !.got = k, !.reports = reports]
      <4>2. z.ended = TRUE
        BY <1>1 DEF Fields
      <4> QED  BY <4>1, <4>2 DEF Holding
    <3>7. CASE ClosesOpen(r)
      <4> DEFINE z == Answered([q EXCEPT !.got = "ok", !.reports = Reported(q, "ok")], "none")
      <4>1. z.pc = "answered"
        BY <1>1 DEF Answered, Fields
      <4> QED  BY <3>7, <4>1 DEF ClosesOpen, Closes, Holding
    <3> QED  BY <1>3, <3>1, <3>2, <3>4, <3>5, <3>6, <3>7
  <2>4. q.idx <= Len(q.plan.cands)
    BY <1>1, <2>1 DEF Sound, Counters, Streams, Trying
  <2>5. c \in Providers
    BY <1>1, <2>4, CandType DEF Candidates
  <2>6. \A p \in Providers : ~Holding(z, p) /\ (Holding(q, p) <=> p = c)
    BY <2>1, <2>2, <2>3 DEF Holding
  <2> HIDE DEF c
  <2> QED  BY <2>3, <2>5, <2>6, ReleasesSlot
<1> QED  BY <1>2, <1>3
(***************************************************************************)
(* The theorems.                                                           *)
(***************************************************************************)

IInv == RequestsSound /\ SlotsCounted

LEMMA InitSound == Init => IInv
<1> SUFFICES ASSUME Init PROVE IInv
  OBVIOUS
<1>1. ASSUME NEW r \in Requests
      PROVE  Typed(req[r]) /\ Sound(req[r]) /\ req[r].pc = "idle"
  <2> DEFINE plan == CHOOSE plan \in Plans[r] : TRUE
  <2>1. plan \in Plan
    BY PlansAreTyped
  <2>2. req[r] = Fresh(plan)
    BY DEF Init
  <2>3. Fresh(plan).pc = "idle"
    BY DEF Fresh
  <2> HIDE DEF plan
  <2> QED  BY <2>1, <2>2, <2>3, FreshSound
<1>2. RequestsSound
  BY <1>1 DEF RequestsSound, Init
<1>3. \A p \in Providers : Holders(p) = {}
  BY <1>1 DEF Holders, Holding
<1>4. SlotsCounted
  BY <1>3, FS_EmptySet, LimitAssumption DEF Init, SlotsCounted
<1> QED  BY <1>2, <1>4 DEF IInv

LEMMA StepSound == IInv /\ [Next]_vars => IInv'
<1> SUFFICES ASSUME IInv, [Next]_vars PROVE IInv'
  OBVIOUS
<1>1. RequestsSound /\ SlotsCounted
  BY DEF IInv
<1>2. CASE UNCHANGED vars
  BY <1>1, <1>2 DEF vars, IInv, RequestsSound, SlotsCounted, Holders
<1>3. CASE Next
  <2>1. PICK r \in Requests :
          Arrives(r) \/ ContextEnds(r) \/ Step(r) \/ NextEvent(r) \/ StreamStep(r) \/ IdleFires(r)
    BY <1>3 DEF Next
  <2>2. CASE Arrives(r)
    BY <1>1, <2>2, ArrivesSound, KeepingSteps DEF IInv
  <2>3. CASE ContextEnds(r) \/ PlanEnds(r) \/ GivesUp(r) \/ SkipsModel(r) \/ Picks(r)
    BY <1>1, <2>3, PlanStepsSound, KeepingSteps DEF IInv
  <2>4. CASE FindsFull(r) \/ Denied(r)
    BY <1>1, <2>4, LeavesSound, KeepingSteps, CountingSteps DEF IInv
  <2>5. CASE TakesSlot(r) \/ Permitted(r)
    BY <1>1, <2>5, EntersSound, KeepingSteps, CountingSteps DEF IInv
  <2>6. CASE OpensLate(r) \/ \E k \in Kinds : CallFails(r, k)
    BY <1>1, <2>6, CallFailsSound, CountingSteps DEF IInv
  <2>7. CASE BackoffEnds(r)
    BY <1>1, <2>7, BackoffEndsSound, KeepingSteps DEF IInv
  <2>8. CASE OpensStream(r) \/ NextEvent(r) \/ WritesEvent(r) \/ WriteFails(r) \/ IdleFires(r)
    BY <1>1, <2>8, StreamMovesSound, KeepingSteps DEF IInv
  <2>9. CASE CallSucceeds(r) \/ StreamStep(r) \/ Closes(r)
    <3>1. RequestsSound'
      BY <1>1, <2>9, ValueSound
    <3>2. CASE ClosesEnded(r)
      BY <1>1, <3>1, <3>2, KeepingSteps DEF IInv
    <3>3. CASE CallSucceeds(r) \/ StreamStep(r) \/ ClosesOpen(r)
      BY <1>1, <3>1, <3>3, CountingSteps DEF IInv
    <3> QED  BY <2>9, <3>2, <3>3 DEF ClosesEnded, ClosesOpen
  <2> QED  BY <2>1, <2>2, <2>3, <2>4, <2>5, <2>6, <2>7, <2>8, <2>9 DEF Step, CallEnds
<1> QED  BY <1>2, <1>3

LEMMA AlwaysSound == Spec => []IInv
<1> QED  BY InitSound, StepSound, PTL DEF Spec

\* Every request has its types: its attempts never exceed the allowance of the
\* plan, what is left of a budget never falls below zero nor rises above it,
\* and no more slots of a provider are in use than its limit.
THEOREM TypesHold == Spec => []TypeOK
<1>1. IInv => TypeOK
  <2> SUFFICES ASSUME IInv PROVE TypeOK
    OBVIOUS
  <2>1. ASSUME NEW r \in Requests
        PROVE  /\ req[r].pc \in PCs
               /\ req[r].n \in 1 .. req[r].plan.attempts /\ req[r].idx \in Nat \ {0}
               /\ req[r].left \in 0 .. req[r].plan.budget
               /\ req[r].got \in Failures \cup {"none", "ok"}
               /\ req[r].err \in Failures \cup {"none", "circuit_open"}
    BY DEF IInv, RequestsSound, Typed, Plan, Sound, Counters
  <2> QED  BY <2>1 DEF IInv, SlotsCounted, TypeOK
<1> QED  BY <1>1, AlwaysSound, PTL

\* A provider's counter of slots is the number of requests that hold one of
\* them, however their attempts and streams end (ambilSlot and lepasSlot).
THEOREM SlotsHeld == Spec => []SlotsAreHeld
<1>1. \A p : Holders(p) = {r \in Requests : HoldsSlot(r, p)}
  BY DEF Holders, Holding, HoldsSlot
<1>2. IInv => SlotsAreHeld
  BY <1>1 DEF IInv, SlotsCounted, SlotsAreHeld
<1> QED  BY <1>2, AlwaysSound, PTL

\* The breaker hears of a permit once, and what happened (laporkan).
THEOREM ReportsMatch == Spec => []ReportsMatchOutcome
<1>1. IInv => ReportsMatchOutcome
  BY DEF IInv, RequestsSound, Sound, Told, Over, Heard, ReportsMatchOutcome
<1> QED  BY <1>1, AlwaysSound, PTL

\* A budget bounds the attempts of a request over all its candidates, and is used
\* by attempts only, those that a limit of the gateway refused among them; skipped
\* candidates use none of it (hitungPercobaanNyata).
THEOREM BudgetForAttempts == Spec => []BudgetIsForAttempts
<1>1. IInv => BudgetIsForAttempts
  <2> SUFFICES ASSUME IInv, NEW r \in Requests, req[r].plan.budget > 0
               PROVE  /\ req[r].tried <= req[r].plan.budget
                      /\ req[r].pc = "next" /\ OutOfBudget(req[r]) => req[r].tried = req[r].plan.budget
    BY DEF BudgetIsForAttempts
  <2>1. Typed(req[r]) /\ Accounted(req[r])
    BY DEF IInv, RequestsSound, Sound
  <2>2. req[r].left \in Nat /\ req[r].tried \in Nat /\ req[r].plan.budget \in Nat
    BY <2>1 DEF Typed, Plan
  <2> QED  BY <2>1, <2>2 DEF Accounted, OutOfBudget
<1> QED  BY <1>1, AlwaysSound, PTL

\* No provider is asked with a model that has refused the request.
THEOREM RefusedNotAsked == Spec => []RefusedModelNotAsked
<1>1. IInv => RefusedModelNotAsked
  BY DEF IInv, RequestsSound, Sound, Remembered, Trying, RefusedModelNotAsked
<1> QED  BY <1>1, AlwaysSound, PTL

\* A request ends with a value, or with what went wrong last; one without
\* candidates with a model that has no provider (jalankanRencana).
THEOREM AnswersAreReal == Spec => []AnswerIsReal
<1>1. IInv => AnswerIsReal
  BY DEF IInv, RequestsSound, Sound, Answer, AnswerIsReal
<1> QED  BY <1>1, AlwaysSound, PTL

=============================================================================
