------------------------------- MODULE Quota --------------------------------
(***************************************************************************)
(* What a request spends of the rate limits on its way through the gateway *)
(* (internal/apikey/limiter.go, internal/gateway/guard.go and the handlers *)
(* of internal/gateway/http.go): the middleware counts it against its key, *)
(* the handler against its model, a combo's tiers against theirs, each     *)
(* attempt against its provider.  What was counted for a request that      *)
(* reaches no upstream is given back, in the window it was counted in.     *)
(*                                                                         *)
(* A counter is a Redis key of one fixed window, changed by two scripts.   *)
(* A script runs at the time its caller read from the clock.               *)
(***************************************************************************)
EXTENDS Integers, Sequences, FiniteSets

CONSTANTS
  Requests,      \* requests of one API key in flight
  Model,         \* the model they ask for
  Tiers,         \* the fallback models of the rule that routes them, in order
  Key, Gates,    \* scopes: of the key, and those of the provider in the order asked
  Metered,       \* the gates that also have a limit of tokens: the column's
  Limit,         \* per scope and kind of window: the limit, 0 when not enforced
  Width,         \* per kind: the length of a window
  TokenLimit,    \* the key's limit of tokens per window, and
  TokenWidth,    \* the length of the windows of tokens
  MaxTime, MaxTries,   \* bounds: horizon, refused attempts at one target
  MaxFaults      \* bound: clients that leave, and calls that fail because Redis does

Models == {Model} \cup {Tiers[i] : i \in DOMAIN Tiers}
GateSet == {Gates[i] : i \in DOMAIN Gates}
Scopes  == {Key} \cup GateSet \cup Models
Kinds   == DOMAIN Width
Buckets == 0 .. MaxTime
Windows == Scopes \X Kinds \X Buckets

ASSUME FiniteAssumption == IsFiniteSet(Requests)
ASSUME ListsAssumption == Tiers \in Seq(Models) /\ Gates \in Seq(GateSet)
ASSUME ScopesAssumption == Key \notin GateSet \cup Models /\ GateSet \cap Models = {}
ASSUME LimitAssumption ==
  Limit \in [Scopes -> [Kinds -> Nat]] /\ Width \in [Kinds -> Nat \ {0}]
\* The two limits of the column are per minute.
ASSUME MeteredAssumption ==
  /\ Metered \subseteq GateSet
  /\ \A g \in Metered, k \in Kinds : Limit[g][k] > 0 => Width[k] = TokenWidth
ASSUME BoundsAssumption ==
  /\ {MaxTime, MaxTries, TokenWidth} \subseteq Nat \ {0} /\ TokenLimit \in Nat
  /\ MaxFaults \in Nat

VARIABLES
  now,
  count,   \* Redis: the counter of each window
  req,     \* per request: where its handler is and what it remembers
  tokens,  \* Redis: tokens recorded per window of the key
  held,    \* history: per request, how often each window was counted for it
  outages, \* calls that failed so far, and
  missed   \* history: the windows they should have changed

vars == <<now, count, req, tokens, held, outages, missed>>
counters == <<count, held, outages, missed>>

-----------------------------------------------------------------------------
(* Windows and the two scripts.                                             *)

WindowOf(s, k, t) == <<s, k, t \div Width[k]>>
ResetAt(w) == (w[3] + 1) * Width[w[2]]

\* requestWindows: the windows of a scope that time t falls in.
WindowsOf(s, t) == {WindowOf(s, k, t) : k \in {k \in Kinds : Limit[s][k] > 0}}
LimitOf(w) == Limit[w[1]][w[2]]

\* Mutant: the comparison of the token gate, "count >= limit", before counting.
Fits_OneMore(W) == \A w \in W : count[w] <= LimitOf(w)

\* limiterScript, mode 0: every window has room for one more.
Fits(W) == \A w \in W : count[w] + 1 <= LimitOf(w)

\* limiterScript: every window counts one; its key expires when it is over.
Counted(W) == [w \in Windows |-> IF w \in W THEN count[w] + 1 ELSE count[w]]

\* refundScript: a key that expired is skipped, and none goes below zero.
Refunded(W) == [w \in Windows |-> IF w \in W /\ count[w] > 0 THEN count[w] - 1 ELSE count[w]]

\* A script fails when the client has left, as the request's context is cancelled
\* then, and when Redis does.  A script that ran and whose reply was lost is one of
\* a client that has left or of no failure; that it is run again is left out.
Works(r) == ~req[r].gone
Fault   == Cardinality({r \in Requests : req[r].gone}) + outages < MaxFaults
Down(W) == Fault /\ outages' = outages + 1 /\ missed' = missed \cup W
Up      == UNCHANGED <<outages, missed>>

Hold(r, W) == held' = [held EXCEPT ![r] = [w \in Windows |-> IF w \in W THEN @[w] + 1 ELSE @[w]]]
Release(r, W) == held' = [held EXCEPT ![r] = [w \in Windows |-> IF w \in W /\ @[w] > 0 THEN @[w] - 1 ELSE @[w]]]

\* One enforcing call: the windows of scope s are counted together or, when one
\* of them is full, not at all.  A failing Redis lets the request pass uncounted.
Passes(r, s) ==
  LET W == WindowsOf(s, now) IN
  \/ Works(r) /\ Fits(W) /\ count' = Counted(W) /\ Hold(r, W) /\ Up
  \/ Works(r) /\ Down(W) /\ UNCHANGED <<count, held>>
  \/ ~Works(r) /\ UNCHANGED counters

Full(r, s) == Works(r) /\ ~Fits(WindowsOf(s, now)) /\ UNCHANGED counters

\* One refund of the windows that time t falls in; it is not repeated when it fails.
Refund(r, s, t) ==
  LET W == WindowsOf(s, t) IN
  \/ Works(r) /\ count' = Refunded(W) /\ Release(r, W) /\ Up
  \/ Works(r) /\ Down(W) /\ UNCHANGED <<count, held>>
  \/ ~Works(r) /\ UNCHANGED counters

-----------------------------------------------------------------------------
(* The handler.  `anchor' is the time the middleware planted for a refund,   *)
(* `marks' the counts made for models (tandaKuotaModel), `memo' the answers  *)
(* remembered of the provider's gates, `guarded' whether jagaKuota is active, *)
(* `tier' the tier under way, `cascade' whether the tiers are tried after    *)
(* failed attempts, `spare' whether the model has candidates when they are   *)
(* exhausted before.  History: `tried', the models attempts were made for,   *)
(* `shut', the windows that counted the request at a gate whose token limit  *)
(* then refused it, `answered', whether there was an answer, `unsent',       *)
(* whether it was a stream whose header could not be sent, and `billed', the *)
(* window its tokens went to.                                                *)

NoMemo == [is |-> "none", until |-> 0]

NewRequest == [pc |-> "arrives", anchor |-> 0, marks |-> [m \in Models |-> <<>>],
               memo |-> [g \in GateSet |-> NoMemo], guarded |-> FALSE, model |-> Model,
               tier |-> 1, cascade |-> FALSE, spare |-> FALSE, tries |-> 0,
               gone |-> FALSE, tried |-> {}, shut |-> {}, answered |-> FALSE,
               unsent |-> FALSE, billed |-> {}]

PCs == {"arrives", "model", "tokens", "candidates", "tiers", "tier_checks",
        "attempt", "opening", "answered", "closing", "done"}

\* The handler of r is at pc and goes on as the record `then'.
Step(r, pc, then) == req[r].pc = pc /\ req' = [req EXCEPT ![r] = then]
Goto(r, pc) == [req[r] EXCEPT !.pc = pc]

\* The handler returns: what it remembered is gone, the history stays.
Ended(q) == [NewRequest EXCEPT !.pc = "done", !.gone = q.gone, !.tried = q.tried,
                               !.shut = q.shut, !.answered = q.answered,
                               !.unsent = q.unsent, !.billed = q.billed]

\* Limit(): the middleware counts the request, or answers 429.
LimitPasses(r) ==
  /\ Step(r, "arrives", [req[r] EXCEPT !.pc = "model", !.anchor = now, !.guarded = TRUE])
  /\ Passes(r, Key)
  /\ UNCHANGED <<now, tokens>>

LimitRefuses(r) ==
  /\ Step(r, "arrives", Ended(req[r]))
  /\ Full(r, Key)
  /\ UNCHANGED <<now, tokens>>

\* Any check before the attempts may refuse: the body, a filter, the model's
\* resolution and permission before its limit is asked, a budget or the query for
\* candidates after it.  The deferred tutup() then runs.
Refuse(r) ==
  /\ \E pc \in {"model", "tokens", "candidates"} : Step(r, pc, Goto(r, "closing"))
  /\ UNCHANGED <<now, tokens, counters>>

\* PeriksaBatasModel of the asked model, its count marked on the request.
ModelPasses(r) ==
  /\ Step(r, "model", [req[r] EXCEPT !.pc = "tokens", !.marks[Model] = Append(@, now)])
  /\ Passes(r, Model)
  /\ UNCHANGED <<now, tokens>>

ModelRefuses(r) ==
  /\ Step(r, "model", Goto(r, "closing"))
  /\ Full(r, Model)
  /\ UNCHANGED <<now, tokens>>

\* GerbangToken reads the tokens recorded so far: it opens, or not.
TokenGate(r) ==
  LET spent == tokens[now \div TokenWidth] >= TokenLimit IN
  /\ \/ Works(r) /\ Step(r, "tokens", Goto(r, IF spent THEN "closing" ELSE "candidates")) /\ Up
     \/ Works(r) /\ Down({}) /\ Step(r, "tokens", Goto(r, "candidates"))
     \/ ~Works(r) /\ Step(r, "tokens", Goto(r, "candidates")) /\ Up
  /\ UNCHANGED <<now, tokens, count, held>>

\* lolos(): from here on attempts are made, and what was counted stays.
Starts(q) == [q EXCEPT !.pc = "attempt", !.guarded = FALSE, !.tries = 0]

\* Candidates that fit are tried.  None, or `some' whose context windows are all
\* too small, sends the request to the rule's tiers first.
CandidatesFit(r) ==
  /\ Step(r, "candidates", [Starts(req[r]) EXCEPT !.tried = {Model}])
  /\ UNCHANGED <<now, tokens, counters>>

CandidatesTooSmall(r, some) ==
  /\ Step(r, "candidates", [req[r] EXCEPT !.pc = "tiers", !.spare = some])
  /\ UNCHANGED <<now, tokens, counters>>

-----------------------------------------------------------------------------
(* The tiers: tried before the first attempt (jagaKuota is active), and after *)
(* the attempts failed.                                                      *)

NextTier(q) == [q EXCEPT !.pc = "tiers", !.tier = @ + 1]
TierModel(r) == Tiers[req[r].tier]
HasTier(r) == req[r].tier <= Len(Tiers)

\* A refusal of a tier - its limit, or another check - passes to the next tier
\* before the attempts, and is the answer after them.
TierRefused(q) == IF q.guarded THEN NextTier(q) ELSE Ended(q)

\* siapkanTierFallback gives up before its model is counted: not resolved or
\* disabled, or the one already tried - or `refused', as the key may not use the
\* model or a filter forbids it.
TierSkipped(r, refused) ==
  /\ HasTier(r) /\ (refused => TierModel(r) # req[r].model)
  /\ Step(r, "tiers", IF refused THEN TierRefused(req[r]) ELSE NextTier(req[r]))
  /\ UNCHANGED <<now, tokens, counters>>

TierPasses(r) ==
  /\ HasTier(r) /\ TierModel(r) # req[r].model
  /\ Step(r, "tiers", [req[r] EXCEPT !.pc = "tier_checks", !.marks[TierModel(r)] = Append(@, now)])
  /\ Passes(r, TierModel(r))
  /\ UNCHANGED <<now, tokens>>

TierRefuses(r) ==
  /\ HasTier(r) /\ TierModel(r) # req[r].model
  /\ Step(r, "tiers", TierRefused(req[r]))
  /\ Full(r, TierModel(r))
  /\ UNCHANGED <<now, tokens>>

TierFits(r) ==
  /\ Step(r, "tier_checks", [Starts(req[r]) EXCEPT
       !.model = IF req[r].guarded THEN TierModel(r) ELSE @, !.tried = @ \cup {TierModel(r)}])
  /\ UNCHANGED <<now, tokens, counters>>

\* Mutant: the count of a tier that is dropped stays (before B-294).
TierDropped_KeepsCount(r, refused) ==
  /\ Step(r, "tier_checks", IF refused THEN TierRefused(req[r]) ELSE NextTier(req[r]))
  /\ UNCHANGED <<now, tokens, counters>>

\* A check after the count drops the tier - `refused' by its budget or tokens, or
\* without candidates that fit: the count is claimed back.
TierDropped(r, refused) ==
  LET m == TierModel(r)
      q == [req[r] EXCEPT !.marks[m] = Tail(@)]
  IN
  /\ Step(r, "tier_checks", IF refused THEN TierRefused(q) ELSE NextTier(q))
  /\ Refund(r, m, Head(req[r].marks[m]))
  /\ UNCHANGED <<now, tokens>>

\* No tier is left: the asked model's own candidates, a refusal, or the failure.
TiersExhausted(r) ==
  /\ ~HasTier(r)
  /\ Step(r, "tiers", IF ~req[r].guarded THEN Ended(req[r])
                      ELSE IF req[r].spare THEN [Starts(req[r]) EXCEPT !.tried = {Model}]
                      ELSE Goto(r, "closing"))
  /\ UNCHANGED <<now, tokens, counters>>

-----------------------------------------------------------------------------
(* The attempts.  Each first passes the provider's gates - the limit of the  *)
(* policy, then the column of the provider - whose answers are remembered.   *)

\* memoBatasAmbil: an admission is remembered for the request, a refusal until
\* its RetryAfter has passed.
Admitted(r, g)  == req[r].memo[g].is = "pass"
Refusing(r, g)  == req[r].memo[g].is = "full" /\ now < req[r].memo[g].until
\* The first gate that has not admitted the request.
AtGate(r, i)    == ~Admitted(r, Gates[i]) /\ \A j \in 1 .. (i - 1) : Admitted(r, Gates[j])
Attempted(r)    == [req[r] EXCEPT !.tries = @ + 1]

GatePasses(r, i) ==
  LET g == Gates[i] IN
  /\ AtGate(r, i) /\ ~Refusing(r, g)
  /\ Step(r, "attempt", [req[r] EXCEPT !.memo[g] = [is |-> "pass", until |-> 0]])
  /\ Passes(r, g)
  /\ UNCHANGED <<now, tokens>>

\* The column counts the request, then finds the provider's tokens of the minute
\* spent, by whichever keys: the attempt fails though the count stays, and it is
\* the refusal that is remembered, for what is left of the window.
GateShuts(r, i) ==
  LET g == Gates[i] IN
  /\ g \in Metered /\ AtGate(r, i) /\ ~Refusing(r, g) /\ req[r].tries < MaxTries
  /\ Works(r) /\ Passes(r, g)
  /\ Step(r, "attempt", [Attempted(r) EXCEPT
       !.memo[g] = [is |-> "full", until |-> (now \div TokenWidth + 1) * TokenWidth],
       !.shut = @ \cup WindowsOf(g, now)])
  /\ UNCHANGED <<now, tokens>>

\* A full gate fails the attempt before the provider is contacted.  What is left
\* of its window is remembered, from the moment the answer is stored.
GateRefuses(r, i) ==
  LET g == Gates[i]
      w == CHOOSE w \in WindowsOf(g, now) : ~Fits({w})
  IN
  /\ AtGate(r, i) /\ ~Refusing(r, g) /\ req[r].tries < MaxTries
  /\ Full(r, g)
  /\ Step(r, "attempt", [Attempted(r) EXCEPT
       !.memo[g] = [is |-> "full", until |-> ResetAt(w)]])
  /\ UNCHANGED <<now, tokens>>

GateStillRefuses(r, i) ==
  /\ AtGate(r, i) /\ Refusing(r, Gates[i]) /\ req[r].tries < MaxTries
  /\ Step(r, "attempt", Attempted(r))
  /\ UNCHANGED <<now, tokens, counters>>

\* The upstream answers: a whole answer, or with a stream.
Answers(r) ==
  /\ \A g \in GateSet : Admitted(r, g)
  /\ \E pc \in {"answered", "opening"} :
       Step(r, "attempt", [Goto(r, pc) EXCEPT !.answered = TRUE])
  /\ UNCHANGED <<now, tokens, counters>>

\* PrepareSSE: from here on the stream's tokens are recorded as the handler ends.
Prepares(r) ==
  /\ Step(r, "opening", Goto(r, "answered"))
  /\ UNCHANGED <<now, tokens, counters>>

\* It fails, as the client has left when the header is flushed or a deadline
\* cannot be lifted: the handler returns before it has deferred the recording.
PrepareFails(r) ==
  /\ Step(r, "opening", Ended([req[r] EXCEPT !.unsent = TRUE]))
  /\ UNCHANGED <<now, tokens, counters>>

\* Mutant: the tiers get a memo of their own (before B-256).
AttemptsFail_NewMemo(r) ==
  /\ Step(r, "attempt", [req[r] EXCEPT !.pc = "tiers", !.cascade = TRUE,
                             !.memo = NewRequest.memo,
                             !.tier = IF req[r].cascade THEN @ + 1 ELSE 1])
  /\ UNCHANGED <<now, tokens, counters>>

\* The attempts fail, or none is made as every circuit is open: the tiers, from
\* the first on; when a tier's attempts fail, the next one.
AttemptsFail(r) ==
  /\ Step(r, "attempt", [req[r] EXCEPT !.pc = "tiers", !.cascade = TRUE,
                             !.tier = IF req[r].cascade THEN @ + 1 ELSE 1])
  /\ UNCHANGED <<now, tokens, counters>>

\* The response cache answers before the first attempt.
CacheAnswers(r) ==
  /\ ~req[r].cascade /\ req[r].tries = 0 /\ \A g \in GateSet : req[r].memo[g] = NoMemo
  /\ Step(r, "attempt", [Goto(r, "answered") EXCEPT !.answered = TRUE])
  /\ UNCHANGED <<now, tokens, counters>>

\* Mutant: the tokens are recorded in the context of the request.
Bill_InContext(r) ==
  LET b == now \div TokenWidth IN
  /\ Step(r, "answered", Ended([req[r] EXCEPT !.billed = IF Works(r) THEN {b} ELSE {}]))
  /\ tokens' = [tokens EXCEPT ![b] = IF Works(r) THEN @ + 1 ELSE @]
  /\ UNCHANGED <<now, counters>>

\* CatatToken: the answer's tokens are recorded, also when the client has left.
Bill(r) ==
  LET b == now \div TokenWidth IN
  /\ \/ /\ Step(r, "answered", Ended([req[r] EXCEPT !.billed = {b}]))
        /\ tokens' = [tokens EXCEPT ![b] = @ + 1] /\ Up
     \/ Step(r, "answered", Ended(req[r])) /\ Down({}) /\ UNCHANGED tokens
  /\ UNCHANGED <<now, count, held>>

-----------------------------------------------------------------------------
(* tutup(): a request refused before its attempts gets back what was counted *)
(* for its key, then what its marks name.                                    *)

\* Mutant: the window is that of the refund (before B-353).
RefundKey_Unanchored(r) ==
  /\ req[r].guarded
  /\ Step(r, "closing", [req[r] EXCEPT !.guarded = FALSE])
  /\ Refund(r, Key, now)
  /\ UNCHANGED <<now, tokens>>

RefundKey(r) ==
  /\ req[r].guarded
  /\ Step(r, "closing", [req[r] EXCEPT !.guarded = FALSE])
  /\ Refund(r, Key, req[r].anchor)
  /\ UNCHANGED <<now, tokens>>

RefundMark(r, m) ==
  /\ ~req[r].guarded /\ req[r].marks[m] # <<>>
  /\ Step(r, "closing", [req[r] EXCEPT !.marks[m] = Tail(@)])
  /\ Refund(r, m, Head(req[r].marks[m]))
  /\ UNCHANGED <<now, tokens>>

Closed(r) ==
  /\ ~req[r].guarded /\ \A m \in Models : req[r].marks[m] = <<>>
  /\ Step(r, "closing", Ended(req[r]))
  /\ UNCHANGED <<now, tokens, counters>>

-----------------------------------------------------------------------------
(* The environment.                                                          *)

ClientLeaves(r) ==
  /\ Fault /\ ~req[r].gone /\ req[r].pc \notin {"arrives", "done"}
  /\ req' = [req EXCEPT ![r].gone = TRUE]
  /\ UNCHANGED <<now, tokens, counters>>

\* Time passes; Redis drops the counters whose TTL has run out.
Tick ==
  /\ now < MaxTime
  /\ now' = now + 1
  /\ count' = [w \in Windows |-> IF ResetAt(w) <= now' THEN 0 ELSE count[w]]
  /\ UNCHANGED <<req, tokens, held, outages, missed>>

Init ==
  /\ now = 0
  /\ count = [w \in Windows |-> 0]
  /\ req = [r \in Requests |-> NewRequest]
  /\ tokens = [b \in Buckets |-> 0]
  /\ held = [r \in Requests |-> [w \in Windows |-> 0]]
  /\ outages = 0 /\ missed = {}

\* A call of the limiter.
Limiting(r) ==
  \/ LimitPasses(r) \/ LimitRefuses(r)
  \/ ModelPasses(r) \/ ModelRefuses(r) \/ TokenGate(r)
  \/ TierPasses(r) \/ TierRefuses(r)
  \/ \E i \in DOMAIN Gates : GatePasses(r, i) \/ GateShuts(r, i) \/ GateRefuses(r, i)
  \/ Bill(r)

Handling(r) ==
  \/ Refuse(r) \/ CandidatesFit(r)
  \/ \E some \in BOOLEAN : CandidatesTooSmall(r, some)
  \/ TierFits(r) \/ TiersExhausted(r)
  \/ \E refused \in BOOLEAN : TierSkipped(r, refused) \/ TierDropped(r, refused)
  \/ \E i \in DOMAIN Gates : GateStillRefuses(r, i)
  \/ Answers(r) \/ Prepares(r) \/ PrepareFails(r) \/ AttemptsFail(r) \/ CacheAnswers(r)
  \/ RefundKey(r) \/ (\E m \in Models : RefundMark(r, m)) \/ Closed(r)

Next ==
  \/ Tick
  \/ \E r \in Requests :
       ClientLeaves(r) \/ Handling(r) \/ Limiting(r)

Spec == Init /\ [][Next]_vars

-----------------------------------------------------------------------------
(* Properties.                                                              *)

Live(w) == ResetAt(w) > now
Held(w) == UNION {{r} \X (1 .. held[r][w]) : r \in Requests}   \* the counts of w

\* Every variable keeps its type; in particular no window ever counts more
\* requests than its limit, whichever way counts and refunds interleave.
TypeOK ==
  /\ now \in 0 .. MaxTime
  /\ count \in [Windows -> Nat]
  /\ \A w \in Windows : count[w] <= LimitOf(w)
  /\ \A r \in Requests : req[r].pc \in PCs /\ req[r].model \in Models /\ req[r].tried \subseteq Models
  /\ tokens \in [Buckets -> Nat]
  /\ held \in [Requests -> [Windows -> Nat]]
  /\ outages \in 0 .. MaxFaults /\ missed \subseteq Windows

\* A window that is not over counts exactly the requests counted in it and not
\* given back (RefundScopesAt, B-353): a refund never takes away the count of
\* another request, also when it runs in a later window than its count - unless
\* Redis failed on a call about that window.
CountsAreEarned ==
  \A w \in Windows \ missed : Live(w) => count[w] = Cardinality(Held(w))

\* When a handler is done, the request still counts against its key and its model
\* only if attempts were made for it, and against a tier only if that tier was
\* tried (V-AB-17, B-254, B-294), unless the refund itself failed.
OnlyTriesAreCharged ==
  \A r \in Requests : req[r].pc = "done" /\ ~req[r].gone =>
    \A w \in Windows \ missed : held[r][w] > 0 =>
      \/ w[1] \in {Key, Model} /\ req[r].tried # {}
      \/ w[1] \in req[r].tried \cup GateSet

\* However many attempts a request makes at a provider, and through however many
\* tiers, no window of the provider's limits counts it twice, and it counts in one
\* window of each limit only (B-256): a second one counts it only after the
\* provider's token limit refused it in the first.  The comments of
\* PeriksaBatasProvider and PeriksaKolomProvider know no such exception: there the
\* quota is consumed by the first check of a request only (audit F4).
ProviderCountedOnce ==
  \A r \in Requests : \A g \in GateSet : \A k \in Kinds : \A b, c \in Buckets :
    /\ held[r][<<g, k, b>>] <= 1
    /\ b # c /\ held[r][<<g, k, b>>] > 0 /\ held[r][<<g, k, c>>] > 0 =>
         <<g, k, b>> \in req[r].shut \/ <<g, k, c>> \in req[r].shut

\* Every answer is paid for in tokens exactly once, as long as Redis does not fail:
\* also one from the cache, one of a tier, and one whose client left while it was
\* sent.  Not paid for is a stream that opened at the upstream and whose header
\* could not be sent to the client (gagalSiapkanSSE), though the comment of the
\* deferred recording means it for every client that closes the connection.
AnswersAreBilled ==
  /\ \A b \in Buckets : tokens[b] = Cardinality({r \in Requests : b \in req[r].billed})
  /\ outages = 0 => \A r \in Requests : req[r].pc = "done" /\ req[r].answered =>
       (req[r].billed = {} <=> req[r].unsent)

=============================================================================
