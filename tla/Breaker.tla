------------------------------ MODULE Breaker ------------------------------
(***************************************************************************)
(* The circuit breaker of internal/gateway/breaker.go for one (provider,   *)
(* model) pair, as internal/gateway/executor.go drives it.                 *)
(*                                                                         *)
(* Its state is a Redis hash per key, changed only by two Lua scripts      *)
(* (allowScript, recordScript), by DEL and by the key's TTL.  Every        *)
(* gateway instance keeps a decision cache (memo) and the last state it    *)
(* told the listener (transisi).  A call is one upstream attempt: it asks  *)
(* for a permit, runs, and reports its result.  The wall clock is read     *)
(* BEFORE a script is sent, so a script may run with an old time, replies  *)
(* come back in any order, and go-redis retries a script whose reply was   *)
(* lost.                                                                   *)
(***************************************************************************)
EXTENDS Integers, FiniteSets, Folds, Functions

CONSTANTS
  Instances,       \* gateway processes sharing the Redis
  Calls,           \* attempts that can be in flight at one time
  Base,            \* key of the global configuration: its decisions are memoised
  Rules,           \* keys of per-rule configurations: never memoised
  Asked,           \* the keys calls ask for in a run
  ThresholdNum, ThresholdDen,  \* FailureThreshold as a fraction
  MinSamples, WindowBuckets, BucketWidth, OpenDuration, HalfOpenProbes,
  MemoTTL,
  Skew,            \* how far each instance's clock runs ahead
  MaxSkew, MaxDelay,           \* bounds on clock skew and on a script's delay
  MaxTime, BucketCap,          \* bounds on the behaviours explored
  Faults           \* environment events of a run, a subset of FaultKinds

FaultKinds == {"reply_lost", "redis_down", "crash", "reset", "memo_flush"}

Keys    == {Base} \cup Rules
Buckets == 0 .. ((MaxTime + MaxSkew) \div BucketWidth)
Nobody  == "nobody"

ASSUME KeysAssumption == Base \notin Rules /\ Asked \subseteq Keys /\ Nobody \notin Instances
ASSUME ConfigAssumption ==
  /\ {MinSamples, WindowBuckets, BucketWidth, OpenDuration, HalfOpenProbes,
      ThresholdDen} \subseteq Nat \ {0}
  /\ {ThresholdNum, MemoTTL, BucketCap} \subseteq Nat
ASSUME TimeAssumption ==
  /\ {MaxSkew, MaxDelay} \subseteq Nat /\ MaxTime \in Nat \ {0}
  /\ Skew \in [Instances -> 0 .. MaxSkew]
\* The token of a probe window is the clock reading that began it.  Readings
\* of different windows differ when a script runs soon enough after its clock
\* reading: the redis client's timeouts against an OpenDuration of seconds.
ASSUME DelayAssumption == MaxDelay + MaxSkew < OpenDuration
ASSUME FaultsAssumption == Faults \subseteq FaultKinds

ProbeWait == OpenDuration
Window    == WindowBuckets * BucketWidth
KeyTTL    == Window + OpenDuration + ProbeWait

VARIABLES
  now,       \* true time; instance i reads now + Skew[i]
  hash,      \* Redis: one hash per key
  memo,      \* per instance: its cached decision for Base
  transisi,  \* per instance and key: the last state told to the listener
  call,      \* the attempts in flight
  reset,     \* the operator's reset in progress
  cur,       \* history: calls whose probe belongs to the current probe window
  flipAt     \* history: when Base last changed between closed and not closed

vars == <<now, hash, memo, transisi, call, reset, cur, flipAt>>

-----------------------------------------------------------------------------
(* Redis: the hash of a key.  An absent key is EmptyHash.                   *)

EmptyHash == [openUntil |-> 0, probes |-> 0, probesAt |-> 0,
              tot |-> [b \in Buckets |-> 0], fail |-> [b \in Buckets |-> 0],
              expireAt |-> 0]

\* Mutant: the open deadline is not compared with the clock.
StateOf_NoClock(h, t) == IF h.openUntil = 0 THEN "closed" ELSE "half_open"

StateOf(h, t) ==
  IF h.openUntil = 0 THEN "closed" ELSE IF t < h.openUntil THEN "open" ELSE "half_open"

\* Mutant: a probe whose call died is waited for without limit.
NewWindow_Never(h, t) == h.probesAt = 0

\* A probe window is over, or none has begun: allowScript starts one.
NewWindow(h, t) == h.probesAt = 0 \/ t - h.probesAt >= ProbeWait
Granted(h, t)   == IF NewWindow(h, t) THEN 0 ELSE h.probes
\* Mutant: off by one in the quota.
CanProbe_OneMore(h, t) == StateOf(h, t) = "half_open" /\ Granted(h, t) <= HalfOpenProbes

CanProbe(h, t)  == StateOf(h, t) = "half_open" /\ Granted(h, t) < HalfOpenProbes

\* Mutants: the probe is not counted; a new window keeps the token of the old.
WithProbe_Uncounted(h, t) ==
  [h EXCEPT !.probes = Granted(h, t), !.probesAt = IF NewWindow(h, t) THEN t ELSE @,
            !.expireAt = now + KeyTTL]
WithProbe_OldToken(h, t) ==
  [h EXCEPT !.probes = Granted(h, t) + 1, !.probesAt = IF @ = 0 THEN t ELSE @,
            !.expireAt = now + KeyTTL]

WithProbe(h, t) ==
  [h EXCEPT !.probes   = Granted(h, t) + 1,
            !.probesAt = IF NewWindow(h, t) THEN t ELSE @,
            !.expireAt = now + KeyTTL]

Opened(t) == [EmptyHash EXCEPT !.openUntil = t + OpenDuration,
                               !.expireAt  = now + KeyTTL]

Bucket(t)  == t \div BucketWidth
InWindow(t) == {b \in Buckets : b >= Bucket(t) - WindowBuckets + 1}
SumIn(f, S) == FoldFunctionOnSet(+, 0, f, S)

\* The sample is counted before the decision; buckets ahead of t count too.
Total(h, t)        == 1 + SumIn(h.tot, InWindow(t))
Failures(h, t, ok) == (IF ok THEN 0 ELSE 1) + SumIn(h.fail, InWindow(t))
Trips(h, t, ok) ==
  /\ Total(h, t) >= MinSamples
  /\ Failures(h, t, ok) * ThresholdDen >= ThresholdNum * Total(h, t)

WithSample(h, t, ok) ==
  LET Kept(f, n) == [b \in Buckets |->
        IF b \notin InWindow(t) THEN 0 ELSE IF b = Bucket(t) THEN f[b] + n ELSE f[b]]
  IN [h EXCEPT !.tot      = Kept(@, 1),
               !.fail     = Kept(@, IF ok THEN 0 ELSE 1),
               !.expireAt = now + KeyTTL]

-----------------------------------------------------------------------------
(* Attempts.  `sent' is when the clock was read for the script under way,    *)
(* `token' the probe token (0: not a probe), `ok' the result to report.  The *)
(* reply of a script is kept as what the caller does with it: `allow', the   *)
(* memo entry `reply' (NoMemo: none to store) and the transition `news'.     *)

NoMemo == [set |-> FALSE, allow |-> FALSE, expires |-> 0]

IdleCall == [phase |-> "idle", inst |-> Nobody, key |-> Base, sent |-> 0,
             token |-> 0, ok |-> FALSE, allow |-> FALSE, reply |-> NoMemo,
             news |-> "none"]

Phases == {"idle", "asking", "answered", "running", "reporting", "reported"}

Clock(i) == now + Skew[i]
At(c)    == call[c].sent + Skew[call[c].inst]
HashOf(c) == hash[call[c].key]
CallsOn(k) == {c \in Calls : call[c].phase # "idle" /\ call[c].key = k}

\* Mutant: a refusal is cached for the whole memoTTL.
MemoEntry_NotCut(c, st, until) ==
  IF call[c].key # Base \/ st = "half_open" THEN NoMemo
  ELSE [set |-> TRUE, allow |-> st = "closed", expires |-> At(c) + MemoTTL]

\* The memo entry a reply leads to: none for a rule's key or for half_open;
\* otherwise it lasts memoTTL, cut to the end `until' of the open episode
\* (memoExpiry), counted from the clock reading before the script.
MemoEntry(c, st, until) ==
  LET end == At(c) + MemoTTL IN
  IF call[c].key # Base \/ st = "half_open" THEN NoMemo
  ELSE [set |-> TRUE, allow |-> st = "closed",
        expires |-> IF st = "open" /\ until < end THEN until ELSE end]

MemoPut(c) ==
  memo' = IF call[c].reply.set THEN [memo EXCEPT ![call[c].inst] = call[c].reply] ELSE memo

MemoHit(i) == memo[i].set /\ Clock(i) < memo[i].expires

\* Whether a script may still reach Redis, and whether its reply may be lost:
\* the client then retries the same script with the same arguments.
Timely(c) == now - call[c].sent <= MaxDelay
Losses    == IF "reply_lost" \in Faults THEN BOOLEAN ELSE {FALSE}

-----------------------------------------------------------------------------
(* allowDengan: the fast path, the script, its reply.                       *)

\* Mutant: a hit renews the entry, so a busy instance never asks again.
AskMemo_Slides(c, i) ==
  /\ call[c].phase = "idle" /\ Base \in Asked
  /\ MemoHit(i) /\ memo[i].allow
  /\ memo' = [memo EXCEPT ![i] = [@ EXCEPT !.expires = Clock(i) + MemoTTL]]
  /\ call' = [call EXCEPT ![c] = [IdleCall EXCEPT !.phase = "running", !.inst = i]]
  /\ UNCHANGED <<now, hash, transisi, reset, cur, flipAt>>

\* A fresh memo that admits: the call runs without asking Redis.  (A memo that
\* refuses changes nothing.)
AskMemo(c, i) ==
  /\ call[c].phase = "idle" /\ Base \in Asked
  /\ MemoHit(i) /\ memo[i].allow
  /\ call' = [call EXCEPT ![c] = [IdleCall EXCEPT !.phase = "running", !.inst = i]]
  /\ UNCHANGED <<now, hash, memo, transisi, reset, cur, flipAt>>

AskRedis(c, i, k) ==
  /\ call[c].phase = "idle"
  /\ k = Base => ~MemoHit(i)
  /\ call' = [call EXCEPT ![c] = [IdleCall EXCEPT !.phase = "asking", !.inst = i,
                                                  !.key = k, !.sent = now]]
  /\ UNCHANGED <<now, hash, memo, transisi, reset, cur, flipAt>>

\* allowScript when it writes nothing: closed admits; open, and half_open with
\* its probes given out, refuse.
AllowReads(c) ==
  LET h == HashOf(c)  t == At(c) IN
  /\ call[c].phase = "asking" /\ Timely(c)
  /\ ~CanProbe(h, t)
  /\ call' = [call EXCEPT ![c] = [@ EXCEPT !.phase = "answered", !.sent = 0,
                 !.allow = (StateOf(h, t) = "closed"),
                 !.reply = MemoEntry(c, StateOf(h, t), h.openUntil)]]
  /\ UNCHANGED <<now, hash, memo, transisi, reset, cur, flipAt>>

\* allowScript granting a probe.  A lost reply leaves the probe counted with no
\* call to report it, and the client asking again.
AllowProbe(c, lost) ==
  LET h == HashOf(c)  t == At(c)  k == call[c].key
      others == IF NewWindow(h, t) THEN cur \ CallsOn(k) ELSE cur
  IN
  /\ call[c].phase = "asking" /\ Timely(c)
  /\ CanProbe(h, t)
  /\ hash' = [hash EXCEPT ![k] = WithProbe(h, t)]
  /\ IF lost
     THEN cur' = others /\ UNCHANGED call
     ELSE /\ cur' = others \cup {c}
          /\ call' = [call EXCEPT ![c] = [@ EXCEPT !.phase = "answered", !.sent = 0,
                         !.allow = TRUE, !.token = WithProbe(h, t).probesAt]]
  /\ UNCHANGED <<now, memo, transisi, reset, flipAt>>

Running(c, token) ==
  [IdleCall EXCEPT !.phase = "running", !.inst = call[c].inst,
                   !.key = call[c].key, !.token = token]

\* The reply: memoPut unless half_open, then run or give up.
AllowReturns(c) ==
  /\ call[c].phase = "answered"
  /\ MemoPut(c)
  /\ call' = [call EXCEPT ![c] = IF call[c].allow THEN Running(c, call[c].token)
                                ELSE IdleCall]
  /\ UNCHANGED <<now, hash, transisi, reset, cur, flipAt>>

\* Redis failed or timed out: the call is let through, as no probe.
AllowFails(c) ==
  /\ call[c].phase = "asking"
  /\ "redis_down" \in Faults \/ ~Timely(c)
  /\ call' = [call EXCEPT ![c] = Running(c, 0)]
  /\ UNCHANGED <<now, hash, memo, transisi, reset, cur, flipAt>>

-----------------------------------------------------------------------------
(* The attempt ends: with a result to report, or with none (cancelled, or a *)
(* kind dikecualikanDariPencatatanBreaker excludes), its probe then unused. *)

Finish(c, ok) ==
  /\ call[c].phase = "running"
  /\ call' = [call EXCEPT ![c] = [@ EXCEPT !.phase = "reporting", !.sent = now, !.ok = ok]]
  /\ UNCHANGED <<now, hash, memo, transisi, reset, cur, flipAt>>

Abandon(c) ==
  /\ call[c].phase = "running"
  /\ call' = [call EXCEPT ![c] = IdleCall]
  /\ cur'  = cur \ {c}
  /\ UNCHANGED <<now, hash, memo, transisi, reset, flipAt>>

-----------------------------------------------------------------------------
(* recordDengan: the script, its reply.                                     *)

Reported(c, reply, news) ==
  [IdleCall EXCEPT !.phase = "reported", !.inst = call[c].inst, !.key = call[c].key,
                   !.reply = reply, !.news = news]

RecordReply(c, lost, st, until, changed) ==
  call' = IF lost THEN call
          ELSE [call EXCEPT ![c] = Reported(c, MemoEntry(c, st, until),
                                            IF changed THEN st ELSE "none")]

\* Mutants: any probe decides (before B-461); any result decides (before V-BR-03).
IsVerdict_AnyProbe(c)  == call[c].token # 0
IsVerdict_AnyResult(c) == TRUE

\* Only a probe of the window that is current decides a half-open episode.
IsVerdict(c) == call[c].token # 0 /\ call[c].token = HashOf(c).probesAt

\* Open: the result belongs to a call admitted earlier.  Half-open: it is no
\* probe of this window.  Nothing changes.
RecordIgnored(c) ==
  LET h == HashOf(c)  st == StateOf(h, At(c)) IN
  /\ call[c].phase = "reporting" /\ Timely(c)
  /\ st = "open" \/ (st = "half_open" /\ ~IsVerdict(c))
  /\ RecordReply(c, FALSE, st, h.openUntil, FALSE)
  /\ cur' = cur \ {c}
  /\ UNCHANGED <<now, hash, memo, transisi, reset, flipAt>>

\* The verdict of a half-open episode: the hash is deleted; a failure reopens it.
RecordVerdict(c, lost) ==
  LET k == call[c].key  t == At(c)  ok == call[c].ok IN
  /\ call[c].phase = "reporting" /\ Timely(c)
  /\ StateOf(HashOf(c), t) = "half_open" /\ IsVerdict(c)
  /\ hash'   = [hash EXCEPT ![k] = IF ok THEN EmptyHash ELSE Opened(t)]
  /\ cur'    = cur \ CallsOn(k)
  /\ flipAt' = IF ok /\ k = Base THEN now ELSE flipAt
  /\ RecordReply(c, lost, IF ok THEN "closed" ELSE "open", hash'[k].openUntil, TRUE)
  /\ UNCHANGED <<now, memo, transisi, reset>>

\* Closed: the sample is added, and may trip the breaker.
RecordSample(c, lost) ==
  LET h == HashOf(c)  k == call[c].key  t == At(c)  ok == call[c].ok
      trip == Trips(h, t, ok)
  IN
  /\ call[c].phase = "reporting" /\ Timely(c)
  /\ StateOf(h, t) = "closed"
  /\ h.tot[Bucket(t)] < BucketCap
  /\ hash'   = [hash EXCEPT ![k] = IF trip THEN Opened(t) ELSE WithSample(h, t, ok)]
  /\ flipAt' = IF trip /\ k = Base THEN now ELSE flipAt
  /\ RecordReply(c, lost, IF trip THEN "open" ELSE "closed", hash'[k].openUntil, trip)
  /\ UNCHANGED <<now, memo, transisi, reset, cur>>

\* sampaikanTransisi: the listener hears only a change from what this instance
\* told it last about this key.
Announce(i, k, st) == transisi' = [transisi EXCEPT ![i][k] = st]

RecordReturns(c) ==
  /\ call[c].phase = "reported"
  /\ MemoPut(c)
  /\ IF call[c].news # "none" THEN Announce(call[c].inst, call[c].key, call[c].news)
     ELSE UNCHANGED transisi
  /\ call' = [call EXCEPT ![c] = IdleCall]
  /\ UNCHANGED <<now, hash, reset, cur, flipAt>>

RecordFails(c) ==
  /\ call[c].phase = "reporting"
  /\ "redis_down" \in Faults \/ ~Timely(c)
  /\ call' = [call EXCEPT ![c] = IdleCall]
  /\ cur'  = cur \ {c}
  /\ UNCHANGED <<now, hash, memo, transisi, reset, flipAt>>

-----------------------------------------------------------------------------
(* Reset: scan and read the states, DEL what the scan found, then drop this *)
(* instance's memo and announce the recovery.                               *)

NoReset == [pc |-> "idle", inst |-> Nobody, keys |-> {}, open |-> FALSE]

ResetReads(i) ==
  LET found == {Base} \cup {k \in Rules : hash[k] # EmptyHash} IN
  /\ "reset" \in Faults /\ reset.pc = "idle"
  /\ reset' = [pc |-> "read", inst |-> i, keys |-> found,
               open |-> \E k \in found : StateOf(hash[k], Clock(i)) # "closed"]
  /\ UNCHANGED <<now, hash, memo, transisi, call, cur, flipAt>>

\* Mutant: only the open deadline is cleared, the probe quota stays.
ResetDeletes_KeepsProbes ==
  /\ reset.pc = "read"
  /\ hash'   = [k \in Keys |-> IF k \in reset.keys THEN [hash[k] EXCEPT !.openUntil = 0]
                              ELSE hash[k]]
  /\ cur'    = cur \ UNION {CallsOn(k) : k \in reset.keys}
  /\ flipAt' = IF hash[Base].openUntil # 0 THEN now ELSE flipAt
  /\ reset'  = [reset EXCEPT !.pc = "deleted"]
  /\ UNCHANGED <<now, memo, transisi, call>>

ResetDeletes ==
  /\ reset.pc = "read"
  /\ hash'   = [k \in Keys |-> IF k \in reset.keys THEN EmptyHash ELSE hash[k]]
  /\ cur'    = cur \ UNION {CallsOn(k) : k \in reset.keys}
  /\ flipAt' = IF hash[Base].openUntil # 0 THEN now ELSE flipAt
  /\ reset'  = [reset EXCEPT !.pc = "deleted"]
  /\ UNCHANGED <<now, memo, transisi, call>>

\* The deleted keys are aligned first, then Base is announced as recovered.
ResetAnnounces ==
  LET i == reset.inst IN
  /\ reset.pc = "deleted"
  /\ memo' = [memo EXCEPT ![i] = NoMemo]
  /\ IF reset.open
     THEN transisi' = [transisi EXCEPT ![i] =
                         [k \in Keys |-> IF k \in reset.keys THEN "closed" ELSE @[k]]]
     ELSE UNCHANGED transisi
  /\ reset' = NoReset
  /\ UNCHANGED <<now, hash, call, cur, flipAt>>

-----------------------------------------------------------------------------
(* The environment.                                                         *)

\* memoPut of the 4096th other key discards the whole memo.
MemoFlush(i) ==
  /\ "memo_flush" \in Faults
  /\ memo[i].set
  /\ memo' = [memo EXCEPT ![i] = NoMemo]
  /\ UNCHANGED <<now, hash, transisi, call, reset, cur, flipAt>>

\* A process dies and is replaced: its memory and its calls are gone.
Crash(i) ==
  /\ "crash" \in Faults
  /\ memo' = [memo EXCEPT ![i] = NoMemo]
  /\ transisi' = [transisi EXCEPT ![i] = [k \in Keys |-> "none"]]
  /\ call' = [c \in Calls |-> IF call[c].inst = i THEN IdleCall ELSE call[c]]
  /\ cur' = {c \in cur : call[c].inst # i}
  /\ reset' = IF reset.inst = i THEN NoReset ELSE reset
  /\ UNCHANGED <<now, hash, flipAt>>

\* Time passes; Redis drops the keys whose TTL has run out.
Tick ==
  LET expired == {k \in Keys : hash[k].expireAt # 0 /\ hash[k].expireAt <= now + 1} IN
  /\ now < MaxTime
  /\ now'  = now + 1
  /\ hash' = [k \in Keys |-> IF k \in expired THEN EmptyHash ELSE hash[k]]
  /\ cur'  = cur \ UNION {CallsOn(k) : k \in expired}
  /\ flipAt' = IF Base \in expired /\ hash[Base].openUntil # 0 THEN now + 1 ELSE flipAt
  /\ UNCHANGED <<memo, transisi, call, reset>>

-----------------------------------------------------------------------------

\* The clock starts above 0, as epoch milliseconds do: 0 means "not set".
Init ==
  /\ now = 1
  /\ hash = [k \in Keys |-> EmptyHash]
  /\ memo = [i \in Instances |-> NoMemo]
  /\ transisi = [i \in Instances |-> [k \in Keys |-> "none"]]
  /\ call = [c \in Calls |-> IdleCall]
  /\ reset = NoReset
  /\ cur = {}
  /\ flipAt = 0

Ask(c)    == \E i \in Instances : AskMemo(c, i) \/ \E k \in Asked : AskRedis(c, i, k)
Answer(c) == AllowReads(c) \/ (\E lost \in Losses : AllowProbe(c, lost)) \/ AllowFails(c)
End(c)    == (\E ok \in BOOLEAN : Finish(c, ok)) \/ Abandon(c)
Record(c) == RecordIgnored(c) \/ RecordFails(c)
             \/ \E lost \in Losses : RecordVerdict(c, lost) \/ RecordSample(c, lost)

CallStep(c) == Ask(c) \/ Answer(c) \/ AllowReturns(c) \/ End(c) \/ Record(c) \/ RecordReturns(c)

ResetStep == (\E i \in Instances : ResetReads(i)) \/ ResetDeletes \/ ResetAnnounces

Next ==
  \/ Tick
  \/ \E c \in Calls : CallStep(c)
  \/ ResetStep
  \/ \E i \in Instances : MemoFlush(i) \/ Crash(i)

Spec == Init /\ [][Next]_vars

-----------------------------------------------------------------------------
(* Properties.                                                              *)

Time == 0 .. (MaxTime + MaxSkew + KeyTTL + MemoTTL)

HashType == [openUntil : Time, probes : 0 .. HalfOpenProbes, probesAt : Time,
             tot : [Buckets -> 0 .. BucketCap], fail : [Buckets -> 0 .. BucketCap],
             expireAt : Time]

MemoType == [set : BOOLEAN, allow : BOOLEAN, expires : Time]

CallType == [phase : Phases, inst : Instances \cup {Nobody}, key : Keys, sent : Time,
             token : Time, ok : BOOLEAN, allow : BOOLEAN, reply : MemoType,
             news : {"none", "closed", "open"}]

\* Every variable stays within its type; in particular the probes granted in a
\* window never exceed HalfOpenProbes, whatever order the scripts run in.
TypeOK ==
  /\ now \in 1 .. MaxTime
  /\ hash \in [Keys -> HashType]
  /\ memo \in [Instances -> MemoType]
  /\ transisi \in [Instances -> [Keys -> {"none", "closed", "open"}]]
  /\ call \in [Calls -> CallType]
  /\ reset \in [pc : {"idle", "read", "deleted"}, inst : Instances \cup {Nobody},
                keys : SUBSET Keys, open : BOOLEAN]
  /\ cur \subseteq Calls
  /\ flipAt \in Time

\* The calls that hold a probe of key k's current window.
ProbesOn(k) == {c \in cur : call[c].key = k}

\* The upstream under test receives at most HalfOpenProbes requests of one
\* window: no interleaving of instances, lost replies, retries, crashes or
\* resets lets more calls hold a probe of the current window than were counted.
ProbeQuota ==
  \A k \in Keys : /\ Cardinality(ProbesOn(k)) <= hash[k].probes
                  /\ hash[k].probes <= HalfOpenProbes

\* A call's token equals the key's probes_at exactly when the call's probe was
\* granted in the current window (B-461): no token of an earlier window or
\* episode, however late its call reports, passes for a current one.
TokenIdentifiesWindow ==
  \A c \in Calls : call[c].token # 0 =>
     (call[c].token = HashOf(c).probesAt <=> c \in cur)

\* A half-open or open episode ends or is replaced only by the report of a probe
\* of the current window, by Reset, or by the key's TTL: never by a stale result
\* (V-BR-03), nor by a call that was let through while Redis was down.
VerdictByCurrentProbe ==
  [][\A k \in Keys :
       (hash[k].openUntil # 0 /\ hash'[k].openUntil # hash[k].openUntil) =>
          \/ reset.pc = "read" /\ reset'.pc = "deleted"
          \/ now' # now /\ hash[k].expireAt <= now'
          \/ \E c \in ProbesOn(k) : call[c].phase = "reporting"]_vars

\* While an episode is open, results still arriving from calls admitted before
\* it leave it exactly as it is: they neither extend nor end it, and no probe is
\* granted early, whichever instance's clock is used.
OpenIsLeftAlone ==
  [][\A k \in Keys :
       (now + MaxSkew < hash[k].openUntil /\ hash'[k] # hash[k]) =>
          reset.pc = "read" /\ reset'.pc = "deleted"]_vars

\* An instance's memo contradicts Redis for at most memoTTL (plus its clock
\* skew) after the circuit opened or closed: the comment on memoTTL.  A reply
\* that arrives late does not stretch it, since the clock was read first.
MemoStalenessBounded ==
  \A i \in Instances :
     (memo[i].set /\ (memo[i].allow # (hash[Base].openUntil = 0))) =>
        memo[i].expires <= flipAt + MemoTTL + MaxSkew

\* A cached refusal outlives no open episode by more than the difference of the
\* clocks and the delay of the script that opened it, whichever instance's report
\* that was, and also when an operator's reset came between: the memo delays no
\* probe (memoExpiry).
MemoDenialEndsWithEpisode ==
  \A i \in Instances :
     (memo[i].set /\ ~memo[i].allow /\ hash[Base].openUntil # 0) =>
        memo[i].expires <= hash[Base].openUntil + MaxSkew + MaxDelay

\* Under traffic, every probe window comes to an end, also when the calls that
\* hold its probes die without reporting (probeWait): the circuit does not stay
\* half-open with its quota spent.  Within the horizon MaxTime.
ProbeWindowEnds ==
  \A k \in Keys : \A p \in 1 .. (MaxTime - ProbeWait) :
     (hash[k].probesAt = p) ~> (hash[k].probesAt # p)

\* The circuit a reader of the true time sees in the hash of key k.
CircuitOf(k) == INSTANCE Circuit WITH
  Quota <- HalfOpenProbes, mode <- StateOf(hash[k], now), probing <- hash[k].probes

\* The breaker implements the three-state circuit: with Redis scripts run by
\* instances whose clocks agree, but late, twice or in any order, each change of
\* a key is one step of Circuit.
Promise ==
  /\ \A k \in Keys : CircuitOf(k)!CInit
  /\ [][\A k \in Keys : CircuitOf(k)!CNext \/ UNCHANGED CircuitOf(k)!cvars]_vars

-----------------------------------------------------------------------------
(* Fairness: the process's own steps are taken (timeouts end every script   *)
(* call and every attempt), time passes, and requests keep arriving.        *)

Fairness ==
  /\ WF_vars(Tick)
  /\ \A c \in Calls : /\ WF_vars(Ask(c)) /\ WF_vars(Answer(c)) /\ WF_vars(AllowReturns(c))
                      /\ WF_vars(End(c)) /\ WF_vars(Record(c)) /\ WF_vars(RecordReturns(c))

FairSpec == Spec /\ Fairness

=============================================================================
