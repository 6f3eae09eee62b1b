--------------------------- MODULE BreakerProofs ---------------------------
(***************************************************************************)
(* Theorems about Breaker, for every number of instances, calls and rules, *)
(* every configuration and every clock and fault the assumptions allow.    *)
(***************************************************************************)
EXTENDS Breaker, FiniteSetTheorems, TLAPS

(***************************************************************************)
(* Type correctness.  The cap on a bucket is tested on its total only, so  *)
(* the invariant says that the failures of a bucket are among its results. *)
(***************************************************************************)

FailuresAreResults == \A k \in Keys : \A b \in Buckets : hash[k].fail[b] <= hash[k].tot[b]

\* A call that is under way belongs to an instance, and its clock reading is past.
CallsAreTimed ==
  \A c \in Calls : /\ call[c].phase # "idle" => call[c].inst \in Instances
                   /\ call[c].sent <= now

TInv == TypeOK /\ FailuresAreResults /\ CallsAreTimed

\* The configured durations are numbers, and a key outlives an open period.
LEMMA Durations ==
  /\ OpenDuration \in Nat /\ OpenDuration > 0 /\ HalfOpenProbes \in Nat /\ HalfOpenProbes > 0
  /\ MemoTTL \in Nat /\ BucketCap \in Nat
  /\ MaxTime \in Nat /\ MaxTime > 0 /\ MaxSkew \in Nat /\ MaxDelay \in Nat
  /\ KeyTTL \in Nat /\ KeyTTL > OpenDuration
  /\ Base \in Keys
<1>1. WindowBuckets \in Nat /\ BucketWidth \in Nat
  BY ConfigAssumption
<1>2. Window \in Nat
  BY <1>1 DEF Window
<1>3. QED
  BY <1>2, ConfigAssumption, TimeAssumption DEF KeyTTL, ProbeWait, Keys

LEMMA EmptyHashType == EmptyHash \in HashType
<1>1. 0 \in Time /\ 0 \in 0 .. HalfOpenProbes /\ 0 \in 0 .. BucketCap
  BY Durations DEF Time
<1>2. QED
  BY <1>1 DEF EmptyHash, HashType

LEMMA IdleCallType == IdleCall \in CallType /\ NoMemo \in MemoType
<1>1. 0 \in Time /\ Base \in Keys
  BY Durations DEF Time
<1>2. NoMemo \in MemoType
  BY <1>1 DEF NoMemo, MemoType
<1>3. QED
  BY <1>1, <1>2 DEF IdleCall, CallType, Phases

THEOREM InitTInv == Init => TInv
<1> SUFFICES ASSUME Init PROVE TInv
  OBVIOUS
<1>1. \A k \in Keys : hash[k] = EmptyHash
  BY DEF Init
<1>2. now \in Time
  BY Durations DEF Init, Time
<1>3. TypeOK
  BY <1>2, EmptyHashType, IdleCallType, Durations DEF TypeOK, Init, NoReset, Time
<1>4. FailuresAreResults
  BY <1>1 DEF FailuresAreResults, EmptyHash
<1>5. QED
  BY <1>3, <1>4, IdleCallType DEF TInv, CallsAreTimed, Init, IdleCall

(* The clock reading a script carries: never ahead of true time by more than *)
(* the skew, and, when the script is timely, not long past.                  *)
LEMMA ClockReading ==
  ASSUME TInv, NEW c \in Calls, call[c].phase # "idle"
  PROVE  /\ At(c) \in Nat /\ At(c) <= now + MaxSkew
         /\ call[c].sent \in Nat /\ At(c) >= call[c].sent
         /\ Timely(c) => At(c) >= now - MaxDelay
<1>1. call[c].inst \in Instances /\ call[c].sent <= now /\ call[c].sent \in Nat /\ now \in Nat
  BY Durations DEF TInv, CallsAreTimed, TypeOK, CallType, Time
<1>2. Skew[call[c].inst] \in Nat /\ Skew[call[c].inst] <= MaxSkew
  BY <1>1, TimeAssumption
<1>3. QED
  BY <1>1, <1>2, Durations DEF At, Timely

LEMMA OpenedType ==
  ASSUME now \in 1 .. MaxTime, NEW t \in Nat, t <= now + MaxSkew
  PROVE  Opened(t) \in HashType /\ Opened(t).openUntil = t + OpenDuration
         /\ Opened(t).probesAt = 0 /\ Opened(t).probes = 0
         /\ \A b \in Buckets : Opened(t).fail[b] = 0 /\ Opened(t).tot[b] = 0
<1>1. t + OpenDuration \in Time /\ now + KeyTTL \in Time
  BY Durations DEF Time
<1>2. 0 \in Time /\ 0 \in 0 .. HalfOpenProbes /\ 0 \in 0 .. BucketCap
  BY Durations DEF Time
<1>3. QED
  BY <1>1, <1>2 DEF Opened, EmptyHash, HashType

LEMMA WithProbeType ==
  ASSUME now \in 1 .. MaxTime, NEW t \in Nat, t <= now + MaxSkew,
         NEW h \in HashType, CanProbe(h, t)
  PROVE  WithProbe(h, t) \in HashType
         /\ WithProbe(h, t).openUntil = h.openUntil
         /\ WithProbe(h, t).fail = h.fail /\ WithProbe(h, t).tot = h.tot
<1>1. t \in Time /\ now + KeyTTL \in Time
  BY Durations DEF Time
<1>2. Granted(h, t) + 1 \in 0 .. HalfOpenProbes
  BY Durations DEF CanProbe, Granted, HashType
<1>3. QED
  BY <1>1, <1>2 DEF WithProbe, HashType

LEMMA WithSampleType ==
  ASSUME now \in 1 .. MaxTime, NEW t \in Nat, NEW h \in HashType, NEW ok \in BOOLEAN,
         \A b \in Buckets : h.fail[b] <= h.tot[b], h.tot[Bucket(t)] < BucketCap
  PROVE  /\ WithSample(h, t, ok) \in HashType
         /\ WithSample(h, t, ok).openUntil = h.openUntil
         /\ WithSample(h, t, ok).probesAt = h.probesAt
         /\ \A b \in Buckets : WithSample(h, t, ok).fail[b] <= WithSample(h, t, ok).tot[b]
<1> DEFINE Kept(f, n) == [b \in Buckets |->
             IF b \notin InWindow(t) THEN 0 ELSE IF b = Bucket(t) THEN f[b] + n ELSE f[b]]
           miss == IF ok THEN 0 ELSE 1
<1>1. now + KeyTTL \in Time /\ 0 \in 0 .. BucketCap
  BY Durations DEF Time
<1>2. h.tot \in [Buckets -> 0 .. BucketCap] /\ h.fail \in [Buckets -> 0 .. BucketCap]
  BY DEF HashType
<1>3. miss \in {0, 1}
  OBVIOUS
<1>4. \A b \in Buckets : /\ Kept(h.tot, 1)[b] \in 0 .. BucketCap
                        /\ Kept(h.fail, miss)[b] \in 0 .. BucketCap
                        /\ Kept(h.fail, miss)[b] <= Kept(h.tot, 1)[b]
  <2> HIDE DEF miss
  <2> TAKE b \in Buckets
  <2>1. h.tot[b] \in 0 .. BucketCap /\ h.fail[b] \in 0 .. BucketCap /\ h.fail[b] <= h.tot[b]
    BY <1>2
  <2>2. CASE b \notin InWindow(t)
    BY <2>2, <1>1
  <2>3. CASE b \in InWindow(t) /\ b # Bucket(t)
    BY <2>3, <2>1
  <2>4. CASE b \in InWindow(t) /\ b = Bucket(t)
    BY <2>4, <2>1, <1>3, Durations
  <2>5. QED
    BY <2>2, <2>3, <2>4
<1>5. WithSample(h, t, ok) = [h EXCEPT !.tot = Kept(h.tot, 1), !.fail = Kept(h.fail, miss),
                                       !.expireAt = now + KeyTTL]
  BY DEF WithSample
<1>6. Kept(h.tot, 1) \in [Buckets -> 0 .. BucketCap] /\ Kept(h.fail, miss) \in [Buckets -> 0 .. BucketCap]
  BY <1>4
<1> HIDE DEF Kept, miss
<1>7. QED
  BY <1>1, <1>4, <1>5, <1>6 DEF HashType

LEMMA MemoEntryType ==
  ASSUME TInv, NEW c \in Calls, call[c].phase # "idle",
         NEW st, NEW until \in Time
  PROVE  MemoEntry(c, st, until) \in MemoType
<1>1. At(c) \in Nat /\ At(c) <= MaxTime + MaxSkew
  BY ClockReading, Durations DEF TInv, TypeOK
<1>2. At(c) + MemoTTL \in Time
  BY <1>1, Durations DEF Time
<1>3. QED
  BY <1>2, IdleCallType DEF MemoEntry, MemoType

(* Every step keeps the types: one step of the proof per action.             *)
LEMMA StepTInv == TInv /\ [Next]_vars => TInv'
<1> SUFFICES ASSUME TInv, [Next]_vars PROVE TInv'
  OBVIOUS
<1> USE DEF TInv
<1>t. /\ now \in 1 .. MaxTime /\ now \in Nat /\ now \in Time /\ 0 \in Time
      /\ hash \in [Keys -> HashType] /\ call \in [Calls -> CallType]
      /\ memo \in [Instances -> MemoType]
  BY Durations DEF TypeOK, Time
<1>h. ASSUME NEW c \in Calls PROVE HashOf(c) \in HashType /\ call[c].key \in Keys /\ call[c].token \in Time
  BY <1>t DEF HashOf, CallType
<1>u. ASSUME NEW c \in Calls, NEW r \in CallType, r.sent \in {0, now},
             r.phase # "idle" => r.inst \in Instances,
             call' = [call EXCEPT ![c] = r], now' = now
      PROVE  call' \in [Calls -> CallType] /\ CallsAreTimed'
  BY <1>u, <1>t DEF CallsAreTimed
<1>r. ASSUME NEW c \in Calls, call[c].phase # "idle", NEW m \in MemoType,
             NEW news \in {"none", "closed", "open"},
             call' = [call EXCEPT ![c] = Reported(c, m, news)], now' = now
      PROVE  call' \in [Calls -> CallType] /\ CallsAreTimed'
  <2>1. call[c].inst \in Instances /\ call[c] \in CallType
    BY <1>r, <1>t DEF CallsAreTimed
  <2>2. Reported(c, m, news) \in CallType /\ Reported(c, m, news).sent = 0
        /\ Reported(c, m, news).inst = call[c].inst
    BY <2>1, <1>r, <1>t, IdleCallType DEF Reported, IdleCall, CallType, Phases
  <2>3. QED
    BY <1>r, <2>1, <2>2, <1>u
<1>1. ASSUME NEW c \in Calls, NEW i \in Instances, AskMemo(c, i) PROVE TInv'
  <2>1. call'[c] \in CallType /\ call' \in [Calls -> CallType]
    BY <1>1, <1>t, IdleCallType DEF AskMemo, CallType, Phases, IdleCall
  <2>2. CallsAreTimed'
    BY <1>1, <1>t DEF AskMemo, CallsAreTimed, IdleCall
  <2>3. QED
    BY <1>1, <2>1, <2>2 DEF AskMemo, TypeOK, FailuresAreResults
<1>2. ASSUME NEW c \in Calls, NEW i \in Instances, NEW k \in Asked, AskRedis(c, i, k) PROVE TInv'
  <2>0. k \in Keys
    BY KeysAssumption
  <2>1. call' \in [Calls -> CallType]
    BY <1>2, <1>t, <2>0, IdleCallType DEF AskRedis, CallType, Phases, IdleCall
  <2>2. CallsAreTimed'
    BY <1>2, <1>t DEF AskRedis, CallsAreTimed, IdleCall
  <2>3. QED
    BY <1>2, <2>1, <2>2 DEF AskRedis, TypeOK, FailuresAreResults
<1>3. ASSUME NEW c \in Calls, AllowReads(c) PROVE TInv'
  <2> DEFINE st == StateOf(HashOf(c), At(c))
             m  == MemoEntry(c, st, HashOf(c).openUntil)
  <2>1. m \in MemoType
    BY <1>3, <1>h, MemoEntryType DEF AllowReads, HashType
  <2> DEFINE r == [call[c] EXCEPT !.phase = "answered", !.sent = 0, !.allow = (st = "closed"), !.reply = m]
  <2>2. call' = [call EXCEPT ![c] = r] /\ now' = now
    BY <1>3, <1>t DEF AllowReads
  <2>3. (st = "closed") \in BOOLEAN /\ call[c].inst \in Instances /\ call[c] \in CallType
    BY <1>3, <1>t DEF CallsAreTimed, AllowReads
  <2> HIDE DEF m, st
  <2>4. r \in CallType /\ r.sent = 0 /\ r.inst = call[c].inst
    BY <2>1, <2>3, <1>t DEF CallType, Phases
  <2> HIDE DEF r
  <2>5. call' \in [Calls -> CallType] /\ CallsAreTimed'
    BY <2>2, <2>3, <2>4, <1>u
  <2>6. QED
    BY <1>3, <2>5 DEF AllowReads, TypeOK, FailuresAreResults
<1>4. ASSUME NEW c \in Calls, NEW lost \in BOOLEAN, AllowProbe(c, lost) PROVE TInv'
  <2> DEFINE h2 == WithProbe(HashOf(c), At(c))
  <2>1. h2 \in HashType /\ h2.fail = HashOf(c).fail /\ h2.tot = HashOf(c).tot
    BY <1>4, <1>h, <1>t, WithProbeType, ClockReading DEF AllowProbe
  <2>2. hash' = [hash EXCEPT ![call[c].key] = h2]
    BY <1>4 DEF AllowProbe
  <2> DEFINE r == [call[c] EXCEPT !.phase = "answered", !.sent = 0, !.allow = TRUE, !.token = h2.probesAt]
  <2>3. (call' = call \/ call' = [call EXCEPT ![c] = r]) /\ now' = now
    BY <1>4, <1>t DEF AllowProbe
  <2>4. cur' \subseteq Calls
    BY <1>4 DEF AllowProbe, TypeOK
  <2>5. h2.probesAt \in Time /\ call[c].inst \in Instances /\ call[c] \in CallType
    BY <1>4, <2>1, <1>t DEF CallsAreTimed, AllowProbe, HashType
  <2> HIDE DEF h2
  <2>6. r \in CallType /\ r.sent = 0 /\ r.inst = call[c].inst
    BY <2>5, <1>t DEF CallType, Phases
  <2> HIDE DEF r
  <2>7. call' \in [Calls -> CallType] /\ CallsAreTimed'
    BY <2>3, <2>5, <2>6, <1>u, <1>t DEF CallsAreTimed
  <2>8. hash' \in [Keys -> HashType] /\ FailuresAreResults'
    BY <2>1, <2>2, <1>h, <1>t DEF FailuresAreResults, HashOf
  <2>9. QED
    BY <1>4, <2>4, <2>7, <2>8 DEF AllowProbe, TypeOK
<1>5. ASSUME NEW c \in Calls, AllowReturns(c) PROVE TInv'
  <2>1. call[c].inst \in Instances /\ call[c].reply \in MemoType /\ call[c] \in CallType
    BY <1>5, <1>t DEF CallsAreTimed, AllowReturns, CallType
  <2>2. memo' \in [Instances -> MemoType]
    BY <1>5, <2>1, <1>t DEF AllowReturns, MemoPut
  <2>3. Running(c, call[c].token) \in CallType /\ Running(c, call[c].token).sent = 0
        /\ Running(c, call[c].token).inst = call[c].inst /\ IdleCall.sent = 0
        /\ IdleCall.phase = "idle"
    BY <2>1, IdleCallType, <1>t DEF Running, IdleCall, CallType, Phases
  <2> DEFINE r == IF call[c].allow THEN Running(c, call[c].token) ELSE IdleCall
  <2>4. r \in CallType /\ r.sent = 0 /\ (r.phase # "idle" => r.inst \in Instances)
    BY <2>1, <2>3, IdleCallType
  <2>5. call' = [call EXCEPT ![c] = r] /\ now' = now
    BY <1>5, <1>t DEF AllowReturns
  <2> HIDE DEF r
  <2>6. call' \in [Calls -> CallType] /\ CallsAreTimed'
    BY <2>4, <2>5, <1>u
  <2>7. QED
    BY <1>5, <2>2, <2>6 DEF AllowReturns, TypeOK, FailuresAreResults
<1>6. ASSUME NEW c \in Calls, AllowFails(c) PROVE TInv'
  <2>1. call[c].inst \in Instances /\ call[c] \in CallType
    BY <1>6, <1>t DEF CallsAreTimed, AllowFails
  <2>2. Running(c, 0) \in CallType /\ Running(c, 0).sent = 0 /\ Running(c, 0).inst = call[c].inst
    BY <2>1, IdleCallType, <1>t DEF Running, IdleCall, CallType, Phases
  <2>3. call' = [call EXCEPT ![c] = Running(c, 0)] /\ now' = now
    BY <1>6 DEF AllowFails
  <2>4. call' \in [Calls -> CallType] /\ CallsAreTimed'
    BY <2>1, <2>2, <2>3, <1>u
  <2>5. QED
    BY <1>6, <2>4 DEF AllowFails, TypeOK, FailuresAreResults
<1>7. ASSUME NEW c \in Calls, NEW ok \in BOOLEAN, Finish(c, ok) PROVE TInv'
  <2> DEFINE r == [call[c] EXCEPT !.phase = "reporting", !.sent = now, !.ok = ok]
  <2>1. call' = [call EXCEPT ![c] = r] /\ now' = now
    BY <1>7, <1>t DEF Finish
  <2>2. call[c].inst \in Instances /\ call[c] \in CallType
    BY <1>7, <1>t DEF CallsAreTimed, Finish
  <2>3. r \in CallType /\ r.sent = now /\ r.inst = call[c].inst
    BY <2>2, <1>t DEF CallType, Phases
  <2> HIDE DEF r
  <2>4. call' \in [Calls -> CallType] /\ CallsAreTimed'
    BY <2>1, <2>2, <2>3, <1>u
  <2>5. QED
    BY <1>7, <2>4 DEF Finish, TypeOK, FailuresAreResults
<1>8. ASSUME NEW c \in Calls, Abandon(c) \/ RecordFails(c) PROVE TInv'
  <2>1. call' = [call EXCEPT ![c] = IdleCall] /\ now' = now
    BY <1>8 DEF Abandon, RecordFails
  <2>2. IdleCall.sent = 0 /\ IdleCall.phase = "idle"
    BY DEF IdleCall
  <2>3. call' \in [Calls -> CallType] /\ CallsAreTimed'
    BY <2>1, <2>2, IdleCallType, <1>u
  <2>4. QED
    BY <1>8, <2>3 DEF Abandon, RecordFails, TypeOK, FailuresAreResults
<1>9. ASSUME NEW c \in Calls, RecordIgnored(c) PROVE TInv'
  <2> DEFINE m == MemoEntry(c, StateOf(HashOf(c), At(c)), HashOf(c).openUntil)
  <2>1. m \in MemoType
    BY <1>9, <1>h, MemoEntryType DEF RecordIgnored, HashType
  <2>2. call' = [call EXCEPT ![c] = Reported(c, m, "none")] /\ now' = now
    BY <1>9 DEF RecordIgnored, RecordReply, Reported
  <2> HIDE DEF m
  <2>3. call' \in [Calls -> CallType] /\ CallsAreTimed'
    BY <1>9, <2>1, <2>2, <1>r DEF RecordIgnored
  <2>4. QED
    BY <1>9, <2>3 DEF RecordIgnored, TypeOK, FailuresAreResults
<1>10. ASSUME NEW c \in Calls, NEW lost \in BOOLEAN, RecordVerdict(c, lost) PROVE TInv'
  <2> DEFINE t  == At(c)
             h2 == IF call[c].ok THEN EmptyHash ELSE Opened(t)
             st == IF call[c].ok THEN "closed" ELSE "open"
             m  == MemoEntry(c, st, hash'[call[c].key].openUntil)
  <2>1. call[c].phase # "idle" /\ now' = now /\ hash' = [hash EXCEPT ![call[c].key] = h2]
        /\ cur' = cur \ CallsOn(call[c].key) /\ flipAt' \in {now, flipAt}
        /\ call' \in {call, [call EXCEPT ![c] = Reported(c, m, st)]}
        /\ UNCHANGED <<memo, transisi, reset>>
    BY <1>10 DEF RecordVerdict, RecordReply
  <2>2. h2 \in HashType /\ \A b \in Buckets : h2.fail[b] <= h2.tot[b]
    <3>1. Opened(t) \in HashType /\ \A b \in Buckets : Opened(t).fail[b] = 0 /\ Opened(t).tot[b] = 0
      BY <2>1, <1>t, ClockReading, OpenedType
    <3>2. \A b \in Buckets : EmptyHash.fail[b] = 0 /\ EmptyHash.tot[b] = 0
      BY DEF EmptyHash
    <3> HIDE DEF t
    <3>3. QED
      BY <3>1, <3>2, EmptyHashType
  <2> HIDE DEF h2, t
  <2>3. hash' \in [Keys -> HashType] /\ FailuresAreResults'
    BY <2>1, <2>2, <1>h, <1>t DEF FailuresAreResults
  <2>4. m \in MemoType /\ st \in {"none", "closed", "open"}
    <3>1. hash'[call[c].key].openUntil \in Time
      BY <2>3, <1>h DEF HashType
    <3>2. QED
      BY <3>1, <2>1, MemoEntryType
  <2> HIDE DEF m, st
  <2>5. call' \in [Calls -> CallType] /\ CallsAreTimed'
    BY <2>1, <2>4, <1>r, <1>t DEF CallsAreTimed
  <2>6. QED
    BY <2>1, <2>3, <2>5, <1>t DEF TypeOK
<1>11. ASSUME NEW c \in Calls, NEW lost \in BOOLEAN, RecordSample(c, lost) PROVE TInv'
  <2> DEFINE t  == At(c)
             h  == HashOf(c)
             ok == call[c].ok
             tr == Trips(h, t, ok)
             h2 == IF tr THEN Opened(t) ELSE WithSample(h, t, ok)
             st == IF tr THEN "open" ELSE "closed"
             nw == IF tr THEN st ELSE "none"
             m  == MemoEntry(c, st, hash'[call[c].key].openUntil)
  <2>1. call[c].phase # "idle" /\ now' = now /\ hash' = [hash EXCEPT ![call[c].key] = h2]
        /\ cur' = cur /\ flipAt' \in {now, flipAt} /\ h.tot[Bucket(t)] < BucketCap
        /\ call' \in {call, [call EXCEPT ![c] = Reported(c, m, nw)]}
        /\ UNCHANGED <<memo, transisi, reset>>
    BY <1>11 DEF RecordSample, RecordReply
  <2>2. h2 \in HashType /\ \A b \in Buckets : h2.fail[b] <= h2.tot[b]
    <3>1. t \in Nat /\ t <= now + MaxSkew
      BY <2>1, ClockReading
    <3>2. Opened(t) \in HashType /\ \A b \in Buckets : Opened(t).fail[b] = 0 /\ Opened(t).tot[b] = 0
      BY <3>1, <1>t, OpenedType
    <3>3. ok \in BOOLEAN /\ h \in HashType /\ \A b \in Buckets : h.fail[b] <= h.tot[b]
      BY <1>h, <1>t DEF FailuresAreResults, HashOf, CallType
    <3> HIDE DEF t, h, ok
    <3>4. WithSample(h, t, ok) \in HashType
          /\ \A b \in Buckets : WithSample(h, t, ok).fail[b] <= WithSample(h, t, ok).tot[b]
      BY <2>1, <3>1, <3>3, <1>t, WithSampleType
    <3> HIDE DEF tr
    <3>5. QED
      BY <3>2, <3>4
  <2> HIDE DEF h2, t, h, ok, tr
  <2>3. hash' \in [Keys -> HashType] /\ FailuresAreResults'
    BY <2>1, <2>2, <1>h, <1>t DEF FailuresAreResults
  <2>4. m \in MemoType /\ nw \in {"none", "closed", "open"}
    <3>1. hash'[call[c].key].openUntil \in Time
      BY <2>3, <1>h DEF HashType
    <3>2. QED
      BY <3>1, <2>1, MemoEntryType
  <2> HIDE DEF m, nw, st
  <2>5. call' \in [Calls -> CallType] /\ CallsAreTimed'
    BY <2>1, <2>4, <1>r, <1>t DEF CallsAreTimed
  <2>6. QED
    BY <2>1, <2>3, <2>5, <1>t DEF TypeOK
<1>12. ASSUME NEW c \in Calls, RecordReturns(c) PROVE TInv'
  <2>1. call[c].inst \in Instances /\ call[c].reply \in MemoType /\ call[c].key \in Keys
        /\ call[c].news \in {"none", "closed", "open"}
    BY <1>12, <1>t DEF CallsAreTimed, RecordReturns, CallType
  <2>2. memo' \in [Instances -> MemoType]
    BY <1>12, <2>1, <1>t DEF RecordReturns, MemoPut
  <2>3. transisi' \in [Instances -> [Keys -> {"none", "closed", "open"}]]
    <3>1. \A i \in Instances : transisi[i] \in [Keys -> {"none", "closed", "open"}]
      BY DEF TypeOK
    <3>2. CASE UNCHANGED transisi
      BY <3>2 DEF TypeOK
    <3>3. CASE transisi' = [transisi EXCEPT ![call[c].inst][call[c].key] = call[c].news]
      BY <3>1, <3>3, <2>1 DEF TypeOK
    <3>4. QED
      BY <1>12, <3>2, <3>3 DEF RecordReturns, Announce
  <2>4. IdleCall.sent = 0 /\ IdleCall.phase = "idle"
    BY DEF IdleCall
  <2>5. call' \in [Calls -> CallType] /\ CallsAreTimed'
    BY <1>12, <2>4, IdleCallType, <1>u DEF RecordReturns
  <2>6. QED
    BY <1>12, <2>2, <2>3, <2>5 DEF RecordReturns, TypeOK, FailuresAreResults
<1>13. ASSUME NEW i \in Instances, ResetReads(i) PROVE TInv'
  BY <1>13, Durations DEF ResetReads, TypeOK, FailuresAreResults, CallsAreTimed, Keys
<1>14. ASSUME ResetDeletes PROVE TInv'
  <2>1. hash' \in [Keys -> HashType]
    BY <1>14, <1>t, EmptyHashType DEF ResetDeletes
  <2>2. FailuresAreResults'
    <3>1. \A k \in Keys : hash'[k] \in {EmptyHash, hash[k]}
      BY <1>14 DEF ResetDeletes
    <3>2. QED
      BY <3>1 DEF FailuresAreResults, EmptyHash
  <2>3. QED
    BY <1>14, <2>1, <2>2, <1>t DEF ResetDeletes, TypeOK, CallsAreTimed
<1>15. ASSUME ResetAnnounces PROVE TInv'
  <2>1. memo' \in [Instances -> MemoType]
    BY <1>15, <1>t, IdleCallType DEF ResetAnnounces
  <2>2. transisi' \in [Instances -> [Keys -> {"none", "closed", "open"}]]
    BY <1>15 DEF ResetAnnounces, TypeOK
  <2>3. QED
    BY <1>15, <2>1, <2>2 DEF ResetAnnounces, TypeOK, FailuresAreResults, CallsAreTimed, NoReset
<1>16. ASSUME NEW i \in Instances, MemoFlush(i) PROVE TInv'
  <2>1. memo' \in [Instances -> MemoType]
    BY <1>16, <1>t, IdleCallType DEF MemoFlush
  <2>2. QED
    BY <1>16, <2>1 DEF MemoFlush, TypeOK, FailuresAreResults, CallsAreTimed
<1>17. ASSUME NEW i \in Instances, Crash(i) PROVE TInv'
  <2>1. memo' \in [Instances -> MemoType] /\ call' \in [Calls -> CallType]
    BY <1>17, <1>t, IdleCallType DEF Crash
  <2>2. transisi' \in [Instances -> [Keys -> {"none", "closed", "open"}]]
    BY <1>17 DEF Crash, TypeOK
  <2>3. CallsAreTimed'
    BY <1>17, <1>t DEF Crash, CallsAreTimed, IdleCall
  <2>4. reset' \in {reset, NoReset} /\ cur' \subseteq cur
    BY <1>17 DEF Crash
  <2>5. QED
    BY <1>17, <2>1, <2>2, <2>3, <2>4 DEF Crash, TypeOK, FailuresAreResults, NoReset
<1>18. ASSUME Tick PROVE TInv'
  <2>1. \A k \in Keys : hash'[k] \in {EmptyHash, hash[k]}
    BY <1>18 DEF Tick
  <2>2. hash' \in [Keys -> HashType]
    BY <1>18, <1>t, EmptyHashType DEF Tick
  <2>3. FailuresAreResults'
    BY <2>1 DEF FailuresAreResults, EmptyHash
  <2>4. now' \in 1 .. MaxTime /\ now' \in Time /\ now' = now + 1
    BY <1>18, <1>t, Durations DEF Tick, Time
  <2>5. CallsAreTimed'
    BY <1>18, <2>4, <1>t DEF Tick, CallsAreTimed, CallType, Time
  <2>6. flipAt' \in Time /\ cur' \subseteq Calls
    BY <1>18, <2>4 DEF Tick, TypeOK
  <2>7. QED
    BY <1>18, <2>2, <2>3, <2>4, <2>5, <2>6 DEF Tick, TypeOK
<1>19. ASSUME UNCHANGED vars PROVE TInv'
  BY <1>19 DEF vars, TypeOK, FailuresAreResults, CallsAreTimed
<1>20. Losses \subseteq BOOLEAN
  BY DEF Losses
<1>21. QED
  BY <1>1, <1>2, <1>3, <1>4, <1>5, <1>6, <1>7, <1>8, <1>9, <1>10, <1>11, <1>12, <1>13,
     <1>14, <1>15, <1>16, <1>17, <1>18, <1>19, <1>20
  DEF Next, CallStep, Ask, Answer, End, Record, ResetStep

\* Every reachable state has every variable within its type, for every number of
\* instances, calls and rules: no order of scripts, however late or retried,
\* grants more than HalfOpenProbes probes of a window.
THEOREM TypeCorrect == Spec => []TypeOK
<1>1. Spec => []TInv
  BY InitTInv, StepTInv, PTL DEF Spec
<1>2. TInv => TypeOK
  BY DEF TInv
<1>3. QED
  BY <1>1, <1>2, PTL

(***************************************************************************)
(* Tokens.  That a token belongs to the current window exactly when it     *)
(* equals probes_at is not inductive: it needs the order of times.  The    *)
(* tokens given out on a key precede the end of its open period, until a   *)
(* window begins, and no token is later than the window's.  A new open     *)
(* period ends after every token given out so far, because the clock       *)
(* reading it starts from is at most MaxDelay old: DelayAssumption.        *)
(***************************************************************************)

WindowFollowsOpening(k) ==
  hash[k].probesAt # 0 => /\ hash[k].openUntil # 0
                          /\ hash[k].openUntil <= hash[k].probesAt
                          /\ hash[k].probesAt <= now + MaxSkew

TokensArePast(k) ==
  \A c \in Calls : (call[c].key = k /\ call[c].token # 0) =>
    /\ call[c].token <= now + MaxSkew
    /\ hash[k].probesAt # 0 => call[c].token <= hash[k].probesAt
    /\ (hash[k].probesAt = 0 /\ hash[k].openUntil # 0) => call[c].token < hash[k].openUntil
    /\ call[c].token = hash[k].probesAt <=> c \in cur

HoldersCarryTokens ==
  \A c \in Calls : /\ call[c].phase \in {"idle", "asking", "reported"} => call[c].token = 0
                   /\ c \in cur => call[c].token # 0
                   /\ call[c].phase = "answered" /\ ~call[c].allow => call[c].token = 0

WInv == /\ \A k \in Keys : WindowFollowsOpening(k) /\ TokensArePast(k)
        /\ HoldersCarryTokens

\* A step that grants no probe either leaves a key's episode as it is, or begins
\* one that no token given out so far belongs to.
LEMMA KeyStep ==
  ASSUME TInv, TInv', WInv, NEW k \in Keys, now <= now',
         \A c \in Calls : call'[c].token # 0 =>
            call'[c].token = call[c].token /\ call'[c].key = call[c].key,
         \/ /\ hash'[k].openUntil = hash[k].openUntil /\ hash'[k].probesAt = hash[k].probesAt
            /\ \A c \in Calls : (call'[c].token # 0 /\ call[c].key = k) => (c \in cur' <=> c \in cur)
         \/ /\ hash'[k].probesAt = 0
            /\ hash'[k].openUntil = 0 \/ hash'[k].openUntil > now + MaxSkew
            /\ cur' \cap CallsOn(k) = {}
  PROVE  WindowFollowsOpening(k)' /\ TokensArePast(k)'
<1>1. now \in Nat /\ now' \in Nat /\ MaxSkew \in Nat
  BY Durations DEF TInv, TypeOK
<1>2. hash[k].openUntil \in Nat /\ hash[k].probesAt \in Nat
      /\ hash'[k].openUntil \in Nat /\ hash'[k].probesAt \in Nat
  BY Durations DEF TInv, TypeOK, HashType, Time
<1>3. WindowFollowsOpening(k)'
  BY <1>1, <1>2 DEF WInv, WindowFollowsOpening
<1>4. TokensArePast(k)'
  <2> SUFFICES ASSUME NEW c \in Calls, call'[c].key = k, call'[c].token # 0
               PROVE  /\ call'[c].token <= now' + MaxSkew
                      /\ hash'[k].probesAt # 0 => call'[c].token <= hash'[k].probesAt
                      /\ (hash'[k].probesAt = 0 /\ hash'[k].openUntil # 0) => call'[c].token < hash'[k].openUntil
                      /\ call'[c].token = hash'[k].probesAt <=> c \in cur'
    BY DEF TokensArePast
  <2>1. call'[c].token = call[c].token /\ call[c].key = k /\ call[c].token # 0 /\ call[c].token \in Nat
    BY Durations DEF TInv, TypeOK, CallType, Time
  <2>2. /\ call[c].token <= now + MaxSkew
        /\ hash[k].probesAt # 0 => call[c].token <= hash[k].probesAt
        /\ (hash[k].probesAt = 0 /\ hash[k].openUntil # 0) => call[c].token < hash[k].openUntil
        /\ call[c].token = hash[k].probesAt <=> c \in cur
    BY <2>1 DEF WInv, TokensArePast
  <2>3. c \in CallsOn(k)
    BY <2>1 DEF WInv, HoldersCarryTokens, CallsOn
  <2>4. QED
    BY <1>1, <1>2, <2>1, <2>2, <2>3
<1>5. QED
  BY <1>3, <1>4

THEOREM InitWInv == Init => WInv
<1> SUFFICES ASSUME Init PROVE WInv
  OBVIOUS
<1>1. \A k \in Keys : hash[k].probesAt = 0 /\ hash[k].openUntil = 0
  BY DEF Init, EmptyHash
<1>2. \A c \in Calls : call[c].token = 0 /\ c \notin cur
  BY DEF Init, IdleCall
<1>3. QED
  BY <1>1, <1>2 DEF WInv, WindowFollowsOpening, TokensArePast, HoldersCarryTokens

\* Every step keeps the order of tokens and windows.
LEMMA StepWInv == TInv /\ TInv' /\ WInv /\ [Next]_vars => WInv'
<1> SUFFICES ASSUME TInv, TInv', WInv, [Next]_vars PROVE WInv'
  OBVIOUS
<1> DEFINE Carry == \A c \in Calls : call'[c].token # 0 =>
                      /\ call'[c].token = call[c].token /\ call'[c].key = call[c].key
                      /\ c \in cur' <=> c \in cur
           \* a step that leaves Redis alone, grants no token and ends no holder's claim
           Quiet == /\ now' = now /\ UNCHANGED hash /\ Carry /\ HoldersCarryTokens'
<1>t. /\ now \in Nat /\ hash \in [Keys -> HashType] /\ call \in [Calls -> CallType]
      /\ \A c \in Calls : call[c].key \in Keys /\ call[c].token \in Nat
  BY Durations DEF TInv, TypeOK, CallType, Time
<1>q. ASSUME Quiet PROVE WInv'
  <2>1. \A k \in Keys : WindowFollowsOpening(k)' /\ TokensArePast(k)'
    BY <1>q, <1>t, KeyStep
  <2>2. QED
    BY <2>1, <1>q DEF WInv
\* A step of call c that lets go of its token, or keeps it.
<1>s. ASSUME NEW c \in Calls, NEW r \in CallType, call' = [call EXCEPT ![c] = r], now' = now, hash' = hash,
             cur' \in {cur, cur \ {c}},
             \/ r.token = 0 /\ c \notin cur'
             \/ /\ r.token = call[c].token /\ r.key = call[c].key /\ cur' = cur
                /\ r.phase \in {"running", "reporting"} \/ r.token = 0
      PROVE WInv'
  <2>1. \A d \in Calls : call'[d] = IF d = c THEN r ELSE call[d]
    BY <1>s, <1>t
  <2>2. Carry
    BY <1>s, <2>1, <1>t
  <2>3. HoldersCarryTokens'
    BY <1>s, <2>1 DEF WInv, HoldersCarryTokens
  <2>4. QED
    BY <2>2, <2>3, <1>s, <1>q
<1>i. IdleCall \in CallType /\ IdleCall.token = 0 /\ \A c \in Calls : call[c] \in CallType
  BY IdleCallType, <1>t DEF IdleCall
<1>c. ASSUME NEW c \in Calls, call[c].phase \in {"idle", "asking", "reported"}
      PROVE  call[c].token = 0 /\ c \notin cur
  BY <1>c DEF WInv, HoldersCarryTokens
<1>1. ASSUME NEW c \in Calls, NEW i \in Instances, AskMemo(c, i) \/ \E k \in Asked : AskRedis(c, i, k) PROVE WInv'
  <2>1. PICK r : r = call'[c]
    OBVIOUS
  <2>2. call' = [call EXCEPT ![c] = r] /\ r.token = 0 /\ r \in CallType
    <3>1. call'[c] \in CallType
      BY DEF TInv, TypeOK
    <3>2. CASE AskMemo(c, i)
      BY <2>1, <3>1, <3>2, <1>t DEF AskMemo, IdleCall
    <3>3. ASSUME NEW k \in Asked, AskRedis(c, i, k)
          PROVE  call' = [call EXCEPT ![c] = r] /\ r.token = 0
      BY <2>1, <3>3, <1>t DEF AskRedis, IdleCall
    <3>4. QED
      BY <1>1, <2>1, <3>1, <3>2, <3>3
  <2>3. c \notin cur /\ cur' = cur /\ now' = now /\ hash' = hash
    BY <1>1, <1>c DEF AskMemo, AskRedis
  <2>4. QED
    BY <2>2, <2>3, <1>s
<1>2. ASSUME NEW c \in Calls, AllowReads(c) \/ AllowReturns(c) \/ AllowFails(c) PROVE WInv'
  <2>1. PICK r : r = call'[c]
    OBVIOUS
  <2>2. call' = [call EXCEPT ![c] = r] /\ r \in CallType
    BY <1>2, <2>1, <1>t DEF AllowReads, AllowReturns, AllowFails, TInv, TypeOK
  <2>3. cur' = cur /\ now' = now /\ hash' = hash
    BY <1>2 DEF AllowReads, AllowReturns, AllowFails
  <2>4. CASE AllowReads(c)
    <3>1. r.token = 0 /\ c \notin cur
      BY <2>1, <2>4, <1>c, <1>i, <1>t DEF AllowReads, CallType
    <3>2. QED
      BY <3>1, <2>2, <2>3, <1>s
  <2>5. CASE AllowReturns(c) /\ call[c].allow
    <3>1. r.token = call[c].token /\ r.key = call[c].key /\ r.phase = "running"
      BY <2>1, <2>5, <1>t DEF AllowReturns, Running, IdleCall
    <3>2. QED
      BY <3>1, <2>2, <2>3, <1>s
  <2>6. CASE AllowReturns(c) /\ ~call[c].allow
    <3>1. r.token = 0
      BY <2>1, <2>6, <1>t DEF AllowReturns, IdleCall
    <3>2. c \notin cur
      BY <2>6 DEF AllowReturns, WInv, HoldersCarryTokens
    <3>3. QED
      BY <3>1, <3>2, <2>2, <2>3, <1>s
  <2>7. CASE AllowFails(c)
    <3>1. r.token = 0 /\ c \notin cur
      BY <2>1, <2>7, <1>c, <1>t DEF AllowFails, Running, IdleCall
    <3>2. QED
      BY <3>1, <2>2, <2>3, <1>s
  <2>8. QED
    BY <1>2, <2>4, <2>5, <2>6, <2>7
<1>3. ASSUME NEW c \in Calls, NEW ok \in BOOLEAN, Finish(c, ok) PROVE WInv'
  <2>1. PICK r : r = call'[c]
    OBVIOUS
  <2>2. call' = [call EXCEPT ![c] = r] /\ r \in CallType
    BY <1>3, <2>1, <1>t DEF Finish, TInv, TypeOK
  <2>3. r.token = call[c].token /\ r.key = call[c].key /\ r.phase = "reporting"
    BY <1>3, <2>1, <1>i, <1>t DEF Finish, CallType
  <2>4. cur' = cur /\ now' = now /\ hash' = hash
    BY <1>3 DEF Finish
  <2>5. QED
    BY <2>2, <2>3, <2>4, <1>s
<1>4. ASSUME NEW c \in Calls, Abandon(c) \/ RecordFails(c) \/ RecordIgnored(c) \/ RecordReturns(c) PROVE WInv'
  <2>1. PICK r : r = call'[c]
    OBVIOUS
  <2>2. call' = [call EXCEPT ![c] = r] /\ r \in CallType
    BY <1>4, <2>1, <1>t DEF Abandon, RecordFails, RecordIgnored, RecordReply, RecordReturns, TInv, TypeOK
  <2>3. r.token = 0
    <3>1. CASE RecordIgnored(c)
      BY <2>1, <3>1, <1>t DEF RecordIgnored, RecordReply, Reported, IdleCall
    <3>2. CASE Abandon(c) \/ RecordFails(c) \/ RecordReturns(c)
      <4>1. call'[c] = IdleCall
        BY <3>2, <1>t DEF Abandon, RecordFails, RecordReturns
      <4>2. QED
        BY <2>1, <4>1, <1>i
    <3>3. QED
      BY <1>4, <3>1, <3>2
  <2>4. c \notin cur' /\ cur' \in {cur, cur \ {c}} /\ now' = now /\ hash' = hash
    BY <1>4, <1>c DEF Abandon, RecordFails, RecordIgnored, RecordReturns
  <2>5. QED
    BY <2>2, <2>3, <2>4, <1>s
<1>5. ASSUME (\E i \in Instances : ResetReads(i) \/ MemoFlush(i)) \/ ResetAnnounces \/ UNCHANGED vars PROVE WInv'
  <2>1. Quiet
    BY <1>5, <1>t DEF ResetReads, MemoFlush, ResetAnnounces, vars, WInv, HoldersCarryTokens
  <2>2. QED
    BY <2>1, <1>q
<1>6. ASSUME NEW i \in Instances, Crash(i) PROVE WInv'
  <2>1. Quiet
    BY <1>6, <1>t DEF Crash, WInv, HoldersCarryTokens, IdleCall
  <2>2. QED
    BY <2>1, <1>q
<1>7. ASSUME NEW c \in Calls, NEW lost \in BOOLEAN, AllowProbe(c, lost) PROVE WInv'
  <2> DEFINE k  == call[c].key
             h  == hash[k]
             t  == At(c)
             w  == IF NewWindow(h, t) THEN t ELSE h.probesAt
             h2 == WithProbe(h, t)
  <2>1. /\ t \in Nat /\ t <= now + MaxSkew /\ OpenDuration \in Nat /\ OpenDuration > 0
        /\ h \in HashType /\ h.openUntil \in Nat /\ h.probesAt \in Nat
    BY <1>7, <1>t, ClockReading, Durations DEF AllowProbe, HashType, Time
  <2>2. /\ hash' = [hash EXCEPT ![k] = h2] /\ now' = now
        /\ h2.probesAt = w /\ h2.openUntil = h.openUntil
        /\ h.openUntil # 0 /\ h.openUntil <= t
    BY <1>7, <2>1 DEF AllowProbe, HashOf, WithProbe, CanProbe, StateOf, HashType
  <2>3. call[c].token = 0 /\ c \notin cur /\ call[c] \in CallType
    BY <1>7, <1>c, <1>i DEF AllowProbe
  <2> DEFINE others == IF NewWindow(h, t) THEN cur \ CallsOn(k) ELSE cur
             r == [call[c] EXCEPT !.phase = "answered", !.sent = 0, !.allow = TRUE, !.token = h2.probesAt]
  <2>4. \/ call' = call /\ cur' = others
        \/ call' = [call EXCEPT ![c] = r] /\ cur' = others \cup {c}
    BY <1>7, <1>t DEF AllowProbe, HashOf
  <2>5. r.token = w /\ r.key = k /\ r.phase = "answered" /\ r.allow
    BY <2>2, <2>3 DEF CallType
  <2>6. /\ w # 0 /\ w <= now + MaxSkew /\ w >= h.openUntil /\ w \in Nat
        /\ NewWindow(h, t) => h.probesAt = 0 \/ w > h.probesAt
    <3>1. CASE NewWindow(h, t)
      BY <3>1, <2>1, <2>2 DEF NewWindow, ProbeWait
    <3>2. CASE ~NewWindow(h, t)
      BY <3>2, <2>1, <2>2, <1>t DEF NewWindow, WInv, WindowFollowsOpening
    <3>3. QED
      BY <3>1, <3>2
  <2>n. ~NewWindow(h, t) => (w = h.probesAt /\ others = cur)
    OBVIOUS
  <2>o. NewWindow(h, t) => others = cur \ CallsOn(k)
    OBVIOUS
  <2>k. /\ k \in Keys /\ h = hash[k] /\ now' = now
        /\ hash'[k].probesAt = w /\ hash'[k].openUntil = h.openUntil
        /\ \A j \in Keys \ {k} : hash'[j] = hash[j]
    BY <2>2, <1>t
  <2> HIDE DEF w, h2, r, others, k, h, t
  <2>7. \A d \in Calls : \/ call'[d] = call[d] /\ (d \in cur' <=> d \in others)
                         \/ d = c /\ call'[d] = r /\ d \in cur'
    BY <2>4, <1>t
  <2>8. \A j \in Keys : WindowFollowsOpening(j)'
    <3>1. hash'[k].openUntil # 0 /\ hash'[k].openUntil <= hash'[k].probesAt
          /\ hash'[k].probesAt <= now' + MaxSkew
      BY <2>1, <2>2, <2>6, <2>k
    <3>2. QED
      BY <3>1, <2>k DEF WInv, WindowFollowsOpening
  <2>9. ASSUME NEW j \in Keys PROVE TokensArePast(j)'
    <3> SUFFICES ASSUME NEW d \in Calls, call'[d].key = j, call'[d].token # 0
                 PROVE  /\ call'[d].token <= now + MaxSkew
                        /\ hash'[j].probesAt # 0 => call'[d].token <= hash'[j].probesAt
                        /\ (hash'[j].probesAt = 0 /\ hash'[j].openUntil # 0) => call'[d].token < hash'[j].openUntil
                        /\ call'[d].token = hash'[j].probesAt <=> d \in cur'
      BY <2>2 DEF TokensArePast
    <3>1. CASE d = c /\ call'[d] = r /\ d \in cur'
      <4>1. j = k /\ call'[d].token = w /\ hash'[j].probesAt = w
        BY <3>1, <2>5, <2>k
      <4>2. QED
        BY <4>1, <3>1, <2>6
    <3>2. CASE call'[d] = call[d] /\ (d \in cur' <=> d \in others)
      <4>1. /\ call[d].token <= now + MaxSkew
            /\ hash[j].probesAt # 0 => call[d].token <= hash[j].probesAt
            /\ (hash[j].probesAt = 0 /\ hash[j].openUntil # 0) => call[d].token < hash[j].openUntil
            /\ call[d].token = hash[j].probesAt <=> d \in cur
        BY <3>2 DEF WInv, TokensArePast
      <4>2. /\ d \in CallsOn(j)
            /\ j # k => d \notin CallsOn(k)
        BY <3>2 DEF WInv, HoldersCarryTokens, CallsOn
      <4>3. CASE j # k
        <5>1. hash'[j] = hash[j] /\ (d \in cur' <=> d \in cur)
          BY <4>3, <4>2, <3>2, <2>k, <2>n, <2>o
        <5>2. QED
          BY <5>1, <4>1, <3>2
      <4>4. CASE j = k /\ ~NewWindow(h, t)
        <5>1. hash'[j].probesAt = hash[j].probesAt /\ hash'[j].openUntil = hash[j].openUntil
              /\ (d \in cur' <=> d \in cur)
          BY <4>4, <3>2, <2>k, <2>n
        <5>2. QED
          BY <5>1, <4>1, <3>2
      <4>5. CASE j = k /\ NewWindow(h, t)
        <5>1. hash'[j].probesAt = w /\ d \notin cur'
          BY <4>5, <4>2, <3>2, <2>k, <2>o
        <5>2. call[d].token < w /\ call[d].token \in Nat
          BY <4>5, <4>1, <2>1, <2>2, <2>6, <2>k, <1>t
        <5>3. QED
          BY <5>1, <5>2, <4>1, <3>2, <2>6
      <4>6. QED
        BY <4>3, <4>4, <4>5
    <3>3. QED
      BY <3>1, <3>2, <2>7
  <2>10. HoldersCarryTokens'
    <3>1. others \subseteq cur
      BY <2>n, <2>o
    <3>2. QED
      BY <3>1, <2>5, <2>6, <2>7 DEF WInv, HoldersCarryTokens
  <2>11. QED
    BY <2>8, <2>9, <2>10 DEF WInv
\* An open period that a timely script begins ends after every token so far.
<1>o. ASSUME NEW c \in Calls, call[c].phase # "idle", Timely(c)
      PROVE  /\ Opened(At(c)).probesAt = 0
             /\ Opened(At(c)).openUntil > now + MaxSkew
  <2>1. At(c) \in Nat /\ At(c) >= now - MaxDelay
    BY <1>o, ClockReading
  <2>2. Opened(At(c)).openUntil = At(c) + OpenDuration /\ Opened(At(c)).probesAt = 0
    BY DEF Opened, EmptyHash
  <2>3. QED
    BY <2>1, <2>2, <1>t, Durations, DelayAssumption
<1>e. EmptyHash.probesAt = 0 /\ EmptyHash.openUntil = 0
  BY DEF EmptyHash
\* A report that leaves the other keys alone, and gives up its own token or is repeated.
<1>p. ASSUME NEW c \in Calls, NEW h2, hash' = [hash EXCEPT ![call[c].key] = h2], now' = now,
             call' = call \/ \E r \in CallType : r.token = 0 /\ call' = [call EXCEPT ![c] = r],
             \/ /\ h2.probesAt = 0 /\ (h2.openUntil = 0 \/ h2.openUntil > now + MaxSkew)
                /\ cur' = cur \ CallsOn(call[c].key)
             \/ /\ h2.probesAt = HashOf(c).probesAt /\ h2.openUntil = HashOf(c).openUntil
                /\ cur' = cur /\ c \notin cur
      PROVE  WInv'
  <2>0. PICK k \in Keys : k = call[c].key
    BY <1>t
  <2>1. /\ k \in Keys /\ hash'[k] = h2 /\ HashOf(c) = hash[k]
        /\ \A j \in Keys \ {k} : hash'[j] = hash[j]
    BY <1>p, <1>t, <2>0 DEF HashOf
  <2>2. \A d \in Calls : call'[d] = call[d] \/ (d = c /\ call'[d].token = 0)
    BY <1>p, <1>t
  <2>3. \A d \in Calls : call'[d].token # 0 => call'[d].token = call[d].token /\ call'[d].key = call[d].key
    BY <2>2
  <2>4. cur' \cap CallsOn(k) = {} \/ (cur' = cur /\ h2.probesAt = hash[k].probesAt /\ h2.openUntil = hash[k].openUntil)
    BY <1>p, <2>1, <2>0
  <2>5. \A d \in Calls : call[d].key # k => (d \in cur' <=> d \in cur)
    BY <1>p, <2>0 DEF CallsOn
  <2>6. c \notin cur'
    <3>1. c \in cur => c \in CallsOn(k)
      BY <2>0 DEF CallsOn, WInv, HoldersCarryTokens
    <3>2. QED
      BY <3>1, <2>0, <1>p
  <2>7. WindowFollowsOpening(k)' /\ TokensArePast(k)'
    <3>1. \/ /\ hash'[k].openUntil = hash[k].openUntil /\ hash'[k].probesAt = hash[k].probesAt
             /\ cur' = cur
          \/ /\ hash'[k].probesAt = 0
             /\ hash'[k].openUntil = 0 \/ hash'[k].openUntil > now + MaxSkew
             /\ cur' \cap CallsOn(k) = {}
      <4>1. CASE /\ h2.probesAt = 0 /\ (h2.openUntil = 0 \/ h2.openUntil > now + MaxSkew)
                 /\ cur' = cur \ CallsOn(call[c].key)
        BY <4>1, <2>0, <2>1
      <4>2. CASE /\ h2.probesAt = HashOf(c).probesAt /\ h2.openUntil = HashOf(c).openUntil
                 /\ cur' = cur /\ c \notin cur
        BY <4>2, <2>1
      <4>3. QED
        BY <1>p, <4>1, <4>2
    <3>2. QED
      BY <3>1, <2>1, <2>3, <1>p, <1>t, KeyStep
  <2>8. ASSUME NEW j \in Keys, j # k PROVE WindowFollowsOpening(j)' /\ TokensArePast(j)'
    BY <2>8, <2>1, <2>3, <2>5, <1>p, <1>t, KeyStep
  <2>9. HoldersCarryTokens'
    <3>1. \A d \in Calls : d \in cur' => d \in cur /\ d # c
      BY <1>p, <2>6
    <3>2. call' = call \/ \A d \in Calls : (d = c /\ call'[d].token = 0) \/ (d # c /\ call'[d] = call[d])
      BY <1>p, <1>t
    <3>3. QED
      BY <3>1, <3>2 DEF WInv, HoldersCarryTokens
  <2>10. QED
    BY <2>7, <2>8, <2>9 DEF WInv
<1>8. ASSUME NEW c \in Calls, NEW lost \in BOOLEAN, RecordVerdict(c, lost) PROVE WInv'
  <2> DEFINE h2 == IF call[c].ok THEN EmptyHash ELSE Opened(At(c))
  <2>1. /\ hash' = [hash EXCEPT ![call[c].key] = h2] /\ now' = now
        /\ cur' = cur \ CallsOn(call[c].key) /\ call[c].phase # "idle" /\ Timely(c)
    BY <1>8 DEF RecordVerdict
  <2>2. h2.probesAt = 0 /\ (h2.openUntil = 0 \/ h2.openUntil > now + MaxSkew)
    BY <2>1, <1>o, <1>e
  <2>3. call' = call \/ \E r \in CallType : r.token = 0 /\ call' = [call EXCEPT ![c] = r]
    <3>1. CASE lost
      BY <1>8, <3>1 DEF RecordVerdict, RecordReply
    <3>2. CASE ~lost
      <4>1. PICK r : r = call'[c]
        OBVIOUS
      <4>2. r \in CallType /\ call' = [call EXCEPT ![c] = r] /\ r.token = 0
        BY <1>8, <3>2, <4>1, <1>t DEF RecordVerdict, RecordReply, Reported, IdleCall, TInv, TypeOK
      <4>3. QED
        BY <4>2
    <3>3. QED
      BY <3>1, <3>2
  <2> HIDE DEF h2
  <2>4. QED
    BY <2>1, <2>2, <2>3, <1>p
<1>9. ASSUME NEW c \in Calls, NEW lost \in BOOLEAN, RecordSample(c, lost) PROVE WInv'
  <2> DEFINE trip == Trips(HashOf(c), At(c), call[c].ok)
             h2   == IF trip THEN Opened(At(c)) ELSE WithSample(HashOf(c), At(c), call[c].ok)
  <2>1. /\ hash' = [hash EXCEPT ![call[c].key] = h2] /\ now' = now /\ cur' = cur
        /\ StateOf(HashOf(c), At(c)) = "closed"
        /\ call[c].phase # "idle" /\ Timely(c)
    BY <1>9 DEF RecordSample
  \* a closed key has no window, hence no current probe
  <2>2. HashOf(c).openUntil = 0 /\ HashOf(c).probesAt = 0
    BY <2>1, <1>t DEF StateOf, WInv, WindowFollowsOpening, HashOf
  <2>3. cur \cap CallsOn(call[c].key) = {}
    <3>1. \A d \in cur : d \in Calls
      BY DEF TInv, TypeOK
    <3>2. QED
      BY <2>2, <3>1, <1>t DEF CallsOn, WInv, TokensArePast, HoldersCarryTokens, HashOf
  <2>4. h2.probesAt = 0 /\ (h2.openUntil = 0 \/ h2.openUntil > now + MaxSkew)
    <3>1. HashOf(c) \in HashType
      BY <1>t DEF HashOf
    <3>2. WithSample(HashOf(c), At(c), call[c].ok).openUntil = 0
          /\ WithSample(HashOf(c), At(c), call[c].ok).probesAt = 0
      BY <2>2, <3>1 DEF WithSample, HashType
    <3> HIDE DEF trip
    <3>3. QED
      BY <2>1, <3>2, <1>o
  <2>5. call' = call \/ \E r \in CallType : r.token = 0 /\ call' = [call EXCEPT ![c] = r]
    <3>1. CASE lost
      BY <1>9, <3>1 DEF RecordSample, RecordReply
    <3>2. CASE ~lost
      <4>1. PICK r : r = call'[c]
        OBVIOUS
      <4>2. r \in CallType /\ call' = [call EXCEPT ![c] = r] /\ r.token = 0
        BY <1>9, <3>2, <4>1, <1>t DEF RecordSample, RecordReply, Reported, IdleCall, TInv, TypeOK
      <4>3. QED
        BY <4>2
    <3>3. QED
      BY <3>1, <3>2
  <2> HIDE DEF h2
  <2>6. cur' = cur \ CallsOn(call[c].key)
    BY <2>1, <2>3
  <2>7. QED
    BY <2>1, <2>4, <2>5, <2>6, <1>p
<1>10. ASSUME ResetDeletes \/ Tick PROVE WInv'
  <2>1. call' = call /\ now <= now' /\ cur' \subseteq cur
    BY <1>10, <1>t DEF ResetDeletes, Tick
  <2>2. PICK gone \in SUBSET Keys : /\ \A k \in Keys : hash'[k] = IF k \in gone THEN EmptyHash ELSE hash[k]
                                   /\ cur' = cur \ UNION {CallsOn(k) : k \in gone}
    <3>1. CASE ResetDeletes
      BY <3>1 DEF ResetDeletes, TInv, TypeOK
    <3>2. CASE Tick
      BY <3>2 DEF Tick
    <3>3. QED
      BY <1>10, <3>1, <3>2
  <2>3. ASSUME NEW k \in Keys PROVE WindowFollowsOpening(k)' /\ TokensArePast(k)'
    <3>1. CASE k \in gone
      <4>1. hash'[k] = EmptyHash /\ cur' \cap CallsOn(k) = {}
        BY <2>2, <3>1
      <4>2. QED
        BY <4>1, <2>1, <1>e, KeyStep
    <3>2. CASE k \notin gone
      <4>1. \A c \in Calls : call[c].key = k => \A j \in gone : c \notin CallsOn(j)
        BY <3>2 DEF CallsOn
      <4>2. \A c \in Calls : call[c].key = k => (c \in cur' <=> c \in cur)
        BY <4>1, <2>2
      <4>3. hash'[k] = hash[k]
        BY <3>2, <2>2
      <4>4. QED
        BY <4>2, <4>3, <2>1, KeyStep
    <3>3. QED
      BY <3>1, <3>2
  <2>4. HoldersCarryTokens'
    BY <2>1 DEF WInv, HoldersCarryTokens
  <2>5. QED
    BY <2>3, <2>4 DEF WInv
<1>20. Losses \subseteq BOOLEAN
  BY DEF Losses
<1>21. QED
  BY <1>1, <1>2, <1>3, <1>4, <1>5, <1>6, <1>7, <1>8, <1>9, <1>10, <1>20
  DEF Next, CallStep, Ask, Answer, End, Record, ResetStep

\* B-461, for every configuration within DelayAssumption: however late, twice or out
\* of order the scripts run, a call's token equals probes_at exactly when the call
\* holds a probe of the current window.
THEOREM TokensIdentifyWindows == Spec => []TokenIdentifiesWindow
<1>1. Init => TInv /\ WInv
  BY InitTInv, InitWInv
<1>2. TInv /\ WInv /\ [Next]_vars => (TInv /\ WInv)'
  BY StepTInv, StepWInv
<1>3. TInv /\ WInv => TokenIdentifiesWindow
  BY DEF WInv, TInv, TypeOK, CallType, TokensArePast, TokenIdentifiesWindow, HashOf
<1>4. QED
  BY <1>1, <1>2, <1>3, PTL DEF Spec

(***************************************************************************)
(* Verdicts.                                                               *)
(***************************************************************************)

EpisodeEndsLegally ==
  \A k \in Keys :
    (hash[k].openUntil # 0 /\ hash'[k].openUntil # hash[k].openUntil) =>
      \/ reset.pc = "read" /\ reset'.pc = "deleted"
      \/ now' # now /\ hash[k].expireAt <= now'
      \/ \E c \in ProbesOn(k) : call[c].phase = "reporting"

\* Which steps can change a key at all, and what each of them does to an episode.
LEMMA StepEndsLegally == TInv /\ WInv /\ [Next]_vars => EpisodeEndsLegally
<1> SUFFICES ASSUME TInv, WInv, [Next]_vars PROVE EpisodeEndsLegally
  OBVIOUS
<1>t. /\ hash \in [Keys -> HashType] /\ call \in [Calls -> CallType]
      /\ \A c \in Calls : call[c].key \in Keys /\ HashOf(c) = hash[call[c].key]
  BY DEF TInv, TypeOK, CallType, HashOf
<1>1. ASSUME hash' = hash PROVE EpisodeEndsLegally
  BY <1>1 DEF EpisodeEndsLegally
<1>2. ASSUME NEW c \in Calls, NEW lost \in BOOLEAN, AllowProbe(c, lost) PROVE EpisodeEndsLegally
  <2>1. WithProbe(HashOf(c), At(c)).openUntil = HashOf(c).openUntil
    BY <1>t DEF WithProbe, HashType
  <2>2. \A k \in Keys : hash'[k].openUntil = hash[k].openUntil
    BY <1>2, <2>1, <1>t DEF AllowProbe
  <2>3. QED
    BY <2>2 DEF EpisodeEndsLegally
<1>3. ASSUME NEW c \in Calls, NEW lost \in BOOLEAN, RecordVerdict(c, lost) PROVE EpisodeEndsLegally
  <2>1. \A k \in Keys : k # call[c].key => hash'[k] = hash[k]
    BY <1>3, <1>t DEF RecordVerdict
  <2>2. call[c].token # 0 /\ call[c].token = hash[call[c].key].probesAt /\ call[c].phase = "reporting"
    BY <1>3, <1>t DEF RecordVerdict, IsVerdict
  <2>3. c \in ProbesOn(call[c].key)
    BY <2>2, <1>t DEF WInv, TokensArePast, ProbesOn, TInv, TypeOK
  <2>4. QED
    BY <2>1, <2>2, <2>3 DEF EpisodeEndsLegally
<1>4. ASSUME NEW c \in Calls, NEW lost \in BOOLEAN, RecordSample(c, lost) PROVE EpisodeEndsLegally
  <2>1. \A k \in Keys : k # call[c].key => hash'[k] = hash[k]
    BY <1>4, <1>t DEF RecordSample
  <2>2. hash[call[c].key].openUntil = 0
    BY <1>4, <1>t DEF RecordSample, StateOf
  <2>3. QED
    BY <2>1, <2>2 DEF EpisodeEndsLegally
<1>5. ASSUME ResetDeletes PROVE EpisodeEndsLegally
  BY <1>5 DEF ResetDeletes, EpisodeEndsLegally, TInv, TypeOK
<1>6. ASSUME Tick PROVE EpisodeEndsLegally
  <2>1. now' = now + 1 /\ now \in Nat
    BY <1>6, Durations DEF Tick, TInv, TypeOK
  <2>2. \A k \in Keys : hash'[k] # hash[k] => hash[k].expireAt <= now'
    BY <1>6, <2>1 DEF Tick
  <2>3. QED
    BY <2>1, <2>2 DEF EpisodeEndsLegally
<1>7. ASSUME NEW c \in Calls, CallStep(c) PROVE EpisodeEndsLegally
  <2>1. CASE (\E lost \in Losses : AllowProbe(c, lost) \/ RecordVerdict(c, lost) \/ RecordSample(c, lost))
    BY <2>1, <1>2, <1>3, <1>4 DEF Losses
  <2>2. CASE Ask(c) \/ AllowReads(c) \/ AllowFails(c) \/ AllowReturns(c) \/ End(c)
    BY <2>2, <1>1 DEF Ask, AskMemo, AskRedis, AllowReads, AllowFails, AllowReturns, End, Finish, Abandon
  <2>3. CASE RecordIgnored(c) \/ RecordFails(c) \/ RecordReturns(c)
    BY <2>3, <1>1 DEF RecordIgnored, RecordFails, RecordReturns
  <2>4. QED
    BY <1>7, <2>1, <2>2, <2>3 DEF CallStep, Answer, Record
<1>8. ASSUME NEW i \in Instances, ResetReads(i) \/ MemoFlush(i) \/ Crash(i) PROVE EpisodeEndsLegally
  BY <1>8, <1>1 DEF ResetReads, MemoFlush, Crash
<1>9. ASSUME ResetAnnounces \/ UNCHANGED vars PROVE EpisodeEndsLegally
  BY <1>9, <1>1 DEF ResetAnnounces, vars
<1>10. QED
  BY <1>5, <1>6, <1>7, <1>8, <1>9 DEF Next, ResetStep

\* V-BR-03 and B-461, for every configuration: an episode is ended or reopened only
\* by the report of a call that holds a probe of the current window, by Reset, or by
\* the key's TTL.
THEOREM VerdictsAreCurrent == Spec => VerdictByCurrentProbe
<1>1. Spec => [](TInv /\ WInv)
  <2>1. Init => TInv /\ WInv
    BY InitTInv, InitWInv
  <2>2. TInv /\ WInv /\ [Next]_vars => (TInv /\ WInv)'
    BY StepTInv, StepWInv
  <2>3. QED
    BY <2>1, <2>2, PTL DEF Spec
<1>2. TInv /\ WInv /\ [Next]_vars => [EpisodeEndsLegally]_vars
  BY StepEndsLegally
<1>3. Spec => [][EpisodeEndsLegally]_vars
  BY <1>1, <1>2, PTL DEF Spec
<1>4. QED
  BY <1>3 DEF EpisodeEndsLegally, VerdictByCurrentProbe

(***************************************************************************)
(* Quotas.  A key counts a probe for each call that holds one; it counts   *)
(* none without a window; and it outlives its open period.                 *)
(***************************************************************************)

KeySound(k) ==
  /\ hash[k].probesAt = 0 <=> hash[k].probes = 0
  /\ hash[k].openUntil # 0 => /\ hash[k].openUntil < hash[k].expireAt
                              /\ hash[k].openUntil <= now + MaxSkew + OpenDuration
  /\ Cardinality(ProbesOn(k)) <= hash[k].probes

QInv == IsFiniteSet(cur) /\ \A k \in Keys : KeySound(k)

LEMMA KeyNumbers ==
  ASSUME TInv, NEW k \in Keys
  PROVE  /\ hash[k].openUntil \in Nat /\ hash[k].probes \in Nat /\ hash[k].probesAt \in Nat
         /\ hash[k].expireAt \in Nat /\ now \in Nat
BY Durations DEF TInv, TypeOK, HashType, Time

\* Fewer calls hold probes of the key, or it is written anew.
LEMMA KeyKept ==
  ASSUME TInv, TInv', QInv, NEW k \in Keys, now <= now', ProbesOn(k)' \subseteq ProbesOn(k),
         hash'[k].probesAt = hash[k].probesAt, hash'[k].probes = hash[k].probes,
         hash'[k].openUntil = hash[k].openUntil,
         hash[k].openUntil # 0 => hash'[k].expireAt = hash[k].expireAt
  PROVE  KeySound(k)'
<1>1. IsFiniteSet(ProbesOn(k))
  BY FS_Subset DEF QInv, ProbesOn
<1>2. /\ Cardinality(ProbesOn(k)') <= Cardinality(ProbesOn(k))
      /\ Cardinality(ProbesOn(k)') \in Nat /\ Cardinality(ProbesOn(k)) \in Nat
  BY <1>1, FS_Subset, FS_CardinalityType
<1>3. KeySound(k) /\ now \in Nat /\ now' \in Nat
  BY Durations DEF QInv, TInv, TypeOK
<1> QED  BY <1>2, <1>3, KeyNumbers, Durations DEF KeySound

LEMMA KeyRestarts ==
  ASSUME NEW k \in Keys, ProbesOn(k)' = {},
         hash'[k].probesAt = 0, hash'[k].probes = 0,
         \/ hash'[k].openUntil = 0
         \/ /\ hash'[k].openUntil < hash'[k].expireAt
            /\ hash'[k].openUntil <= now' + MaxSkew + OpenDuration
  PROVE  KeySound(k)'
<1>1. Cardinality(ProbesOn(k)') = 0
  BY FS_EmptySet
<1> QED  BY <1>1 DEF KeySound

LEMMA Emptied ==
  EmptyHash.probesAt = 0 /\ EmptyHash.probes = 0 /\ EmptyHash.openUntil = 0
BY DEF EmptyHash

\* An open period ends before its key does.
LEMMA OpenedSound ==
  ASSUME TInv, NEW c \in Calls, call[c].phase # "idle"
  PROVE  LET h == Opened(At(c)) IN
         /\ h.probesAt = 0 /\ h.probes = 0 /\ h.openUntil = At(c) + OpenDuration
         /\ h.openUntil < h.expireAt /\ h.openUntil <= now + MaxSkew + OpenDuration
<1>1. At(c) \in Nat /\ At(c) <= now + MaxSkew /\ now \in Nat
  BY ClockReading, Durations DEF TInv, TypeOK
<1>2. KeyTTL > OpenDuration + MaxSkew
  <2>1. WindowBuckets \in Nat /\ BucketWidth \in Nat
    BY ConfigAssumption
  <2>2. Window \in Nat
    BY <2>1 DEF Window
  <2> QED  BY <2>2, Durations, DelayAssumption DEF KeyTTL, ProbeWait
<1>3. LET h == Opened(At(c)) IN
      /\ h.probesAt = 0 /\ h.probes = 0 /\ h.openUntil = At(c) + OpenDuration
      /\ h.expireAt = now + KeyTTL
  BY DEF Opened, EmptyHash
<1> QED  BY <1>1, <1>2, <1>3, Durations

\* A token that is still carried belongs to the key it was given for.
Carried == \A c \in Calls : call'[c].token # 0 => call'[c].key = call[c].key

LEMMA Holders ==
  ASSUME TInv, TInv', WInv, WInv', cur' \subseteq cur, Carried, NEW k \in Keys
  PROVE  /\ ProbesOn(k)' \subseteq ProbesOn(k) /\ ProbesOn(k) \subseteq CallsOn(k)
         /\ (cur' \cap CallsOn(k) = {} => ProbesOn(k)' = {})
<1>1. cur \subseteq Calls /\ cur' \subseteq Calls
  BY DEF TInv, TypeOK
<1>2. ProbesOn(k) \subseteq CallsOn(k)
  BY <1>1 DEF ProbesOn, CallsOn, WInv, HoldersCarryTokens
<1>3. ProbesOn(k)' \subseteq ProbesOn(k)
  BY <1>1 DEF ProbesOn, Carried, WInv, HoldersCarryTokens
<1>4. ProbesOn(k)' \subseteq cur'
  BY DEF ProbesOn
<1> QED  BY <1>2, <1>3, <1>4

LEMMA StepQInv ==
  ASSUME TInv, TInv', WInv, WInv', QInv, [Next]_vars PROVE QInv'
<1>t. /\ now \in Nat /\ hash \in [Keys -> HashType] /\ call \in [Calls -> CallType]
      /\ \A c \in Calls : call[c].key \in Keys /\ HashOf(c) = hash[call[c].key]
      /\ cur \subseteq Calls
  BY Durations DEF TInv, TypeOK, CallType, HashOf
<1>s. ASSUME cur' \subseteq cur PROVE IsFiniteSet(cur')
  BY <1>s, FS_Subset DEF QInv
\* a step that leaves Redis alone
<1>q. ASSUME UNCHANGED <<hash, now>>, cur' \subseteq cur, Carried PROVE QInv'
  <2>1. ASSUME NEW k \in Keys PROVE KeySound(k)'
    BY <1>q, <1>t, Holders, KeyKept
  <2> QED  BY <1>q, <1>s, <2>1 DEF QInv
<1>1. ASSUME NEW c \in Calls,
             Ask(c) \/ AllowReads(c) \/ AllowReturns(c) \/ AllowFails(c) \/ End(c)
             \/ RecordIgnored(c) \/ RecordFails(c) \/ RecordReturns(c)
      PROVE  QInv'
  <2>1. UNCHANGED <<hash, now>> /\ cur' \subseteq cur
    BY <1>1 DEF Ask, AskMemo, AskRedis, AllowReads, AllowReturns, AllowFails, End, Finish, Abandon,
                RecordIgnored, RecordFails, RecordReturns
  <2>2. \A d \in Calls \ {c} : call'[d] = call[d]
    BY <1>1, <1>t DEF Ask, AskMemo, AskRedis, AllowReads, AllowReturns, AllowFails, End, Finish,
                      Abandon, RecordIgnored, RecordReply, RecordFails, RecordReturns
  <2>3. call'[c].token # 0 => call'[c].key = call[c].key
    <3>0. /\ call[c] \in CallType /\ IdleCall.token = 0
          /\ \A token : Running(c, token).key = call[c].key
          /\ \A e, n : Reported(c, e, n).token = 0
      BY <1>t DEF IdleCall, Running, Reported
    <3>1. CASE Ask(c)
      BY <1>t, <3>1 DEF Ask, AskMemo, AskRedis, IdleCall
    <3>2. CASE AllowReads(c)
      BY <1>t, <3>0, <3>2 DEF AllowReads, CallType
    <3>3. CASE End(c)
      BY <1>t, <3>0, <3>3 DEF End, Finish, Abandon, CallType
    <3>4. CASE AllowReturns(c)
      BY <1>t, <3>0, <3>4 DEF AllowReturns
    <3>5. CASE AllowFails(c)
      BY <1>t, <3>0, <3>5 DEF AllowFails
    <3>6. CASE RecordIgnored(c)
      BY <1>t, <3>0, <3>6 DEF RecordIgnored, RecordReply
    <3>7. CASE RecordFails(c) \/ RecordReturns(c)
      BY <1>t, <3>0, <3>7 DEF RecordFails, RecordReturns
    <3> QED  BY <1>1, <3>1, <3>2, <3>3, <3>4, <3>5, <3>6, <3>7
  <2> QED  BY <2>1, <2>2, <2>3, <1>q DEF Carried
<1>2. ASSUME (\E i \in Instances : ResetReads(i) \/ MemoFlush(i) \/ Crash(i))
             \/ ResetAnnounces \/ UNCHANGED vars
      PROVE  QInv'
  <2>1. UNCHANGED <<hash, now>> /\ cur' \subseteq cur
    BY <1>2 DEF ResetReads, MemoFlush, Crash, ResetAnnounces, vars
  <2>2. Carried
    BY <1>2 DEF ResetReads, MemoFlush, Crash, ResetAnnounces, vars, IdleCall, Carried
  <2> QED  BY <2>1, <2>2, <1>q
\* Keys are forgotten, with the probes that calls hold of them.
<1>3. ASSUME ResetDeletes \/ Tick PROVE QInv'
  <2>1. call' = call /\ now <= now' /\ cur' \subseteq cur
    BY <1>3, <1>t DEF ResetDeletes, Tick
  <2>2. PICK gone \in SUBSET Keys :
          /\ \A k \in Keys : hash'[k] = IF k \in gone THEN EmptyHash ELSE hash[k]
          /\ cur' = cur \ UNION {CallsOn(k) : k \in gone}
    <3>1. CASE ResetDeletes
      BY <3>1 DEF ResetDeletes, TInv, TypeOK
    <3>2. CASE Tick
      BY <3>2 DEF Tick
    <3> QED  BY <1>3, <3>1, <3>2
  <2>3. Carried
    BY <2>1 DEF Carried
  <2>4. ASSUME NEW k \in Keys PROVE KeySound(k)'
    <3>1. CASE k \in gone
      <4>1. hash'[k] = EmptyHash /\ cur' \cap CallsOn(k) = {}
        BY <2>2, <3>1
      <4>2. ProbesOn(k)' = {}
        BY <2>1, <2>3, <4>1, Holders
      <4> QED  BY <4>1, <4>2, Emptied, KeyRestarts
    <3>2. CASE k \notin gone
      BY <2>1, <2>2, <2>3, <3>2, Holders, KeyKept
    <3> QED  BY <3>1, <3>2
  <2> QED  BY <2>1, <2>4, <1>s DEF QInv
<1>4. ASSUME NEW c \in Calls, NEW lost \in BOOLEAN, RecordVerdict(c, lost) \/ RecordSample(c, lost)
      PROVE  QInv'
  <2>k. PICK k \in Keys : k = call[c].key
    BY <1>t
  <2>1. cur' \subseteq cur /\ now' = now /\ call[c].phase = "reporting"
    BY <1>4 DEF RecordVerdict, RecordSample
  <2>2. Carried
    <3>1. call' = call \/ \E st, until, n : call' = [call EXCEPT ![c] = Reported(c, MemoEntry(c, st, until), n)]
      BY <1>4 DEF RecordVerdict, RecordSample, RecordReply
    <3>2. \A e, n : Reported(c, e, n).token = 0
      BY DEF Reported, IdleCall
    <3> QED  BY <1>t, <3>1, <3>2 DEF Carried
  <2>3. \A j \in Keys \ {k} : hash'[j] = hash[j]
    BY <1>4, <1>t, <2>k DEF RecordVerdict, RecordSample
  <2>4. ASSUME NEW j \in Keys, j # k PROVE KeySound(j)'
    BY <1>t, <2>1, <2>2, <2>3, <2>4, Holders, KeyKept
  <2>5. KeySound(k)'
    <3>o. /\ Opened(At(c)).probesAt = 0 /\ Opened(At(c)).probes = 0
          /\ Opened(At(c)).openUntil < Opened(At(c)).expireAt
          /\ Opened(At(c)).openUntil <= now + MaxSkew + OpenDuration
      BY <2>1, OpenedSound
    <3>1. CASE RecordVerdict(c, lost)
      <4>1. cur' \cap CallsOn(k) = {} /\ hash'[k] = IF call[c].ok THEN EmptyHash ELSE Opened(At(c))
        BY <1>t, <2>k, <3>1 DEF RecordVerdict
      <4>2. ProbesOn(k)' = {}
        BY <2>1, <2>2, <4>1, Holders
      <4> QED  BY <2>1, <2>k, <3>o, <4>1, <4>2, Emptied, KeyRestarts
    <3>2. CASE RecordSample(c, lost)
      <4>1. /\ hash[k].openUntil = 0 /\ cur' = cur
            /\ hash'[k] = IF Trips(hash[k], At(c), call[c].ok) THEN Opened(At(c))
                          ELSE WithSample(hash[k], At(c), call[c].ok)
        BY <1>t, <2>k, <3>2 DEF RecordSample, StateOf
      <4>2. hash[k].probesAt = 0 /\ hash[k] \in HashType
        BY <1>t, <4>1 DEF WInv, WindowFollowsOpening
      <4>3. ProbesOn(k) = {}
        BY <1>t, <4>2 DEF ProbesOn, WInv, TokensArePast, HoldersCarryTokens
      <4>4. ProbesOn(k)' = {}
        BY <2>1, <2>2, <4>3, Holders
      <4>5. CASE Trips(hash[k], At(c), call[c].ok)
        BY <2>1, <2>k, <3>o, <4>1, <4>4, <4>5, KeyRestarts
      <4>6. CASE ~Trips(hash[k], At(c), call[c].ok)
        <5>1. /\ hash'[k].openUntil = hash[k].openUntil /\ hash'[k].probes = hash[k].probes
              /\ hash'[k].probesAt = hash[k].probesAt
          BY <4>1, <4>2, <4>6 DEF WithSample, HashType
        <5> QED  BY <1>t, <2>1, <2>k, <4>1, <4>3, <4>4, <5>1, KeyKept
      <4> QED  BY <4>5, <4>6
    <3> QED  BY <1>4, <3>1, <3>2
  <2> QED  BY <2>1, <2>4, <2>5, <1>s, <1>t DEF QInv
\* A probe is counted, and its call holds it unless the reply is lost.
<1>5. ASSUME NEW c \in Calls, NEW lost \in BOOLEAN, AllowProbe(c, lost) PROVE QInv'
  <2>k. PICK k \in Keys : k = call[c].key
    BY <1>t
  <2>h. PICK h \in HashType : h = hash[k]
    BY <1>t
  <2>w. PICK t \in Nat : t = At(c) /\ t <= now + MaxSkew
    BY <1>5, ClockReading DEF AllowProbe
  <2>1. /\ StateOf(h, t) = "half_open" /\ Granted(h, t) < HalfOpenProbes
        /\ hash' = [hash EXCEPT ![k] = WithProbe(h, t)] /\ now' = now
        /\ \A d \in Calls \ {c} : call'[d] = call[d]
    BY <1>5, <1>t, <2>k, <2>h, <2>w DEF AllowProbe, CanProbe
  <2>2. /\ WithProbe(h, t).openUntil = h.openUntil
        /\ WithProbe(h, t).probes = Granted(h, t) + 1
        /\ WithProbe(h, t).probesAt = (IF NewWindow(h, t) THEN t ELSE h.probesAt)
        /\ WithProbe(h, t).expireAt = now + KeyTTL
    BY DEF WithProbe, HashType
  <2>3. /\ hash'[k] = WithProbe(h, t) /\ \A j \in Keys \ {k} : hash'[j] = hash[j]
    BY <1>t, <2>1
  <2>4. h.openUntil # 0 /\ h.openUntil <= t /\ h.openUntil \in Nat /\ h.probesAt \in Nat /\ h.probes \in Nat
    BY <2>1, <2>h, KeyNumbers DEF StateOf
  <2>5. call'[c].key = k
    <3>1. call[c] \in CallType
      BY <1>t
    <3> QED  BY <1>5, <1>t, <2>k, <3>1 DEF AllowProbe, CallType
  <2>6. cur' \subseteq cur \cup {c} /\ (NewWindow(h, t) => cur' \subseteq (cur \ CallsOn(k)) \cup {c})
    BY <1>5, <1>t, <2>k, <2>h, <2>w DEF AllowProbe
  <2>7. IsFiniteSet(cur')
    BY <2>6, FS_AddElement, FS_Subset DEF QInv
  <2>8. ASSUME NEW j \in Keys, j # k PROVE KeySound(j)'
    <3>1. ProbesOn(j)' \subseteq ProbesOn(j)
      BY <1>t, <2>1, <2>5, <2>6, <2>8 DEF ProbesOn
    <3> QED  BY <1>t, <2>1, <2>3, <2>8, <3>1, KeyKept
  <2>9. KeySound(k)'
    <3>1. hash'[k].probesAt # 0 /\ hash'[k].probes # 0 /\ Granted(h, t) \in Nat
      <4>1. NewWindow(h, t) \/ h.probesAt # 0
        BY DEF NewWindow
      <4> QED  BY <2>2, <2>3, <2>4, <4>1 DEF Granted
    <3>2. hash'[k].openUntil < hash'[k].expireAt /\ hash'[k].openUntil <= now' + MaxSkew + OpenDuration
      <4>1. KeyTTL > MaxSkew
        BY Durations, DelayAssumption
      <4> QED  BY <1>t, <2>1, <2>2, <2>3, <2>4, <2>w, <4>1, Durations
    <3>3. Cardinality(ProbesOn(k)') <= Granted(h, t) + 1
      <4>1. CASE NewWindow(h, t)
        <5>1. \A d \in cur' : d # c => d \in cur /\ d \notin CallsOn(k)
          BY <2>6, <4>1
        <5>2. ProbesOn(k)' \subseteq {c}
          BY <1>t, <2>1, <5>1 DEF ProbesOn, CallsOn, WInv, HoldersCarryTokens
        <5>3. IsFiniteSet({c}) /\ Cardinality({c}) = 1
          BY FS_Singleton
        <5>4. Cardinality(ProbesOn(k)') <= 1
          BY <5>2, <5>3, FS_Subset
        <5> QED  BY <4>1, <5>4 DEF Granted
      <4>2. CASE ~NewWindow(h, t)
        <5>1. ProbesOn(k)' \subseteq ProbesOn(k) \cup {c}
          BY <1>t, <2>1, <2>6 DEF ProbesOn
        <5>2. IsFiniteSet(ProbesOn(k))
          BY FS_Subset DEF QInv, ProbesOn
        <5>c. Cardinality(ProbesOn(k)) \in Nat
          BY <5>2, FS_CardinalityType
        <5>a. /\ IsFiniteSet(ProbesOn(k) \cup {c})
              /\ Cardinality(ProbesOn(k) \cup {c}) \in {Cardinality(ProbesOn(k)), Cardinality(ProbesOn(k)) + 1}
          BY <5>2, FS_AddElement
        <5>3. /\ IsFiniteSet(ProbesOn(k) \cup {c}) /\ Cardinality(ProbesOn(k)) \in Nat
              /\ Cardinality(ProbesOn(k) \cup {c}) <= Cardinality(ProbesOn(k)) + 1
          BY <5>a, <5>c
        <5>4. /\ Cardinality(ProbesOn(k)') <= Cardinality(ProbesOn(k) \cup {c})
              /\ Cardinality(ProbesOn(k)') \in Nat /\ Cardinality(ProbesOn(k) \cup {c}) \in Nat
          BY <5>1, <5>3, FS_Subset, FS_CardinalityType
        <5>5. Cardinality(ProbesOn(k)) <= h.probes /\ Granted(h, t) = h.probes
          BY <2>h, <4>2 DEF QInv, KeySound, Granted
        <5> QED  BY <2>4, <5>3, <5>4, <5>5
      <4> QED  BY <4>1, <4>2
    <3> QED  BY <2>2, <2>3, <3>1, <3>2, <3>3 DEF KeySound
  <2> QED  BY <2>7, <2>8, <2>9 DEF QInv
<1>6. Losses \subseteq BOOLEAN
  BY DEF Losses
<1> QED
  BY <1>1, <1>2, <1>3, <1>4, <1>5, <1>6 DEF Next, CallStep, Answer, Record, ResetStep

LEMMA AlwaysSound == Spec => [](TInv /\ WInv /\ QInv)
<1>1. Init => TInv /\ WInv /\ QInv
  <2>1. ASSUME Init PROVE QInv
    <3>1. IsFiniteSet({}) /\ Cardinality({}) = 0
      BY FS_EmptySet
    <3>2. \A k \in Keys : hash[k] = EmptyHash /\ ProbesOn(k) = {}
      BY <2>1 DEF Init, ProbesOn
    <3>3. cur = {}
      BY <2>1 DEF Init
    <3> QED  BY <3>1, <3>2, <3>3, Emptied DEF QInv, KeySound
  <2> QED  BY <2>1, InitTInv, InitWInv
<1>2. TInv /\ WInv /\ QInv /\ [Next]_vars => (TInv /\ WInv /\ QInv)'
  BY StepTInv, StepWInv, StepQInv
<1> QED  BY <1>1, <1>2, PTL DEF Spec

\* The calls that hold a probe of a key's current window are never more than the
\* key counts, nor these more than the quota: for any number of instances and
\* calls, with scripts late, repeated or answered to nobody (allowScript).
THEOREM QuotaHolds == Spec => []ProbeQuota
<1>1. TInv /\ WInv /\ QInv => ProbeQuota
  BY DEF TInv, TypeOK, HashType, QInv, KeySound, ProbeQuota
<1> QED  BY <1>1, AlwaysSound, PTL

(***************************************************************************)
(* The memo.  An entry says what Redis said when its script ran, and lasts *)
(* from the clock reading before that; replies under way are entries too.  *)
(***************************************************************************)

Honest(e) ==
  e.set =>
    /\ e.expires <= now + MemoTTL + MaxSkew
    /\ (e.allow # (hash[Base].openUntil = 0)) => e.expires <= flipAt + MemoTTL + MaxSkew
    /\ ~e.allow =>
         /\ e.expires <= now + OpenDuration + MaxSkew
         /\ hash[Base].openUntil # 0 => e.expires <= hash[Base].openUntil + MaxSkew + MaxDelay

MInv ==
  /\ flipAt <= now
  /\ \A i \in Instances : Honest(memo[i])
  /\ \A c \in Calls : Honest(call[c].reply)

LEMMA EntryNumbers ==
  ASSUME TInv
  PROVE  /\ now \in Nat /\ flipAt \in Nat /\ hash[Base].openUntil \in Nat
         /\ \A i \in Instances : memo[i] \in MemoType
         /\ \A c \in Calls : call[c].reply \in MemoType
         /\ \A e \in MemoType : e.expires \in Nat /\ e.allow \in BOOLEAN
BY Durations DEF TInv, TypeOK, HashType, CallType, MemoType, Time

\* What becomes of the key: its open period is the same, or ends, or is a new one.
Turns ==
  \/ hash'[Base].openUntil = hash[Base].openUntil /\ flipAt' \in {flipAt, now'}
  \/ hash'[Base].openUntil = 0 /\ flipAt' = now'
  \/ /\ hash'[Base].openUntil >= now - MaxDelay + OpenDuration
     /\ flipAt' = now' \/ (flipAt' = flipAt /\ hash[Base].openUntil # 0)

LEMMA StaysHonest ==
  ASSUME TInv, TInv', MInv, now <= now', Turns, NEW e \in MemoType, Honest(e)
  PROVE  Honest(e)'
<1>1. /\ now \in Nat /\ now' \in Nat /\ flipAt \in Nat /\ flipAt' \in Nat
      /\ hash[Base].openUntil \in Nat /\ hash'[Base].openUntil \in Nat
      /\ e.expires \in Nat /\ e.allow \in BOOLEAN /\ flipAt <= now
      /\ MemoTTL \in Nat /\ MaxSkew \in Nat /\ MaxDelay \in Nat /\ OpenDuration \in Nat
  BY EntryNumbers, Durations DEF MInv, TInv, TypeOK, HashType, Time
<1>2. MaxDelay + MaxSkew < OpenDuration
  BY DelayAssumption
<1>3. PICK x \in Nat : x = hash[Base].openUntil
  BY <1>1
<1>4. PICK y \in Nat : y = hash'[Base].openUntil
  BY <1>1
<1>5. e.set => /\ e.expires <= now + MemoTTL + MaxSkew
               /\ (e.allow # (x = 0)) => e.expires <= flipAt + MemoTTL + MaxSkew
               /\ ~e.allow => /\ e.expires <= now + OpenDuration + MaxSkew
                              /\ x # 0 => e.expires <= x + MaxSkew + MaxDelay
  BY <1>3 DEF Honest
<1>6. \/ y = x /\ flipAt' \in {flipAt, now'}
      \/ y = 0 /\ flipAt' = now'
      \/ y >= now - MaxDelay + OpenDuration /\ (flipAt' = now' \/ (flipAt' = flipAt /\ x # 0))
  BY <1>3, <1>4 DEF Turns
<1>7. e.set => /\ e.expires <= now' + MemoTTL + MaxSkew
               /\ (e.allow # (y = 0)) => e.expires <= flipAt' + MemoTTL + MaxSkew
               /\ ~e.allow => /\ e.expires <= now' + OpenDuration + MaxSkew
                              /\ y # 0 => e.expires <= y + MaxSkew + MaxDelay
  BY <1>1, <1>2, <1>5, <1>6
<1> QED  BY <1>4, <1>7 DEF Honest

LEMMA NoneHonest == Honest(NoMemo) /\ Honest(NoMemo)' /\ IdleCall.reply = NoMemo
BY DEF Honest, NoMemo, IdleCall

\* What a script said of the key is true when it has run.
LEMMA EntryHonest ==
  ASSUME TInv, TInv', NEW c \in Calls, call[c].phase # "idle", now' = now,
         NEW st \in {"closed", "open", "half_open"}, NEW until \in Nat,
         call[c].key = Base /\ st = "closed" => hash'[Base].openUntil = 0,
         call[c].key = Base /\ st = "open" => /\ until = hash'[Base].openUntil /\ until # 0
                                              /\ until <= now + MaxSkew + OpenDuration,
         NEW e, e = MemoEntry(c, st, until)
  PROVE  Honest(e)'
<1>1. /\ now \in Nat /\ flipAt' \in Nat /\ hash'[Base].openUntil \in Nat
      /\ At(c) \in Nat /\ At(c) <= now + MaxSkew
      /\ MemoTTL \in Nat /\ MaxSkew \in Nat /\ MaxDelay \in Nat /\ OpenDuration \in Nat
  BY ClockReading, Durations DEF TInv, TypeOK, HashType, Time
<1>2. CASE call[c].key # Base \/ st = "half_open"
  <2>1. e = NoMemo
    BY <1>2 DEF MemoEntry
  <2> QED  BY <2>1, NoneHonest
<1>3. CASE call[c].key = Base /\ st = "closed"
  <2>1. e.set /\ e.allow = TRUE /\ e.expires = At(c) + MemoTTL
    BY <1>3 DEF MemoEntry
  <2>2. e.expires <= now' + MemoTTL + MaxSkew
    BY <1>1, <2>1
  <2>3. e.allow = (hash'[Base].openUntil = 0)
    BY <1>3, <2>1
  <2> QED  BY <2>1, <2>2, <2>3 DEF Honest
<1>4. CASE call[c].key = Base /\ st = "open"
  <2>1. /\ e.set /\ e.allow = FALSE
        /\ e.expires = IF until < At(c) + MemoTTL THEN until ELSE At(c) + MemoTTL
    BY <1>4 DEF MemoEntry
  <2>2. /\ e.expires <= until /\ e.expires <= now' + MemoTTL + MaxSkew /\ e.expires \in Nat
        /\ until = hash'[Base].openUntil /\ until # 0
    BY <1>1, <1>4, <2>1
  <2>3. e.allow = (hash'[Base].openUntil = 0)
    BY <2>1, <2>2
  <2>4. /\ e.expires <= now' + OpenDuration + MaxSkew
        /\ e.expires <= hash'[Base].openUntil + MaxSkew + MaxDelay
    BY <1>1, <1>4, <2>2
  <2> QED  BY <2>1, <2>2, <2>3, <2>4 DEF Honest
<1> QED  BY <1>2, <1>3, <1>4

LEMMA MemoPutting ==
  ASSUME TInv, NEW c \in Calls, MemoPut(c)
  PROVE  \A i \in Instances : memo'[i] = memo[i] \/ memo'[i] = call[c].reply
BY DEF MemoPut, TInv, TypeOK

LEMMA StepMInv ==
  ASSUME TInv, TInv', WInv, QInv, MInv, [Next]_vars PROVE MInv'
<1>t. /\ now \in Nat /\ flipAt \in Nat /\ flipAt <= now
      /\ hash \in [Keys -> HashType] /\ call \in [Calls -> CallType]
      /\ memo \in [Instances -> MemoType] /\ Base \in Keys /\ NoMemo \in MemoType
      /\ IdleCall.reply = NoMemo
      /\ \A c \in Calls : call[c].key \in Keys /\ HashOf(c) = hash[call[c].key]
  BY EntryNumbers, IdleCallType, Durations DEF TInv, TypeOK, CallType, HashOf, MInv, IdleCall
<1>g. ASSUME Turns, now <= now', flipAt' <= now',
             \A i \in Instances : \/ memo'[i] = memo[i] \/ memo'[i] = NoMemo
                                  \/ \E d \in Calls : memo'[i] = call[d].reply,
             \A d \in Calls : \/ call'[d].reply = call[d].reply \/ call'[d].reply = NoMemo
                              \/ \E e : call'[d].reply = e /\ Honest(e)'
      PROVE  MInv'
  <2>1. \A e \in MemoType : Honest(e) => Honest(e)'
    BY <1>g, StaysHonest
  <2>2. ASSUME NEW i \in Instances PROVE Honest(memo[i])'
    <3>1. PICK e \in MemoType : e = memo'[i] /\ Honest(e)
      BY <1>g, <1>t, NoneHonest, EntryNumbers DEF MInv
    <3>2. Honest(e)'
      BY <2>1, <3>1
    <3> QED  BY <3>1, <3>2 DEF Honest
  <2>3. ASSUME NEW d \in Calls PROVE Honest(call[d].reply)'
    <3>1. CASE call'[d].reply = call[d].reply \/ call'[d].reply = NoMemo
      <4>1. PICK e \in MemoType : e = call'[d].reply /\ Honest(e)
        BY <1>t, <3>1, NoneHonest, EntryNumbers DEF MInv
      <4>2. Honest(e)'
        BY <2>1, <4>1
      <4> QED  BY <4>1, <4>2 DEF Honest
    <3>2. CASE \E e : call'[d].reply = e /\ Honest(e)'
      BY <3>2 DEF Honest
    <3> QED  BY <1>g, <3>1, <3>2
  <2> QED  BY <1>g, <2>2, <2>3 DEF MInv
\* a step that leaves Redis alone and stores old entries only
<1>q. ASSUME UNCHANGED <<now, flipAt>>, hash'[Base].openUntil = hash[Base].openUntil,
             \A i \in Instances : \/ memo'[i] = memo[i] \/ memo'[i] = NoMemo
                                  \/ \E d \in Calls : memo'[i] = call[d].reply,
             \A d \in Calls : \/ call'[d].reply = call[d].reply \/ call'[d].reply = NoMemo
                              \/ \E e : call'[d].reply = e /\ Honest(e)'
      PROVE  MInv'
  <2>1. Turns
    BY <1>q DEF Turns
  <2> QED  BY <1>q, <1>g, <1>t, <2>1
<1>1. ASSUME NEW c \in Calls, Ask(c) \/ AllowFails(c) \/ End(c) \/ RecordFails(c) PROVE MInv'
  <2>1. UNCHANGED <<now, flipAt, hash, memo>>
    BY <1>1 DEF Ask, AskMemo, AskRedis, AllowFails, End, Finish, Abandon, RecordFails
  <2>2. \A d \in Calls : call'[d].reply = call[d].reply \/ call'[d].reply = NoMemo
    <3>1. \A d \in Calls \ {c} : call'[d] = call[d]
      BY <1>1, <1>t DEF Ask, AskMemo, AskRedis, AllowFails, End, Finish, Abandon, RecordFails
    <3>2. call[c] \in CallType /\ \A token : Running(c, token).reply = NoMemo
      BY <1>t DEF Running, IdleCall
    <3>3. ASSUME Ask(c) PROVE call'[c].reply = NoMemo
      BY <1>t, <3>3 DEF Ask, AskMemo, AskRedis, IdleCall
    <3>4. ASSUME AllowFails(c) PROVE call'[c].reply = NoMemo
      BY <1>t, <3>2, <3>4 DEF AllowFails
    <3>5. ASSUME \E ok \in BOOLEAN : Finish(c, ok) PROVE call'[c].reply = call[c].reply
      BY <1>t, <3>2, <3>5 DEF Finish, CallType
    <3>6. ASSUME Abandon(c) \/ RecordFails(c) PROVE call'[c].reply = NoMemo
      BY <1>t, <3>6 DEF Abandon, RecordFails
    <3> QED  BY <1>1, <3>1, <3>3, <3>4, <3>5, <3>6 DEF End
  <2> QED  BY <2>1, <2>2, <1>q
<1>2. ASSUME NEW c \in Calls, AllowReturns(c) \/ RecordReturns(c) PROVE MInv'
  <2>1. UNCHANGED <<now, flipAt, hash>> /\ MemoPut(c)
    BY <1>2 DEF AllowReturns, RecordReturns
  <2>2. \A d \in Calls : call'[d].reply = call[d].reply \/ call'[d].reply = NoMemo
    <3>1. \A token : Running(c, token).reply = NoMemo
      BY <1>t DEF Running, IdleCall
    <3> QED  BY <1>2, <1>t, <3>1 DEF AllowReturns, RecordReturns
  <2> QED  BY <2>1, <2>2, <1>q, MemoPutting
<1>3. ASSUME (\E i \in Instances : ResetReads(i) \/ MemoFlush(i) \/ Crash(i))
             \/ ResetAnnounces \/ UNCHANGED vars
      PROVE  MInv'
  <2>1. UNCHANGED <<now, flipAt, hash>>
    BY <1>3 DEF ResetReads, MemoFlush, Crash, ResetAnnounces, vars
  <2>2. \A i \in Instances : memo'[i] = memo[i] \/ memo'[i] = NoMemo
    BY <1>3, <1>t DEF ResetReads, MemoFlush, Crash, ResetAnnounces, vars
  <2>3. \A d \in Calls : call'[d].reply = call[d].reply \/ call'[d].reply = NoMemo
    BY <1>3, <1>t DEF ResetReads, MemoFlush, Crash, ResetAnnounces, vars
  <2> QED  BY <2>1, <2>2, <2>3, <1>q
<1>4. ASSUME ResetDeletes \/ Tick PROVE MInv'
  <2>1. UNCHANGED <<call, memo>> /\ now <= now' /\ flipAt' <= now' /\ EmptyHash.openUntil = 0
    BY <1>4, <1>t DEF ResetDeletes, Tick, EmptyHash
  <2>2. Turns
    <3>1. CASE ResetDeletes
      BY <1>t, <2>1, <3>1 DEF ResetDeletes, Turns
    <3>2. CASE Tick
      BY <1>t, <2>1, <3>2 DEF Tick, Turns
    <3> QED  BY <1>4, <3>1, <3>2
  <2> QED  BY <2>1, <2>2, <1>g
<1>5. ASSUME NEW c \in Calls, NEW lost \in BOOLEAN, AllowProbe(c, lost) PROVE MInv'
  <2>1. UNCHANGED <<now, flipAt, memo>>
    BY <1>5 DEF AllowProbe
  <2>2. hash'[Base].openUntil = hash[Base].openUntil
    <3>1. \A h \in HashType : WithProbe(h, At(c)).openUntil = h.openUntil
      BY DEF WithProbe, HashType
    <3> QED  BY <1>5, <1>t, <3>1 DEF AllowProbe
  <2>3. \A d \in Calls : call'[d].reply = call[d].reply
    <3>1. call[c] \in CallType /\ \A d \in Calls \ {c} : call'[d] = call[d]
      BY <1>5, <1>t DEF AllowProbe
    <3>2. call'[c].reply = call[c].reply
      BY <1>5, <1>t, <3>1 DEF AllowProbe, CallType
    <3> QED  BY <3>1, <3>2
  <2> QED  BY <2>1, <2>2, <2>3, <1>q
\* what the scripts said
<1>e. ASSUME NEW c \in Calls, call[c].phase # "idle"
      PROVE  /\ hash[Base].openUntil # 0 => hash[Base].openUntil <= now + MaxSkew + OpenDuration
             /\ StateOf(HashOf(c), At(c)) \in {"closed", "open", "half_open"}
             /\ StateOf(HashOf(c), At(c)) = "closed" <=> HashOf(c).openUntil = 0
             /\ HashOf(c).openUntil \in Nat
  BY <1>t, KeyNumbers DEF QInv, KeySound, StateOf
<1>6. ASSUME NEW c \in Calls, AllowReads(c) \/ RecordIgnored(c) PROVE MInv'
  <2>1. UNCHANGED <<now, flipAt, hash, memo>> /\ call[c].phase # "idle"
    BY <1>6 DEF AllowReads, RecordIgnored
  <2>2. PICK e : e = MemoEntry(c, StateOf(HashOf(c), At(c)), HashOf(c).openUntil)
    OBVIOUS
  <2>3. Honest(e)'
    BY <1>t, <1>e, <2>1, <2>2, EntryHonest
  <2>4. \A d \in Calls : call'[d].reply = call[d].reply \/ call'[d].reply = e
    <3>1. call[c] \in CallType /\ \A x, n : Reported(c, x, n).reply = x
      BY <1>t DEF Reported, IdleCall
    <3>2. CASE AllowReads(c)
      BY <1>t, <2>2, <3>1, <3>2 DEF AllowReads, CallType
    <3>3. CASE RecordIgnored(c)
      BY <1>t, <2>2, <3>1, <3>3 DEF RecordIgnored, RecordReply
    <3> QED  BY <1>6, <3>2, <3>3
  <2> QED  BY <2>1, <2>3, <2>4, <1>q
<1>7. ASSUME NEW c \in Calls, NEW lost \in BOOLEAN, RecordVerdict(c, lost) \/ RecordSample(c, lost)
      PROVE  MInv'
  <2>1. UNCHANGED <<now, memo>> /\ call[c].phase = "reporting" /\ flipAt' \in {flipAt, now}
        /\ Timely(c)
    BY <1>7 DEF RecordVerdict, RecordSample
  <2>k. PICK k \in Keys : k = call[c].key
    BY <1>t
  <2>o. /\ Opened(At(c)).openUntil = At(c) + OpenDuration /\ At(c) \in Nat /\ At(c) >= now - MaxDelay
        /\ Opened(At(c)).openUntil <= now + MaxSkew + OpenDuration
        /\ EmptyHash.openUntil = 0
    BY <2>1, ClockReading, OpenedSound, Emptied
  <2>2. PICK st \in {"closed", "open"} :
          /\ RecordReply(c, lost, st, hash'[k].openUntil, TRUE)
             \/ RecordReply(c, lost, st, hash'[k].openUntil, FALSE)
          /\ st = "closed" => hash'[k].openUntil = 0
          /\ st = "open" => hash'[k].openUntil = Opened(At(c)).openUntil
          /\ k = Base => Turns
    <3>1. CASE RecordVerdict(c, lost)
      <4>1. /\ hash'[k] = IF call[c].ok THEN EmptyHash ELSE Opened(At(c))
            /\ RecordReply(c, lost, IF call[c].ok THEN "closed" ELSE "open", hash'[k].openUntil, TRUE)
            /\ hash[k].openUntil # 0
            /\ flipAt' = IF call[c].ok /\ k = Base THEN now ELSE flipAt
        BY <1>t, <2>k, <3>1 DEF RecordVerdict, StateOf
      <4>2. k = Base => Turns
        BY <1>t, <2>1, <2>o, <4>1, Durations DEF Turns
      <4> QED  BY <2>o, <4>1, <4>2
    <3>2. CASE RecordSample(c, lost)
      <4>1. hash[k].openUntil = 0 /\ RecordSample(c, lost) /\ HashOf(c) = hash[k]
        BY <1>t, <2>k, <3>2 DEF RecordSample, StateOf
      <4>2. CASE Trips(hash[k], At(c), call[c].ok)
        <5>1. /\ hash'[k] = Opened(At(c)) /\ RecordReply(c, lost, "open", hash'[k].openUntil, TRUE)
              /\ flipAt' = IF k = Base THEN now ELSE flipAt
          BY <1>t, <2>k, <4>1, <4>2 DEF RecordSample, RecordReply
        <5>2. k = Base => Turns
          BY <1>t, <2>1, <2>o, <5>1, Durations DEF Turns
        <5> QED  BY <5>1, <5>2
      <4>3. CASE ~Trips(hash[k], At(c), call[c].ok)
        <5>1. /\ hash'[k] = WithSample(hash[k], At(c), call[c].ok) /\ flipAt' = flipAt
              /\ RecordReply(c, lost, "closed", hash'[k].openUntil, FALSE)
          BY <1>t, <2>k, <4>1, <4>3 DEF RecordSample, RecordReply
        <5>2. hash'[k].openUntil = 0
          BY <1>t, <4>1, <5>1 DEF WithSample, HashType
        <5>3. k = Base => Turns
          BY <4>1, <5>1, <5>2 DEF Turns
        <5> QED  BY <5>1, <5>2, <5>3
      <4> QED  BY <4>2, <4>3
    <3> QED  BY <1>7, <3>1, <3>2
  <2>3. Turns
    <3>1. CASE k # Base
      <4>1. hash'[Base] = hash[Base]
        BY <1>7, <1>t, <2>k, <3>1 DEF RecordVerdict, RecordSample
      <4> QED  BY <2>1, <4>1 DEF Turns
    <3> QED  BY <2>2, <3>1
  <2>4. \A d \in Calls : \/ call'[d].reply = call[d].reply
                         \/ \E e : call'[d].reply = e /\ Honest(e)'
    <3>1. PICK e : e = MemoEntry(c, st, hash'[k].openUntil)
      OBVIOUS
    <3>2. Honest(e)'
      <4>1. hash'[k].openUntil \in Nat
        BY Durations DEF TInv, TypeOK, HashType, Time
      <4> QED  BY <2>1, <2>2, <2>k, <2>o, <3>1, <4>1, Durations, EntryHonest
    <3>3. \A x, n : Reported(c, x, n).reply = x
      BY DEF Reported, IdleCall
    <3> QED  BY <1>t, <2>2, <3>1, <3>2, <3>3 DEF RecordReply
  <2> QED  BY <1>t, <2>1, <2>3, <2>4, <1>g
<1>8. Losses \subseteq BOOLEAN
  BY DEF Losses
<1> QED
  BY <1>1, <1>2, <1>3, <1>4, <1>5, <1>6, <1>7, <1>8 DEF Next, CallStep, Answer, Record, ResetStep

LEMMA AlwaysHonest == Spec => []MInv
<1>1. Init => MInv
  BY NoneHonest DEF Init, MInv
<1>2. TInv /\ TInv' /\ WInv /\ QInv /\ MInv /\ [Next]_vars => MInv'
  BY StepMInv
<1> QED  BY <1>1, <1>2, AlwaysSound, PTL DEF Spec

\* A cached decision contradicts Redis for at most memoTTL and the skew after the
\* circuit opened or closed, on any number of instances, through replies however
\* late, flushes, crashes and resets.
THEOREM StalenessBounded == Spec => []MemoStalenessBounded
<1>1. MInv => MemoStalenessBounded
  BY DEF MInv, Honest, MemoStalenessBounded
<1> QED  BY <1>1, AlwaysHonest, PTL

\* A cached refusal ends with the open episode, up to the clocks' difference and
\* the delay of the script that opened it, whichever instances were involved.
THEOREM DenialsEnd == Spec => []MemoDenialEndsWithEpisode
<1>1. MInv => MemoDenialEndsWithEpisode
  BY DEF MInv, Honest, MemoDenialEndsWithEpisode
<1> QED  BY <1>1, AlwaysHonest, PTL

(***************************************************************************)
(* Which steps write a key, and in what state it is then.                  *)
(***************************************************************************)

Forgotten(k) ==
  /\ hash'[k] = EmptyHash
  /\ \/ reset.pc = "read" /\ reset'.pc = "deleted"
     \/ hash[k].expireAt # 0 /\ hash[k].expireAt <= now'
Probed(k) ==
  \E c \in Calls : /\ call[c].phase = "asking" /\ call[c].key = k
                   /\ CanProbe(hash[k], At(c)) /\ hash'[k] = WithProbe(hash[k], At(c))
Judged(k) ==
  \E c \in Calls : /\ call[c].phase = "reporting" /\ call[c].key = k /\ Timely(c)
                   /\ StateOf(hash[k], At(c)) = "half_open"
                   /\ call[c].token # 0 /\ call[c].token = hash[k].probesAt
                   /\ hash'[k] \in {EmptyHash, Opened(At(c))}
Sampled(k) ==
  \E c \in Calls : /\ call[c].phase = "reporting" /\ call[c].key = k /\ Timely(c)
                   /\ hash[k].openUntil = 0
                   /\ hash'[k] = Opened(At(c)) \/ \E ok : hash'[k] = WithSample(hash[k], At(c), ok)

LEMMA Writes ==
  ASSUME TInv, [Next]_vars, NEW k \in Keys
  PROVE  \/ UNCHANGED <<now, hash[k]>>
         \/ now' = now + 1 /\ UNCHANGED hash[k]
         \/ now' \in {now, now + 1} /\ Forgotten(k)
         \/ now' = now /\ (Probed(k) \/ Judged(k) \/ Sampled(k))
<1>t. /\ hash \in [Keys -> HashType]
      /\ \A c \in Calls : call[c].key \in Keys /\ HashOf(c) = hash[call[c].key]
  BY DEF TInv, TypeOK, CallType, HashOf
<1>1. ASSUME NEW c \in Calls, NEW lost \in BOOLEAN, AllowProbe(c, lost)
      PROVE  now' = now /\ (hash'[k] = hash[k] \/ Probed(k))
  BY <1>1, <1>t DEF AllowProbe, Probed
<1>2. ASSUME NEW c \in Calls, NEW lost \in BOOLEAN, RecordVerdict(c, lost)
      PROVE  now' = now /\ (hash'[k] = hash[k] \/ Judged(k))
  BY <1>2, <1>t DEF RecordVerdict, IsVerdict, Judged
<1>3. ASSUME NEW c \in Calls, NEW lost \in BOOLEAN, RecordSample(c, lost)
      PROVE  now' = now /\ (hash'[k] = hash[k] \/ Sampled(k))
  <2>1. /\ now' = now /\ call[c].phase = "reporting" /\ Timely(c)
        /\ hash[call[c].key].openUntil = 0
        /\ hash' = [hash EXCEPT ![call[c].key] =
                      IF Trips(HashOf(c), At(c), call[c].ok) THEN Opened(At(c))
                      ELSE WithSample(HashOf(c), At(c), call[c].ok)]
    BY <1>3, <1>t DEF RecordSample, StateOf
  <2> QED  BY <1>t, <2>1 DEF Sampled
<1>4. ASSUME ResetDeletes
      PROVE  now' = now /\ (hash'[k] = hash[k] \/ Forgotten(k))
  BY <1>4 DEF ResetDeletes, TInv, TypeOK, Forgotten
<1>5. ASSUME Tick
      PROVE  now' = now + 1 /\ (hash'[k] = hash[k] \/ Forgotten(k))
  BY <1>5 DEF Tick, Forgotten
<1>6. ASSUME NEW c \in Calls, CallStep(c)
      PROVE  now' = now /\ (hash'[k] = hash[k] \/ Probed(k) \/ Judged(k) \/ Sampled(k))
  <2>1. CASE \E lost \in Losses : AllowProbe(c, lost) \/ RecordVerdict(c, lost) \/ RecordSample(c, lost)
    BY <2>1, <1>1, <1>2, <1>3 DEF Losses
  <2>2. CASE Ask(c) \/ AllowReads(c) \/ AllowFails(c) \/ AllowReturns(c) \/ End(c)
    BY <2>2 DEF Ask, AskMemo, AskRedis, AllowReads, AllowFails, AllowReturns, End, Finish, Abandon
  <2>3. CASE RecordIgnored(c) \/ RecordFails(c) \/ RecordReturns(c)
    BY <2>3 DEF RecordIgnored, RecordFails, RecordReturns
  <2> QED  BY <1>6, <2>1, <2>2, <2>3 DEF CallStep, Answer, Record
<1>7. ASSUME (\E i \in Instances : ResetReads(i) \/ MemoFlush(i) \/ Crash(i))
             \/ ResetAnnounces \/ UNCHANGED vars
      PROVE  UNCHANGED <<now, hash>>
  BY <1>7 DEF ResetReads, MemoFlush, Crash, ResetAnnounces, vars
<1> QED  BY <1>4, <1>5, <1>6, <1>7 DEF Next, ResetStep

OpenStays ==
  \A k \in Keys :
    (now + MaxSkew < hash[k].openUntil /\ hash'[k] # hash[k]) =>
      reset.pc = "read" /\ reset'.pc = "deleted"

LEMMA StepOpenStays ==
  ASSUME TInv, WInv, QInv, [Next]_vars PROVE OpenStays
<1> SUFFICES ASSUME NEW k \in Keys, now + MaxSkew < hash[k].openUntil, hash'[k] # hash[k]
             PROVE  reset.pc = "read" /\ reset'.pc = "deleted"
  BY DEF OpenStays
<1>1. /\ now \in Nat /\ hash[k].openUntil \in Nat /\ hash[k].expireAt \in Nat
      /\ MaxSkew \in Nat /\ hash[k].openUntil # 0 /\ hash[k].openUntil < hash[k].expireAt
  BY KeyNumbers, Durations DEF QInv, KeySound
<1>2. ASSUME NEW c \in Calls, call[c].phase # "idle" PROVE StateOf(hash[k], At(c)) = "open"
  <2>1. At(c) \in Nat /\ At(c) <= now + MaxSkew
    BY <1>2, ClockReading
  <2> QED  BY <1>1, <2>1 DEF StateOf
<1>3. ~Probed(k) /\ ~Judged(k) /\ ~Sampled(k)
  BY <1>1, <1>2 DEF Probed, CanProbe, Judged, Sampled
<1>4. Forgotten(k) /\ now' \in {now, now + 1}
  BY <1>3, Writes
<1> QED  BY <1>1, <1>4 DEF Forgotten

\* An open episode is left alone by whatever results and clocks come along, for
\* any number of instances: only Reset changes it (V-BR-03).
THEOREM OpenUndisturbed == Spec => OpenIsLeftAlone
<1>1. TInv /\ WInv /\ QInv /\ [Next]_vars => [OpenStays]_vars
  BY StepOpenStays
<1>2. Spec => [][OpenStays]_vars
  BY <1>1, AlwaysSound, PTL DEF Spec
<1> QED  BY <1>2 DEF OpenStays, OpenIsLeftAlone

(***************************************************************************)
(* The abstract circuit.  With clocks that agree, a script that is late    *)
(* finds the key in the state that the true time sees.                     *)
(***************************************************************************)

LEMMA StepOfCircuit ==
  ASSUME MaxSkew = 0, TInv, WInv, QInv, [Next]_vars, NEW k \in Keys
  PROVE  CircuitOf(k)!CNext \/ UNCHANGED CircuitOf(k)!cvars
<1>1. PICK h \in HashType : h = hash[k]
  BY DEF TInv, TypeOK
<1>2. /\ now \in Nat /\ h.openUntil \in Nat /\ h.probes \in Nat /\ h.probesAt \in Nat
      /\ h.probes <= HalfOpenProbes
      /\ h.probesAt = 0 <=> h.probes = 0
      /\ h.probesAt # 0 => h.openUntil # 0 /\ h.openUntil <= h.probesAt /\ h.probesAt <= now
  BY <1>1, KeyNumbers, Durations DEF HashType, QInv, KeySound, WInv, WindowFollowsOpening
<1>3. ASSUME NEW c \in Calls, call[c].phase # "idle"
      PROVE  /\ At(c) \in Nat /\ At(c) <= now
             /\ Timely(c) => At(c) + OpenDuration > now
  BY <1>2, <1>3, ClockReading, Durations, DelayAssumption
<1>4. CASE now' = now + 1 /\ hash'[k] = h
  <2>1. CASE StateOf(h, now) # "open"
    <3>1. StateOf(h, now + 1) = StateOf(h, now)
      BY <1>2, <2>1 DEF StateOf
    <3> QED  BY <1>1, <1>4, <3>1 DEF CircuitOf!cvars
  <2>2. CASE StateOf(h, now) = "open"
    <3>1. now < h.openUntil /\ h.probes = 0
      BY <1>2, <2>2 DEF StateOf
    <3>2. StateOf(h, now + 1) \in {"open", "half_open"}
      BY <1>2, <3>1 DEF StateOf
    <3> QED  BY <1>1, <1>4, <2>2, <3>1, <3>2 DEF CircuitOf!CNext, CircuitOf!Cool, CircuitOf!cvars
  <2> QED  BY <2>1, <2>2
<1>5. CASE Forgotten(k)
  <2>1. hash'[k].openUntil = 0 /\ hash'[k].probes = 0
    BY <1>5, Emptied DEF Forgotten
  <2>2. StateOf(hash'[k], now') = "closed"
    BY <2>1 DEF StateOf
  <2>3. StateOf(h, now) = "closed" => h.probes = 0
    BY <1>2 DEF StateOf
  <2> QED  BY <1>1, <2>1, <2>2, <2>3 DEF CircuitOf!CNext, CircuitOf!Forget, CircuitOf!cvars
<1>6. ASSUME NEW c \in Calls, call[c].phase # "idle", StateOf(h, At(c)) = "half_open"
      PROVE  StateOf(h, now) = "half_open"
  BY <1>2, <1>3, <1>6 DEF StateOf
<1>7. CASE now' = now /\ Probed(k)
  <2>1. PICK c \in Calls : /\ call[c].phase = "asking" /\ CanProbe(h, At(c))
                           /\ hash'[k] = WithProbe(h, At(c))
    BY <1>1, <1>7 DEF Probed
  <2>2. StateOf(h, now) = "half_open" /\ Granted(h, At(c)) < HalfOpenProbes
    BY <1>6, <2>1 DEF CanProbe
  <2>3. /\ hash'[k].openUntil = h.openUntil /\ hash'[k].probes = Granted(h, At(c)) + 1
    BY <2>1 DEF WithProbe, HashType
  <2>4. StateOf(hash'[k], now') = "half_open"
    BY <1>7, <2>2, <2>3 DEF StateOf
  <2>5. CASE Granted(h, At(c)) = h.probes
    BY <1>1, <2>2, <2>3, <2>4, <2>5 DEF CircuitOf!CNext, CircuitOf!Probe
  <2>6. CASE Granted(h, At(c)) # h.probes
    <3>1. Granted(h, At(c)) = 0 /\ h.probes > 0
      BY <1>2, <2>6 DEF Granted
    <3> QED  BY <1>1, <2>2, <2>3, <2>4, <3>1 DEF CircuitOf!CNext, CircuitOf!Retrial
  <2> QED  BY <2>5, <2>6
<1>8. ASSUME NEW c \in Calls, call[c].phase # "idle", Timely(c), now' = now, hash'[k] = Opened(At(c))
      PROVE  StateOf(hash'[k], now') = "open" /\ hash'[k].probes = 0
  <2>1. /\ hash'[k].openUntil = At(c) + OpenDuration /\ hash'[k].probes = 0
    BY <1>8, OpenedSound
  <2>2. At(c) + OpenDuration > now /\ At(c) \in Nat /\ OpenDuration \in Nat /\ OpenDuration > 0
    BY <1>3, <1>8, Durations
  <2> QED  BY <1>2, <1>8, <2>1, <2>2 DEF StateOf
<1>9. CASE now' = now /\ Judged(k)
  <2>1. PICK c \in Calls : /\ call[c].phase = "reporting" /\ Timely(c)
                           /\ StateOf(h, At(c)) = "half_open"
                           /\ call[c].token # 0 /\ call[c].token = h.probesAt
                           /\ hash'[k] \in {EmptyHash, Opened(At(c))}
    BY <1>1, <1>9 DEF Judged
  <2>2. StateOf(h, now) = "half_open" /\ h.probes > 0
    BY <1>2, <1>6, <2>1
  <2>3. CASE hash'[k] = EmptyHash
    <3>1. StateOf(hash'[k], now') = "closed" /\ hash'[k].probes = 0
      BY <2>3, Emptied DEF StateOf
    <3> QED  BY <1>1, <2>2, <3>1 DEF CircuitOf!CNext, CircuitOf!Verdict
  <2>4. CASE hash'[k] = Opened(At(c))
    <3>1. StateOf(hash'[k], now') = "open" /\ hash'[k].probes = 0
      BY <1>8, <1>9, <2>1, <2>4
    <3> QED  BY <1>1, <2>2, <3>1 DEF CircuitOf!CNext, CircuitOf!Verdict
  <2> QED  BY <2>1, <2>3, <2>4
<1>10. CASE now' = now /\ Sampled(k)
  <2>1. PICK c \in Calls : /\ call[c].phase = "reporting" /\ Timely(c) /\ h.openUntil = 0
                           /\ hash'[k] = Opened(At(c)) \/ \E ok : hash'[k] = WithSample(h, At(c), ok)
    BY <1>1, <1>10 DEF Sampled
  <2>2. StateOf(h, now) = "closed" /\ h.probes = 0
    BY <1>2, <2>1 DEF StateOf
  <2>3. CASE hash'[k] = Opened(At(c))
    <3>1. StateOf(hash'[k], now') = "open" /\ hash'[k].probes = 0
      BY <1>8, <1>10, <2>1, <2>3
    <3> QED  BY <1>1, <2>2, <3>1 DEF CircuitOf!CNext, CircuitOf!Trip
  <2>4. CASE \E ok : hash'[k] = WithSample(h, At(c), ok)
    <3>1. hash'[k].openUntil = 0 /\ hash'[k].probes = 0
      BY <2>1, <2>2, <2>4 DEF WithSample, HashType
    <3>2. StateOf(hash'[k], now') = "closed"
      BY <3>1 DEF StateOf
    <3> QED  BY <1>1, <2>2, <3>1, <3>2 DEF CircuitOf!cvars
  <2> QED  BY <2>1, <2>3, <2>4
<1>11. CASE UNCHANGED <<now, hash[k]>>
  BY <1>11 DEF CircuitOf!cvars, StateOf
<1> QED  BY <1>1, <1>4, <1>5, <1>7, <1>9, <1>10, <1>11, Writes

\* Every key of the breaker behaves as the three-state circuit of module Circuit,
\* however its scripts are delayed, repeated or cut off, as long as the instances'
\* clocks agree: the refinement that the runs check for two calls.
THEOREM KeepsPromise ==
  ASSUME MaxSkew = 0 PROVE Spec => Promise
<1>1. Init => \A k \in Keys : CircuitOf(k)!CInit
  <2>1. ASSUME Init, NEW k \in Keys PROVE CircuitOf(k)!CInit
    <3>1. hash[k].openUntil = 0 /\ hash[k].probes = 0
      BY <2>1, Emptied DEF Init
    <3>2. StateOf(hash[k], now) = "closed"
      BY <3>1 DEF StateOf
    <3> QED  BY <3>1, <3>2 DEF CircuitOf!CInit
  <2> QED  BY <2>1
<1>2. TInv /\ WInv /\ QInv /\ [Next]_vars =>
        [\A k \in Keys : CircuitOf(k)!CNext \/ UNCHANGED CircuitOf(k)!cvars]_vars
  BY StepOfCircuit
<1>3. Spec => [][\A k \in Keys : CircuitOf(k)!CNext \/ UNCHANGED CircuitOf(k)!cvars]_vars
  BY <1>2, AlwaysSound, PTL DEF Spec
<1>4. Spec => Init
  BY PTL DEF Spec
<1> QED  BY <1>1, <1>3, <1>4 DEF Promise

=============================================================================
