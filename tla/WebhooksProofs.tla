---------------------------- MODULE WebhooksProofs --------------------------
(***************************************************************************)
(* Proofs about Webhooks, for any number of workers and deliveries: the     *)
(* worker that delivers a row holds its lease, and what has ended stays so. *)
(***************************************************************************)
EXTENDS Webhooks, TLAPS

\* A lease is not older than the round of the worker that holds it, so no lease
\* of a round that still runs is old enough to be recovered.
Leased ==
  \A w \in Workers : ~Cut(w) =>
    \A d \in Holds(w) :
      row[d].status = "delivering" /\ row[d].by = w /\ row[d].lease <= age[w]

IInv == TypeOK /\ Leased

\* The set of rows.
Rows == [status : Statuses, attempts : 0 .. MaxRetries + 1, wait : Nat,
         lease : 0 .. Stuck + 1, by : Workers \cup {None}]

\* What TypeOK says of one row beyond its type.
Sound(rw) ==
  /\ rw \in Rows
  /\ (rw.status = "delivering") <=> (rw.by # None)
  /\ rw.attempts > MaxRetries => rw.status = "abandoned"

LEMMA TypeOfRows ==
  TypeOK <=> /\ hook \in {"enabled", "disabled", "deleted"}
             /\ row \in [Deliveries -> Rows] /\ \A d \in Deliveries : Sound(row[d])
             /\ item \in [Workers -> [Deliveries -> [at : Stages, attempts : 0 .. MaxRetries]]]
             /\ age \in [Workers -> 0 .. Deadline]
             /\ unread \subseteq Deliveries
             /\ faults \in 0 .. MaxFaults /\ edits \in 0 .. MaxEdits
  BY DEF TypeOK, Rows, Sound

LEMMA Bounds ==
  /\ Stuck \in Nat \ {0} /\ Deadline \in Nat \ {0} /\ Waits \subseteq Nat
  /\ MaxRetries \in Nat /\ MaxFaults \in Nat /\ MaxEdits \in Nat
  BY BoundsAssumption DEF BoundsAssumption

\* Values that fields of rows take.
LEMMA RowFields ==
  /\ {"pending", "delivering", "delivered", "failed", "abandoned"} \subseteq Statuses
  /\ 0 \in 0 .. Stuck + 1
  BY Bounds DEF Statuses

\* Initially no row is leased.
LEMMA InitIInv == Init => IInv
<1> SUFFICES ASSUME Init PROVE IInv
  OBVIOUS
<1>1. TypeOK
  <2>1. NoRow \in Rows
    BY Bounds DEF NoRow, Rows, Statuses
  <2>2. Sound(NoRow)
    BY <2>1, Bounds DEF Sound, NoRow
  <2>3. NoBatch \in [Deliveries -> [at : Stages, attempts : 0 .. MaxRetries]]
    BY Bounds DEF NoBatch, NoItem, Stages
  <2> QED  BY <2>1, <2>2, <2>3, Bounds, TypeOfRows DEF Init
<1>2. Leased
  BY DEF Init, Leased, Holds, InBatch, NoBatch, NoItem
<1> QED  BY <1>1, <1>2 DEF IInv

\* What a running round holds, nobody else's running round does.
LEMMA HeldByOne ==
  ASSUME IInv, NEW w \in Workers, NEW d \in Holds(w), ~Cut(w)
  PROVE  /\ d \in Deliveries
         /\ row[d].status = "delivering" /\ row[d].by = w /\ row[d].lease <= age[w]
         /\ \A v \in Workers : ~Cut(v) /\ d \in Holds(v) => v = w
  BY DEF IInv, Leased, Holds, InBatch

\* A delivery that changes its stage in memory stays in what is held.
LEMMA GoesHolds ==
  ASSUME TypeOK, NEW w \in Workers, NEW d \in Holds(w),
         NEW at \in Stages \ {"none", "ended"}, Goes(w, d, at)
  PROVE  /\ item' \in [Workers -> [Deliveries -> [at : Stages, attempts : 0 .. MaxRetries]]]
         /\ age' = age
         /\ \A v \in Workers : Holds(v)' = Holds(v)
<1>1. d \in Deliveries
  BY DEF Holds, InBatch
<1> DEFINE Items == [at : Stages, attempts : 0 .. MaxRetries]
<1>2. item' \in [Workers -> [Deliveries -> Items]]
  <2>1. item \in [Workers -> [Deliveries -> Items]] /\ at \in Stages
    BY DEF TypeOK
  <2>2. [item[w][d] EXCEPT !.at = at] \in Items
    BY <1>1, <2>1
  <2>3. item' = [item EXCEPT ![w][d] = [item[w][d] EXCEPT !.at = at]]
    BY <1>1, <2>1 DEF Goes
  <2> HIDE DEF Items
  <2> QED  BY <1>1, <2>1, <2>2, <2>3
<1>3. ASSUME NEW v \in Workers, NEW e \in Deliveries
      PROVE  item'[v][e].at = IF v = w /\ e = d THEN at ELSE item[v][e].at
  BY <1>1 DEF TypeOK, Goes
<1>4. \A v \in Workers : Holds(v)' = Holds(v)
  BY <1>3 DEF Holds, InBatch
<1> QED  BY <1>2, <1>4 DEF Goes

\* A delivery that ends is not held any more; the others, and the age of a round
\* that still holds something, stay.
LEMMA EndsHolds ==
  ASSUME TypeOK, NEW w \in Workers, NEW d \in Holds(w), Ends(w, d)
  PROVE  /\ item' \in [Workers -> [Deliveries -> [at : Stages, attempts : 0 .. MaxRetries]]]
         /\ age' \in [Workers -> 0 .. Deadline]
         /\ \A v \in Workers : Holds(v)' = IF v = w THEN Holds(w) \ {d} ELSE Holds(v)
         /\ \A v \in Workers : Holds(v)' # {} => age'[v] = age[v]
<1>0. d \in Deliveries
  BY DEF Holds, InBatch
<1>1. CASE Holds(w) = {d}
  <2>1. item' = [item EXCEPT ![w] = NoBatch] /\ age' = [age EXCEPT ![w] = 0]
    BY <1>1 DEF Ends
  <2>2. NoBatch \in [Deliveries -> [at : Stages, attempts : 0 .. MaxRetries]]
    BY Bounds DEF NoBatch, NoItem, Stages
  <2>3. \A e \in Deliveries : NoBatch[e].at = "none"
    BY DEF NoBatch, NoItem
  <2>4. Holds(w)' = {}
    BY <2>1, <2>3 DEF TypeOK, Holds, InBatch
  <2>5. \A v \in Workers \ {w} : Holds(v)' = Holds(v) /\ age'[v] = age[v]
    BY <2>1 DEF TypeOK, Holds, InBatch
  <2>6. age' \in [Workers -> 0 .. Deadline]
    BY <2>1, Bounds DEF TypeOK
  <2>7. item' \in [Workers -> [Deliveries -> [at : Stages, attempts : 0 .. MaxRetries]]]
    BY <2>1, <2>2 DEF TypeOK
  <2> QED  BY <1>1, <2>4, <2>5, <2>6, <2>7
<1>2. CASE Holds(w) # {d}
  <2>1. /\ item' = [item EXCEPT ![w][d] = [at |-> "ended", attempts |-> 0]]
        /\ age' = age
    BY <1>2 DEF Ends
  <2>2. item' \in [Workers -> [Deliveries -> [at : Stages, attempts : 0 .. MaxRetries]]]
    <3>1. [at |-> "ended", attempts |-> 0] \in [at : Stages, attempts : 0 .. MaxRetries]
      BY Bounds DEF Stages
    <3> QED  BY <2>1, <3>1, <1>0 DEF TypeOK
  <2>3. ASSUME NEW v \in Workers, NEW e \in Deliveries
        PROVE  item'[v][e].at = IF v = w /\ e = d THEN "ended" ELSE item[v][e].at
    BY <1>0, <2>1 DEF TypeOK
  <2>4. \A v \in Workers : Holds(v)' = IF v = w THEN Holds(w) \ {d} ELSE Holds(v)
    BY <2>3 DEF Holds, InBatch
  <2> QED  BY <2>1, <2>2, <2>4 DEF TypeOK
<1> QED  BY <1>1, <1>2

\* A worker that only moves on with a delivery keeps the invariant.
LEMMA GoesIInv ==
  ASSUME IInv, NEW w \in Workers, NEW d \in Holds(w),
         NEW at \in Stages \ {"none", "ended"}, Goes(w, d, at),
         UNCHANGED <<hook, row, edits>>, unread' \subseteq Deliveries, faults' \in 0 .. MaxFaults
  PROVE  IInv'
<1>1. TypeOK'
  BY GoesHolds DEF IInv, TypeOK
<1>2. Leased'
  BY GoesHolds DEF IInv, Leased, Cut
<1> QED  BY <1>1, <1>2 DEF IInv

\* A worker that lets a delivery go and leaves its row as it is, likewise.
LEMMA LeavesIInv ==
  ASSUME IInv, NEW w \in Workers, NEW d \in Holds(w), Ends(w, d),
         UNCHANGED <<hook, row, edits>>, unread' \subseteq Deliveries, faults' \in 0 .. MaxFaults
  PROVE  IInv'
<1>1. TypeOK'
  BY EndsHolds DEF IInv, TypeOK
<1>2. Leased'
  BY EndsHolds DEF IInv, Leased, Cut
<1> QED  BY <1>1, <1>2 DEF IInv

\* A statement that gives up the lease writes the row of its delivery only, which
\* no other running round holds.
LEMMA RecordIInv ==
  ASSUME IInv, NEW w \in Workers, NEW d \in Holds(w), ~Cut(w), Ends(w, d),
         NEW rw, Sound(rw), Writes(d, rw), UNCHANGED <<hook, unread, faults, edits>>
  PROVE  /\ IInv'
         /\ row' = [row EXCEPT ![d] = rw]
<1>1. row' = [row EXCEPT ![d] = rw]
  BY HeldByOne DEF Writes, Keeps
<1>2. d \in Deliveries
  BY HeldByOne
<1>3. TypeOK'
  <2>1. row' \in [Deliveries -> Rows] /\ \A e \in Deliveries : Sound(row'[e])
    BY <1>1, <1>2, TypeOfRows DEF IInv, Sound
  <2> QED  BY <2>1, EndsHolds DEF IInv, TypeOK, Rows, Sound
<1>4. Leased'
  <2> SUFFICES ASSUME NEW v \in Workers, ~Cut(v)', NEW e \in Holds(v)'
               PROVE  (row[e].status = "delivering" /\ row[e].by = v /\ row[e].lease <= age[v])'
    BY DEF Leased
  <2>1. e \in Holds(v) /\ age'[v] = age[v] /\ (v = w => e # d)
    BY EndsHolds DEF IInv
  <2>2. ~Cut(v)
    BY <2>1 DEF Cut
  <2>3. e # d
    BY <2>1, <2>2, HeldByOne
  <2>4. row'[e] = row[e]
    BY <1>1, <2>3
  <2> QED  BY <2>1, <2>2, <2>4 DEF IInv, Leased
<1> QED  BY <1>1, <1>3, <1>4 DEF IInv

-----------------------------------------------------------------------------

\* Nothing that recovers, claims, renews or removes rows takes one away from a
\* round that still runs.
LEMMA RecoverIInv ==
  ASSUME IInv, NEW w \in Workers, RecoverStuck(w)
  PROVE  IInv'
<1> DEFINE stuck == {d \in Deliveries : row[d].status = "delivering" /\ row[d].lease > Stuck}
<1>1. row' = [d \in Deliveries |-> IF d \in stuck THEN Released(row[d], "pending") ELSE row[d]]
  BY DEF RecoverStuck
<1>2. UNCHANGED <<hook, item, age, unread, faults, edits>>
  BY DEF RecoverStuck
<1>3. ASSUME NEW d \in Deliveries
      PROVE  Sound(IF d \in stuck THEN Released(row[d], "pending") ELSE row[d])
  <2>1. Sound(row[d])
    BY TypeOfRows DEF IInv
  <2>2. ASSUME d \in stuck PROVE Sound(Released(row[d], "pending"))
    <3> DEFINE rw == Released(row[d], "pending")
    <3>1. rw \in Rows
      BY <2>1, RowFields DEF Sound, Rows, Released
    <3>2. rw.status = "pending" /\ rw.by = None /\ rw.attempts = row[d].attempts
      BY <2>1 DEF Sound, Rows, Released
    <3>3. ~(row[d].attempts > MaxRetries)
      BY <2>1, <2>2 DEF Sound
    <3> QED  BY <3>1, <3>2, <3>3 DEF Sound
  <2> QED  BY <2>1, <2>2
<1>4. TypeOK'
  BY <1>1, <1>2, <1>3 DEF IInv, TypeOK, Sound, Rows
<1>5. Leased'
  <2>1. ASSUME NEW v \in Workers, ~Cut(v), NEW d \in Holds(v)
        PROVE  d \in Deliveries /\ d \notin stuck
    <3>1. age[v] < Deadline /\ row[d].lease <= age[v] /\ d \in Deliveries
      BY <2>1, Bounds DEF IInv, TypeOK, Leased, Cut, Holds, InBatch
    <3>2. row[d].lease \in Int /\ age[v] \in Int
      BY <3>1, Bounds DEF IInv, TypeOK
    <3> QED  BY <3>1, <3>2, LeaseAssumption, Bounds DEF LeaseAssumption
  <2>2. \A v \in Workers : Holds(v)' = Holds(v) /\ Cut(v)' = Cut(v)
    BY <1>2 DEF Holds, InBatch, Cut
  <2>3. \A d \in Deliveries \ stuck : row'[d] = row[d]
    BY <1>1
  <2> QED  BY <1>2, <2>1, <2>2, <2>3 DEF IInv, Leased
<1> QED  BY <1>4, <1>5 DEF IInv

LEMMA ClaimIInv ==
  ASSUME IInv, NEW w \in Workers, ClaimDue(w)
  PROVE  IInv'
<1> DEFINE due == {d \in Deliveries : row[d].status \in {"pending", "failed"} /\ row[d].wait = 0}
           Claimed(d) == [row[d] EXCEPT !.status = "delivering", !.lease = 0, !.by = w]
           Queued(d) == [at |-> "queued", attempts |-> row[d].attempts]
<1>1. PICK D \in SUBSET due :
        /\ row' = [d \in Deliveries |-> IF d \in D THEN Claimed(d) ELSE row[d]]
        /\ item' = [item EXCEPT ![w] =
                      [d \in Deliveries |-> IF d \in D THEN Queued(d) ELSE NoItem]]
  BY DEF ClaimDue
<1>2. UNCHANGED <<hook, age, unread, faults, edits>>
  BY DEF ClaimDue
<1>3. ASSUME NEW d \in Deliveries
      PROVE  /\ Sound(IF d \in D THEN Claimed(d) ELSE row[d])
             /\ (IF d \in D THEN Queued(d) ELSE NoItem)
                   \in [at : Stages, attempts : 0 .. MaxRetries]
  <2>1. Sound(row[d])
    BY TypeOfRows DEF IInv
  <2>2. NoItem \in [at : Stages, attempts : 0 .. MaxRetries]
    BY Bounds DEF NoItem, Stages
  <2>3. ASSUME d \in D PROVE row[d].attempts \in 0 .. MaxRetries
    BY <2>1, <2>3, Bounds DEF Sound, Rows
  <2>4. ASSUME d \in D PROVE Sound(Claimed(d))
    <3>1. Claimed(d) \in Rows
      BY <2>1, RowFields DEF Sound, Rows
    <3>2. /\ Claimed(d).status = "delivering" /\ Claimed(d).by = w
          /\ Claimed(d).attempts = row[d].attempts
      BY <2>1 DEF Sound, Rows
    <3>3. ~(row[d].attempts > MaxRetries)
      BY <2>3, <2>4, Bounds
    <3> HIDE DEF Claimed
    <3> QED  BY <3>1, <3>2, <3>3, NoneAssumption DEF Sound, NoneAssumption
  <2>5. ASSUME d \in D PROVE Queued(d) \in [at : Stages, attempts : 0 .. MaxRetries]
    BY <2>3, <2>5 DEF Stages
  <2> QED  BY <2>1, <2>2, <2>4, <2>5
<1>4. TypeOK'
  <2>1. row' \in [Deliveries -> Rows] /\ \A d \in Deliveries : Sound(row'[d])
    BY <1>1, <1>3 DEF Sound
  <2>2. item' \in [Workers -> [Deliveries -> [at : Stages, attempts : 0 .. MaxRetries]]]
    BY <1>1, <1>3 DEF IInv, TypeOK
  <2> QED  BY <1>2, <2>1, <2>2 DEF IInv, TypeOK, Sound, Rows
<1>5. Leased'
  <2> SUFFICES ASSUME NEW v \in Workers, ~Cut(v)', NEW e \in Holds(v)'
               PROVE  (row[e].status = "delivering" /\ row[e].by = v /\ row[e].lease <= age[v])'
    BY DEF Leased
  <2>1. e \in Deliveries /\ ~Cut(v) /\ age'[v] = age[v] /\ age[v] \in Nat
    BY <1>2, Bounds DEF Holds, InBatch, Cut, IInv, TypeOK
  <2>2. CASE v = w
    <3>1. e \in D
      BY <1>1, <2>1, <2>2 DEF Holds, InBatch, NoItem, IInv, TypeOK
    <3>2. row'[e] = Claimed(e) /\ row[e] \in Rows
      BY <1>1, <2>1, <3>1, TypeOfRows DEF IInv, Sound
    <3>3. row'[e].status = "delivering" /\ row'[e].by = w /\ row'[e].lease = 0
      BY <3>2 DEF Rows
    <3> QED  BY <2>1, <2>2, <3>3
  <2>3. CASE v # w
    <3>1. e \in Holds(v)
      BY <1>1, <2>3 DEF Holds, InBatch, IInv, TypeOK
    <3>2. row[e].status = "delivering"
      BY <2>1, <3>1 DEF IInv, Leased
    <3>3. row'[e] = row[e]
      BY <1>1, <2>1, <3>2
    <3> QED  BY <2>1, <3>1, <3>3 DEF IInv, Leased
  <2> QED  BY <2>2, <2>3
<1> QED  BY <1>4, <1>5 DEF IInv

LEMMA RenewIInv ==
  ASSUME IInv, NEW w \in Workers, RenewLeases(w)
  PROVE  IInv'
<1> DEFINE mine(d) == d \in InBatch(w) /\ row[d].status = "delivering" /\ row[d].by = w
<1>1. /\ row' = [d \in Deliveries |-> IF mine(d) THEN [row[d] EXCEPT !.lease = 0] ELSE row[d]]
      /\ UNCHANGED <<hook, item, age, unread, faults, edits>>
  BY DEF RenewLeases
<1>2. ASSUME NEW d \in Deliveries
      PROVE  /\ Sound(row'[d]) /\ row'[d].status = row[d].status /\ row'[d].by = row[d].by
             /\ row'[d].lease \in Nat /\ row'[d].lease <= row[d].lease
  <2>1. Sound(row[d]) /\ row[d].lease \in Nat
    BY TypeOfRows, Bounds DEF IInv, Sound, Rows
  <2>2. row'[d] = row[d] \/ row'[d] = [row[d] EXCEPT !.lease = 0]
    BY <1>1
  <2> QED  BY <2>1, <2>2, Bounds DEF Sound, Rows
<1>3. TypeOK'
  <2>1. row' \in [Deliveries -> Rows]
    BY <1>1, <1>2 DEF Sound
  <2> QED  BY <1>1, <1>2, <2>1 DEF IInv, TypeOK, Sound, Rows
<1>4. Leased'
  <2> SUFFICES ASSUME NEW v \in Workers, ~Cut(v), NEW e \in Holds(v)
               PROVE  row'[e].status = "delivering" /\ row'[e].by = v /\ row'[e].lease <= age[v]
    BY <1>1 DEF Leased, Cut, Holds, InBatch
  <2>1. e \in Deliveries /\ row[e].lease \in Nat /\ age[v] \in Nat
    BY Bounds DEF Holds, InBatch, IInv, TypeOK
  <2>2. row[e].status = "delivering" /\ row[e].by = v /\ row[e].lease <= age[v]
    BY DEF IInv, Leased
  <2> QED  BY <1>2, <2>1, <2>2
<1> QED  BY <1>3, <1>4 DEF IInv

\* A row that no running round holds may be changed.
LEMMA FreeRowIInv ==
  ASSUME IInv, NEW d \in Deliveries, row[d].status # "delivering",
         NEW rw, Sound(rw), row' = [row EXCEPT ![d] = rw],
         UNCHANGED <<hook, item, age, unread, faults, edits>>
  PROVE  IInv'
<1>1. TypeOK'
  <2>1. row' \in [Deliveries -> Rows] /\ \A e \in Deliveries : Sound(row'[e])
    BY TypeOfRows DEF IInv, Sound
  <2> QED  BY <2>1 DEF IInv, TypeOK, Rows, Sound
<1>2. Leased'
  BY DEF IInv, Leased, Cut, Holds, InBatch
<1> QED  BY <1>1, <1>2 DEF IInv

LEMMA EnqueueIInv ==
  ASSUME IInv, NEW d \in Deliveries, Enqueue(d)
  PROVE  IInv'
<1> DEFINE rw == [row[d] EXCEPT !.status = "pending"]
<1>1. row[d].status = "none" /\ Sound(row[d])
  BY TypeOfRows DEF Enqueue, IInv
<1>2. rw \in Rows /\ rw.status = "pending" /\ rw.by = row[d].by /\ rw.attempts = row[d].attempts
  BY <1>1, RowFields DEF Sound, Rows
<1>3. Sound(rw)
  BY <1>1, <1>2 DEF Sound
<1>4. row' = [row EXCEPT ![d] = rw] /\ UNCHANGED <<hook, item, age, unread, faults, edits>>
  BY DEF Enqueue, IInv, TypeOK
<1> HIDE DEF rw
<1> QED  BY <1>1, <1>3, <1>4, FreeRowIInv

LEMMA DeleteIInv ==
  ASSUME IInv, NEW d \in Deliveries, DeleteRetention(d)
  PROVE  IInv'
<1> DEFINE rw == [NoRow EXCEPT !.status = "gone"]
<1>1. Sound(rw)
  BY Bounds DEF Sound, Rows, NoRow, Statuses
<1>2. /\ row[d].status # "delivering"
      /\ row' = [row EXCEPT ![d] = rw] /\ UNCHANGED <<hook, item, age, unread, faults, edits>>
  BY DEF DeleteRetention
<1> QED  BY <1>1, <1>2, FreeRowIInv

LEMMA CrashIInv ==
  ASSUME IInv, NEW w \in Workers, Crash(w)
  PROVE  IInv'
<1>1. /\ item' = [item EXCEPT ![w] = NoBatch] /\ age' = [age EXCEPT ![w] = 0]
      /\ UNCHANGED <<hook, row, unread, edits>>
  BY DEF Crash
<1>2. NoBatch \in [Deliveries -> [at : Stages, attempts : 0 .. MaxRetries]]
  BY Bounds DEF NoBatch, NoItem, Stages
<1>3. TypeOK'
  BY <1>1, <1>2, Bounds DEF IInv, TypeOK, Crash, Fault
<1>4. Holds(w)' = {} /\ \A v \in Workers \ {w} : Holds(v)' = Holds(v) /\ age'[v] = age[v]
  BY <1>1 DEF IInv, TypeOK, Holds, InBatch, NoBatch, NoItem
<1>5. Leased'
  BY <1>1, <1>4 DEF IInv, Leased, Cut
<1> QED  BY <1>3, <1>5 DEF IInv

\* A round and the leases it holds age together.
LEMMA TickIInv ==
  ASSUME IInv, Tick
  PROVE  IInv'
<1> DEFINE Aged(rw) == [rw EXCEPT
             !.lease = IF rw.status = "delivering" THEN Older(rw.lease, Stuck + 1) ELSE 0,
             !.wait = IF rw.wait > 0 THEN rw.wait - 1 ELSE 0]
<1>1. /\ row' = [d \in Deliveries |-> Aged(row[d])]
      /\ age' = [w \in Workers |-> IF Idle(w) THEN 0 ELSE Older(age[w], Deadline)]
      /\ UNCHANGED <<hook, item, unread, faults, edits>>
  BY DEF Tick
<1>2. ASSUME NEW d \in Deliveries
      PROVE  /\ Sound(row'[d])
             /\ row'[d].status = row[d].status /\ row'[d].by = row[d].by
             /\ row[d].status = "delivering" => row'[d].lease <= row[d].lease + 1
  <2>1. row[d] \in Rows /\ Sound(row[d])
    BY TypeOfRows DEF IInv
  <2>2. row[d].lease \in 0 .. Stuck + 1 /\ row[d].wait \in Nat
    BY <2>1 DEF Rows
  <2>3. /\ (IF row[d].status = "delivering" THEN Older(row[d].lease, Stuck + 1) ELSE 0)
             \in 0 .. Stuck + 1
        /\ (IF row[d].wait > 0 THEN row[d].wait - 1 ELSE 0) \in Nat
        /\ Older(row[d].lease, Stuck + 1) <= row[d].lease + 1
    BY <2>2, Bounds DEF Older
  <2>4. row'[d] = Aged(row[d])
    BY <1>1
  <2>5. /\ row'[d] \in Rows
        /\ row'[d].status = row[d].status /\ row'[d].by = row[d].by
        /\ row'[d].attempts = row[d].attempts
        /\ row[d].status = "delivering" => row'[d].lease = Older(row[d].lease, Stuck + 1)
    BY <2>1, <2>3, <2>4 DEF Rows
  <2> QED  BY <2>1, <2>3, <2>5 DEF Sound
<1>3. TypeOK'
  <2>1. row' \in [Deliveries -> Rows]
    BY <1>1, <1>2 DEF Sound
  <2>2. age' \in [Workers -> 0 .. Deadline]
    <3>1. \A n \in 0 .. Deadline : Older(n, Deadline) \in 0 .. Deadline
      BY Bounds DEF Older
    <3>2. 0 \in 0 .. Deadline /\ \A w \in Workers : age[w] \in 0 .. Deadline
      BY Bounds DEF IInv, TypeOK
    <3> QED  BY <1>1, <3>1, <3>2
  <2> QED  BY <1>1, <1>2, <2>1, <2>2 DEF IInv, TypeOK, Sound, Rows
<1>4. Leased'
  <2> SUFFICES ASSUME NEW v \in Workers, ~(age'[v] >= Deadline), NEW e \in Holds(v)
               PROVE  row'[e].status = "delivering" /\ row'[e].by = v /\ row'[e].lease <= age'[v]
    BY <1>1 DEF Leased, Cut, Holds, InBatch
  <2>1. e \in Deliveries /\ ~Idle(v) /\ age[v] \in 0 .. Deadline /\ row[e].lease \in Nat
    BY Bounds DEF Holds, InBatch, Idle, IInv, TypeOK
  <2>2. age'[v] = Older(age[v], Deadline)
    BY <1>1, <2>1
  <2>3. age[v] < Deadline /\ age'[v] = age[v] + 1
    BY <2>1, <2>2, Bounds DEF Older
  <2>4. row[e].status = "delivering" /\ row[e].by = v /\ row[e].lease <= age[v]
    BY <2>1, <2>3, Bounds DEF IInv, Leased, Cut
  <2>5. row'[e].lease \in Nat
    BY <1>2, <2>1, Bounds DEF Sound, Rows
  <2> QED  BY <1>2, <2>1, <2>3, <2>4, <2>5
<1> QED  BY <1>3, <1>4 DEF IInv

\* The statement that records a result or gives a delivery up.
LEMMA RecordsWrite ==
  ASSUME IInv, NEW w \in Workers, NEW d \in Deliveries, Records(w, d)
  PROVE  /\ IInv'
         /\ d \in Holds(w) /\ ~Cut(w)
         /\ \A e \in Deliveries \ {d} : row'[e] = row[e]
<1>1. d \in Holds(w) /\ ~Cut(w) /\ Ends(w, d) /\ UNCHANGED <<hook, unread, faults, edits>>
  BY DEF Records, RecordSuccess, RecordFailure, RecordAbandoned, Holds, InBatch
<1>2. /\ row[d] \in Rows /\ Sound(row[d]) /\ row[d].status = "delivering"
      /\ item[w][d].attempts \in 0 .. MaxRetries
  BY <1>1, TypeOfRows, HeldByOne DEF IInv, TypeOK
<1>3. ~(row[d].attempts > MaxRetries)
  BY <1>2 DEF Sound
<1>4. ASSUME NEW rw, Sound(rw), Writes(d, rw)
      PROVE  IInv' /\ \A e \in Deliveries \ {d} : row'[e] = row[e]
  BY <1>1, <1>4, RecordIInv DEF IInv, TypeOK
<1>5. CASE RecordSuccess(w, d)
  <2> DEFINE rw == Released(row[d], "delivered")
  <2>1. /\ rw \in Rows /\ rw.status = "delivered" /\ rw.by = None
        /\ rw.attempts = row[d].attempts
    BY <1>2, RowFields DEF Rows, Released
  <2>2. Sound(rw)
    BY <1>3, <2>1 DEF Sound
  <2> QED  BY <1>1, <1>4, <1>5, <2>2 DEF RecordSuccess
<1>6. CASE RecordFailure(w, d)
  <2> DEFINE n == item[w][d].attempts + 1
             status == IF n > MaxRetries THEN "abandoned" ELSE "failed"
             rw(wait) == [Released(row[d], status) EXCEPT !.attempts = n, !.wait = wait]
  <2>1. PICK wait \in Waits : Writes(d, rw(wait))
    BY <1>6 DEF RecordFailure
  <2>2. n \in 0 .. MaxRetries + 1 /\ status \in Statuses /\ wait \in Nat
    BY <1>2, Bounds, RowFields
  <2>3. /\ rw(wait) \in Rows /\ rw(wait).status = status /\ rw(wait).by = None
        /\ rw(wait).attempts = n
    BY <1>2, <2>2, RowFields DEF Rows, Released
  <2>4. Sound(rw(wait))
    BY <2>3 DEF Sound
  <2> HIDE DEF rw
  <2> QED  BY <1>1, <1>4, <2>1, <2>4
<1>7. CASE RecordAbandoned(w, d)
  <2> DEFINE n == item[w][d].attempts + 1
             rw == [Released(row[d], "abandoned") EXCEPT !.attempts = n]
  <2>1. Writes(d, rw) /\ n \in 0 .. MaxRetries + 1
    BY <1>2, <1>7, Bounds DEF RecordAbandoned
  <2>2. /\ rw \in Rows /\ rw.status = "abandoned" /\ rw.by = None
    BY <1>2, <2>1, RowFields DEF Rows, Released
  <2>3. Sound(rw)
    BY <2>2 DEF Sound
  <2> HIDE DEF rw
  <2> QED  BY <1>1, <1>4, <2>1, <2>3
<1> QED  BY <1>1, <1>5, <1>6, <1>7 DEF Records

\* The invariant is inductive: one step per action.
LEMMA NextIInv == IInv /\ [Next]_vars => IInv'
<1> SUFFICES ASSUME IInv, [Next]_vars PROVE IInv'
  OBVIOUS
<1>1. CASE Tick
  BY <1>1, TickIInv
<1>2. CASE Edit
  <2>1. TypeOK' /\ UNCHANGED <<row, item, age>>
    BY <1>2, Bounds DEF Edit, IInv, TypeOK
  <2> QED  BY <2>1 DEF IInv, Leased, Cut, Holds, InBatch
<1>3. ASSUME NEW d \in Deliveries, Enqueue(d) \/ DeleteRetention(d) PROVE IInv'
  BY <1>3, EnqueueIInv, DeleteIInv
<1>4. ASSUME NEW w \in Workers,
             RecoverStuck(w) \/ ClaimDue(w) \/ RenewLeases(w) \/ Crash(w)
      PROVE  IInv'
  BY <1>4, RecoverIInv, ClaimIInv, RenewIInv, CrashIInv
<1>5. ASSUME NEW w \in Workers, NEW d \in Deliveries,
             Dispatch(w, d) \/ Unread(w, d) \/ Posts(w, d)
      PROVE  IInv'
  <2>1. PICK at \in Stages \ {"none", "ended"} : Goes(w, d, at)
    BY <1>5 DEF Dispatch, Unread, Posts, Stages
  <2>2. d \in Holds(w) /\ UNCHANGED <<hook, row, edits>>
    BY <1>5 DEF Dispatch, Unread, Posts, Holds, InBatch
  <2>3. faults' \in 0 .. MaxFaults /\ unread' \subseteq Deliveries
    BY <1>5, Bounds DEF Dispatch, Unread, Posts, Fault, IInv, TypeOK
  <2> QED  BY <2>1, <2>2, <2>3, GoesIInv
<1>6. ASSUME NEW w \in Workers, NEW d \in Deliveries, Records(w, d) PROVE IInv'
  BY <1>6, RecordsWrite
<1>7. ASSUME NEW w \in Workers, NEW d \in Deliveries, Drop(w, d) \/ RecordFails(w, d)
      PROVE  IInv'
  <2>1. d \in Holds(w) /\ Ends(w, d) /\ UNCHANGED <<hook, row, edits>>
    BY <1>7 DEF Drop, RecordFails, Holds, InBatch
  <2>2. faults' \in 0 .. MaxFaults /\ unread' \subseteq Deliveries
    BY <1>7, Bounds DEF Drop, RecordFails, Fault, IInv, TypeOK
  <2> QED  BY <2>1, <2>2, LeavesIInv
<1>8. CASE UNCHANGED vars
  BY <1>8 DEF vars, IInv, TypeOK, Leased, Cut, Holds, InBatch
<1> QED  BY <1>1, <1>2, <1>3, <1>4, <1>5, <1>6, <1>7, <1>8 DEF Next

-----------------------------------------------------------------------------

\* The inductive invariant holds in every behaviour, with or without fairness.
THEOREM Invariance == Spec => []IInv
  BY InitIInv, NextIInv, PTL DEF Spec

\* Rows are leased exactly while they are delivered, and keep within their
\* attempts, for any number of workers, deliveries and retries.
THEOREM TypeCorrect == Spec => []TypeOK
<1>1. IInv => TypeOK
  BY DEF IInv
<1> QED  BY Invariance, <1>1, PTL

\* The deadline of a round, not longer than the age at which leases are
\* recovered, is enough for a row to be delivered by one worker at a time.
THEOREM OneHolder == Spec => []HolderIsLessee
<1>1. IInv => HolderIsLessee
  BY DEF IInv, Leased, HolderIsLessee
<1> QED  BY Invariance, <1>1, PTL

\* No statement of any worker touches a row that has ended, but the retention.
THEOREM Finality == Spec => FinalStays
<1> DEFINE Kept == \A d \in Deliveries : row[d].status \in Final =>
                     row'[d].status = row[d].status \/ row'[d].status = "gone"
<1>1. IInv /\ [Next]_vars => Kept
  <2> SUFFICES ASSUME IInv, [Next]_vars, NEW d \in Deliveries, row[d].status \in Final
               PROVE  row'[d].status = row[d].status \/ row'[d].status = "gone"
    OBVIOUS
  <2>1. row[d].status \notin {"none", "pending", "failed", "delivering"}
    BY DEF Final
  <2>2. CASE Tick
    BY <2>2 DEF Tick, IInv, TypeOK
  <2>3. CASE Edit
    BY <2>3 DEF Edit
  <2>4. ASSUME NEW e \in Deliveries, Enqueue(e) \/ DeleteRetention(e)
        PROVE  row'[d].status = row[d].status \/ row'[d].status = "gone"
    <3>1. CASE Enqueue(e)
      BY <2>1, <3>1 DEF Enqueue
    <3>2. CASE DeleteRetention(e)
      BY <3>2 DEF DeleteRetention, NoRow, IInv, TypeOK
    <3> QED  BY <2>4, <3>1, <3>2
  <2>5. ASSUME NEW w \in Workers,
               RecoverStuck(w) \/ ClaimDue(w) \/ RenewLeases(w) \/ Crash(w)
        PROVE  row'[d] = row[d]
    BY <2>1, <2>5 DEF RecoverStuck, ClaimDue, RenewLeases, Crash
  <2>6. ASSUME NEW w \in Workers, NEW e \in Deliveries, Records(w, e)
        PROVE  row'[d] = row[d]
    <3>1. row[e].status = "delivering" /\ \A f \in Deliveries \ {e} : row'[f] = row[f]
      BY <2>6, RecordsWrite, HeldByOne
    <3> QED  BY <2>1, <3>1
  <2>7. ASSUME NEW w \in Workers, NEW e \in Deliveries,
               \/ Dispatch(w, e) \/ Unread(w, e) \/ Posts(w, e)
               \/ Drop(w, e) \/ RecordFails(w, e)
        PROVE  row' = row
    BY <2>7 DEF Dispatch, Unread, Posts, Drop, RecordFails
  <2>8. CASE UNCHANGED vars
    BY <2>8 DEF vars
  <2> QED  BY <2>2, <2>3, <2>4, <2>5, <2>6, <2>7, <2>8 DEF Next
<1> QED  BY Invariance, <1>1, PTL DEF Spec, FinalStays

\* Why a delivery is about to be given up, and why one has been.
Reasons ==
  /\ hook # "enabled" => edits > 0
  /\ \A w \in Workers, d \in Deliveries :
       item[w][d].at = "abandoning" => edits > 0 \/ d \in unread
  /\ AbandonedForCause

\* No step forgets a reason, and none gives a delivery up without one.
LEMMA NextReasons == IInv /\ Reasons /\ [Next]_vars => Reasons'
<1> SUFFICES ASSUME IInv, Reasons, [Next]_vars PROVE Reasons'
  OBVIOUS
<1>1. /\ edits > 0 => edits' > 0
      /\ hook' # hook => edits' > 0
      /\ unread \subseteq unread'
  <2>1. CASE Edit
    BY <2>1, Bounds DEF Edit, IInv, TypeOK
  <2>2. ASSUME NEW w \in Workers, NEW d \in Deliveries, Unread(w, d)
        PROVE  UNCHANGED <<hook, edits>> /\ unread \subseteq unread'
    BY <2>2 DEF Unread
  <2>3. CASE Tick \/ UNCHANGED vars
    BY <2>3 DEF Tick, vars
  <2>4. ASSUME NEW d \in Deliveries, Enqueue(d) \/ DeleteRetention(d)
        PROVE  UNCHANGED <<hook, edits, unread>>
    BY <2>4 DEF Enqueue, DeleteRetention
  <2>5. ASSUME NEW w \in Workers,
               RecoverStuck(w) \/ ClaimDue(w) \/ RenewLeases(w) \/ Crash(w)
        PROVE  UNCHANGED <<hook, edits, unread>>
    BY <2>5 DEF RecoverStuck, ClaimDue, RenewLeases, Crash
  <2>6. ASSUME NEW w \in Workers, NEW d \in Deliveries,
               Dispatch(w, d) \/ Posts(w, d) \/ Records(w, d) \/ Drop(w, d) \/ RecordFails(w, d)
        PROVE  UNCHANGED <<hook, edits, unread>>
    BY <2>6 DEF Dispatch, Posts, Records, RecordSuccess, RecordFailure, RecordAbandoned, Drop,
       RecordFails
  <2> QED  BY <2>1, <2>2, <2>3, <2>4, <2>5, <2>6 DEF Next
<1>2. hook' # "enabled" => edits' > 0
  BY <1>1 DEF Reasons
<1>3. ASSUME NEW w \in Workers, NEW d \in Deliveries, item'[w][d].at = "abandoning"
      PROVE  edits' > 0 \/ d \in unread'
  <2> SUFFICES ASSUME item[w][d].at # "abandoning"
               PROVE  hook # "enabled" \/ d \in unread'
    BY <1>1 DEF Reasons
  <2>0. /\ item \in [Workers -> [Deliveries -> [at : Stages, attempts : 0 .. MaxRetries]]]
        /\ \A e \in Deliveries : NoBatch[e].at = "none"
    BY DEF IInv, TypeOK, NoBatch, NoItem
  <2>1. ~\E v \in Workers, e \in Deliveries : Ends(v, e)
    <3> SUFFICES ASSUME NEW v \in Workers, NEW e \in Deliveries, Ends(v, e) PROVE FALSE
      OBVIOUS
    <3>1. item' # [item EXCEPT ![v] = NoBatch]
      BY <1>3, <2>0
    <3>2. ASSUME item' = [item EXCEPT ![v][e] = [at |-> "ended", attempts |-> 0]] PROVE FALSE
      <4>1. CASE v = w /\ e = d
        <5>1. item'[w][d] = [at |-> "ended", attempts |-> 0]
          BY <2>0, <3>2, <4>1
        <5> QED  BY <1>3, <5>1
      <4>2. CASE v # w \/ e # d
        <5>1. item'[w][d] = item[w][d]
          BY <2>0, <3>2, <4>2
        <5> QED  BY <1>3, <5>1
      <4> QED  BY <4>1, <4>2
    <3> QED  BY <3>1, <3>2 DEF Ends
  <2>2. item' # item
    BY <1>3
  <2>3. ASSUME NEW v \in Workers PROVE ~ClaimDue(v) /\ ~Crash(v)
    <3>1. item' # [item EXCEPT ![v] = NoBatch]
      BY <1>3, <2>0
    <3>2. ASSUME NEW D \in SUBSET Deliveries
          PROVE  item' # [item EXCEPT ![v] = [e \in Deliveries |->
                            IF e \in D THEN [at |-> "queued", attempts |-> row[e].attempts]
                            ELSE NoItem]]
      <4> DEFINE Claimed(e) == IF e \in D THEN [at |-> "queued", attempts |-> row[e].attempts]
                               ELSE NoItem
      <4>1. Claimed(d).at # "abandoning"
        BY DEF NoItem
      <4> HIDE DEF Claimed
      <4>2. item' # [item EXCEPT ![v] = [e \in Deliveries |-> Claimed(e)]]
        BY <1>3, <2>0, <4>1
      <4> QED  BY <4>2 DEF Claimed
    <3> QED  BY <3>1, <3>2 DEF ClaimDue, Crash
  <2>4. PICK v \in Workers, e \in Deliveries : Dispatch(v, e) \/ Unread(v, e) \/ Posts(v, e)
    BY <2>1, <2>2, <2>3 DEF Next, vars, Tick, Edit, Enqueue, DeleteRetention, RecoverStuck,
       RenewLeases, Records, RecordSuccess, RecordFailure, RecordAbandoned, Drop, RecordFails
  <2>5. PICK at \in Stages : Goes(v, e, at)
    BY <2>4 DEF Dispatch, Unread, Posts, Stages
  <2>6. v = w /\ e = d
    BY <1>3, <2>0, <2>5 DEF Goes
  <2>7. item'[v][e].at = "abandoning"
    BY <1>3, <2>6
  <2>8. ASSUME NEW stage \in Stages, Goes(v, e, stage) PROVE stage = "abandoning"
    BY <2>0, <2>7, <2>8 DEF Goes
  <2>9. CASE Dispatch(v, e)
    BY <2>8, <2>9 DEF Dispatch, Stages
  <2>10. CASE Unread(v, e)
    BY <2>6, <2>10 DEF Unread
  <2>11. CASE Posts(v, e)
    BY <2>8, <2>11 DEF Posts, Stages
  <2> QED  BY <2>4, <2>9, <2>10, <2>11
<1>4. ASSUME NEW d \in Deliveries, row'[d].status = "abandoned"
      PROVE  row'[d].attempts > MaxRetries \/ edits' > 0 \/ d \in unread'
  <2> SUFFICES ASSUME ~(row[d].status = "abandoned" /\ row'[d].attempts = row[d].attempts)
               PROVE  row'[d].attempts > MaxRetries \/ edits' > 0 \/ d \in unread'
    BY <1>1 DEF Reasons, AbandonedForCause
  <2>0. row \in [Deliveries -> Rows]
    BY TypeOfRows DEF IInv
  <2>1. row'[d] # row[d]
    BY <1>4
  <2>2. ~Tick /\ \A w \in Workers : ~RecoverStuck(w) /\ ~ClaimDue(w) /\ ~RenewLeases(w)
    <3>0. /\ row[d] \in Rows
          /\ row'[d].status # row[d].status \/ row'[d].attempts # row[d].attempts
      BY <1>4, <2>0
    <3>1. ~Tick
      <4> SUFFICES ASSUME Tick PROVE FALSE
        OBVIOUS
      <4>1. PICK lease, wait : row'[d] = [row[d] EXCEPT !.lease = lease, !.wait = wait]
        BY DEF Tick
      <4> QED  BY <3>0, <4>1 DEF Rows
    <3>2. ASSUME NEW w \in Workers PROVE ~RecoverStuck(w)
      <4> SUFFICES ASSUME RecoverStuck(w) PROVE FALSE
        OBVIOUS
      <4>1. row'[d] = Released(row[d], "pending")
        BY <2>1 DEF RecoverStuck
      <4> QED  BY <1>4, <3>0, <4>1 DEF Released, Rows
    <3>3. ASSUME NEW w \in Workers PROVE ~ClaimDue(w)
      <4> SUFFICES ASSUME ClaimDue(w) PROVE FALSE
        OBVIOUS
      <4>1. row'[d] = [row[d] EXCEPT !.status = "delivering", !.lease = 0, !.by = w]
        BY <2>1 DEF ClaimDue
      <4> QED  BY <1>4, <3>0, <4>1 DEF Rows
    <3>4. ASSUME NEW w \in Workers PROVE ~RenewLeases(w)
      <4> SUFFICES ASSUME RenewLeases(w) PROVE FALSE
        OBVIOUS
      <4>1. row'[d] = [row[d] EXCEPT !.lease = 0]
        BY <2>1 DEF RenewLeases
      <4> QED  BY <3>0, <4>1 DEF Rows
    <3> QED  BY <3>1, <3>2, <3>3, <3>4
  <2>3. \A e \in Deliveries : ~Enqueue(e) /\ ~DeleteRetention(e)
    BY <1>4, <2>0 DEF Enqueue, DeleteRetention, NoRow, Rows
  <2>4. PICK w \in Workers, e \in Deliveries : Records(w, e)
    BY <2>1, <2>2, <2>3 DEF Next, vars, Edit, Crash, Dispatch, Unread, Posts, Drop, RecordFails
  <2>5. d \in Holds(w) /\ ~Cut(w) /\ e = d
    BY <2>1, <2>4, RecordsWrite
  <2>6. ~Keeps(d, row'[d].status) /\ row[d].status = "delivering"
    BY <2>5, HeldByOne DEF Keeps
  <2>7. CASE RecordSuccess(w, d)
    BY <1>4, <2>0, <2>6, <2>7 DEF RecordSuccess, Writes, Keeps, Released, Rows
  <2>8. CASE RecordFailure(w, d)
    BY <1>4, <2>0, <2>6, <2>8 DEF RecordFailure, Writes, Keeps, Released, Rows
  <2>9. CASE RecordAbandoned(w, d)
    BY <1>1, <2>9 DEF RecordAbandoned, Reasons
  <2> QED  BY <2>4, <2>5, <2>7, <2>8, <2>9 DEF Records
<1> QED  BY <1>2, <1>3, <1>4 DEF Reasons, AbandonedForCause

\* A crash, a round cut off or a lost result costs no delivery an attempt, for any
\* number of workers, deliveries, retries and faults.
THEOREM Causes == Spec => []AbandonedForCause
<1>1. Init => Reasons
  BY DEF Init, Reasons, AbandonedForCause, NoBatch, NoItem, NoRow
<1>2. Reasons => AbandonedForCause
  BY DEF Reasons
<1> QED  BY Invariance, <1>1, <1>2, NextReasons, PTL DEF Spec

=============================================================================
