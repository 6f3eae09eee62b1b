-------------------------- MODULE RecorderProofs --------------------------
(***************************************************************************)
(* Theorems about Recorder, for every number of requests and writers,      *)
(* every queue size and every combination of failures.                     *)
(***************************************************************************)
EXTENDS Recorder, TLAPS

(***************************************************************************)
(* The inductive invariant.  An accepted event is in one place only: a     *)
(* slot of the queue or the hands of one writer.  Once the signal is up    *)
(* nobody sends any more, so a queue found empty stays empty.              *)
(***************************************************************************)

Busy == {"insert", "insert_last", "spend", "spend_last"}

\* A writer holds an event exactly while it works on it.
JobsMatchPcs == \A w \in Workers : worker[w].job # Nothing <=> worker[w].pc \in Busy

\* An event that was accepted and not yet accounted is in the queue or with a writer.
QueuedIsHeld ==
  \A r \in Requests : phase[r] = "queued" =>
    (\E j \in 1 .. Len(queue) : queue[j] = r) \/ (\E w \in Workers : worker[w].job = r)

\* ... and what is there was accepted and not yet accounted ...
HeldIsQueued ==
  /\ \A j \in 1 .. Len(queue) : phase[queue[j]] = "queued"
  /\ \A w \in Workers : worker[w].job # Nothing => phase[worker[w].job] = "queued"

\* ... in one place.
HeldOnce ==
  /\ \A j, k \in 1 .. Len(queue) : queue[j] = queue[k] => j = k
  /\ \A w, v \in Workers : worker[w].job = worker[v].job /\ worker[w].job # Nothing => w = v
  /\ \A j \in 1 .. Len(queue) : \A w \in Workers : worker[w].job # queue[j]

\* The signal is up from Close on; then nobody is about to send.
SignalStopsSenders ==
  /\ mati <=> closer \in {"waiting", "closed", "exited"}
  /\ mati => \A r \in Requests : phase[r] # "sending"

Leaving == {"draining", "insert_last", "spend_last", "exited"}

\* A writer leaves after the signal and an empty queue, and Close after all writers.
LeavingIsFinal ==
  /\ \A w \in Workers : worker[w].pc \in Leaving => mati
  /\ \A w \in Workers : worker[w].pc = "exited" => queue = <<>>
  /\ closer = "closed" => \A w \in Workers : worker[w].pc = "exited"

\* A cost is added only when its event is accounted for, and once.
ChargedOnce ==
  \A r \in Requests : /\ charges[r] \in {0, 1}
                      /\ charges[r] = 1 => phase[r] = "done"

RInv == /\ TypeOK /\ JobsMatchPcs /\ QueuedIsHeld /\ HeldIsQueued /\ HeldOnce
        /\ SignalStopsSenders /\ LeavingIsFinal /\ ChargedOnce

LEMMA TailFacts ==
  ASSUME NEW S, NEW s \in Seq(S), s # <<>>
  PROVE  /\ Tail(s) \in Seq(S) /\ Len(Tail(s)) = Len(s) - 1 /\ Len(s) \in Nat \ {0}
         /\ \A j \in 1 .. Len(Tail(s)) : Tail(s)[j] = s[j + 1]
         /\ Head(s) = s[1] /\ Head(s) \in S
OBVIOUS

LEMMA AppendFacts ==
  ASSUME NEW S, NEW s \in Seq(S), NEW e \in S
  PROVE  /\ Append(s, e) \in Seq(S) /\ Len(Append(s, e)) = Len(s) + 1 /\ Len(s) \in Nat
         /\ \A j \in 1 .. Len(s) : Append(s, e)[j] = s[j]
         /\ Append(s, e)[Len(s) + 1] = e
OBVIOUS

\* At the start nothing is held and nothing is charged.
LEMMA InitRInv == Init => RInv
<1> SUFFICES ASSUME Init PROVE RInv
  OBVIOUS
<1>1. queue = <<>> /\ Len(queue) = 0 /\ queue \in Seq(Requests)
  BY DEF Init
<1>2. TypeOK
  <2>1. phase \in [Requests -> Phases] /\ charges \in [Requests -> Nat]
    BY DEF Init, Phases
  <2>2. IdleWorker \in [pc : WorkerPcs, job : Requests \cup {Nothing}]
    BY DEF IdleWorker, WorkerPcs
  <2>3. worker \in [Workers -> [pc : WorkerPcs, job : Requests \cup {Nothing}]]
    BY <2>2 DEF Init
  <2>4. faults \in Weathers /\ mati \in BOOLEAN /\ closer = "serving" /\ rows = {}
    BY DEF Init
  <2>5. Len(queue) <= QueueSize
    BY <1>1, SizeAssumption
  <2>6. QED
    BY <1>1, <2>1, <2>3, <2>4, <2>5 DEF TypeOK
<1>3. JobsMatchPcs /\ QueuedIsHeld
  BY DEF Init, JobsMatchPcs, QueuedIsHeld, IdleWorker, Busy
<1>4. HeldIsQueued /\ HeldOnce
  BY <1>1 DEF Init, HeldIsQueued, HeldOnce, IdleWorker
<1>5. SignalStopsSenders /\ LeavingIsFinal /\ ChargedOnce
  BY DEF Init, SignalStopsSenders, LeavingIsFinal, ChargedOnce, IdleWorker, Leaving
<1>6. QED
  BY <1>2, <1>3, <1>4, <1>5 DEF RInv

(***************************************************************************)
(* The steps of a handler, of a writer and of the shutdown.                *)
(***************************************************************************)

LEMMA HandlerRInv ==
  ASSUME RInv, NEW r \in Requests, Arrives(r) \/ HandlerStep(r) PROVE RInv'
<1> USE DEF RInv
<1>1. CASE Arrives(r) \/ RecordLocks(r) \/ RecordChecks(r)
  <2>1. /\ UNCHANGED <<faults, queue, worker, mati, closer, rows, charges>>
        /\ \E p \in {"running", "checking", "dropping", "sending"} :
              phase' = [phase EXCEPT ![r] = p] /\ (p = "sending" => ~mati)
        /\ phase[r] \in {"absent", "running", "checking"}
    BY <1>1 DEF Arrives, RecordLocks, RecordChecks, TypeOK
  <2>2. TypeOK'
    BY <2>1 DEF TypeOK, Phases
  <2>3. JobsMatchPcs' /\ LeavingIsFinal'
    BY <2>1 DEF JobsMatchPcs, LeavingIsFinal
  <2>4. \A q \in Requests : phase'[q] = "queued" <=> phase[q] = "queued"
    BY <2>1 DEF TypeOK
  <2>5. QueuedIsHeld' /\ HeldOnce'
    BY <2>1, <2>4 DEF QueuedIsHeld, HeldOnce
  <2>6. HeldIsQueued'
    BY <2>1, <2>4 DEF HeldIsQueued, TypeOK
  <2>7. SignalStopsSenders'
    BY <2>1 DEF SignalStopsSenders, TypeOK
  <2>8. ChargedOnce'
    BY <2>1 DEF ChargedOnce, TypeOK
  <2>9. QED
    BY <2>2, <2>3, <2>5, <2>6, <2>7, <2>8
<1>2. CASE RecordSends(r) /\ Len(queue) < QueueSize
  <2>1. /\ UNCHANGED <<faults, worker, mati, closer, rows, charges>>
        /\ queue' = Append(queue, r) /\ phase' = [phase EXCEPT ![r] = "queued"]
        /\ phase[r] = "sending" /\ ~mati
    BY <1>2 DEF RecordSends, SignalStopsSenders
  <2>2. /\ queue \in Seq(Requests) /\ Len(queue) \in Nat
        /\ queue' \in Seq(Requests) /\ Len(queue') = Len(queue) + 1
        /\ \A j \in 1 .. Len(queue) : queue'[j] = queue[j] /\ queue[j] \in Requests
        /\ queue'[Len(queue) + 1] = r
    BY <2>1, AppendFacts DEF TypeOK
  <2>3. /\ \A j \in 1 .. Len(queue) : queue[j] # r
        /\ \A w \in Workers : worker[w].job # r
    BY <2>1, NothingAssumption DEF HeldIsQueued
  <2>4. TypeOK'
    BY <1>2, <2>1, <2>2, SizeAssumption DEF TypeOK, Phases
  <2>5. JobsMatchPcs' /\ LeavingIsFinal'
    BY <2>1 DEF JobsMatchPcs, LeavingIsFinal, Leaving
  <2>6. QueuedIsHeld'
    BY <2>1, <2>2 DEF QueuedIsHeld, TypeOK
  <2>7. HeldIsQueued'
    BY <2>1, <2>2, <2>3 DEF HeldIsQueued, TypeOK
  <2>8. HeldOnce'
    BY <2>1, <2>2, <2>3 DEF HeldOnce
  <2>9. SignalStopsSenders' /\ ChargedOnce'
    BY <2>1 DEF SignalStopsSenders, ChargedOnce, TypeOK
  <2>10. QED
    BY <2>4, <2>5, <2>6, <2>7, <2>8, <2>9
<1>3. CASE (RecordSends(r) /\ ~(Len(queue) < QueueSize)) \/ (\E ok \in BOOLEAN : DropCharges(r, ok))
  <2>1. /\ UNCHANGED <<faults, queue, worker, mati, closer, rows>>
        /\ phase' = [phase EXCEPT ![r] = phase'[r]] /\ phase'[r] \in {"dropping", "done"}
        /\ phase[r] \in {"sending", "dropping"}
        /\ \/ charges' = charges
           \/ charges' = [charges EXCEPT ![r] = @ + 1] /\ phase'[r] = "done"
    BY <1>3 DEF RecordSends, DropCharges, Charged, TypeOK
  <2>2. \A q \in Requests : phase'[q] = "queued" <=> phase[q] = "queued"
    BY <2>1 DEF TypeOK
  <2>3. charges[r] = 0
    BY <2>1 DEF ChargedOnce
  <2>4. ChargedOnce'
    BY <2>1, <2>3 DEF ChargedOnce, TypeOK
  <2>5. TypeOK'
    <3>1. phase' \in [Requests -> Phases]
      BY <2>1 DEF TypeOK, Phases
    <3>2. charges' \in [Requests -> Nat]
      BY <2>1 DEF TypeOK
    <3>3. QED
      BY <2>1, <3>1, <3>2 DEF TypeOK
  <2>6. JobsMatchPcs' /\ LeavingIsFinal' /\ SignalStopsSenders'
    BY <2>1 DEF JobsMatchPcs, LeavingIsFinal, SignalStopsSenders, TypeOK
  <2>7. QueuedIsHeld' /\ HeldOnce'
    BY <2>1, <2>2 DEF QueuedIsHeld, HeldOnce
  <2>8. HeldIsQueued'
    BY <2>1, <2>2 DEF HeldIsQueued, TypeOK
  <2>9. QED
    BY <2>4, <2>5, <2>6, <2>7, <2>8
<1>4. QED
  BY <1>1, <1>2, <1>3 DEF HandlerStep, Outcomes


\* The event of a busy writer is a request that nobody else holds.
LEMMA BusyHolds ==
  ASSUME RInv, NEW w \in Workers, worker[w].job # Nothing \/ worker[w].pc \in Busy
  PROVE  /\ worker[w].job \in Requests /\ worker[w].job # Nothing /\ worker[w].pc \in Busy
         /\ phase[worker[w].job] = "queued"
         /\ \A j \in 1 .. Len(queue) : queue[j] # worker[w].job
         /\ \A v \in Workers : v # w => worker[v].job # worker[w].job
<1>1. worker[w].job # Nothing /\ worker[w].pc \in Busy
  BY DEF RInv, JobsMatchPcs
<1>2. worker[w].job \in Requests
  BY <1>1 DEF RInv, TypeOK
<1>3. QED
  BY <1>1, <1>2 DEF RInv, HeldIsQueued, HeldOnce

\* A step of one writer leaves the others as they are.
LEMMA OthersStay ==
  ASSUME TypeOK, NEW w \in Workers, NEW x, worker' = [worker EXCEPT ![w] = x],
         x \in [pc : WorkerPcs, job : Requests \cup {Nothing}]
  PROVE  /\ worker' \in [Workers -> [pc : WorkerPcs, job : Requests \cup {Nothing}]]
         /\ worker'[w] = x
         /\ \A v \in Workers : v # w => worker'[v] = worker[v]
BY DEF TypeOK

\* The writer takes the oldest event out of the queue into its hands.
LEMMA TakesRInv ==
  ASSUME RInv, NEW w \in Workers, Takes(w) PROVE RInv'
<1> DEFINE e == Head(queue)
           x == [pc |-> IF worker[w].pc = "select" THEN "insert" ELSE "insert_last", job |-> e]
<1>1. /\ UNCHANGED <<faults, phase, mati, closer, rows, charges>>
      /\ queue' = Tail(queue) /\ queue # <<>>
      /\ worker' = [worker EXCEPT ![w] = x]
      /\ worker[w].pc \in {"select", "draining"}
  BY DEF Takes
<1>2. /\ Tail(queue) \in Seq(Requests) /\ Len(Tail(queue)) = Len(queue) - 1
      /\ Len(queue) \in Nat \ {0}
      /\ \A j \in 1 .. Len(Tail(queue)) : Tail(queue)[j] = queue[j + 1]
      /\ e = queue[1] /\ e \in Requests
  BY <1>1, TailFacts DEF RInv, TypeOK
<1>3. x \in [pc : WorkerPcs, job : Requests \cup {Nothing}] /\ x.pc \in Busy /\ x.job = e
  BY <1>2 DEF WorkerPcs, Busy
<1> HIDE DEF x, e
<1>4. /\ worker' \in [Workers -> [pc : WorkerPcs, job : Requests \cup {Nothing}]]
      /\ worker'[w] = x
      /\ \A v \in Workers : v # w => worker'[v] = worker[v]
  BY <1>1, <1>3, OthersStay DEF RInv
<1>5. /\ phase[e] = "queued" /\ e # Nothing
      /\ \A v \in Workers : worker[v].job # e
      /\ \A j \in 1 .. Len(queue) : j # 1 => queue[j] # e
  BY <1>2, NothingAssumption DEF RInv, HeldIsQueued, HeldOnce
<1>6. worker[w].job = Nothing
  BY <1>1 DEF RInv, JobsMatchPcs, Busy
<1>7. \A j \in 1 .. Len(queue') : j + 1 \in 1 .. Len(queue) /\ j + 1 # 1 /\ queue'[j] = queue[j + 1]
  BY <1>1, <1>2
<1>8. TypeOK'
  BY <1>1, <1>2, <1>4, SizeAssumption DEF RInv, TypeOK
<1>9. JobsMatchPcs'
  BY <1>3, <1>4, <1>5 DEF RInv, JobsMatchPcs
<1>10. QueuedIsHeld'
  <2> SUFFICES ASSUME NEW r \in Requests, phase[r] = "queued"
               PROVE  (\E j \in 1 .. Len(queue') : queue'[j] = r) \/ (\E v \in Workers : worker'[v].job = r)
    BY <1>1 DEF QueuedIsHeld
  <2>1. CASE r = e
    BY <2>1, <1>3, <1>4
  <2>2. CASE r # e /\ \E j \in 1 .. Len(queue) : queue[j] = r
    <3>1. PICK j \in 1 .. Len(queue) : queue[j] = r
      BY <2>2
    <3>2. j # 1
      BY <2>2, <3>1, <1>2
    <3>3. j - 1 \in 1 .. Len(queue') /\ (j - 1) + 1 = j
      BY <3>2, <1>1, <1>2
    <3>4. queue'[j - 1] = r
      BY <3>1, <3>3, <1>7
    <3>5. QED
      BY <3>3, <3>4
  <2>3. CASE \E v \in Workers : worker[v].job = r
    <3>1. PICK v \in Workers : worker[v].job = r
      BY <2>3
    <3>2. v # w
      BY <3>1, <1>6, NothingAssumption
    <3>3. QED
      BY <3>1, <3>2, <1>4
  <2>4. QED
    BY <2>1, <2>2, <2>3 DEF RInv, QueuedIsHeld
<1>11. HeldIsQueued'
  BY <1>1, <1>3, <1>4, <1>5, <1>7 DEF RInv, HeldIsQueued
<1>12. HeldOnce'
  <2>1. \A j, k \in 1 .. Len(queue') : queue'[j] = queue'[k] => j = k
    <3> SUFFICES ASSUME NEW j \in 1 .. Len(queue'), NEW k \in 1 .. Len(queue'), queue'[j] = queue'[k]
                 PROVE  j = k
      OBVIOUS
    <3>1. j + 1 = k + 1
      BY <1>7 DEF RInv, HeldOnce
    <3>2. QED
      BY <3>1
  <2>2. \A v, u \in Workers : worker'[v].job = worker'[u].job /\ worker'[v].job # Nothing => v = u
    BY <1>3, <1>4, <1>5 DEF RInv, HeldOnce
  <2>3. \A j \in 1 .. Len(queue') : \A v \in Workers : worker'[v].job # queue'[j]
    BY <1>3, <1>4, <1>5, <1>7 DEF RInv, HeldOnce
  <2>4. QED
    BY <2>1, <2>2, <2>3 DEF HeldOnce
<1>13. SignalStopsSenders' /\ ChargedOnce'
  BY <1>1 DEF RInv, SignalStopsSenders, ChargedOnce
<1>14. LeavingIsFinal'
  <2>1. x.pc # "exited" /\ (x.pc \in Leaving => worker[w].pc \in Leaving)
    BY <1>1 DEF Leaving, x
  <2>2. \A v \in Workers : worker[v].pc # "exited"
    BY <1>1 DEF RInv, LeavingIsFinal
  <2>3. closer # "closed"
    BY <1>1, <2>2 DEF RInv, LeavingIsFinal
  <2>4. QED
    BY <1>1, <1>4, <2>1, <2>2, <2>3 DEF RInv, LeavingIsFinal
<1>15. QED
  BY <1>8, <1>9, <1>10, <1>11, <1>12, <1>13, <1>14 DEF RInv

\* A writer that holds no event notices the signal, or leaves.
LEMMA StopsRInv ==
  ASSUME RInv, NEW w \in Workers, SeesStop(w) \/ Exits(w) PROVE RInv'
<1>1. PICK p \in {"draining", "exited"} :
        /\ worker' = [worker EXCEPT ![w] = [pc |-> p, job |-> worker[w].job]]
        /\ p = "exited" => queue = <<>>
  BY DEF SeesStop, Exits, RInv, TypeOK
<1>2. /\ UNCHANGED <<faults, phase, queue, mati, closer, rows, charges>>
      /\ worker[w].pc \in {"select", "draining"} /\ mati
  BY DEF SeesStop, Exits, RInv, LeavingIsFinal, Leaving
<1> DEFINE x == [pc |-> p, job |-> worker[w].job]
<1>3. worker[w].job = Nothing
  BY <1>2 DEF RInv, JobsMatchPcs, Busy
<1>4. /\ x \in [pc : WorkerPcs, job : Requests \cup {Nothing}] /\ x.pc \notin Busy
      /\ x.job = Nothing /\ x.pc \in {"draining", "exited"} /\ (x.pc = "exited" => queue = <<>>)
  BY <1>1, <1>3 DEF WorkerPcs, Busy
<1>5. worker' = [worker EXCEPT ![w] = x]
  BY <1>1
<1> HIDE DEF x
<1>6. /\ worker' \in [Workers -> [pc : WorkerPcs, job : Requests \cup {Nothing}]]
      /\ worker'[w] = x
      /\ \A v \in Workers : v # w => worker'[v] = worker[v]
  BY <1>4, <1>5, OthersStay DEF RInv
<1>7. \A v \in Workers : worker'[v].job = worker[v].job
  BY <1>3, <1>4, <1>6
<1>8. TypeOK'
  BY <1>2, <1>6 DEF RInv, TypeOK
<1>9. JobsMatchPcs'
  BY <1>4, <1>6 DEF RInv, JobsMatchPcs
<1>10. QueuedIsHeld' /\ HeldIsQueued' /\ HeldOnce'
  BY <1>2, <1>7 DEF RInv, QueuedIsHeld, HeldIsQueued, HeldOnce
<1>11. SignalStopsSenders' /\ ChargedOnce'
  BY <1>2 DEF RInv, SignalStopsSenders, ChargedOnce
<1>12. LeavingIsFinal'
  <2>1. closer # "closed"
    BY <1>2 DEF RInv, LeavingIsFinal
  <2>2. QED
    BY <1>2, <1>4, <1>6, <2>1 DEF RInv, LeavingIsFinal
<1>13. QED
  BY <1>8, <1>9, <1>10, <1>11, <1>12 DEF RInv

\* The row is written, or not, while the event stays in the writer's hands.
LEMMA InsertsRInv ==
  ASSUME RInv, NEW w \in Workers, NEW ok \in BOOLEAN, Inserts(w, ok) PROVE RInv'
<1> DEFINE x == [pc |-> IF worker[w].pc = "insert" THEN "spend" ELSE "spend_last",
                 job |-> worker[w].job]
<1>1. /\ UNCHANGED <<faults, phase, queue, mati, closer, charges>>
      /\ worker[w].pc \in {"insert", "insert_last"}
      /\ worker' = [worker EXCEPT ![w] = x]
      /\ rows' \in {rows, rows \cup {worker[w].job}}
  <2>1. worker' = [worker EXCEPT ![w].pc = IF worker[w].pc = "insert" THEN "spend" ELSE "spend_last"]
    BY DEF Inserts
  <2>2. worker[w] \in [pc : WorkerPcs, job : Requests \cup {Nothing}]
    BY DEF RInv, TypeOK
  <2>3. [worker[w] EXCEPT !.pc = IF worker[w].pc = "insert" THEN "spend" ELSE "spend_last"] = x
    BY <2>2
  <2>4. worker' = [worker EXCEPT ![w] = x]
    BY <2>1, <2>3
  <2>5. QED
    BY <2>4 DEF Inserts
<1>2. worker[w].job \in Requests /\ worker[w].job # Nothing
  BY <1>1, BusyHolds DEF Busy
<1>3. /\ x \in [pc : WorkerPcs, job : Requests \cup {Nothing}] /\ x.pc \in Busy
      /\ x.job = worker[w].job /\ (x.pc \in Leaving => worker[w].pc \in Leaving)
      /\ x.pc # "exited"
  BY <1>1, <1>2 DEF WorkerPcs, Busy, Leaving
<1> HIDE DEF x
<1>4. /\ worker' \in [Workers -> [pc : WorkerPcs, job : Requests \cup {Nothing}]]
      /\ worker'[w] = x
      /\ \A v \in Workers : v # w => worker'[v] = worker[v]
  BY <1>1, <1>3, OthersStay DEF RInv
<1>5. \A v \in Workers : worker'[v].job = worker[v].job
  BY <1>3, <1>4
<1>6. TypeOK'
  BY <1>1, <1>2, <1>4 DEF RInv, TypeOK
<1>7. JobsMatchPcs'
  BY <1>2, <1>3, <1>4 DEF RInv, JobsMatchPcs
<1>8. QueuedIsHeld' /\ HeldIsQueued' /\ HeldOnce'
  BY <1>1, <1>5 DEF RInv, QueuedIsHeld, HeldIsQueued, HeldOnce
<1>9. SignalStopsSenders' /\ ChargedOnce'
  BY <1>1 DEF RInv, SignalStopsSenders, ChargedOnce
<1>10. LeavingIsFinal'
  <2>1. closer # "closed"
    BY <1>1 DEF RInv, LeavingIsFinal
  <2>2. QED
    BY <1>1, <1>3, <1>4, <2>1 DEF RInv, LeavingIsFinal
<1>11. QED
  BY <1>6, <1>7, <1>8, <1>9, <1>10 DEF RInv

\* The event leaves the writer's hands, charged or not, and is accounted for.
LEMMA FinishesRInv ==
  ASSUME RInv, NEW w \in Workers, (\E ok \in BOOLEAN : Spends(w, ok)) \/ Panics(w) PROVE RInv'
<1> DEFINE e == worker[w].job
           x == [pc |-> IF worker[w].pc \in {"insert", "spend"} THEN "select" ELSE "draining",
                 job |-> Nothing]
<1>1. /\ UNCHANGED <<faults, queue, mati, closer, rows>>
      /\ worker' = [worker EXCEPT ![w] = x]
      /\ phase' = [phase EXCEPT ![e] = "done"]
      /\ charges' = charges \/ charges' = [charges EXCEPT ![e] = @ + 1]
      /\ worker[w].job # Nothing \/ worker[w].pc \in Busy
  BY DEF Spends, Panics, AfterWrite, Charged, Busy
<1>2. /\ e \in Requests /\ e # Nothing /\ worker[w].pc \in Busy /\ phase[e] = "queued"
      /\ \A j \in 1 .. Len(queue) : queue[j] # e
      /\ \A v \in Workers : v # w => worker[v].job # e
  BY <1>1, BusyHolds
<1>3. /\ x \in [pc : WorkerPcs, job : Requests \cup {Nothing}] /\ x.pc \notin Busy
      /\ x.job = Nothing /\ (x.pc \in Leaving => worker[w].pc \in Leaving)
      /\ x.pc # "exited"
  BY <1>2 DEF WorkerPcs, Busy, Leaving
<1>4. \A v \in Workers : v # w => worker[v].job # worker[w].job
  BY <1>2
<1>5. worker[w].job = e
  OBVIOUS
<1> HIDE DEF x, e
<1>6. /\ worker' \in [Workers -> [pc : WorkerPcs, job : Requests \cup {Nothing}]]
      /\ worker'[w] = x
      /\ \A v \in Workers : v # w => worker'[v] = worker[v]
  BY <1>1, <1>3, OthersStay DEF RInv
<1>7. phase'[e] = "done" /\ \A r \in Requests : r # e => phase'[r] = phase[r]
  BY <1>1, <1>2 DEF RInv, TypeOK
<1>8. charges[e] = 0
  BY <1>2 DEF RInv, ChargedOnce
<1>9. TypeOK'
  <2>1. phase' \in [Requests -> Phases]
    BY <1>1 DEF RInv, TypeOK, Phases
  <2>2. charges' \in [Requests -> Nat]
    BY <1>1 DEF RInv, TypeOK
  <2>3. QED
    BY <1>1, <1>6, <2>1, <2>2 DEF RInv, TypeOK
<1>10. JobsMatchPcs'
  BY <1>3, <1>6 DEF RInv, JobsMatchPcs
<1>11. QueuedIsHeld'
  BY <1>1, <1>5, <1>6, <1>7 DEF RInv, QueuedIsHeld
<1>12. HeldIsQueued'
  <2>1. \A j \in 1 .. Len(queue') : phase'[queue'[j]] = "queued"
    BY <1>1, <1>2, <1>7 DEF RInv, HeldIsQueued, TypeOK
  <2>2. \A v \in Workers : worker'[v].job # Nothing => phase'[worker'[v].job] = "queued"
    BY <1>2, <1>3, <1>6, <1>7 DEF RInv, HeldIsQueued, TypeOK
  <2>3. QED
    BY <2>1, <2>2 DEF HeldIsQueued
<1>13. HeldOnce'
  <2>1. \A j, k \in 1 .. Len(queue') : queue'[j] = queue'[k] => j = k
    BY <1>1 DEF RInv, HeldOnce
  <2>2. \A v, u \in Workers : worker'[v].job = worker'[u].job /\ worker'[v].job # Nothing => v = u
    BY <1>3, <1>6 DEF RInv, HeldOnce
  <2>3. \A j \in 1 .. Len(queue') : \A v \in Workers : worker'[v].job # queue'[j]
    <3>1. \A j \in 1 .. Len(queue) : queue[j] # Nothing
      BY NothingAssumption DEF RInv, TypeOK
    <3>2. QED
      BY <1>1, <1>3, <1>6, <3>1 DEF RInv, HeldOnce
  <2>4. QED
    BY <2>1, <2>2, <2>3 DEF HeldOnce
<1>14. SignalStopsSenders'
  BY <1>1, <1>7 DEF RInv, SignalStopsSenders
<1>15. ChargedOnce'
  BY <1>1, <1>2, <1>7, <1>8 DEF RInv, ChargedOnce, TypeOK
<1>16. LeavingIsFinal'
  <2>1. closer # "closed" /\ worker[w].pc # "exited"
    BY <1>2 DEF RInv, LeavingIsFinal, Busy
  <2>2. QED
    BY <1>1, <1>3, <1>6, <2>1 DEF RInv, LeavingIsFinal
<1>17. QED
  BY <1>9, <1>10, <1>11, <1>12, <1>13, <1>14, <1>15, <1>16 DEF RInv

\* The shutdown moves on; the signal is raised only when nobody is sending.
LEMMA ShutdownRInv == ASSUME RInv, ShutdownStep PROVE RInv'
<1>1. UNCHANGED <<faults, phase, queue, worker, rows, charges>>
  BY DEF ShutdownStep, ServerStops, CloseSignals, CloseReturns, ProcessExits
<1>2. \/ closer = "serving" /\ closer' = "locking" /\ mati' = mati
      \/ closer = "locking" /\ closer' = "waiting" /\ mati' = TRUE /\ Readers = {}
      \/ /\ closer = "waiting" /\ closer' = "closed" /\ mati' = mati
         /\ \A w \in Workers : worker[w].pc = "exited"
      \/ closer \in {"waiting", "closed"} /\ closer' = "exited" /\ mati' = mati
  BY DEF ShutdownStep, ServerStops, CloseSignals, CloseReturns, ProcessExits
<1>3. TypeOK'
  BY <1>1, <1>2 DEF RInv, TypeOK
<1>4. JobsMatchPcs' /\ QueuedIsHeld' /\ HeldIsQueued' /\ HeldOnce' /\ ChargedOnce'
  BY <1>1 DEF RInv, JobsMatchPcs, QueuedIsHeld, HeldIsQueued, HeldOnce, ChargedOnce
<1>5. SignalStopsSenders'
  BY <1>1, <1>2 DEF RInv, SignalStopsSenders, Readers
<1>6. LeavingIsFinal'
  BY <1>1, <1>2 DEF RInv, LeavingIsFinal
<1>7. QED
  BY <1>3, <1>4, <1>5, <1>6 DEF RInv

LEMMA StepRInv == RInv /\ [Next]_vars => RInv'
<1> SUFFICES ASSUME RInv, [Next]_vars PROVE RInv'
  OBVIOUS
<1>1. CASE \E r \in Requests : Arrives(r) \/ HandlerStep(r)
  BY <1>1, HandlerRInv
<1>2. CASE \E w \in Workers : WorkerStep(w)
  <2>1. PICK w \in Workers : WorkerStep(w)
    BY <1>2
  <2>2. CASE Takes(w)
    BY <2>2, TakesRInv
  <2>3. CASE SeesStop(w) \/ Exits(w)
    BY <2>3, StopsRInv
  <2>4. CASE \E ok \in Outcomes("insert_fails") : Inserts(w, ok)
    BY <2>4, InsertsRInv DEF Outcomes
  <2>5. CASE Panics(w) \/ \E ok \in Outcomes("spend_fails") : Spends(w, ok)
    BY <2>5, FinishesRInv DEF Outcomes
  <2>6. QED
    BY <2>1, <2>2, <2>3, <2>4, <2>5 DEF WorkerStep
<1>3. CASE ShutdownStep
  BY <1>3, ShutdownRInv
<1>4. CASE UNCHANGED vars
  BY <1>4 DEF RInv, vars, TypeOK, JobsMatchPcs, QueuedIsHeld, HeldIsQueued, HeldOnce,
             SignalStopsSenders, LeavingIsFinal, ChargedOnce
<1>5. QED
  BY <1>1, <1>2, <1>3, <1>4 DEF Next

THEOREM RecorderInvariant == Spec => []RInv
<1>1. Init => RInv
  BY InitRInv
<1>2. RInv /\ [Next]_vars => RInv'
  BY StepRInv
<1>3. QED
  BY <1>1, <1>2, PTL DEF Spec

(***************************************************************************)
(* What follows from it.                                                   *)
(***************************************************************************)

\* The channel never holds more than its capacity, and only events.
THEOREM RecorderTypeCorrect == Spec => []TypeOK
<1>1. RInv => TypeOK
  BY DEF RInv
<1>2. QED
  BY <1>1, RecorderInvariant, PTL

\* When Close has returned, every accepted event was written or given up by its
\* writer: none is left in the queue or in a writer's hands.
THEOREM NothingIsStranded == Spec => []NothingStranded
<1>1. RInv => NothingStranded
  <2> SUFFICES ASSUME RInv, closer = "closed", NEW r \in Requests, phase[r] = "queued"
               PROVE  FALSE
    BY DEF NothingStranded
  <2>1. \A w \in Workers : worker[w].pc = "exited" /\ worker[w].job = Nothing
    BY DEF RInv, LeavingIsFinal, JobsMatchPcs, Busy
  <2>2. queue = <<>>
    BY <2>1, WorkersAssumption DEF RInv, LeavingIsFinal
  <2>3. QED
    BY <2>1, <2>2, NothingAssumption DEF RInv, QueuedIsHeld
<1>2. QED
  BY <1>1, RecorderInvariant, PTL

\* The recorder implements the ledger: no cost is added twice, and no outcome
\* is revised.
THEOREM BooksAreKept == Spec => KeepsTheBooks
<1> DEFINE acc == [r \in Requests |-> Account(r)]
<1>1. Init => Books!LInit
  BY DEF Init, Books!LInit, Account
<1>2. RInv /\ RInv' /\ [Next]_vars => [Books!LNext]_acc
  <2> SUFFICES ASSUME RInv, RInv', Next PROVE Books!LNext \/ acc' = acc
    BY DEF vars, Account
  <2>1. \A r \in Requests : /\ charges[r] \in {0, 1} /\ charges'[r] \in {0, 1}
                            /\ charges[r] = 1 => phase[r] = "done"
    BY DEF RInv, ChargedOnce
  <2>2. CASE ProcessExits
    <3>1. closer' = "exited" /\ UNCHANGED <<phase, charges>> /\ closer # "exited"
      BY <2>2 DEF ProcessExits
    <3>2. \A r \in Requests : Account(r)' = IF Account(r) = "open" THEN "lost" ELSE Account(r)
      BY <2>1, <3>1 DEF Account
    <3>3. Books!Abandon
      BY <3>2 DEF Books!Abandon
    <3>4. QED
      BY <3>3 DEF Books!LNext
  <2>3. ASSUME UNCHANGED charges, closer = "exited" <=> closer' = "exited",
               \A r \in Requests : phase'[r] = "done" <=> phase[r] = "done"
        PROVE  acc' = acc
    BY <2>3 DEF Account
  <2>4. CASE \E e \in Requests : /\ phase' = [phase EXCEPT ![e] = "done"] /\ phase[e] # "done"
                                 /\ charges' \in {charges, [charges EXCEPT ![e] = @ + 1]}
                                 /\ UNCHANGED closer /\ closer # "exited"
    <3>1. PICK e \in Requests : /\ phase' = [phase EXCEPT ![e] = "done"] /\ phase[e] # "done"
                                /\ charges' \in {charges, [charges EXCEPT ![e] = @ + 1]}
                                /\ UNCHANGED closer /\ closer # "exited"
      BY <2>4
    <3>2. Account(e) = "open" /\ Account(e)' \in {"charged", "lost"}
      BY <2>1, <3>1 DEF Account, RInv, TypeOK
    <3>3. \A r \in Requests : r # e => Account(r)' = Account(r)
      BY <3>1 DEF Account, RInv, TypeOK
    <3>4. Books!Settle(e)
      BY <3>2, <3>3 DEF Books!Settle
    <3>5. QED
      BY <3>4 DEF Books!LNext
  <2>5. (\E r \in Requests : Arrives(r) \/ RecordLocks(r) \/ RecordChecks(r) \/ RecordSends(r)) => acc' = acc
    <3> SUFFICES ASSUME NEW r \in Requests,
                        Arrives(r) \/ RecordLocks(r) \/ RecordChecks(r) \/ RecordSends(r)
                 PROVE  acc' = acc
      OBVIOUS
    <3>1. UNCHANGED <<charges, closer>>
      BY DEF Arrives, RecordLocks, RecordChecks, RecordSends
    <3>2. \A q \in Requests : phase'[q] = "done" <=> phase[q] = "done"
      BY DEF Arrives, RecordLocks, RecordChecks, RecordSends, RInv, TypeOK
    <3>3. QED
      BY <2>3, <3>1, <3>2
  <2>6. CASE \E r \in Requests : \E ok \in BOOLEAN : DropCharges(r, ok)
    <3>1. PICK r \in Requests, ok \in BOOLEAN : DropCharges(r, ok)
      BY <2>6
    <3>2. QED
      BY <2>4, <3>1 DEF DropCharges, Charged, Alive
  <2>7. CASE \E w \in Workers : Takes(w) \/ SeesStop(w) \/ Exits(w) \/ \E ok \in BOOLEAN : Inserts(w, ok)
    <3>1. UNCHANGED <<phase, charges, closer>>
      BY <2>7 DEF Takes, SeesStop, Exits, Inserts
    <3>2. QED
      BY <2>3, <3>1
  <2>8. CASE \E w \in Workers : Panics(w) \/ \E ok \in BOOLEAN : Spends(w, ok)
    <3>1. PICK w \in Workers : Panics(w) \/ \E ok \in BOOLEAN : Spends(w, ok)
      BY <2>8
    <3>2. worker[w].job \in Requests /\ phase[worker[w].job] = "queued"
      BY <3>1, BusyHolds DEF Spends, Panics, Busy
    <3>3. /\ phase' = [phase EXCEPT ![worker[w].job] = "done"]
          /\ charges' \in {charges, [charges EXCEPT ![worker[w].job] = @ + 1]}
          /\ UNCHANGED closer /\ closer # "exited"
      BY <3>1 DEF Spends, Panics, Charged, Alive
    <3>4. QED
      BY <2>4, <3>2, <3>3
  <2>9. CASE ServerStops \/ CloseSignals \/ CloseReturns
    <3>1. UNCHANGED <<phase, charges>> /\ closer # "exited" /\ closer' # "exited"
      BY <2>9 DEF ServerStops, CloseSignals, CloseReturns
    <3>2. QED
      BY <2>3, <3>1
  <2>10. QED
    BY <2>2, <2>5, <2>6, <2>7, <2>8, <2>9 DEF Next, HandlerStep, WorkerStep, ShutdownStep, Outcomes
<1>3. QED
  BY <1>1, <1>2, RecorderInvariant, PTL DEF Spec, KeepsTheBooks, Books!LSpec

===========================================================================
