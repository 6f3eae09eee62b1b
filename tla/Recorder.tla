------------------------------ MODULE Recorder ------------------------------
(***************************************************************************)
(* The usage recorder of internal/usage/usage.go in one gateway process:   *)
(* a bounded queue filled by the HTTP handlers as requests finish, drained *)
(* by a pool of writers, and closed at shutdown.  Each event becomes a row *)
(* of the request log and is added to the budgets (AddSpend).              *)
(*                                                                         *)
(* Record holds the read lock kirimMu between looking at the stop signal   *)
(* and sending; Close takes the write lock to raise the signal.  The cost  *)
(* of a dropped event is added by the handler itself.  Every request here  *)
(* has a cost; one without a cost only gets its row.                       *)
(***************************************************************************)
EXTENDS Naturals, Sequences, FiniteSets

CONSTANTS
  Requests,    \* the requests of a run, each handled once
  Workers,     \* goroutines running jalan
  QueueSize,
  Nothing,     \* a worker's job when it has none
  Weathers     \* the sets of failures that behaviours may meet

FaultKinds == {"insert_fails", "spend_fails", "panic", "shutdown_timeout", "close_timeout"}

ASSUME SizeAssumption   == QueueSize \in Nat \ {0}
ASSUME NothingAssumption == Nothing \notin Requests
ASSUME WorkersAssumption == Workers # {}
ASSUME FaultAssumption  == Weathers \subseteq SUBSET FaultKinds

VARIABLES
  faults,   \* the failures this behaviour may meet, chosen once
  phase,    \* per request: how far its handler and its event are
  queue,    \* the channel antre
  worker,   \* per writer: pc and the event it writes
  mati,     \* the stop signal
  closer,   \* shutdown: serving, locking, waiting, closed, exited
  rows,     \* requests whose row is in the log
  charges   \* per request: how often its cost was added

vars == <<faults, phase, queue, worker, mati, closer, rows, charges>>

Phases == {"absent", "running", "checking", "sending", "queued", "dropping", "done"}
IdleWorker == [pc |-> "select", job |-> Nothing]

\* The handler holds the read lock of kirimMu.
Readers == {r \in Requests : phase[r] \in {"checking", "sending"}}
InHandler == {r \in Requests : phase[r] \in {"running", "checking", "sending", "dropping"}}
Alive == closer # "exited"

\* Whether a step of the database may succeed or fail.
Outcomes(fault) == IF fault \in faults THEN BOOLEAN ELSE {TRUE}

-----------------------------------------------------------------------------
(* Record, called once by the handler when its request has finished.        *)

Arrives(r) ==
  /\ closer = "serving" /\ phase[r] = "absent"
  /\ phase' = [phase EXCEPT ![r] = "running"]
  /\ UNCHANGED <<faults, queue, worker, mati, closer, rows, charges>>

\* A waiting writer keeps new readers out.
RecordLocks(r) ==
  /\ Alive /\ phase[r] = "running" /\ closer # "locking"
  /\ phase' = [phase EXCEPT ![r] = "checking"]
  /\ UNCHANGED <<faults, queue, worker, mati, closer, rows, charges>>

RecordChecks(r) ==
  /\ Alive /\ phase[r] = "checking"
  /\ phase' = [phase EXCEPT ![r] = IF mati THEN "dropping" ELSE "sending"]
  /\ UNCHANGED <<faults, queue, worker, mati, closer, rows, charges>>

\* Mutant: the accepted event is accounted as a dropped one too.
RecordSends_Both(r) ==
  /\ Alive /\ phase[r] = "sending"
  /\ queue' = IF Len(queue) < QueueSize THEN Append(queue, r) ELSE queue
  /\ phase' = [phase EXCEPT ![r] = "dropping"]
  /\ UNCHANGED <<faults, worker, mati, closer, rows, charges>>

\* Mutant: the queue takes one event more than it holds.
RecordSends_OneMore(r) ==
  /\ Alive /\ phase[r] = "sending"
  /\ IF Len(queue) <= QueueSize
     THEN queue' = Append(queue, r) /\ phase' = [phase EXCEPT ![r] = "queued"]
     ELSE phase' = [phase EXCEPT ![r] = "dropping"] /\ UNCHANGED queue
  /\ UNCHANGED <<faults, worker, mati, closer, rows, charges>>

\* Never blocks: a full queue drops the event.
RecordSends(r) ==
  /\ Alive /\ phase[r] = "sending"
  /\ IF Len(queue) < QueueSize
     THEN queue' = Append(queue, r) /\ phase' = [phase EXCEPT ![r] = "queued"]
     ELSE phase' = [phase EXCEPT ![r] = "dropping"] /\ UNCHANGED queue
  /\ UNCHANGED <<faults, worker, mati, closer, rows, charges>>

Charged(r, ok) == charges' = IF ok THEN [charges EXCEPT ![r] = @ + 1] ELSE charges

\* catatDibuang: no row, but the cost is added all the same.
DropCharges(r, ok) ==
  /\ Alive /\ phase[r] = "dropping"
  /\ Charged(r, ok)
  /\ phase' = [phase EXCEPT ![r] = "done"]
  /\ UNCHANGED <<faults, queue, worker, mati, closer, rows>>

-----------------------------------------------------------------------------
(* jalan: a writer takes events, and drains the queue after the signal.     *)

Takes(w) ==
  /\ Alive /\ worker[w].pc \in {"select", "draining"}
  /\ queue # <<>>
  /\ queue' = Tail(queue)
  /\ worker' = [worker EXCEPT ![w] =
       [pc |-> IF @.pc = "select" THEN "insert" ELSE "insert_last", job |-> Head(queue)]]
  /\ UNCHANGED <<faults, phase, mati, closer, rows, charges>>

\* Mutant: the writer stops at the signal, leaving the queue.
SeesStop_NoDrain(w) ==
  /\ Alive /\ worker[w].pc = "select" /\ mati
  /\ worker' = [worker EXCEPT ![w].pc = "exited"]
  /\ UNCHANGED <<faults, phase, queue, mati, closer, rows, charges>>

\* Mutant: the signal is only looked at between events.
SeesStop_AfterEvent(w) ==
  /\ Alive /\ worker[w].pc = "select" /\ mati /\ queue # <<>>
  /\ worker' = [worker EXCEPT ![w].pc = "draining"]
  /\ UNCHANGED <<faults, phase, queue, mati, closer, rows, charges>>

SeesStop(w) ==
  /\ Alive /\ worker[w].pc = "select" /\ mati
  /\ worker' = [worker EXCEPT ![w].pc = "draining"]
  /\ UNCHANGED <<faults, phase, queue, mati, closer, rows, charges>>

Exits(w) ==
  /\ Alive /\ worker[w].pc = "draining" /\ queue = <<>>
  /\ worker' = [worker EXCEPT ![w].pc = "exited"]
  /\ UNCHANGED <<faults, phase, queue, mati, closer, rows, charges>>

\* The row; the spend follows whether or not it was written.
Inserts(w, ok) ==
  /\ Alive /\ worker[w].pc \in {"insert", "insert_last"}
  /\ rows' = IF ok THEN rows \cup {worker[w].job} ELSE rows
  /\ worker' = [worker EXCEPT ![w].pc = IF @ = "insert" THEN "spend" ELSE "spend_last"]
  /\ UNCHANGED <<faults, phase, queue, mati, closer, charges>>

\* The writer is done with its event, and goes on as before.
AfterWrite(w) ==
  worker' = [worker EXCEPT ![w] =
    [pc |-> IF @.pc \in {"insert", "spend"} THEN "select" ELSE "draining", job |-> Nothing]]

Spends(w, ok) ==
  /\ Alive /\ worker[w].pc \in {"spend", "spend_last"}
  /\ Charged(worker[w].job, ok)
  /\ phase' = [phase EXCEPT ![worker[w].job] = "done"]
  /\ AfterWrite(w)
  /\ UNCHANGED <<faults, queue, mati, closer, rows>>

\* tulisAman: a panic costs the event in hand, not the writer.
Panics(w) ==
  /\ "panic" \in faults
  /\ Alive /\ worker[w].job # Nothing
  /\ phase' = [phase EXCEPT ![worker[w].job] = "done"]
  /\ AfterWrite(w)
  /\ UNCHANGED <<faults, queue, mati, closer, rows, charges>>

-----------------------------------------------------------------------------
(* Shutdown.  The server drains its handlers first, or gives up on them;    *)
(* then Close raises the signal and waits for the writers, or gives up.     *)

ServerStops ==
  /\ closer = "serving"
  /\ InHandler = {} \/ "shutdown_timeout" \in faults
  /\ closer' = "locking"
  /\ UNCHANGED <<faults, phase, queue, worker, mati, rows, charges>>

\* Mutant: the signal is raised without waiting for the readers.
CloseSignals_NoWait ==
  /\ closer = "locking"
  /\ mati' = TRUE /\ closer' = "waiting"
  /\ UNCHANGED <<faults, phase, queue, worker, rows, charges>>

CloseSignals ==
  /\ closer = "locking" /\ Readers = {}
  /\ mati' = TRUE /\ closer' = "waiting"
  /\ UNCHANGED <<faults, phase, queue, worker, rows, charges>>

CloseReturns ==
  /\ closer = "waiting" /\ \A w \in Workers : worker[w].pc = "exited"
  /\ closer' = "closed"
  /\ UNCHANGED <<faults, phase, queue, worker, mati, rows, charges>>

\* The process ends: after Close, or without waiting for it any longer.
ProcessExits ==
  /\ closer = "closed" \/ (closer = "waiting" /\ "close_timeout" \in faults)
  /\ closer' = "exited"
  /\ UNCHANGED <<faults, phase, queue, worker, mati, rows, charges>>

-----------------------------------------------------------------------------

Init ==
  /\ faults \in Weathers
  /\ phase = [r \in Requests |-> "absent"]
  /\ queue = <<>>
  /\ worker = [w \in Workers |-> IdleWorker]
  /\ mati = FALSE
  /\ closer = "serving"
  /\ rows = {}
  /\ charges = [r \in Requests |-> 0]

HandlerStep(r) ==
  \/ RecordLocks(r) \/ RecordChecks(r) \/ RecordSends(r)
  \/ \E ok \in Outcomes("spend_fails") : DropCharges(r, ok)

WorkerStep(w) ==
  \/ Takes(w) \/ SeesStop(w) \/ Exits(w) \/ Panics(w)
  \/ \E ok \in Outcomes("insert_fails") : Inserts(w, ok)
  \/ \E ok \in Outcomes("spend_fails") : Spends(w, ok)

ShutdownStep == ServerStops \/ CloseSignals \/ CloseReturns \/ ProcessExits

Next ==
  \/ \E r \in Requests : Arrives(r) \/ HandlerStep(r)
  \/ \E w \in Workers : WorkerStep(w)
  \/ ShutdownStep

Spec == Init /\ [][Next]_vars

\* The database calls of a writer and of a handler end (konteksLangkah gives
\* each a deadline), and the writers and the closer are scheduled.
Fairness ==
  /\ \A r \in Requests : WF_vars(HandlerStep(r))
  /\ \A w \in Workers : WF_vars(WorkerStep(w))
  /\ WF_vars(CloseSignals) /\ WF_vars(CloseReturns)

FairSpec == Spec /\ Fairness

-----------------------------------------------------------------------------
(* Properties.                                                              *)

WorkerPcs == {"select", "draining", "insert", "insert_last", "spend", "spend_last", "exited"}

\* The channel is bounded, its events and the writers' are requests.
TypeOK ==
  /\ faults \in Weathers
  /\ phase \in [Requests -> Phases]
  /\ queue \in Seq(Requests) /\ Len(queue) <= QueueSize
  /\ worker \in [Workers -> [pc : WorkerPcs, job : Requests \cup {Nothing}]]
  /\ mati \in BOOLEAN
  /\ closer \in {"serving", "locking", "waiting", "closed", "exited"}
  /\ rows \subseteq Requests
  /\ charges \in [Requests -> Nat]

\* When Close returns without giving up, no accepted event is left in the queue
\* or in a writer's hands (V-LN-17): none can slip in after the last writer
\* found the queue empty.
NothingStranded ==
  closer = "closed" => \A r \in Requests : phase[r] # "queued"

\* What became of the cost of a request.
Account(r) ==
  IF charges[r] = 1 THEN "charged"
  ELSE IF charges[r] > 1 THEN "charged twice"
  ELSE IF phase[r] = "done" \/ closer = "exited" THEN "lost" ELSE "open"

Books == INSTANCE Ledger WITH account <- [r \in Requests |-> Account(r)]

\* Each request's cost is added at most once and its outcome is final, whichever
\* of the queue, the drop path and shutdown handles it (V-EM-25: "hitung ganda
\* tidak mungkin").
KeepsTheBooks == Books!LSpec

\* In good weather every finished request is charged, also when it meets a full
\* queue or the shutdown.
FinishedIsCharged ==
  \A r \in Requests : (faults = {} /\ phase[r] = "checking") ~> (charges[r] = 1)

\* Close, once begun, drains the queue and ends, however full the queue was and
\* whatever fails: a panic or a failed write costs no writer.
CloseEnds == (closer = "locking") ~> (closer \in {"closed", "exited"})

=============================================================================
