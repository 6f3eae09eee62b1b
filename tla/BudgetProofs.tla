---------------------------- MODULE BudgetProofs ----------------------------
(***************************************************************************)
(* Theorems about Budget, for every number of processes, requests and      *)
(* budgets, and every limit, estimate and cost.                            *)
(***************************************************************************)
EXTENDS Budget, FiniteSetTheorems, TLAPS

LEMMA Bounds ==
  /\ CopyTTL \in Nat \ {0} /\ RetryPause \in Nat \ {0} /\ HoldTTL \in Nat \ {0}
  /\ LoadTime \in Nat \ {0} /\ MaxRun \in Nat \ {0} /\ SpendCap \in Nat \ {0}
  /\ Limit \in [Budgets -> Nat \ {0}] /\ Estimate \in [Requests -> Nat]
  /\ Costs \in [Requests -> SUBSET Nat] /\ Applies \in [Requests -> SUBSET Budgets]
BY TimeAssumption, BudgetAssumption, RequestAssumption

(***************************************************************************)
(* The parts of a state.                                                   *)
(***************************************************************************)

\* A request is at a process, and a process that loads does so for a request.
Located ==
  \A r \in Requests :
    /\ req[r].phase # "idle" => req[r].proc \in Processes
    /\ req[r].phase = "loading" => load[req[r].proc].by = r
    /\ req[r].phase \in {"idle", "loading"} =>
         req[r].on = {} /\ req[r].todo = {} /\ req[r].age = 0

\* An alert was sent if and only if its mark is set, and then once.
Announced ==
  \A b \in Budgets, k \in Kinds : sent[b][k] = 0 \/ (sent[b][k] = 1 /\ Flagged(b, k))

IInv == TypeOK /\ Located /\ Announced

LEMMA Shapes ==
  /\ FreshRow \in RowType /\ Idle \in ReqType /\ NoCopy \in CopyType /\ NoLoad \in LoadType
  /\ NoHolds \in [Budgets -> [Ahead -> Nat]] /\ 0 \in Ahead
<1>1. FreshRow \in RowType /\ [FreshRow EXCEPT !.active = FALSE] \in RowType
  <2>1. 0 \in 0 .. SpendCap
    BY Bounds
  <2> QED  BY <2>1 DEF FreshRow, RowType
<1>2. Idle \in ReqType
  BY Bounds DEF Idle, ReqType, ReqPhases
<1>3. NoCopy \in CopyType /\ NoLoad \in LoadType
  BY <1>1, Bounds DEF NoCopy, NoLoad, CopyType, LoadType, RowsType
<1>4. NoHolds \in [Budgets -> [Ahead -> Nat]] /\ 0 \in Ahead
  BY Bounds DEF NoHolds, Ahead
<1> QED  BY <1>1, <1>2, <1>3, <1>4

(***************************************************************************)
(* A decision: the request goes on as z, and what it holds is added.       *)
(***************************************************************************)

Bound(r, rows) == Applicable(r, rows) \cap Blocking

Verdict(r, p, rows, z) ==
  /\ z \in ReqType /\ z.age = 0 /\ z.phase \in {"idle", "announcing", "running"}
  /\ z.phase = "idle" => z.todo = {} /\ z.on = {}
  /\ z.phase # "idle" => z.proc = p
  /\ z.todo \in {{}, AlertsDue(r, rows)}
  /\ z.phase = "running" => ~z.blocked
  /\ z.on # {} => /\ z.on = Bound(r, rows) /\ Estimate[r] # 0
                  /\ \A b \in z.on : ~Full(r, p, rows, b)
  /\ z.phase # "idle" /\ ~z.blocked /\ Estimate[r] # 0 => z.on = Bound(r, rows)

LEMMA Decision ==
  ASSUME NEW r \in Requests, NEW p \in Processes, NEW rows, Decides(r, p, rows)
  PROVE  \E z : /\ req' = [req EXCEPT ![r] = z] /\ Verdict(r, p, rows, z)
                /\ Reserves(r, p, z.on)
<1> DEFINE bound   == Bound(r, rows)
           blocked == \E b \in bound : Full(r, p, rows, b)
           on      == IF blocked \/ Estimate[r] = 0 THEN {} ELSE bound
           todo    == AlertsDue(r, rows)
           y       == [Idle EXCEPT !.phase = IF todo = {} THEN "running" ELSE "announcing",
                                   !.proc = p, !.todo = todo, !.blocked = blocked, !.on = on]
<1>1. /\ Reserves(r, p, on)
      /\ req' = [req EXCEPT ![r] = IF blocked /\ todo = {} THEN Idle ELSE y]
  BY DEF Decides, Bound
<1>2. bound \subseteq Budgets /\ todo \subseteq Budgets \X Kinds
  BY Bounds DEF Bound, Applicable, AlertsDue
<1>3. CASE blocked /\ todo = {}
  <2>1. on = {} /\ Idle.on = {} /\ Verdict(r, p, rows, Idle)
    BY <1>3, Shapes DEF Verdict, Idle
  <2> QED  BY <1>1, <1>3, <2>1
<1>4. CASE ~(blocked /\ todo = {})
  <2>1. /\ y.phase = (IF todo = {} THEN "running" ELSE "announcing") /\ y.proc = p
        /\ y.todo = todo /\ y.blocked = blocked /\ y.on = on /\ y.age = 0
    BY DEF Idle
  <2>2. y \in ReqType
    <3> DEFINE phase == IF todo = {} THEN "running" ELSE "announcing"
    <3>1. blocked \in BOOLEAN /\ on \subseteq Budgets /\ phase \in ReqPhases
      BY <1>2 DEF ReqPhases
    <3>2. y = [Idle EXCEPT !.phase = phase, !.proc = p, !.todo = todo, !.blocked = blocked,
                           !.on = on]
      OBVIOUS
    <3> HIDE DEF blocked, on, todo, phase, y
    <3> QED  BY <1>2, <3>1, <3>2, Shapes DEF ReqType
  <2> HIDE DEF y
  <2>3. Verdict(r, p, rows, y)
    BY <1>4, <2>1, <2>2 DEF Verdict
  <2> QED  BY <1>1, <1>4, <2>1, <2>3
<1> QED  BY <1>3, <1>4

LEMMA Reserving ==
  ASSUME TypeOK, NEW r \in Requests, NEW p \in Processes, NEW on, Reserves(r, p, on)
  PROVE  /\ hold' \in [Processes -> [Budgets -> [Ahead -> Nat]]]
         /\ \A b \in Budgets, t \in Ahead :
              hold'[p][b][t] = IF b \in on THEN hold[p][b][t] + Estimate[r] ELSE hold[p][b][t]
BY Bounds DEF TypeOK, Reserves

(***************************************************************************)
(* Every step keeps the types, the places and the alerts.                  *)
(***************************************************************************)

LEMMA AnnouncedSame ==
  ASSUME Announced, sent' = sent,
         \A b \in Budgets : /\ row[b].alerted => row'[b].alerted
                            /\ row[b].exceeded => row'[b].exceeded
  PROVE  Announced'
BY DEF Announced, Flagged

LEMMA DecidesGood ==
  ASSUME IInv, NEW r \in Requests, NEW p \in Processes, NEW rows, Decides(r, p, rows),
         UNCHANGED <<row, logged, sent>>,
         copy' \in [Processes -> CopyType], failed' \in [Processes -> 0 .. RetryPause],
         load' \in [Processes -> LoadType],
         \A o \in Requests \ {r} : req[o].phase = "loading" => load'[req[o].proc].by = o
  PROVE  IInv'
<1>1. PICK z : req' = [req EXCEPT ![r] = z] /\ Verdict(r, p, rows, z) /\ Reserves(r, p, z.on)
  BY Decision
<1>2. req' \in [Requests -> ReqType] /\ \A o \in Requests : req'[o] = IF o = r THEN z ELSE req[o]
  BY <1>1 DEF IInv, TypeOK, Verdict
<1>3. hold' \in [Processes -> [Budgets -> [Ahead -> Nat]]]
  BY <1>1, Reserving DEF IInv
<1>4. TypeOK'
  BY <1>2, <1>3 DEF IInv, TypeOK
<1>5. Located'
  BY <1>1, <1>2 DEF IInv, Located, Verdict
<1>6. Announced'
  BY AnnouncedSame DEF IInv
<1> QED  BY <1>4, <1>5, <1>6 DEF IInv

\* A request asks: it is decided on the copy, or it loads.
LEMMA AsksGood ==
  ASSUME IInv, NEW r \in Requests, Asks(r) PROVE IInv'
<1>1. ASSUME NEW p \in Processes, Arrives(r, p) PROVE IInv'
  <2>1. /\ Decides(r, p, copy[p].rows) /\ UNCHANGED <<row, logged, copy, failed, load, sent>>
    BY <1>1 DEF Arrives
  <2> QED  BY <2>1, DecidesGood DEF IInv, TypeOK, Located
<1>2. ASSUME NEW p \in Processes, LoadBegins(r, p) PROVE IInv'
  <2> DEFINE query == [by |-> r, rows |-> row, age |-> 0]
             z     == [Idle EXCEPT !.phase = "loading", !.proc = p]
  <2>1. /\ load' = [load EXCEPT ![p] = query] /\ req' = [req EXCEPT ![r] = z]
        /\ UNCHANGED <<row, logged, copy, failed, hold, sent>> /\ load[p].by = Nobody
    BY <1>2 DEF LoadBegins
  <2>2. query \in LoadType /\ z \in ReqType
    <3>1. 0 \in 0 .. LoadTime /\ row \in RowsType /\ r \in Requests \cup {Nobody}
      BY Bounds DEF IInv, TypeOK
    <3>2. query \in LoadType
      BY <3>1 DEF LoadType
    <3>3. z \in ReqType
      BY Shapes DEF ReqType, ReqPhases
    <3> QED  BY <3>2, <3>3
  <2>3. z.phase = "loading" /\ z.proc = p /\ z.on = {} /\ z.todo = {} /\ z.age = 0 /\ query.by = r
    BY DEF Idle
  <2> HIDE DEF query, z
  <2>4. TypeOK'
    BY <2>1, <2>2 DEF IInv, TypeOK
  <2>5. Located'
    BY <2>1, <2>3, RequestAssumption DEF IInv, TypeOK, Located
  <2>6. Announced'
    BY <2>1, AnnouncedSame DEF IInv
  <2> QED  BY <2>4, <2>5, <2>6 DEF IInv
<1> QED  BY <1>1, <1>2 DEF Asks

LEMMA LoadsGood ==
  ASSUME IInv, NEW r \in Requests, Loads(r) PROVE IInv'
<1> DEFINE p == req[r].proc
<1>1. req[r].phase = "loading" /\ p \in Processes /\ load[p].by = r
  BY DEF IInv, Located, Loads, LoadEnds, LoadFails
<1>2. /\ load' = [load EXCEPT ![p] = NoLoad] /\ UNCHANGED <<row, logged, sent>>
      /\ load' \in [Processes -> LoadType]
  BY Shapes DEF Loads, LoadEnds, LoadFails, IInv, TypeOK
<1>3. \A o \in Requests \ {r} : req[o].phase = "loading" => load'[req[o].proc].by = o
  BY <1>1, <1>2 DEF IInv, TypeOK, Located
<1>4. CASE LoadEnds(r)
  <2> DEFINE new == [rows |-> load[p].rows, age |-> 0]
  <2>1. /\ copy' = [copy EXCEPT ![p] = new] /\ failed' = [failed EXCEPT ![p] = RetryPause]
        /\ Decides(r, p, load[p].rows)
    BY <1>4 DEF LoadEnds
  <2>2. new \in CopyType /\ RetryPause \in 0 .. RetryPause
    BY <1>1, Bounds DEF IInv, TypeOK, LoadType, CopyType
  <2> HIDE DEF new
  <2>3. copy' \in [Processes -> CopyType] /\ failed' \in [Processes -> 0 .. RetryPause]
    BY <2>1, <2>2 DEF IInv, TypeOK
  <2> QED  BY <1>1, <1>2, <1>3, <2>1, <2>3, DecidesGood
<1>5. CASE LoadFails(r)
  <2>1. /\ UNCHANGED copy /\ failed' = [failed EXCEPT ![p] = 0]
        /\ Decides(r, p, copy[p].rows)
    BY <1>5 DEF LoadFails
  <2>2. copy' \in [Processes -> CopyType] /\ failed' \in [Processes -> 0 .. RetryPause]
    <3>1. 0 \in 0 .. RetryPause
      BY Bounds
    <3> QED  BY <2>1, <3>1 DEF IInv, TypeOK
  <2> QED  BY <1>1, <1>2, <1>3, <2>1, <2>2, DecidesGood
<1> QED  BY <1>4, <1>5 DEF Loads

\* The mark comes first: who finds it set does not send.
LEMMA MarksGood ==
  ASSUME IInv, NEW r \in Requests, NEW b \in Budgets, NEW k \in Kinds, NEW ok \in BOOLEAN,
         Marks(r, b, k, ok)
  PROVE  IInv'
<1> DEFINE z == [req[r] EXCEPT !.todo = @ \ {<<b, k>>}]
<1>1. /\ req[r].phase = "announcing" /\ req' = [req EXCEPT ![r] = z]
      /\ UNCHANGED <<logged, copy, failed, load, hold>>
  BY DEF Marks
<1>2. /\ z \in ReqType /\ z.phase = req[r].phase /\ z.proc = req[r].proc /\ z.on = req[r].on
      /\ z.age = req[r].age
  BY DEF IInv, TypeOK, ReqType
<1> HIDE DEF z
<1>3. /\ row' \in RowsType /\ sent' \in [Budgets -> [Kinds -> Nat]] /\ Announced'
  <2>1. CASE ok
    <3> DEFINE rw == WithFlag(row[b], k)
    <3>1. row' = [row EXCEPT ![b] = rw]
      BY <2>1 DEF Marks
    <3>2. /\ rw \in RowType
          /\ IF k = "threshold" THEN rw.alerted /\ rw.exceeded = row[b].exceeded
                                ELSE rw.exceeded /\ rw.alerted = row[b].alerted
      BY DEF IInv, TypeOK, RowsType, RowType, WithFlag, Kinds
    <3> HIDE DEF rw
    <3>3. row' \in RowsType
      BY <3>1, <3>2 DEF IInv, TypeOK, RowsType
    <3>4. CASE SendsFirst(b, k)
      <4>1. sent' = [sent EXCEPT ![b][k] = @ + 1]
        BY <2>1, <3>4 DEF Marks
      <4>2. sent' \in [Budgets -> [Kinds -> Nat]]
        BY <4>1 DEF IInv, TypeOK
      <4>3. ASSUME NEW c \in Budgets, NEW l \in Kinds
            PROVE  sent'[c][l] = 0 \/ (sent'[c][l] = 1 /\ Flagged(c, l)')
        <5>1. sent[c][l] = 0 \/ (sent[c][l] = 1 /\ Flagged(c, l))
          BY DEF IInv, Announced
        <5>2. CASE c = b /\ l = k
          <6>1. sent[c][l] = 0 /\ sent'[c][l] = 1
            BY <3>4, <4>1, <5>1, <5>2 DEF SendsFirst, IInv, TypeOK
          <6>2. Flagged(c, l)'
            BY <3>1, <3>2, <5>2 DEF Flagged, IInv, TypeOK, RowsType
          <6> QED  BY <6>1, <6>2
        <5>3. CASE ~(c = b /\ l = k)
          <6>1. sent'[c][l] = sent[c][l]
            BY <4>1, <5>3 DEF IInv, TypeOK
          <6>2. Flagged(c, l) => Flagged(c, l)'
            BY <3>1, <3>2, <5>3 DEF Flagged, Kinds, IInv, TypeOK, RowsType
          <6> QED  BY <5>1, <6>1, <6>2
        <5> QED  BY <5>2, <5>3
      <4> QED  BY <3>3, <4>2, <4>3 DEF Announced
    <3>5. CASE ~SendsFirst(b, k)
      <4>1. sent' = sent
        BY <2>1, <3>5 DEF Marks
      <4>2. \A c \in Budgets : /\ row[c].alerted => row'[c].alerted
                               /\ row[c].exceeded => row'[c].exceeded
        BY <3>1, <3>2 DEF Kinds, IInv, TypeOK, RowsType
      <4> QED  BY <3>3, <4>1, <4>2, AnnouncedSame DEF IInv, TypeOK
    <3> QED  BY <3>4, <3>5
  <2>2. CASE ~ok
    <3>1. UNCHANGED <<row, sent>>
      BY <2>2 DEF Marks
    <3> QED  BY <3>1, AnnouncedSame DEF IInv, TypeOK
  <2> QED  BY <2>1, <2>2
<1>4. TypeOK'
  BY <1>1, <1>2, <1>3 DEF IInv, TypeOK
<1>5. Located'
  BY <1>1, <1>2 DEF IInv, TypeOK, Located
<1> QED  BY <1>3, <1>4, <1>5 DEF IInv

LEMMA Invalidating ==
  ASSUME TypeOK, NEW p \in Processes, Invalidated(p)
  PROVE  /\ copy' \in [Processes -> CopyType] /\ copy'[p].age = CopyTTL
         /\ \A o \in Processes \ {p} : copy'[o] = copy[o]
<1> DEFINE z == [copy[p] EXCEPT !.age = CopyTTL]
<1>1. CopyTTL \in 0 .. CopyTTL /\ copy[p] \in CopyType
  BY Bounds DEF TypeOK
<1>2. z \in CopyType /\ z.age = CopyTTL
  BY <1>1 DEF CopyType
<1>3. copy' = [copy EXCEPT ![p] = z]
  BY DEF Invalidated
<1> HIDE DEF z
<1> QED  BY <1>2, <1>3 DEF TypeOK

LEMMA AnnounceEndsGood ==
  ASSUME IInv, NEW r \in Requests, AnnounceEnds(r) PROVE IInv'
<1> DEFINE p == req[r].proc
           z == IF req[r].blocked THEN Idle ELSE [req[r] EXCEPT !.phase = "running"]
<1>1. /\ req[r].phase = "announcing" /\ p \in Processes
      /\ UNCHANGED <<row, logged, failed, load, hold, sent>>
      /\ req' = [req EXCEPT ![r] = z] /\ copy' = [copy EXCEPT ![p].age = CopyTTL]
  BY DEF AnnounceEnds, Invalidated, IInv, Located
<1>2. z \in ReqType
  BY Shapes DEF IInv, TypeOK, ReqType, ReqPhases
<1>3. z = Idle \/ (z.phase = "running" /\ z.proc = p)
  BY DEF IInv, TypeOK, ReqType
<1>4. copy' \in [Processes -> CopyType]
  BY <1>1, Invalidating DEF AnnounceEnds, IInv
<1> HIDE DEF z
<1>5. TypeOK'
  BY <1>1, <1>2, <1>4 DEF IInv, TypeOK
<1>6. Located'
  BY <1>1, <1>3 DEF IInv, TypeOK, Located, Idle
<1>7. Announced'
  BY <1>1, AnnouncedSame DEF IInv
<1> QED  BY <1>5, <1>6, <1>7 DEF IInv

LEMMA CappedType ==
  ASSUME NEW n \in Nat
  PROVE  Capped(n) \in 0 .. SpendCap /\ Capped(n) <= n
BY Bounds DEF Capped

LEMMA LandsGood ==
  ASSUME IInv, NEW r \in Requests, NEW cost \in Costs[r], NEW ok \in BOOLEAN,
         Lands(r, cost, ok)
  PROVE  IInv'
<1>1. /\ UNCHANGED <<copy, failed, load, hold, sent>> /\ req' = [req EXCEPT ![r] = Idle]
      /\ cost \in Nat
  BY Bounds DEF Lands
<1>2. logged' \in [Budgets -> 0 .. SpendCap]
  <2>1. \A b \in Budgets : logged[b] + cost \in Nat /\ logged[b] \in 0 .. SpendCap
    BY <1>1, Bounds DEF IInv, TypeOK
  <2> QED  BY <2>1, CappedType DEF Lands, Insert
<1>3. /\ row' \in RowsType
      /\ \A b \in Budgets : row'[b].alerted = row[b].alerted /\ row'[b].exceeded = row[b].exceeded
  <2>1. CASE ok
    <3>1. ASSUME NEW b \in Budgets
          PROVE  /\ [row[b] EXCEPT !.spent = Capped(@ + cost)] \in RowType
                 /\ [row[b] EXCEPT !.spent = Capped(@ + cost)].alerted = row[b].alerted
                 /\ [row[b] EXCEPT !.spent = Capped(@ + cost)].exceeded = row[b].exceeded
      <4>1. row[b] \in RowType /\ row[b].spent \in Nat
        BY Bounds DEF IInv, TypeOK, RowsType, RowType
      <4>2. Capped(row[b].spent + cost) \in 0 .. SpendCap
        BY <1>1, <4>1, CappedType
      <4> QED  BY <4>1, <4>2 DEF RowType
    <3> QED  BY <2>1, <3>1 DEF Lands, AddSpend, IInv, TypeOK, RowsType
  <2>2. CASE ~ok
    BY <2>2 DEF Lands, IInv, TypeOK
  <2> QED  BY <2>1, <2>2
<1>4. TypeOK'
  BY <1>1, <1>2, <1>3, Shapes DEF IInv, TypeOK
<1>5. Located'
  BY <1>1 DEF IInv, TypeOK, Located, Idle
<1>6. Announced'
  BY <1>1, <1>3, AnnouncedSame DEF IInv
<1> QED  BY <1>4, <1>5, <1>6 DEF IInv

LEMMA BudgetStepGood ==
  ASSUME IInv, NEW b \in Budgets, BudgetStep(b) PROVE IInv'
<1>1. CASE PeriodEnds(b)
  <2>1. /\ UNCHANGED <<logged, copy, failed, load, hold, req, sent>>
        /\ row' = [row EXCEPT ![b].active = FALSE]
    BY <1>1 DEF PeriodEnds
  <2>2. /\ row' \in RowsType
        /\ \A c \in Budgets : row'[c].alerted = row[c].alerted /\ row'[c].exceeded = row[c].exceeded
    BY <2>1 DEF IInv, TypeOK, RowsType, RowType
  <2>3. Announced'
    BY <2>1, <2>2, AnnouncedSame DEF IInv
  <2> QED  BY <2>1, <2>2, <2>3 DEF IInv, TypeOK, Located
<1>2. ASSUME NEW spent \in 0 .. SpendCap, Renewed(b, spent), UNCHANGED <<failed, load, hold, req>>,
             copy' \in [Processes -> CopyType]
      PROVE  IInv'
  <2> DEFINE new == [FreshRow EXCEPT !.spent = spent]
  <2>1. /\ row' = [row EXCEPT ![b] = new] /\ logged' = [logged EXCEPT ![b] = 0]
        /\ sent' = [sent EXCEPT ![b] = [k \in Kinds |-> 0]]
    BY <1>2 DEF Renewed
  <2>2. new \in RowType
    BY <1>2, Shapes DEF RowType
  <2> HIDE DEF new
  <2>3. row' \in RowsType /\ logged' \in [Budgets -> 0 .. SpendCap] /\ sent' \in [Budgets -> [Kinds -> Nat]]
    BY <2>1, <2>2, Bounds DEF IInv, TypeOK, RowsType
  <2>4. Announced'
    <3> SUFFICES ASSUME NEW c \in Budgets, NEW k \in Kinds
                 PROVE  sent'[c][k] = 0 \/ (sent'[c][k] = 1 /\ Flagged(c, k)')
      BY DEF Announced
    <3>1. CASE c = b
      BY <2>1, <3>1 DEF IInv, TypeOK
    <3>2. CASE c # b
      <4>1. sent'[c] = sent[c] /\ row'[c] = row[c]
        BY <2>1, <3>2 DEF IInv, TypeOK, RowsType
      <4> QED  BY <4>1 DEF IInv, Announced, Flagged
    <3> QED  BY <3>1, <3>2
  <2> QED  BY <1>2, <2>3, <2>4 DEF IInv, TypeOK, Located
<1>3. CASE PeriodRenews(b)
  BY <1>2, <1>3 DEF PeriodRenews, IInv, TypeOK
<1>4. ASSUME NEW p \in Processes, AdminResets(b, p) PROVE IInv'
  <2>1. copy' \in [Processes -> CopyType]
    BY <1>4, Invalidating DEF AdminResets, IInv
  <2> QED  BY <1>2, <1>4, <2>1, Bounds DEF AdminResets
<1> QED  BY <1>1, <1>3, <1>4 DEF BudgetStep

LEMMA CrashGood ==
  ASSUME IInv, NEW p \in Processes, Crash(p) PROVE IInv'
<1>1. /\ copy' \in [Processes -> CopyType] /\ failed' \in [Processes -> 0 .. RetryPause]
      /\ load' \in [Processes -> LoadType] /\ hold' \in [Processes -> [Budgets -> [Ahead -> Nat]]]
      /\ req' \in [Requests -> ReqType] /\ UNCHANGED <<row, logged, sent>>
  BY Shapes, Bounds DEF Crash, IInv, TypeOK
<1>2. TypeOK'
  BY <1>1 DEF IInv, TypeOK
<1>3. Located'
  BY DEF Crash, IInv, TypeOK, Located, Idle
<1>4. Announced'
  BY <1>1, AnnouncedSame DEF IInv
<1> QED  BY <1>2, <1>3, <1>4 DEF IInv

LEMMA TickGood ==
  ASSUME IInv, Tick PROVE IInv'
<1>1. /\ UNCHANGED <<row, logged, sent>>
      /\ \A r \in Requests : req[r].age < MaxRun /\ \A p \in Processes : load[p].age < LoadTime
  BY DEF Tick, InTime
<1>2. copy' \in [Processes -> CopyType]
  <2>1. ASSUME NEW p \in Processes
        PROVE  [copy[p] EXCEPT !.age = Older(@, CopyTTL)] \in CopyType
    <3>1. copy[p] \in CopyType
      BY DEF IInv, TypeOK
    <3>2. Older(copy[p].age, CopyTTL) \in 0 .. CopyTTL
      BY <3>1, Bounds DEF CopyType, Older
    <3> QED  BY <3>1, <3>2 DEF CopyType
  <2> QED  BY <2>1 DEF Tick
<1>3. failed' \in [Processes -> 0 .. RetryPause]
  BY Bounds DEF Tick, Older, IInv, TypeOK
<1>4. /\ load' \in [Processes -> LoadType]
      /\ \A p \in Processes : load'[p].by = load[p].by
  <2>1. ASSUME NEW p \in Processes
        PROVE  /\ [load[p] EXCEPT !.age = @ + 1] \in LoadType
               /\ [load[p] EXCEPT !.age = @ + 1].by = load[p].by
    <3>1. load[p] \in LoadType
      BY DEF IInv, TypeOK
    <3>2. load[p].age + 1 \in 0 .. LoadTime
      <4>1. load[p].age < LoadTime
        BY DEF Tick, InTime
      <4> QED  BY <3>1, <4>1, Bounds DEF LoadType
    <3> QED  BY <3>1, <3>2 DEF LoadType
  <2> QED  BY <2>1 DEF Tick, IInv, TypeOK
<1>5. hold' \in [Processes -> [Budgets -> [Ahead -> Nat]]]
  <2>1. ASSUME NEW p \in Processes, NEW b \in Budgets PROVE Swept(hold[p][b]) \in [Ahead -> Nat]
    BY DEF IInv, TypeOK, Swept
  <2> QED  BY <2>1 DEF Tick
<1>6. /\ req' \in [Requests -> ReqType]
      /\ \A r \in Requests : /\ req'[r].phase = req[r].phase /\ req'[r].proc = req[r].proc
                             /\ req'[r].on = req[r].on /\ req'[r].todo = req[r].todo
                             /\ req[r].phase \in {"idle", "loading"} => req'[r].age = req[r].age
  <2>1. ASSUME NEW r \in Requests
        PROVE  LET z == [req[r] EXCEPT !.age = @ + 1] IN
               /\ z \in ReqType /\ z.phase = req[r].phase /\ z.proc = req[r].proc
               /\ z.on = req[r].on /\ z.todo = req[r].todo
    <3>1. req[r] \in ReqType
      BY DEF IInv, TypeOK
    <3>2. req[r].age + 1 \in 0 .. MaxRun
      BY <1>1, <3>1, Bounds DEF ReqType
    <3> QED  BY <3>1, <3>2 DEF ReqType
  <2> QED  BY <2>1 DEF Tick, IInv, TypeOK
<1>7. TypeOK'
  BY <1>1, <1>2, <1>3, <1>4, <1>5, <1>6 DEF IInv, TypeOK
<1>8. Located'
  BY <1>4, <1>6 DEF IInv, Located
<1>9. Announced'
  BY <1>1, AnnouncedSame DEF IInv
<1> QED  BY <1>7, <1>8, <1>9 DEF IInv

LEMMA InitGood ==
  ASSUME Init PROVE IInv
<1>1. /\ row \in RowsType /\ logged \in [Budgets -> 0 .. SpendCap]
      /\ copy \in [Processes -> CopyType] /\ failed \in [Processes -> 0 .. RetryPause]
      /\ load \in [Processes -> LoadType] /\ hold \in [Processes -> [Budgets -> [Ahead -> Nat]]]
      /\ req \in [Requests -> ReqType] /\ sent \in [Budgets -> [Kinds -> Nat]]
  BY Shapes, Bounds DEF Init, RowsType
<1>2. Located /\ Announced
  BY DEF Init, Located, Announced, Idle
<1> QED  BY <1>1, <1>2 DEF IInv, TypeOK

LEMMA NextGood ==
  ASSUME IInv, [Next]_vars PROVE IInv'
<1>1. ASSUME NEW r \in Requests, RequestStep(r) PROVE IInv'
  <2>1. CASE Announces(r)
    <3>1. \A ok \in Outcomes("mark_fails") : ok \in BOOLEAN
      BY DEF Outcomes
    <3> QED  BY <2>1, <3>1, MarksGood, AnnounceEndsGood DEF Announces
  <2>2. CASE Ends(r)
    <3>1. \A ok \in Outcomes("spend_fails") : ok \in BOOLEAN
      BY DEF Outcomes
    <3> QED  BY <2>2, <3>1, LandsGood DEF Ends
  <2> QED  BY <1>1, <2>1, <2>2, AsksGood, LoadsGood DEF RequestStep
<1>2. CASE UNCHANGED vars
  BY <1>2 DEF vars, IInv, TypeOK, Located, Announced, Flagged
<1> QED  BY <1>1, <1>2, TickGood, BudgetStepGood, CrashGood DEF Next

LEMMA AlwaysGood == Spec => []IInv
<1>1. Init => IInv
  BY InitGood
<1>2. IInv /\ [Next]_vars => IInv'
  BY NextGood
<1> QED  BY <1>1, <1>2, PTL DEF Spec

\* Every variable stays within its type, whatever fails and however budgets turn over.
THEOREM TypesHold == Spec => []TypeOK
<1>1. IInv => TypeOK
  BY DEF IInv
<1> QED  BY <1>1, AlwaysGood, PTL

\* An alert of a budget is sent at most once in a period, by whichever processes
\* and from copies however old (MarkThresholdAlerted, MarkExceededAlerted).
THEOREM SentOnce == Spec => []AlertedOnce
<1>1. IInv => AlertedOnce
  <2> SUFFICES ASSUME IInv, NEW b \in Budgets, NEW k \in Kinds PROVE sent[b][k] <= 1
    BY DEF AlertedOnce
  <2>1. sent[b][k] = 0 \/ sent[b][k] = 1
    BY DEF IInv, Announced
  <2> QED  BY <2>1
<1> QED  BY <1>1, AlwaysGood, PTL

(***************************************************************************)
(* Budgets that are not renewed.                                           *)
(***************************************************************************)

NoRenewals == Periodic = {} /\ "reset" \notin Faults

\* The marks in the rows, in the copies of them, and those still to be set.
InOrder ==
  /\ \A b \in Budgets : row[b].active /\ (row[b].exceeded => row[b].alerted)
  /\ \A p \in Processes, b \in Budgets :
       /\ copy[p].rows[b].alerted => row[b].alerted
       /\ load[p].rows[b].alerted => row[b].alerted
  /\ \A r \in Requests, b \in Budgets :
       <<b, "exceeded">> \in req[r].todo => <<b, "threshold">> \in req[r].todo \/ row[b].alerted

LEMMA NoTurnover ==
  ASSUME NoRenewals, \A b \in Budgets : row[b].active, NEW b \in Budgets
  PROVE  ~BudgetStep(b)
BY DEF NoRenewals, BudgetStep, PeriodEnds, PeriodRenews, AdminResets

\* The alerts that a decision finds due are in order.
LEMMA DecidesInOrder ==
  ASSUME IInv, InOrder, NEW r \in Requests, NEW p \in Processes, NEW rows,
         Decides(r, p, rows), UNCHANGED row,
         \A b \in Budgets : rows[b].alerted => row[b].alerted
  PROVE  \A o \in Requests, b \in Budgets : <<b, "exceeded">> \in req'[o].todo =>
           <<b, "threshold">> \in req'[o].todo \/ row'[b].alerted
<1>1. PICK z : req' = [req EXCEPT ![r] = z] /\ Verdict(r, p, rows, z)
  BY Decision
<1>2. \A o \in Requests : req'[o] = IF o = r THEN z ELSE req[o]
  BY <1>1 DEF IInv, TypeOK
<1>3. ASSUME NEW b \in Budgets, <<b, "exceeded">> \in z.todo
      PROVE  <<b, "threshold">> \in z.todo \/ row[b].alerted
  <2>1. z.todo = AlertsDue(r, rows)
    BY <1>1, <1>3 DEF Verdict
  <2>2. b \in Applicable(r, rows) /\ Exceeded(b, rows[b]) /\ ~rows[b].exceeded
    BY <1>3, <2>1 DEF AlertsDue, Due, ExceededDue
  <2>3. CASE rows[b].alerted
    BY <2>3
  <2>4. CASE ~rows[b].alerted
    <3>1. ThresholdDue(b, rows[b])
      BY <2>2, <2>4 DEF ThresholdDue
    <3> QED  BY <2>1, <2>2, <3>1 DEF AlertsDue, Due, Kinds
  <2> QED  BY <2>3, <2>4
<1> QED  BY <1>2, <1>3 DEF InOrder

LEMMA RequestInOrder ==
  ASSUME IInv, InOrder, "mark_fails" \notin Faults, NEW r \in Requests, RequestStep(r)
  PROVE  InOrder'
<1>1. ASSUME NEW p \in Processes, Arrives(r, p) PROVE InOrder'
  <2>1. Decides(r, p, copy[p].rows) /\ UNCHANGED <<row, copy, load>>
    BY <1>1 DEF Arrives
  <2> QED  BY <2>1, DecidesInOrder DEF InOrder
<1>2. ASSUME NEW p \in Processes, LoadBegins(r, p) PROVE InOrder'
  <2>1. /\ load' = [load EXCEPT ![p] = [by |-> r, rows |-> row, age |-> 0]]
        /\ req' = [req EXCEPT ![r] = [Idle EXCEPT !.phase = "loading", !.proc = p]]
        /\ UNCHANGED <<row, copy>>
    BY <1>2 DEF LoadBegins
  <2>2. [Idle EXCEPT !.phase = "loading", !.proc = p].todo = {}
    BY DEF Idle
  <2> QED  BY <2>1, <2>2 DEF IInv, TypeOK, InOrder
<1>3. CASE Loads(r)
  <2> DEFINE p == req[r].proc
  <2>1. p \in Processes /\ UNCHANGED row /\ load' = [load EXCEPT ![p] = NoLoad]
    BY <1>3 DEF IInv, Located, Loads, LoadEnds, LoadFails
  <2>2. \A o \in Processes, b \in Budgets : load'[o].rows[b].alerted => row[b].alerted
    BY <2>1 DEF IInv, TypeOK, InOrder, NoLoad, FreshRow
  <2>3. CASE LoadEnds(r)
    <3>1. /\ copy' = [copy EXCEPT ![p] = [rows |-> load[p].rows, age |-> 0]]
          /\ Decides(r, p, load[p].rows)
      BY <2>3 DEF LoadEnds
    <3>2. \A o \in Processes, b \in Budgets : copy'[o].rows[b].alerted => row[b].alerted
      BY <2>1, <3>1 DEF IInv, TypeOK, InOrder
    <3> QED  BY <2>1, <2>2, <3>1, <3>2, DecidesInOrder DEF InOrder
  <2>4. CASE LoadFails(r)
    <3>1. Decides(r, p, copy[p].rows) /\ UNCHANGED copy
      BY <2>4 DEF LoadFails
    <3> QED  BY <2>1, <2>2, <3>1, DecidesInOrder DEF InOrder
  <2> QED  BY <1>3, <2>3, <2>4 DEF Loads
<1>4. ASSUME NEW b \in Budgets, NEW k \in Kinds, Marks(r, b, k, TRUE) PROVE InOrder'
  <2>1. /\ req' = [req EXCEPT ![r] = [req[r] EXCEPT !.todo = @ \ {<<b, k>>}]]
        /\ row' = [row EXCEPT ![b] = WithFlag(@, k)] /\ UNCHANGED <<copy, load>>
        /\ k = "exceeded" => <<b, "threshold">> \notin req[r].todo
        /\ <<b, k>> \in req[r].todo
    BY <1>4 DEF Marks
  <2>2. \A c \in Budgets : /\ row'[c].active = row[c].active
                           /\ row'[c].alerted = (row[c].alerted \/ (c = b /\ k = "threshold"))
                           /\ row'[c].exceeded = (row[c].exceeded \/ (c = b /\ k = "exceeded"))
    <3>1. LET new == WithFlag(row[b], k) IN
          /\ new.active = row[b].active
          /\ new.alerted = (row[b].alerted \/ k = "threshold")
          /\ new.exceeded = (row[b].exceeded \/ k = "exceeded")
      BY DEF IInv, TypeOK, RowsType, RowType, WithFlag, Kinds
    <3> QED  BY <2>1, <3>1 DEF IInv, TypeOK, RowsType, RowType
  <2>3. \A o \in Requests : req'[o].todo = IF o = r THEN req[r].todo \ {<<b, k>>} ELSE req[o].todo
    BY <2>1 DEF IInv, TypeOK, ReqType
  <2>4. k = "exceeded" => row[b].alerted
    BY <2>1 DEF InOrder
  <2>5. \A c \in Budgets : row'[c].active /\ (row'[c].exceeded => row'[c].alerted)
    BY <2>2, <2>4 DEF InOrder
  <2>6. ASSUME NEW o \in Requests, NEW c \in Budgets, <<c, "exceeded">> \in req'[o].todo
        PROVE  <<c, "threshold">> \in req'[o].todo \/ row'[c].alerted
    <3>1. <<c, "exceeded">> \in req[o].todo
      BY <2>3, <2>6
    <3>2. <<c, "threshold">> \in req[o].todo \/ row[c].alerted
      BY <3>1 DEF InOrder
    <3> QED  BY <2>2, <2>3, <3>2
  <2> QED  BY <2>1, <2>2, <2>5, <2>6 DEF InOrder
<1>5. CASE AnnounceEnds(r)
  <2> DEFINE p == req[r].proc
             z == IF req[r].blocked THEN Idle ELSE [req[r] EXCEPT !.phase = "running"]
  <2>1. /\ p \in Processes /\ req[r].todo = {} /\ req' = [req EXCEPT ![r] = z]
        /\ UNCHANGED <<row, load>> /\ copy' = [copy EXCEPT ![p].age = CopyTTL]
    BY <1>5 DEF AnnounceEnds, Invalidated, IInv, Located
  <2>2. z.todo = {}
    BY <2>1 DEF IInv, TypeOK, ReqType, Idle
  <2> HIDE DEF z
  <2>3. \A o \in Processes : copy'[o].rows = copy[o].rows
    BY <2>1 DEF IInv, TypeOK, CopyType
  <2> QED  BY <2>1, <2>2, <2>3 DEF IInv, TypeOK, InOrder
<1>6. ASSUME NEW cost \in Costs[r], NEW ok \in BOOLEAN, Lands(r, cost, ok) PROVE InOrder'
  <2>1. req' = [req EXCEPT ![r] = Idle] /\ UNCHANGED <<copy, load>>
    BY <1>6 DEF Lands
  <2>2. \A b \in Budgets : /\ row'[b].active = row[b].active /\ row'[b].alerted = row[b].alerted
                           /\ row'[b].exceeded = row[b].exceeded
    <3>1. CASE ok
      BY <1>6, <3>1 DEF Lands, AddSpend, IInv, TypeOK, RowsType, RowType
    <3>2. CASE ~ok
      BY <1>6, <3>2 DEF Lands
    <3> QED  BY <3>1, <3>2
  <2> QED  BY <2>1, <2>2 DEF IInv, TypeOK, InOrder, Idle
<1>7. Outcomes("mark_fails") = {TRUE} /\ \A ok \in Outcomes("spend_fails") : ok \in BOOLEAN
  BY DEF Outcomes
<1> QED  BY <1>1, <1>2, <1>3, <1>4, <1>5, <1>6, <1>7 DEF RequestStep, Asks, Announces, Ends

LEMMA NextInOrder ==
  ASSUME NoRenewals, "mark_fails" \notin Faults, IInv, InOrder, [Next]_vars
  PROVE  InOrder'
<1>1. CASE Tick
  <2>1. UNCHANGED row
    BY <1>1 DEF Tick
  <2>2. \A p \in Processes : copy'[p].rows = copy[p].rows /\ load'[p].rows = load[p].rows
    BY <1>1 DEF Tick, IInv, TypeOK, CopyType, LoadType
  <2>3. \A r \in Requests : req'[r].todo = req[r].todo
    BY <1>1 DEF Tick, IInv, TypeOK, ReqType
  <2> QED  BY <2>1, <2>2, <2>3 DEF InOrder
<1>2. ASSUME NEW p \in Processes, Crash(p) PROVE InOrder'
  <2>1. UNCHANGED row
    BY <1>2 DEF Crash
  <2>2. \A o \in Processes : /\ copy'[o] = copy[o] \/ copy'[o] = NoCopy
                             /\ load'[o] = load[o] \/ load'[o] = NoLoad
    BY <1>2 DEF Crash, IInv, TypeOK
  <2>3. \A b \in Budgets : ~NoCopy.rows[b].alerted /\ ~NoLoad.rows[b].alerted
    BY DEF NoCopy, NoLoad, FreshRow
  <2>4. \A r \in Requests : req'[r].todo = req[r].todo \/ req'[r].todo = {}
    BY <1>2 DEF Crash, Idle
  <2> QED  BY <2>1, <2>2, <2>3, <2>4 DEF InOrder
<1>3. CASE UNCHANGED vars
  BY <1>3 DEF vars, InOrder
<1>4. \A b \in Budgets : ~BudgetStep(b)
  BY NoTurnover DEF InOrder
<1> QED  BY <1>1, <1>2, <1>3, <1>4, RequestInOrder DEF Next

\* As long as a budget is not renewed and its marks are written, it is announced
\* as exceeded only after its threshold was, also when one request jumps over
\* both, and whichever copies the processes decide on (Announce, B-107).
THEOREM ThresholdComesFirst ==
  ASSUME NoRenewals, "mark_fails" \notin Faults
  PROVE  Spec => []ThresholdFirst
<1>1. Init => InOrder
  <2>1. /\ \A b \in Budgets : /\ FreshRow.active /\ ~FreshRow.exceeded
                              /\ ~NoCopy.rows[b].alerted /\ ~NoLoad.rows[b].alerted
        /\ Idle.todo = {}
    BY DEF NoCopy, NoLoad, FreshRow, Idle
  <2> QED  BY <2>1 DEF Init, InOrder
<1>2. IInv /\ InOrder /\ [Next]_vars => InOrder'
  BY NextInOrder
<1>3. InOrder => ThresholdFirst
  BY DEF InOrder, ThresholdFirst
<1> QED  BY <1>1, <1>2, <1>3, AlwaysGood, PTL DEF Spec

(***************************************************************************)
(* What requests reserve.                                                  *)
(***************************************************************************)

LEMMA AmountType ==
  ASSUME NEW R \in SUBSET Requests
  PROVE  IsFiniteSet(Units(R)) /\ Amount(R) \in Nat /\ (R = {} => Amount(R) = 0)
<1> DEFINE unitsOf == [r \in R |-> {r} \X (1 .. Estimate[r])]
           parts   == {{r} \X (1 .. Estimate[r]) : r \in R}
<1>1. IsFiniteSet(R)
  BY RequestAssumption, FS_Subset
<1>2. unitsOf \in Surjection(R, parts)
  BY DEF Surjection
<1>3. \A T \in parts : IsFiniteSet(T)
  <2>1. ASSUME NEW r \in R PROVE IsFiniteSet({r} \X (1 .. Estimate[r]))
    <3>1. Estimate[r] \in Int
      BY Bounds
    <3>2. IsFiniteSet({r})
      BY FS_Singleton
    <3>3. IsFiniteSet(1 .. Estimate[r])
      BY <3>1, FS_Interval
    <3> QED  BY <3>2, <3>3, FS_Product
  <2> QED  BY <2>1
<1> HIDE DEF unitsOf, parts
<1>4. IsFiniteSet(parts)
  BY <1>1, <1>2, FS_Surjection
<1>5. IsFiniteSet(UNION parts)
  BY <1>3, <1>4, FS_UNION
<1>6. IsFiniteSet(Units(R))
  BY <1>5 DEF parts, Units
<1>7. R = {} => Units(R) = {}
  BY DEF Units
<1> QED  BY <1>6, <1>7, FS_CardinalityType, FS_EmptySet DEF Amount

LEMMA AmountPart ==
  ASSUME NEW Q \in SUBSET Requests, NEW R \in SUBSET Q
  PROVE  Amount(R) <= Amount(Q)
<1>1. Units(R) \subseteq Units(Q)
  BY DEF Units
<1> QED  BY <1>1, AmountType, FS_Subset DEF Amount

LEMMA AmountMore ==
  ASSUME NEW R \in SUBSET Requests, NEW r \in Requests \ R
  PROVE  Amount(R \cup {r}) = Amount(R) + Estimate[r]
<1> DEFINE new == {r} \X (1 .. Estimate[r])
<1>1. Units(R \cup {r}) = Units(R) \cup new
  BY DEF Units
<1>2. Units(R) \cap new = {}
  BY DEF Units
<1>3. IsFiniteSet(new) /\ Cardinality(new) = Estimate[r]
  <2>1. Estimate[r] \in Nat
    BY Bounds
  <2>2. IsFiniteSet({r}) /\ Cardinality({r}) = 1
    BY FS_Singleton
  <2>3. IsFiniteSet(1 .. Estimate[r]) /\ Cardinality(1 .. Estimate[r]) = Estimate[r]
    BY <2>1, FS_Interval
  <2>4. IsFiniteSet(new) /\ Cardinality(new) = 1 * Estimate[r]
    BY <2>2, <2>3, FS_Product
  <2> QED  BY <2>1, <2>4
<1> HIDE DEF new
<1>4. /\ IsFiniteSet(Units(R)) /\ Amount(R) \in Nat
  BY AmountType
<1>5. Cardinality(Units(R) \cup new) = Cardinality(Units(R)) + Cardinality(new) - Cardinality(Units(R) \cap new)
  BY <1>3, <1>4, FS_Union
<1>6. Cardinality(Units(R) \cap new) = 0 /\ Cardinality(new) \in Nat
  BY <1>2, <1>3, FS_EmptySet, Bounds
<1>7. Amount(R \cup {r}) = Cardinality(Units(R) \cup new)
  BY <1>1 DEF Amount
<1>8. Amount(R) = Cardinality(Units(R))
  BY DEF Amount
<1>9. Estimate[r] \in Nat
  BY Bounds
<1> QED  BY <1>3, <1>4, <1>5, <1>6, <1>7, <1>8, <1>9

(***************************************************************************)
(* One process that can load the rows of budgets that are not renewed, and *)
(* requests that cost no more than they reserve.  A hold outlives the      *)
(* request, the query that does not see its spend yet and the copy which   *)
(* that query becomes.                                                     *)
(***************************************************************************)

Prudent ==
  /\ NoRenewals /\ "load_fails" \notin Faults
  /\ \E p \in Processes : Processes = {p}
  /\ \A r \in Requests : \A cost \in Costs[r] : cost <= Estimate[r]
  /\ HoldTTL >= CopyTTL + LoadTime + MaxRun

\* What the process knows applies to every request, and was measured.
Known(p) ==
  /\ failed[p] = RetryPause
  /\ \A b \in Budgets : /\ row[b].active
                        /\ load[p].by # Nobody => load[p].rows[b].active
                        /\ Fresh(p) => copy[p].rows[b].active

Measured ==
  \A r \in Requests :
    /\ req[r].phase = "running" => ~req[r].blocked
    /\ req[r].phase \in {"announcing", "running"} /\ ~req[r].blocked /\ Estimate[r] # 0 =>
         req[r].on = Applies[r] \cap Blocking

Used(b) == row[b].spent + Reserved(b)

\* The requests that have run for at most y ticks.
Young(b, y) == {r \in Running(b) : req[r].age <= y}

\* How far ahead the holds of requests reach that run now, or did at the time
\* of a query begun n ticks ago.
Reach(n) == HoldTTL - 1 - MaxRun - n

Falling(h) == \A s, t \in Ahead : s <= t => h[t] <= h[s]

\* The holds outlast the requests, and the limit stands.
Paced(p, b) ==
  /\ Falling(hold[p][b])
  /\ \A y \in 0 .. MaxRun : Amount(Young(b, y)) <= hold[p][b][HoldTTL - 1 - y]
  /\ Used(b) <= Limit[b]

\* What the rows read by a query lack, the holds cover.
Covered(p, b) ==
  /\ load[p].by # Nobody =>
       Used(b) <= load[p].rows[b].spent + hold[p][b][Reach(load[p].age)]
  /\ Fresh(p) =>
       Used(b) <= copy[p].rows[b].spent + hold[p][b][Reach(LoadTime + copy[p].age)]

OInv ==
  /\ IInv /\ Measured
  /\ \A p \in Processes : Known(p) /\ \A b \in Blocking : Paced(p, b) /\ Covered(p, b)

\* What was covered before a step is covered after it.
Backed(p, b) ==
  \A n \in Nat, t \in Ahead :
    Used(b) <= n + hold[p][b][t] => Used(b)' <= n + hold'[p][b][t]

LEMMA Reaches ==
  ASSUME Prudent
  PROVE  /\ \A n \in 0 .. LoadTime : Reach(n) \in Ahead /\ Reach(LoadTime) <= Reach(n)
         /\ \A n \in 0 .. (CopyTTL - 1) : Reach(LoadTime + n) \in Ahead
         /\ \A y \in 0 .. MaxRun : HoldTTL - 1 - y \in Ahead
         /\ Reach(0) = HoldTTL - 1 - MaxRun
BY Bounds DEF Prudent, Reach, Ahead

LEMMA Numbers ==
  ASSUME TypeOK, NEW p \in Processes, NEW b \in Blocking
  PROVE  /\ b \in Budgets /\ hold[p][b] \in [Ahead -> Nat] /\ row[b].spent \in Nat
         /\ Running(b) \in SUBSET Requests /\ Reserved(b) \in Nat /\ Used(b) \in Nat
         /\ \A y : Young(b, y) \in SUBSET Requests /\ Amount(Young(b, y)) \in Nat
         /\ Limit[b] \in Nat /\ load[p].rows[b].spent \in Nat /\ copy[p].rows[b].spent \in Nat
<1>1. b \in Budgets /\ hold[p][b] \in [Ahead -> Nat] /\ Limit[b] \in Nat
  BY BudgetAssumption DEF TypeOK
<1>2. /\ row[b].spent \in Nat /\ load[p].rows[b].spent \in Nat /\ copy[p].rows[b].spent \in Nat
  BY <1>1, Bounds DEF TypeOK, RowsType, RowType, LoadType, CopyType
<1>3. Running(b) \in SUBSET Requests /\ \A y : Young(b, y) \in SUBSET Requests
  BY DEF Running, Young
<1>4. Reserved(b) \in Nat /\ \A y : Amount(Young(b, y)) \in Nat
  BY <1>3, AmountType DEF Reserved
<1> QED  BY <1>1, <1>2, <1>3, <1>4 DEF Used

LEMMA NumbersAfter ==
  ASSUME TypeOK', NEW b \in Blocking
  PROVE  /\ row'[b].spent \in Nat /\ Running(b)' \in SUBSET Requests /\ Reserved(b)' \in Nat
         /\ Used(b)' \in Nat /\ Used(b)' = row'[b].spent + Reserved(b)'
<1>1. row'[b].spent \in Nat
  BY BudgetAssumption, Bounds DEF TypeOK, RowsType, RowType
<1>2. Running(b)' \in SUBSET Requests
  BY DEF Running
<1>3. Amount(Running(b)') \in Nat
  BY <1>2, AmountType
<1> QED  BY <1>1, <1>2, <1>3 DEF Used, Reserved

\* Requests end, and their spend is no more than they reserved.
LEMMA Shrinks ==
  ASSUME Prudent, OInv, IInv', NEW p \in Processes, NEW b \in Blocking,
         hold'[p][b] = hold[p][b],
         Running(b)' \subseteq Running(b), \A r \in Running(b)' : req'[r].age = req[r].age,
         Used(b)' <= Used(b)
  PROVE  Paced(p, b)' /\ Backed(p, b)
<1>1. /\ hold[p][b] \in [Ahead -> Nat] /\ Used(b) \in Nat /\ Limit[b] \in Nat
      /\ \A y : Young(b, y) \in SUBSET Requests /\ Amount(Young(b, y)) \in Nat
      /\ Paced(p, b)
  BY Numbers DEF OInv, IInv
<1>2. Used(b)' \in Nat
  BY NumbersAfter DEF IInv
<1>3. ASSUME NEW y \in 0 .. MaxRun PROVE Amount(Young(b, y)') <= hold'[p][b][HoldTTL - 1 - y]
  <2>1. Young(b, y)' \subseteq Young(b, y)
    BY DEF Young
  <2>2. Young(b, y)' \in SUBSET Requests
    BY <1>1, <2>1
  <2>3. Amount(Young(b, y)') <= Amount(Young(b, y)) /\ Amount(Young(b, y)') \in Nat
    BY <1>1, <2>1, <2>2, AmountPart, AmountType
  <2>4. Amount(Young(b, y)) <= hold[p][b][HoldTTL - 1 - y]
    BY <1>1 DEF Paced
  <2>5. hold[p][b][HoldTTL - 1 - y] \in Nat
    BY <1>1, Reaches
  <2> QED  BY <1>1, <2>3, <2>4, <2>5
<1> QED  BY <1>1, <1>2, <1>3 DEF Paced, Backed

\* A request is let through: it fits beside what is used, and its hold covers it.
LEMMA DecidesPaced ==
  ASSUME Prudent, OInv, IInv', NEW p \in Processes, NEW b \in Blocking,
         NEW r \in Requests, req[r].phase \in {"idle", "loading"}, UNCHANGED row,
         NEW rows \in RowsType, Decides(r, p, rows),
         NEW t \in Ahead, Used(b) <= rows[b].spent + hold[p][b][t]
  PROVE  Paced(p, b)' /\ Backed(p, b)
<1>1. PICK z : req' = [req EXCEPT ![r] = z] /\ Verdict(r, p, rows, z) /\ Reserves(r, p, z.on)
  BY Decision
<1>2. \A o \in Requests : req'[o] = IF o = r THEN z ELSE req[o]
  BY <1>1 DEF OInv, IInv, TypeOK
<1>3. r \notin Running(b) /\ z.age = 0
  BY <1>1 DEF OInv, IInv, Located, Running, Verdict
<1>4. \A s \in Ahead :
        hold'[p][b][s] = IF b \in z.on THEN hold[p][b][s] + Estimate[r] ELSE hold[p][b][s]
  BY <1>1, Reserving, BudgetAssumption DEF OInv, IInv
<1>5. /\ b \in Budgets /\ hold[p][b] \in [Ahead -> Nat] /\ Used(b) \in Nat /\ Limit[b] \in Nat
      /\ Running(b) \in SUBSET Requests /\ Reserved(b) \in Nat /\ row[b].spent \in Nat
      /\ \A y : Young(b, y) \in SUBSET Requests /\ Amount(Young(b, y)) \in Nat
      /\ Paced(p, b)
  BY Numbers DEF OInv, IInv
<1>6. CASE b \in z.on
  <2>1. Estimate[r] \in Nat \ {0} /\ rows[b].spent + HeldAmount(p, b) + Estimate[r] <= Limit[b]
    <3>1. Estimate[r] \in Nat \ {0} /\ ~Full(r, p, rows, b)
      BY <1>1, <1>6, Bounds DEF Verdict
    <3>2. rows[b].spent \in Nat /\ HeldAmount(p, b) \in Nat
      BY <1>5, Shapes, Bounds DEF RowsType, RowType, HeldAmount
    <3> QED  BY <1>5, <3>1, <3>2 DEF Full
  <2>2. Running(b)' = Running(b) \cup {r}
    BY <1>2, <1>6 DEF Running
  <2>3. Reserved(b)' = Reserved(b) + Estimate[r]
    BY <1>3, <1>5, <2>2, AmountMore DEF Reserved
  <2>4. Used(b)' = Used(b) + Estimate[r]
    BY <1>5, <2>1, <2>3 DEF Used
  <2>5. Used(b)' <= Limit[b]
    <3>1. hold[p][b][t] <= hold[p][b][0] /\ hold[p][b][t] \in Nat /\ hold[p][b][0] \in Nat
      <4>1. 0 \in Ahead /\ 0 <= t
        BY Shapes DEF Ahead
      <4> QED  BY <1>5, <4>1 DEF Paced, Falling
    <3>2. rows[b].spent \in Nat
      BY <1>5, Bounds DEF RowsType, RowType
    <3> QED  BY <1>5, <2>1, <2>4, <3>1, <3>2 DEF HeldAmount
  <2>6. Falling(hold[p][b])'
    BY <1>4, <1>5, <1>6, <2>1 DEF Paced, Falling
  <2>7. ASSUME NEW y \in 0 .. MaxRun PROVE Amount(Young(b, y)') <= hold'[p][b][HoldTTL - 1 - y]
    <3>1. Young(b, y)' = Young(b, y) \cup {r}
      BY <1>2, <1>3, <2>2 DEF Young, Running
    <3>2. r \notin Young(b, y)
      BY <1>3 DEF Young
    <3>3. Amount(Young(b, y)') = Amount(Young(b, y)) + Estimate[r]
      BY <1>5, <3>1, <3>2, AmountMore
    <3>4. Amount(Young(b, y)) <= hold[p][b][HoldTTL - 1 - y] /\ hold[p][b][HoldTTL - 1 - y] \in Nat
      BY <1>5, Reaches DEF Paced
    <3>5. hold'[p][b][HoldTTL - 1 - y] = hold[p][b][HoldTTL - 1 - y] + Estimate[r]
      BY <1>4, <1>6, Reaches
    <3> QED  BY <1>5, <2>1, <3>3, <3>4, <3>5
  <2>8. Backed(p, b)
    <3> SUFFICES ASSUME NEW n \in Nat, NEW s \in Ahead, Used(b) <= n + hold[p][b][s]
                 PROVE  Used(b)' <= n + hold'[p][b][s]
      BY DEF Backed
    <3>1. hold'[p][b][s] = hold[p][b][s] + Estimate[r] /\ hold[p][b][s] \in Nat
      BY <1>4, <1>5, <1>6
    <3> QED  BY <1>5, <2>1, <2>4, <3>1
  <2> QED  BY <2>5, <2>6, <2>7, <2>8 DEF Paced
<1>7. CASE b \notin z.on
  <2>1. Running(b)' = Running(b)
    BY <1>2, <1>3, <1>7 DEF Running
  <2>2. \A o \in Running(b)' : req'[o].age = req[o].age
    BY <1>2, <1>3, <1>5, <2>1
  <2>3. hold'[p][b] = hold[p][b]
    <3>1. hold'[p][b] \in [Ahead -> Nat]
      BY <1>5 DEF IInv, TypeOK
    <3> QED  BY <1>4, <1>5, <1>7, <3>1
  <2>4. Used(b)' <= Used(b)
    BY <1>5, <2>1 DEF Used, Reserved
  <2> QED  BY <2>1, <2>2, <2>3, <2>4, Shrinks
<1> QED  BY <1>6, <1>7

LEMMA DecidesMeasured ==
  ASSUME OInv, NEW r \in Requests, NEW p \in Processes, NEW rows, Decides(r, p, rows),
         \A b \in Budgets : rows[b].active
  PROVE  Measured'
<1>1. PICK z : req' = [req EXCEPT ![r] = z] /\ Verdict(r, p, rows, z)
  BY Decision
<1>2. \A o \in Requests : req'[o] = IF o = r THEN z ELSE req[o]
  BY <1>1 DEF OInv, IInv, TypeOK
<1>3. Bound(r, rows) = Applies[r] \cap Blocking
  BY Bounds DEF Bound, Applicable
<1> QED  BY <1>1, <1>2, <1>3 DEF OInv, Measured, Verdict

LEMMA OneProcess ==
  ASSUME Prudent, NEW p \in Processes PROVE Processes = {p}
BY DEF Prudent

\* A request asks, on a copy that covers what is used, or loads one that will.
LEMMA AsksCovered ==
  ASSUME Prudent, OInv, IInv', NEW r \in Requests, Asks(r) PROVE OInv'
<1>1. ASSUME NEW p \in Processes, Arrives(r, p) PROVE OInv'
  <2>1. /\ req[r].phase = "idle" /\ Decides(r, p, copy[p].rows)
        /\ UNCHANGED <<row, copy, failed, load>> /\ Fresh(p)
    <3>1. ~RecentlyFailed(p)
      BY Bounds DEF OInv, Known, RecentlyFailed
    <3> QED  BY <1>1, <3>1 DEF Arrives
  <2>2. copy[p].rows \in RowsType /\ copy[p].age \in 0 .. (CopyTTL - 1)
    BY <2>1, Bounds DEF OInv, IInv, TypeOK, CopyType, Fresh
  <2>3. \A b \in Budgets : copy[p].rows[b].active
    BY <2>1 DEF OInv, Known
  <2>4. Measured'
    BY <2>1, <2>3, DecidesMeasured
  <2>5. Known(p)'
    BY <2>1 DEF OInv, Known, Fresh
  <2>6. ASSUME NEW b \in Blocking PROVE Paced(p, b)' /\ Covered(p, b)'
    <3>1. Reach(LoadTime + copy[p].age) \in Ahead
      BY <2>2, Reaches
    <3>2. Used(b) <= copy[p].rows[b].spent + hold[p][b][Reach(LoadTime + copy[p].age)]
      BY <2>1 DEF OInv, Covered
    <3>3. Paced(p, b)' /\ Backed(p, b)
      BY <2>1, <2>2, <3>1, <3>2, DecidesPaced
    <3>4. /\ copy[p].rows[b].spent \in Nat /\ load[p].rows[b].spent \in Nat
          /\ load[p].age \in 0 .. LoadTime
      BY Numbers DEF OInv, IInv, TypeOK, LoadType
    <3>5. Covered(p, b)
      BY DEF OInv
    <3> QED  BY <2>1, <3>1, <3>3, <3>4, <3>5, Reaches DEF Covered, Backed, Fresh
  <2> QED  BY <2>4, <2>5, <2>6, OneProcess DEF OInv
<1>2. ASSUME NEW p \in Processes, LoadBegins(r, p) PROVE OInv'
  <2> DEFINE z == [Idle EXCEPT !.phase = "loading", !.proc = p]
  <2>1. /\ req[r].phase = "idle" /\ req' = [req EXCEPT ![r] = z]
        /\ load' = [load EXCEPT ![p] = [by |-> r, rows |-> row, age |-> 0]]
        /\ UNCHANGED <<row, copy, failed, hold>>
    BY <1>2 DEF LoadBegins
  <2>2. z.phase = "loading" /\ z.on = {}
    BY DEF Idle
  <2> HIDE DEF z
  <2>3. load'[p].by = r /\ load'[p].rows = row /\ load'[p].age = 0
    BY <2>1 DEF OInv, IInv, TypeOK
  <2>4. Measured'
    BY <2>1, <2>2 DEF OInv, IInv, TypeOK, Measured
  <2>5. Known(p)'
    BY <2>1, <2>3 DEF OInv, Known, Fresh
  <2>6. ASSUME NEW b \in Blocking PROVE Paced(p, b)' /\ Covered(p, b)'
    <3>1. /\ hold[p][b] \in [Ahead -> Nat] /\ Used(b) \in Nat
          /\ Running(b) \in SUBSET Requests /\ Reserved(b) \in Nat /\ row[b].spent \in Nat
          /\ copy[p].rows[b].spent \in Nat /\ copy[p].age \in 0 .. CopyTTL
      BY Numbers DEF OInv, IInv, TypeOK, CopyType
    <3>2. r \notin Running(b)
      BY <2>1 DEF OInv, IInv, Located, Running
    <3>3. Running(b)' = Running(b)
      BY <2>1, <2>2, <3>2 DEF OInv, IInv, TypeOK, Running
    <3>4. \A o \in Running(b)' : req'[o].age = req[o].age
      BY <2>1, <3>1, <3>2, <3>3 DEF OInv, IInv, TypeOK
    <3>5. Used(b)' = Used(b)
      BY <2>1, <3>3 DEF Used, Reserved
    <3>6. Paced(p, b)' /\ Backed(p, b)
      BY <2>1, <3>1, <3>3, <3>4, <3>5, Shrinks
    <3>7. Used(b) <= row[b].spent + hold[p][b][Reach(0)]
      <4>1. Young(b, MaxRun) = Running(b)
        BY Bounds DEF OInv, IInv, TypeOK, ReqType, Young, Running
      <4>2. Reserved(b) <= hold[p][b][HoldTTL - 1 - MaxRun]
        BY <4>1, Bounds DEF OInv, Paced, Reserved
      <4>3. hold[p][b][Reach(0)] \in Nat /\ Reach(0) = HoldTTL - 1 - MaxRun
        BY <3>1, Reaches, Bounds
      <4> QED  BY <3>1, <4>2, <4>3 DEF Used
    <3>8. Fresh(p)' => Used(b)' <= copy'[p].rows[b].spent + hold'[p][b][Reach(LoadTime + copy'[p].age)]
      BY <2>1, <3>5 DEF OInv, Covered, Fresh
    <3> QED  BY <2>1, <2>3, <3>5, <3>6, <3>7, <3>8 DEF Covered
  <2> QED  BY <2>4, <2>5, <2>6, OneProcess DEF OInv
<1> QED  BY <1>1, <1>2 DEF Asks

LEMMA LoadsCovered ==
  ASSUME Prudent, OInv, IInv', NEW r \in Requests, Loads(r) PROVE OInv'
<1>1. LoadEnds(r)
  BY DEF Prudent, Loads, LoadFails
<1>p. PICK p \in Processes : p = req[r].proc
  BY <1>1 DEF OInv, IInv, Located, LoadEnds
<1>q. PICK query \in LoadType : query = load[p]
  BY DEF OInv, IInv, TypeOK
<1>2. req[r].phase = "loading" /\ query.by = r /\ r # Nobody
  BY <1>1, <1>p, <1>q, RequestAssumption DEF OInv, IInv, Located, LoadEnds
<1>3. /\ copy' = [copy EXCEPT ![p] = [rows |-> query.rows, age |-> 0]]
      /\ failed' = [failed EXCEPT ![p] = RetryPause] /\ load' = [load EXCEPT ![p] = NoLoad]
      /\ Decides(r, p, query.rows) /\ UNCHANGED row
  BY <1>1, <1>p, <1>q DEF LoadEnds
<1>4. query.rows \in RowsType /\ query.age \in 0 .. LoadTime
  BY DEF LoadType
<1>5. /\ copy'[p].rows = query.rows /\ copy'[p].age = 0 /\ failed'[p] = RetryPause
      /\ load'[p].by = Nobody
  BY <1>2, <1>3 DEF OInv, IInv, TypeOK, NoLoad
<1>6. \A b \in Budgets : query.rows[b].active
  BY <1>2, <1>q DEF OInv, Known
<1>7. Measured'
  BY <1>2, <1>3, <1>6, DecidesMeasured
<1>8. Known(p)'
  BY <1>2, <1>3, <1>5, <1>6 DEF OInv, Known
<1>9. ASSUME NEW b \in Blocking PROVE Paced(p, b)' /\ Covered(p, b)'
  <2>1. Reach(query.age) \in Ahead /\ Reach(LoadTime) \in Ahead /\ Reach(LoadTime) <= Reach(query.age)
    BY <1>4, Bounds, Reaches
  <2>2. Used(b) <= query.rows[b].spent + hold[p][b][Reach(query.age)]
    BY <1>2, <1>q DEF OInv, Covered
  <2>3. Paced(p, b)' /\ Backed(p, b)
    BY <1>2, <1>3, <1>4, <2>1, <2>2, DecidesPaced
  <2>4. query.rows[b].spent \in Nat
    BY <1>q, Numbers DEF OInv, IInv
  <2>5. Used(b)' <= query.rows[b].spent + hold'[p][b][Reach(query.age)]
    BY <2>1, <2>2, <2>3, <2>4 DEF Backed
  <2>6. hold'[p][b][Reach(query.age)] <= hold'[p][b][Reach(LoadTime)]
    BY <2>1, <2>3 DEF Paced, Falling
  <2>7. /\ hold'[p][b] \in [Ahead -> Nat] /\ Used(b)' \in Nat
    BY <1>2, NumbersAfter, BudgetAssumption DEF IInv, TypeOK
  <2>8. Used(b)' <= copy'[p].rows[b].spent + hold'[p][b][Reach(LoadTime + copy'[p].age)]
    <3>1. Reach(LoadTime + 0) = Reach(LoadTime)
      BY Bounds DEF Reach
    <3> QED  BY <1>5, <2>1, <2>4, <2>5, <2>6, <2>7, <3>1
  <2> QED  BY <1>5, <2>3, <2>8 DEF Covered
<1> QED  BY <1>2, <1>7, <1>8, <1>9, OneProcess DEF OInv

\* A step that ends requests, or drops the copy.
LEMMA ShrinksCovered ==
  ASSUME Prudent, OInv, IInv', NEW p \in Processes, UNCHANGED <<failed, load, hold>>,
         copy' = copy \/ copy'[p].age = CopyTTL, Measured',
         \A b \in Budgets : row'[b].active = row[b].active,
         \A b \in Blocking : /\ Running(b)' \subseteq Running(b) /\ Used(b)' <= Used(b)
                             /\ \A o \in Running(b)' : req'[o].age = req[o].age
  PROVE  OInv'
<1>1. Fresh(p)' => Fresh(p) /\ copy' = copy
  BY Bounds DEF Fresh
<1>2. Known(p)'
  BY <1>1 DEF OInv, Known
<1>3. ASSUME NEW b \in Blocking PROVE Paced(p, b)' /\ Covered(p, b)'
  <2>1. Paced(p, b)' /\ Backed(p, b)
    BY Shrinks
  <2>2. /\ copy[p].rows[b].spent \in Nat /\ load[p].rows[b].spent \in Nat
        /\ load[p].age \in 0 .. LoadTime /\ copy[p].age \in 0 .. CopyTTL
    BY Numbers DEF OInv, IInv, TypeOK, LoadType, CopyType
  <2>3. Covered(p, b)
    BY DEF OInv
  <2>4. Fresh(p) => Reach(LoadTime + copy[p].age) \in Ahead
    <3>1. Fresh(p) => copy[p].age \in 0 .. (CopyTTL - 1)
      BY <2>2, Bounds DEF Fresh
    <3> QED  BY <3>1, Reaches
  <2>5. load'[p].by # Nobody => Used(b)' <= load'[p].rows[b].spent + hold'[p][b][Reach(load'[p].age)]
    BY <2>1, <2>2, <2>3, Reaches DEF Covered, Backed
  <2>6. Fresh(p)' => Used(b)' <= copy'[p].rows[b].spent + hold'[p][b][Reach(LoadTime + copy'[p].age)]
    BY <1>1, <2>1, <2>2, <2>3, <2>4 DEF Covered, Backed
  <2> QED  BY <2>1, <2>5, <2>6 DEF Covered
<1> QED  BY <1>2, <1>3, OneProcess DEF OInv

\* Alerts change the marks of the rows, and in the end drop the copy.
LEMMA AnnouncesCovered ==
  ASSUME Prudent, OInv, IInv', NEW r \in Requests, Announces(r) PROVE OInv'
<1>0. PICK p \in Processes : Processes = {p}
  BY DEF Prudent
<1>1. ASSUME NEW b \in Budgets, NEW k \in Kinds, NEW ok \in BOOLEAN, Marks(r, b, k, ok)
      PROVE  OInv'
  <2> DEFINE z == [req[r] EXCEPT !.todo = @ \ {<<b, k>>}]
  <2>1. /\ req' = [req EXCEPT ![r] = z] /\ UNCHANGED <<copy, failed, load, hold>>
        /\ row' = [row EXCEPT ![b] = WithFlag(@, k)] \/ UNCHANGED row
    BY <1>1 DEF Marks
  <2>2. /\ z.phase = req[r].phase /\ z.blocked = req[r].blocked /\ z.on = req[r].on
        /\ z.age = req[r].age
    BY DEF OInv, IInv, TypeOK, ReqType
  <2> HIDE DEF z
  <2>3. \A o \in Requests : /\ req'[o].phase = req[o].phase /\ req'[o].blocked = req[o].blocked
                            /\ req'[o].on = req[o].on /\ req'[o].age = req[o].age
    BY <2>1, <2>2 DEF OInv, IInv, TypeOK
  <2>4. \A c \in Budgets : row'[c].active = row[c].active /\ row'[c].spent = row[c].spent
    BY <2>1 DEF OInv, IInv, TypeOK, RowsType, RowType, WithFlag
  <2>5. Measured'
    BY <2>3 DEF OInv, Measured
  <2>6. ASSUME NEW c \in Blocking
        PROVE  /\ Running(c)' = Running(c) /\ Used(c)' <= Used(c)
               /\ \A o \in Running(c)' : req'[o].age = req[o].age
    <3>1. Running(c)' = Running(c)
      BY <2>3 DEF Running
    <3>2. Used(c)' = Used(c) /\ Used(c) \in Nat
      BY <2>4, <3>1, Numbers, BudgetAssumption DEF OInv, IInv, Used, Reserved
    <3> QED  BY <2>3, <3>1, <3>2 DEF Running
  <2> QED  BY <2>1, <2>4, <2>5, <2>6, ShrinksCovered
<1>2. CASE AnnounceEnds(r)
  <2> DEFINE z == IF req[r].blocked THEN Idle ELSE [req[r] EXCEPT !.phase = "running"]
  <2>1. /\ req[r].phase = "announcing" /\ req' = [req EXCEPT ![r] = z]
        /\ UNCHANGED <<row, failed, load, hold>> /\ copy'[p].age = CopyTTL
    <3>1. req[r].proc = p /\ Invalidated(p)
      BY <1>0, <1>2 DEF AnnounceEnds, OInv, IInv, Located
    <3>2. copy'[p].age = CopyTTL
      BY <3>1, Invalidating DEF OInv, IInv
    <3> QED  BY <1>2, <3>2 DEF AnnounceEnds
  <2>2. \/ z.phase = "idle" /\ z.on = {}
        \/ /\ z.phase = "running" /\ ~req[r].blocked /\ z.blocked = req[r].blocked
           /\ z.on = req[r].on /\ z.age = req[r].age
    <3>1. CASE req[r].blocked
      BY <3>1 DEF Idle
    <3>2. CASE ~req[r].blocked
      <4>1. req[r] \in ReqType
        BY DEF OInv, IInv, TypeOK
      <4> QED  BY <3>2, <4>1 DEF ReqType
    <3> QED  BY <3>1, <3>2
  <2> HIDE DEF z
  <2>3. \A o \in Requests : req'[o] = IF o = r THEN z ELSE req[o]
    BY <2>1 DEF OInv, IInv, TypeOK
  <2>4. Measured'
    BY <2>1, <2>2, <2>3 DEF OInv, Measured
  <2>5. ASSUME NEW c \in Blocking
        PROVE  /\ Running(c)' \subseteq Running(c) /\ Used(c)' <= Used(c)
               /\ \A o \in Running(c)' : req'[o].age = req[o].age
    <3>1. /\ Running(c)' \subseteq Running(c)
          /\ \A o \in Running(c)' : req'[o].age = req[o].age
      BY <2>2, <2>3 DEF Running
    <3>2. /\ Running(c) \in SUBSET Requests /\ Reserved(c) \in Nat /\ row[c].spent \in Nat
      BY Numbers DEF OInv, IInv
    <3>3. Reserved(c)' <= Reserved(c) /\ Reserved(c)' \in Nat
      BY <3>1, <3>2, AmountPart, NumbersAfter DEF Reserved, IInv
    <3> QED  BY <2>1, <3>1, <3>2, <3>3 DEF Used
  <2> QED  BY <2>1, <2>4, <2>5, ShrinksCovered
<1>3. Outcomes("mark_fails") \subseteq BOOLEAN
  BY DEF Outcomes
<1> QED  BY <1>1, <1>2, <1>3 DEF Announces

\* What a request spends, it had reserved.
LEMMA EndsCovered ==
  ASSUME Prudent, OInv, IInv', NEW r \in Requests, Ends(r) PROVE OInv'
<1>0. PICK p \in Processes : Processes = {p}
  BY DEF Prudent
<1>1. PICK cost \in Costs[r], ok \in BOOLEAN : Lands(r, cost, ok)
  BY DEF Ends, Outcomes
<1>2. /\ req[r].phase = "running" /\ req' = [req EXCEPT ![r] = Idle]
      /\ UNCHANGED <<copy, failed, load, hold>>
      /\ cost \in Nat /\ cost <= Estimate[r] /\ Estimate[r] \in Nat
  BY <1>1, Bounds DEF Lands, Prudent
<1>3. \A o \in Requests : req'[o] = IF o = r THEN Idle ELSE req[o]
  BY <1>2 DEF OInv, IInv, TypeOK
<1>4. Measured'
  BY <1>3 DEF OInv, Measured, Idle
<1>5. /\ \A b \in Budgets : row'[b].active = row[b].active
      /\ \A b \in Budgets :
           \/ row'[b].spent = row[b].spent
           \/ b \in Applies[r] /\ row'[b].spent = Capped(row[b].spent + cost)
  <2>1. CASE ok
    <3>1. ASSUME NEW b \in Budgets
          PROVE  LET new == [row[b] EXCEPT !.spent = Capped(@ + cost)] IN
                 new.active = row[b].active /\ new.spent = Capped(row[b].spent + cost)
      <4>1. row[b] \in RowType
        BY DEF OInv, IInv, TypeOK, RowsType
      <4> QED  BY <4>1 DEF RowType
    <3>2. \A b \in Budgets :
            row'[b] = IF b \in Applies[r] /\ row[b].active
                      THEN [row[b] EXCEPT !.spent = Capped(@ + cost)] ELSE row[b]
      BY <1>1, <2>1 DEF Lands, AddSpend
    <3> QED  BY <3>1, <3>2
  <2>2. CASE ~ok
    BY <1>1, <2>2 DEF Lands
  <2> QED  BY <2>1, <2>2
<1>6. ASSUME NEW b \in Blocking
      PROVE  /\ Running(b)' \subseteq Running(b) /\ Used(b)' <= Used(b)
             /\ \A o \in Running(b)' : req'[o].age = req[o].age
  <2>1. Running(b)' = Running(b) \ {r}
    BY <1>3 DEF Running, Idle
  <2>2. \A o \in Running(b)' : req'[o].age = req[o].age
    BY <1>3, <2>1 DEF Running
  <2>3. /\ b \in Budgets /\ row[b].spent \in Nat /\ Running(b) \in SUBSET Requests
        /\ Reserved(b) \in Nat
    BY Numbers DEF OInv, IInv
  <2>4. /\ Reserved(b)' <= Reserved(b) /\ Reserved(b)' \in Nat /\ row'[b].spent \in Nat
    BY <2>1, <2>3, AmountPart, NumbersAfter DEF Reserved, IInv
  <2>5. CASE row'[b].spent = row[b].spent
    BY <2>1, <2>2, <2>3, <2>4, <2>5 DEF Used
  <2>6. CASE b \in Applies[r] /\ row'[b].spent = Capped(row[b].spent + cost)
    <3>1. row'[b].spent <= row[b].spent + cost
      BY <1>2, <2>3, <2>6, CappedType
    <3>2. CASE Estimate[r] = 0
      BY <1>2, <2>1, <2>2, <2>3, <2>4, <3>1, <3>2 DEF Used
    <3>3. CASE Estimate[r] # 0
      <4>1. r \in Running(b)
        BY <1>2, <2>3, <2>6, <3>3 DEF OInv, Measured, Running
      <4>2. Running(b)' \in SUBSET Requests /\ r \notin Running(b)'
            /\ Running(b) = Running(b)' \cup {r}
        BY <2>1, <2>3, <4>1
      <4>3. Amount(Running(b)' \cup {r}) = Amount(Running(b)') + Estimate[r]
        BY <4>2, AmountMore
      <4>4. Reserved(b) = Reserved(b)' + Estimate[r]
        BY <4>2, <4>3 DEF Reserved
      <4> QED  BY <1>2, <2>1, <2>2, <2>3, <2>4, <3>1, <4>4 DEF Used
    <3> QED  BY <3>2, <3>3
  <2> QED  BY <1>5, <2>3, <2>5, <2>6
<1> QED  BY <1>2, <1>4, <1>5, <1>6, ShrinksCovered

\* What ran at the process is gone, and so is all it knew.
LEMMA CrashCovered ==
  ASSUME Prudent, OInv, IInv', NEW p \in Processes, Crash(p) PROVE OInv'
<1>1. /\ copy'[p] = NoCopy /\ failed'[p] = RetryPause /\ load'[p] = NoLoad /\ hold'[p] = NoHolds
      /\ UNCHANGED row
  BY DEF Crash, OInv, IInv, TypeOK
<1>2. \A r \in Requests : req'[r].phase \in {"idle", "loading"} /\ req'[r].on = {}
  <2>1. ASSUME NEW r \in Requests PROVE req'[r].phase = "idle" /\ req'[r].on = {}
    <3>1. CASE req[r].proc = p
      BY <3>1 DEF Crash, Idle
    <3>2. CASE req[r].proc # p
      <4>1. req'[r] = req[r]
        BY <3>2 DEF Crash
      <4>2. req[r].proc \notin Processes
        BY <3>2, OneProcess
      <4> QED  BY <4>1, <4>2 DEF OInv, IInv, Located
    <3> QED  BY <3>1, <3>2
  <2> QED  BY <2>1
<1>3. ~Fresh(p)' /\ load'[p].by = Nobody
  BY <1>1, Bounds DEF Fresh, NoCopy, NoLoad
<1>4. Measured' /\ Known(p)'
  <2>1. Measured'
    BY <1>2 DEF Measured
  <2>2. Known(p)'
    BY <1>1, <1>3 DEF OInv, Known
  <2> QED  BY <2>1, <2>2
<1>5. ASSUME NEW b \in Blocking PROVE Paced(p, b)' /\ Covered(p, b)'
  <2>1. b \in Budgets /\ \A t \in Ahead : hold'[p][b][t] = 0
    BY <1>1, BudgetAssumption DEF NoHolds
  <2>2. Running(b)' = {} /\ \A y : Young(b, y)' = {}
    BY <1>2 DEF Running, Young
  <2>3. Amount({}) = 0
    BY AmountType
  <2>4. Used(b)' <= Limit[b]
    <3>1. /\ row[b].spent \in Nat /\ Reserved(b) \in Nat /\ Used(b) = row[b].spent + Reserved(b)
          /\ Used(b) <= Limit[b] /\ Limit[b] \in Nat
      BY Numbers DEF OInv, IInv, Paced, Used
    <3>2. Used(b)' = row[b].spent
      BY <1>1, <2>2, <2>3, <3>1 DEF Used, Reserved
    <3> QED  BY <3>1, <3>2
  <2>5. ASSUME NEW y \in 0 .. MaxRun PROVE Amount(Young(b, y)') <= hold'[p][b][HoldTTL - 1 - y]
    <3>1. hold'[p][b][HoldTTL - 1 - y] = 0
      BY <2>1, Reaches
    <3> QED  BY <2>2, <2>3, <3>1
  <2>6. Falling(hold[p][b])'
    BY <2>1 DEF Falling
  <2> QED  BY <1>3, <2>4, <2>5, <2>6 DEF Paced, Covered
<1> QED  BY <1>4, <1>5, OneProcess DEF OInv

\* Time takes a tick off the holds, and gives one to the requests, to the query
\* and to the copy.
LEMMA TickCovered ==
  ASSUME Prudent, OInv, IInv', Tick PROVE OInv'
<1>0. PICK p \in Processes : Processes = {p}
  BY DEF Prudent
<1>1. /\ UNCHANGED row
      /\ \A b \in Budgets, t \in Ahead :
           hold'[p][b][t] = IF t + 1 \in Ahead THEN hold[p][b][t + 1] ELSE 0
  BY DEF Tick, Swept
<1>2. /\ copy'[p].rows = copy[p].rows /\ copy'[p].age = Older(copy[p].age, CopyTTL)
      /\ copy[p].age \in 0 .. CopyTTL
  BY DEF Tick, OInv, IInv, TypeOK, CopyType
<1>3. /\ load'[p].by = load[p].by /\ load'[p].rows = load[p].rows
      /\ load[p].age \in 0 .. LoadTime /\ load[p].age < LoadTime
      /\ load[p].by # Nobody => load'[p].age = load[p].age + 1
  BY DEF Tick, InTime, OInv, IInv, TypeOK, LoadType
<1>4. \A r \in Requests :
        /\ req'[r].phase = req[r].phase /\ req'[r].blocked = req[r].blocked
        /\ req'[r].on = req[r].on
        /\ req[r].phase \in {"announcing", "running"} => req'[r].age = req[r].age + 1
  BY DEF Tick, OInv, IInv, TypeOK, ReqType
<1>5. Fresh(p)' => Fresh(p) /\ copy'[p].age = copy[p].age + 1 /\ copy[p].age + 1 \in 0 .. (CopyTTL - 1)
  BY <1>2, Bounds DEF Fresh, Older
<1>6. Measured'
  BY <1>4 DEF OInv, Measured
<1>7. Known(p)'
  <2>1. failed'[p] = RetryPause
    BY Bounds DEF Tick, Older, OInv, Known
  <2> QED  BY <1>1, <1>2, <1>3, <1>5, <2>1 DEF OInv, Known
<1>8. ASSUME NEW b \in Blocking PROVE Paced(p, b)' /\ Covered(p, b)'
  <2>1. /\ b \in Budgets /\ hold[p][b] \in [Ahead -> Nat] /\ Paced(p, b) /\ Covered(p, b)
        /\ hold'[p][b] \in [Ahead -> Nat]
    BY Numbers, BudgetAssumption DEF OInv, IInv, TypeOK
  <2>2. Running(b)' = Running(b)
    BY <1>4 DEF Running
  <2>3. Used(b)' = Used(b)
    BY <1>1, <2>2 DEF Used, Reserved
  <2>4. ASSUME NEW r \in Running(b) PROVE req'[r].age = req[r].age + 1 /\ req[r].age \in Nat
    <3>1. r \in Requests /\ req[r].on # {} /\ req[r] \in ReqType
      BY DEF Running, OInv, IInv, TypeOK
    <3>2. req[r].phase \in {"announcing", "running"}
      BY <3>1 DEF OInv, IInv, Located, ReqType, ReqPhases
    <3> QED  BY <1>4, <3>1, <3>2, Bounds DEF ReqType
  <2>5. ASSUME NEW y \in 0 .. MaxRun PROVE Amount(Young(b, y)') <= hold'[p][b][HoldTTL - 1 - y]
    <3>1. HoldTTL - 1 - y \in Ahead /\ hold'[p][b][HoldTTL - 1 - y] \in Nat
      BY <2>1, Reaches
    <3>2. CASE y = 0
      <4>1. Young(b, y)' = {}
        BY <2>2, <2>4, <3>2 DEF Young
      <4>2. Amount({}) = 0
        BY AmountType
      <4> QED  BY <3>1, <4>1, <4>2
    <3>3. CASE y # 0
      <4>1. y - 1 \in 0 .. MaxRun /\ (HoldTTL - 1 - y) + 1 = HoldTTL - 1 - (y - 1)
        BY <3>3, Bounds
      <4>2. Young(b, y)' = Young(b, y - 1)
        BY <2>2, <2>4, <4>1 DEF Young
      <4>3. hold'[p][b][HoldTTL - 1 - y] = hold[p][b][HoldTTL - 1 - (y - 1)]
        BY <1>1, <2>1, <3>1, <4>1, Reaches
      <4>4. Amount(Young(b, y - 1)) <= hold[p][b][HoldTTL - 1 - (y - 1)]
        BY <2>1, <4>1 DEF Paced
      <4> QED  BY <4>2, <4>3, <4>4
    <3> QED  BY <3>2, <3>3
  <2>6. Falling(hold'[p][b])
    <3> SUFFICES ASSUME NEW s \in Ahead, NEW t \in Ahead, s <= t
                 PROVE  hold'[p][b][t] <= hold'[p][b][s]
      BY DEF Falling
    <3>1. CASE t + 1 \in Ahead
      <4>1. s + 1 \in Ahead /\ s + 1 <= t + 1
        BY <3>1, Bounds DEF Ahead
      <4> QED  BY <1>1, <2>1, <3>1, <4>1 DEF Paced, Falling
    <3>2. CASE t + 1 \notin Ahead
      <4>1. hold'[p][b][t] = 0 /\ hold'[p][b][s] \in Nat
        BY <1>1, <2>1, <3>2
      <4> QED  BY <4>1
    <3> QED  BY <3>1, <3>2
  <2>7. load'[p].by # Nobody => Used(b)' <= load'[p].rows[b].spent + hold'[p][b][Reach(load'[p].age)]
    <3> HAVE load'[p].by # Nobody
    <3>1. load[p].age + 1 \in 0 .. LoadTime /\ Reach(load[p].age) = Reach(load[p].age + 1) + 1
      BY <1>3, Bounds DEF Reach
    <3>2. hold'[p][b][Reach(load[p].age + 1)] = hold[p][b][Reach(load[p].age)]
      BY <1>1, <1>3, <2>1, <3>1, Reaches
    <3> QED  BY <1>3, <2>1, <2>3, <3>2 DEF Covered
  <2>8. Fresh(p)' => Used(b)' <= copy'[p].rows[b].spent + hold'[p][b][Reach(LoadTime + copy'[p].age)]
    <3> HAVE Fresh(p)'
    <3>1. /\ copy[p].age \in 0 .. (CopyTTL - 1)
          /\ Reach(LoadTime + copy[p].age) = Reach(LoadTime + (copy[p].age + 1)) + 1
      BY <1>2, <1>5, Bounds DEF Reach
    <3>2. /\ Reach(LoadTime + copy[p].age) \in Ahead
          /\ Reach(LoadTime + (copy[p].age + 1)) \in Ahead
      BY <1>5, <3>1, Reaches
    <3>3. hold'[p][b][Reach(LoadTime + (copy[p].age + 1))] = hold[p][b][Reach(LoadTime + copy[p].age)]
      BY <1>1, <2>1, <3>1, <3>2
    <3> QED  BY <1>2, <1>5, <2>1, <2>3, <3>3 DEF Covered
  <2>9. Used(b)' <= Limit[b]
    BY <2>1, <2>3 DEF Paced
  <2> QED  BY <2>5, <2>6, <2>7, <2>8, <2>9 DEF Paced, Covered
<1> QED  BY <1>0, <1>6, <1>7, <1>8 DEF OInv

LEMMA InitCovered ==
  ASSUME Prudent, Init PROVE OInv
<1>1. IInv
  BY InitGood
<1>2. ASSUME NEW p \in Processes
      PROVE  /\ Known(p) /\ ~Fresh(p) /\ load[p].by = Nobody
             /\ \A b \in Budgets, t \in Ahead : hold[p][b][t] = 0
  BY Bounds DEF Init, Known, Fresh, NoCopy, NoLoad, NoHolds, FreshRow
<1>3. /\ Measured
      /\ \A b \in Blocking : Running(b) = {} /\ \A y : Young(b, y) = {}
  BY DEF Init, Idle, Measured, Running, Young
<1>4. ASSUME NEW p \in Processes, NEW b \in Blocking PROVE Paced(p, b) /\ Covered(p, b)
  <2>1. b \in Budgets /\ Limit[b] \in Nat /\ row[b].spent = 0
    BY Bounds, BudgetAssumption DEF Init, FreshRow
  <2>2. Amount({}) = 0
    BY AmountType
  <2>3. Used(b) = 0
    BY <1>3, <2>1, <2>2 DEF Used, Reserved
  <2>4. ASSUME NEW y \in 0 .. MaxRun PROVE Amount(Young(b, y)) <= hold[p][b][HoldTTL - 1 - y]
    <3>1. hold[p][b][HoldTTL - 1 - y] = 0
      BY <1>2, <2>1, Reaches
    <3> QED  BY <1>3, <2>2, <3>1
  <2>5. Falling(hold[p][b])
    BY <1>2, <2>1 DEF Falling
  <2> QED  BY <1>2, <2>1, <2>3, <2>4, <2>5 DEF Paced, Covered
<1> QED  BY <1>1, <1>2, <1>3, <1>4 DEF OInv

LEMMA NextCovered ==
  ASSUME Prudent, OInv, IInv', [Next]_vars PROVE OInv'
<1>1. CASE UNCHANGED vars
  BY <1>1 DEF vars, OInv, Measured, Known, Paced, Covered, Fresh, Used, Reserved, Running, Young
<1>2. \A b \in Budgets : ~BudgetStep(b)
  <2>1. \A b \in Budgets : row[b].active
    BY DEF Prudent, OInv, Known
  <2> QED  BY <2>1, NoTurnover DEF Prudent
<1> QED
  BY <1>1, <1>2, AsksCovered, LoadsCovered, AnnouncesCovered, EndsCovered, CrashCovered, TickCovered
     DEF Next, RequestStep

\* A blocking budget is never overshot by the requests of one process, however
\* many run at once and whenever their spend lands, as long as none costs more
\* than it reserved and a hold outlives the request that took it, the query that
\* missed its spend and the copy this query became (Tahan; V-AB-16, B-189).
THEOREM LimitStands ==
  ASSUME Prudent PROVE Spec => []NoOvershoot
<1>1. Init => OInv
  BY InitCovered
<1>2. OInv /\ IInv' /\ [Next]_vars => OInv'
  BY NextCovered
<1>3. OInv => NoOvershoot
  <2> SUFFICES ASSUME OInv, NEW b \in Blocking PROVE row[b].spent + Reserved(b) <= Limit[b]
    BY DEF NoOvershoot
  <2>1. PICK p \in Processes : Paced(p, b)
    BY DEF Prudent, OInv
  <2> QED  BY <2>1 DEF Paced, Used
<1> QED  BY <1>1, <1>2, <1>3, AlwaysGood, PTL DEF Spec

=============================================================================
