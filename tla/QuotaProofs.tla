----------------------------- MODULE QuotaProofs -----------------------------
(***************************************************************************)
(* Theorems about Quota, for every number of requests, tiers, gates and    *)
(* kinds of window, and every limit.                                       *)
(***************************************************************************)
EXTENDS Quota, Induction, FiniteSetTheorems

(***************************************************************************)
(* Windows.                                                                *)
(***************************************************************************)

LEMMA Bounds ==
  /\ MaxTime \in Nat \ {0} /\ TokenWidth \in Nat \ {0} /\ MaxFaults \in Nat
  /\ Width \in [Kinds -> Nat \ {0}] /\ Limit \in [Scopes -> [Kinds -> Nat]]
BY BoundsAssumption, LimitAssumption

LEMMA Scoping ==
  /\ Key \in Scopes /\ GateSet \subseteq Scopes /\ Models \subseteq Scopes /\ Model \in Models
  /\ Key \notin GateSet \cup Models /\ GateSet \cap Models = {}
  /\ \A i \in DOMAIN Gates : Gates[i] \in GateSet
  /\ \A i \in 1 .. Len(Tiers) : Tiers[i] \in Models
<1>1. /\ Key \in Scopes /\ GateSet \subseteq Scopes /\ Models \subseteq Scopes
      /\ Model \in Models
  BY DEF Scopes, Models
<1>2. Key \notin GateSet \cup Models /\ GateSet \cap Models = {}
  BY ScopesAssumption
<1>3. \A i \in DOMAIN Gates : Gates[i] \in GateSet
  BY DEF GateSet
<1>4. \A i \in 1 .. Len(Tiers) : Tiers[i] \in Models
  BY ListsAssumption
<1> QED  BY <1>1, <1>2, <1>3, <1>4

LEMMA Divided ==
  ASSUME NEW t \in 0 .. MaxTime, NEW width \in Nat \ {0}
  PROVE  t \div width \in Buckets
<1>1. \A n \in Nat : n \div width \in 0 .. n
  OBVIOUS
<1> QED  BY <1>1, Bounds DEF Buckets

\* The windows of a scope belong to it, one of each kind.
LEMMA WindowsOfType ==
  ASSUME NEW s \in Scopes, NEW t \in 0 .. MaxTime
  PROVE  /\ WindowsOf(s, t) \subseteq Windows
         /\ \A w \in WindowsOf(s, t) : w[1] = s
         /\ \A k \in Kinds, b, c \in Buckets :
              <<s, k, b>> \in WindowsOf(s, t) /\ <<s, k, c>> \in WindowsOf(s, t) => b = c
<1>1. ASSUME NEW k \in Kinds PROVE t \div Width[k] \in Buckets
  BY Divided, Bounds
<1> QED  BY <1>1 DEF WindowsOf, WindowOf, Windows

\* A window that now falls in is not over.
LEMMA WindowsLast ==
  ASSUME NEW s \in Scopes, NEW t \in 0 .. MaxTime, NEW w \in WindowsOf(s, t)
  PROVE  ResetAt(w) \in Nat /\ ResetAt(w) > t
<1>1. PICK k \in Kinds : w = <<s, k, t \div Width[k]>>
  BY DEF WindowsOf, WindowOf
<1>2. Width[k] \in Nat \ {0} /\ t \in Nat
  BY Bounds
<1>3. \A n \in Nat, d \in Nat \ {0} : (n \div d + 1) * d \in Nat /\ (n \div d + 1) * d > n
  OBVIOUS
<1>4. ResetAt(w) = (t \div Width[k] + 1) * Width[k]
  BY <1>1 DEF ResetAt
<1> QED  BY <1>2, <1>3, <1>4

LEMMA WindowParts ==
  ASSUME NEW w \in Windows
  PROVE  w[1] \in Scopes /\ w[2] \in Kinds /\ w[3] \in Buckets /\ w = <<w[1], w[2], w[3]>>
BY DEF Windows

(***************************************************************************)
(* The counters.                                                           *)
(***************************************************************************)

Earned ==
  \A w \in Windows :
    /\ IsFiniteSet(Held(w))
    /\ w \notin missed /\ Live(w) => count[w] = Cardinality(Held(w))

Counters ==
  /\ now \in 0 .. MaxTime
  /\ count \in [Windows -> Nat] /\ \A w \in Windows : count[w] <= LimitOf(w)
  /\ held \in [Requests -> [Windows -> Nat]]
  /\ outages \in 0 .. MaxFaults /\ missed \subseteq Windows
  /\ Earned

\* The counts of one window go up or down by one with what one request holds.
LEMMA HeldMore ==
  ASSUME NEW w, NEW r \in Requests, IsFiniteSet(Held(w)), held[r][w] \in Nat,
         \A o \in Requests : held'[o][w] = IF o = r THEN held[o][w] + 1 ELSE held[o][w]
  PROVE  IsFiniteSet(Held(w)') /\ Cardinality(Held(w)') = Cardinality(Held(w)) + 1
<1> DEFINE new == <<r, held[r][w] + 1>>
<1>1. new \notin Held(w)
  BY DEF Held
<1>2. Held(w)' = Held(w) \cup {new}
  <2>1. \A x : x \in Held(w)' <=> \E o \in Requests : x \in {o} \X (1 .. held'[o][w])
    BY DEF Held
  <2>2. \A x : x \in Held(w) <=> \E o \in Requests : x \in {o} \X (1 .. held[o][w])
    BY DEF Held
  <2>3. 1 .. (held[r][w] + 1) = (1 .. held[r][w]) \cup {held[r][w] + 1}
    OBVIOUS
  <2> QED  BY <2>1, <2>2, <2>3
<1> QED  BY <1>1, <1>2, FS_AddElement

LEMMA HeldLess ==
  ASSUME NEW w, NEW r \in Requests, IsFiniteSet(Held(w)), held[r][w] \in Nat \ {0},
         \A o \in Requests : held'[o][w] = IF o = r THEN held[o][w] - 1 ELSE held[o][w]
  PROVE  /\ IsFiniteSet(Held(w)') /\ Cardinality(Held(w)') = Cardinality(Held(w)) - 1
         /\ Cardinality(Held(w)) \in Nat \ {0}
<1> DEFINE old == <<r, held[r][w]>>
<1>1. old \in Held(w)
  BY DEF Held
<1>2. Held(w)' = Held(w) \ {old}
  <2>1. \A x : x \in Held(w)' <=> \E o \in Requests : x \in {o} \X (1 .. held'[o][w])
    BY DEF Held
  <2>2. \A x : x \in Held(w) <=> \E o \in Requests : x \in {o} \X (1 .. held[o][w])
    BY DEF Held
  <2>3. 1 .. (held[r][w] - 1) = (1 .. held[r][w]) \ {held[r][w]}
    OBVIOUS
  <2> QED  BY <2>1, <2>2, <2>3
<1>3. Cardinality(Held(w)) \in Nat /\ Cardinality(Held(w)) # 0
  BY <1>1, FS_EmptySet, FS_CardinalityType
<1>4. IsFiniteSet(Held(w) \ {old}) /\ Cardinality(Held(w) \ {old}) = Cardinality(Held(w)) - 1
  <2> HIDE DEF old
  <2> QED  BY <1>1, FS_RemoveElement, Zenon
<1> QED  BY <1>2, <1>3, <1>4

LEMMA HeldSame ==
  ASSUME NEW w, \A o \in Requests : held'[o][w] = held[o][w]
  PROVE  Held(w)' = Held(w)
BY DEF Held

\* A call that fails leaves the counters alone; the windows are noted.
LEMMA DownCounts ==
  ASSUME Counters, NEW W, W \subseteq Windows, Down(W), UNCHANGED <<now, count, held>>
  PROVE  Counters' /\ missed' = missed \cup W /\ outages' > outages
<1>1. Cardinality({r \in Requests : req[r].gone}) \in Nat
  BY FiniteAssumption, FS_Subset, FS_CardinalityType
<1>2. outages' \in 0 .. MaxFaults /\ outages' > outages
  BY <1>1, Bounds DEF Down, Fault, Counters
<1>3. missed' = missed \cup W
  BY DEF Down
<1>4. \A w \in Windows : Held(w)' = Held(w)
  BY DEF Held
<1>5. Earned'
  BY <1>3, <1>4 DEF Counters, Earned, Live
<1> QED  BY <1>2, <1>3, <1>5 DEF Counters

LEMMA IdleCounts ==
  ASSUME Counters, UNCHANGED <<now, counters>>
  PROVE  Counters'
<1>1. \A w \in Windows : Held(w)' = Held(w)
  BY DEF Held, counters
<1> QED  BY <1>1 DEF Counters, Earned, Live, counters

\* What an enforcing call does with the counts that a request holds.
CountsUp(r, W) ==
  /\ \A o \in Requests \ {r} : held'[o] = held[o]
  /\ missed \subseteq missed' /\ outages <= outages'
  /\ \A w \in Windows \ W : held'[r][w] = held[r][w]
  /\ \A w \in W : held'[r][w] \in {held[r][w], held[r][w] + 1}
  /\ ~req[r].gone => \A w \in W \ missed' : held'[r][w] = held[r][w] + 1

LEMMA PassCounts ==
  ASSUME Counters, NEW r \in Requests, NEW s \in Scopes, Passes(r, s), UNCHANGED now
  PROVE  Counters' /\ CountsUp(r, WindowsOf(s, now))
<1> DEFINE W == WindowsOf(s, now)
<1>1. W \subseteq Windows
  BY WindowsOfType DEF Counters
<1> HIDE DEF W
<1>2. CASE Works(r) /\ Fits(W) /\ count' = Counted(W) /\ Hold(r, W) /\ Up
  <2>1. /\ \A w \in Windows : count'[w] = IF w \in W THEN count[w] + 1 ELSE count[w]
        /\ count' \in [Windows -> Nat]
    BY <1>2 DEF Counted, Counters
  <2>2. /\ held' \in [Requests -> [Windows -> Nat]]
        /\ \A o \in Requests \ {r} : held'[o] = held[o]
        /\ \A w \in Windows : held'[r][w] = IF w \in W THEN held[r][w] + 1 ELSE held[r][w]
    BY <1>2 DEF Hold, Counters
  <2>3. missed' = missed /\ outages' = outages /\ outages \in Nat
    BY <1>2 DEF Up, Counters
  <2>4. \A w \in Windows : count'[w] <= LimitOf(w)
    BY <1>2, <2>1 DEF Fits, Counters
  <2>5. ASSUME NEW w \in Windows
        PROVE  /\ IsFiniteSet(Held(w)')
               /\ w \notin missed' /\ Live(w)' => count'[w] = Cardinality(Held(w)')
    <3>1. IsFiniteSet(Held(w)) /\ held[r][w] \in Nat
      BY DEF Counters, Earned
    <3>2. w \notin missed' /\ Live(w)' => count[w] = Cardinality(Held(w))
      BY <2>3 DEF Counters, Earned, Live
    <3>3. CASE w \in W
      <4>1. \A o \in Requests : held'[o][w] = IF o = r THEN held[o][w] + 1 ELSE held[o][w]
        BY <2>2, <3>3
      <4>2. IsFiniteSet(Held(w)') /\ Cardinality(Held(w)') = Cardinality(Held(w)) + 1
        BY <3>1, <4>1, HeldMore
      <4> QED  BY <2>1, <3>2, <3>3, <4>2
    <3>4. CASE w \notin W
      <4>1. \A o \in Requests : held'[o][w] = held[o][w]
        BY <2>2, <3>4
      <4> QED  BY <2>1, <3>1, <3>2, <3>4, <4>1, HeldSame
    <3> QED  BY <3>3, <3>4
  <2>6. Counters'
    BY <2>1, <2>2, <2>3, <2>4, <2>5 DEF Counters, Earned, LimitOf
  <2> QED  BY <1>1, <2>2, <2>3, <2>6 DEF CountsUp, W
<1>3. CASE Works(r) /\ Down(W) /\ UNCHANGED <<count, held>>
  <2>1. Counters' /\ missed' = missed \cup W /\ outages' > outages
    BY <1>1, <1>3, DownCounts
  <2>2. outages \in Nat /\ outages' \in Nat
    BY <2>1 DEF Counters
  <2> QED  BY <1>3, <2>1, <2>2 DEF CountsUp, W
<1>4. CASE ~Works(r) /\ UNCHANGED counters
  <2>1. Counters' /\ outages \in Nat
    BY <1>4, IdleCounts DEF Counters
  <2> QED  BY <1>4, <2>1 DEF CountsUp, counters, Works
<1> QED  BY <1>2, <1>3, <1>4 DEF Passes, W

\* What a refund does with them, if it is one of something counted.
CountsDown(r, W) ==
  /\ \A o \in Requests \ {r} : held'[o] = held[o]
  /\ missed \subseteq missed' /\ outages <= outages'
  /\ \A w \in Windows \ W : held'[r][w] = held[r][w]
  /\ ~req[r].gone => \A w \in W \ missed' : held'[r][w] = held[r][w] - 1

LEMMA RefundCounts ==
  ASSUME Counters, NEW r \in Requests, NEW s \in Scopes, NEW t \in 0 .. MaxTime,
         Refund(r, s, t), UNCHANGED now,
         ~req[r].gone => \A w \in WindowsOf(s, t) \ missed : held[r][w] > 0
  PROVE  Counters' /\ CountsDown(r, WindowsOf(s, t))
<1> DEFINE W == WindowsOf(s, t)
<1>1. W \subseteq Windows
  BY WindowsOfType
<1>0. ~req[r].gone => \A w \in W \ missed : held[r][w] > 0
  OBVIOUS
<1> HIDE DEF W
<1>2. CASE Works(r) /\ count' = Refunded(W) /\ Release(r, W) /\ Up
  <2>1. /\ \A w \in Windows :
             count'[w] = IF w \in W /\ count[w] > 0 THEN count[w] - 1 ELSE count[w]
        /\ count' \in [Windows -> Nat]
    BY <1>2 DEF Refunded, Counters
  <2>2. /\ held' \in [Requests -> [Windows -> Nat]]
        /\ \A o \in Requests \ {r} : held'[o] = held[o]
        /\ \A w \in Windows :
             held'[r][w] = IF w \in W /\ held[r][w] > 0 THEN held[r][w] - 1 ELSE held[r][w]
    BY <1>2 DEF Release, Counters
  <2>3. missed' = missed /\ outages' = outages /\ outages \in Nat
    BY <1>2 DEF Up, Counters
  <2>4. \A w \in Windows : count'[w] <= LimitOf(w)
    <3>1. \A w \in Windows : LimitOf(w) \in Nat
      BY WindowParts, Bounds DEF LimitOf
    <3> QED  BY <2>1, <3>1 DEF Counters
  <2>5. ASSUME NEW w \in Windows
        PROVE  /\ IsFiniteSet(Held(w)')
               /\ w \notin missed' /\ Live(w)' => count'[w] = Cardinality(Held(w)')
    <3>1. IsFiniteSet(Held(w)) /\ held[r][w] \in Nat
      BY DEF Counters, Earned
    <3>2. w \notin missed' /\ Live(w)' => count[w] = Cardinality(Held(w))
      BY <2>3 DEF Counters, Earned, Live
    <3>3. CASE w \in W /\ held[r][w] > 0
      <4>1. \A o \in Requests : held'[o][w] = IF o = r THEN held[o][w] - 1 ELSE held[o][w]
        BY <2>2, <3>3
      <4>2. /\ IsFiniteSet(Held(w)') /\ Cardinality(Held(w)') = Cardinality(Held(w)) - 1
            /\ Cardinality(Held(w)) \in Nat \ {0}
        BY <3>1, <3>3, <4>1, HeldLess
      <4> QED  BY <2>1, <3>2, <3>3, <4>2
    <3>4. CASE ~(w \in W /\ held[r][w] > 0)
      <4>1. \A o \in Requests : held'[o][w] = held[o][w]
        BY <2>2, <3>4
      <4>2. w \in W => w \in missed'
        BY <1>0, <1>2, <2>3, <3>4 DEF Works
      <4> QED  BY <2>1, <3>1, <3>2, <3>4, <4>1, <4>2, HeldSame
    <3> QED  BY <3>3, <3>4
  <2>6. Counters'
    BY <2>1, <2>2, <2>3, <2>4, <2>5 DEF Counters, Earned, LimitOf
  <2>7. ~req[r].gone => \A w \in W \ missed' : held'[r][w] = held[r][w] - 1
    BY <1>0, <1>1, <2>2, <2>3
  <2> QED  BY <1>1, <2>2, <2>3, <2>6, <2>7 DEF CountsDown, W
<1>3. CASE Works(r) /\ Down(W) /\ UNCHANGED <<count, held>>
  <2>1. Counters' /\ missed' = missed \cup W /\ outages' > outages
    BY <1>1, <1>3, DownCounts
  <2>2. outages \in Nat /\ outages' \in Nat
    BY <2>1 DEF Counters
  <2> QED  BY <1>3, <2>1, <2>2 DEF CountsDown, W
<1>4. CASE ~Works(r) /\ UNCHANGED counters
  <2>1. Counters' /\ outages \in Nat
    BY <1>4, IdleCounts DEF Counters
  <2> QED  BY <1>4, <2>1 DEF CountsDown, counters, Works
<1> QED  BY <1>2, <1>3, <1>4 DEF Refund, W

\* The counters of windows that are over are dropped.
LEMMA TickCounts ==
  ASSUME Counters, Tick PROVE Counters'
<1>1. now' \in 0 .. MaxTime /\ now' = now + 1 /\ UNCHANGED <<held, outages, missed>>
  BY Bounds DEF Tick, Counters
<1>2. /\ \A w \in Windows : count'[w] = IF ResetAt(w) <= now' THEN 0 ELSE count[w]
      /\ count' \in [Windows -> Nat]
  BY DEF Tick, Counters
<1>3. \A w \in Windows : LimitOf(w) \in Nat
  BY WindowParts, Bounds DEF LimitOf
<1>4. \A w \in Windows : ResetAt(w) \in Int
  BY WindowParts, Bounds DEF ResetAt, Buckets
<1>5. \A w \in Windows : Held(w)' = Held(w)
  BY <1>1 DEF Held
<1>6. Earned'
  <2> SUFFICES ASSUME NEW w \in Windows
               PROVE  /\ IsFiniteSet(Held(w)')
                      /\ w \notin missed' /\ Live(w)' => count'[w] = Cardinality(Held(w)')
    BY DEF Earned
  <2>1. Live(w)' => Live(w) /\ ~(ResetAt(w) <= now')
    <3>1. now \in Int /\ ResetAt(w) \in Int /\ ResetAt(w)' = ResetAt(w)
      BY <1>4 DEF Counters, ResetAt
    <3> QED  BY <1>1, <3>1 DEF Live
  <2> QED  BY <1>1, <1>2, <1>5, <2>1 DEF Counters, Earned
<1> QED  BY <1>1, <1>2, <1>3, <1>6 DEF Counters, LimitOf

(***************************************************************************)
(* The inductive invariant of a request: q is its record, h what it holds, *)
(* m the windows that failed calls missed, out the number of those calls.  *)
(***************************************************************************)

Fields == {"pc", "anchor", "marks", "memo", "guarded", "model", "tier", "cascade", "spare",
           "tries", "gone", "tried", "shut", "answered", "unsent", "billed"}

Typed(q) ==
  /\ DOMAIN q = Fields
  /\ q.pc \in PCs /\ q.anchor \in 0 .. MaxTime /\ q.marks \in [Models -> Seq(0 .. MaxTime)]
  /\ DOMAIN q.memo = GateSet /\ q.model \in Models /\ q.tier \in Nat \ {0}
  /\ q.guarded \in BOOLEAN /\ q.gone \in BOOLEAN /\ q.answered \in BOOLEAN
  /\ q.tried \subseteq Models /\ q.billed \subseteq Buckets
  /\ \A g \in GateSet : q.memo[g].until \in Nat

\* Up to its attempts a request is guarded and no model is tried; a model other
\* than the asked one is marked when its tier is tried, or under way.
Sensible(q) ==
  /\ q.pc = "arrives" => ~q.guarded /\ q.tried = {}
  /\ q.pc \in {"model", "tokens", "candidates"} => q.guarded
  /\ q.pc \in {"tiers", "tier_checks"} => q.guarded \/ q.tried # {}
  /\ q.pc \in {"attempt", "opening", "answered"} => ~q.guarded /\ q.tried # {}
  /\ q.guarded => q.tried = {}
  /\ q.pc \in {"arrives", "model", "done"} => \A s \in Models : q.marks[s] = <<>>
  /\ q.pc = "tier_checks" => q.tier <= Len(Tiers) /\ q.marks[Tiers[q.tier]] # <<>>
  /\ \A s \in Models \ (q.tried \cup {Model}) : q.marks[s] # <<>> =>
       q.pc = "tier_checks" /\ s = Tiers[q.tier] /\ Tail(q.marks[s]) = <<>>

\* The marks that fall in a window.
Marked(s, marks, w) == {i \in 1 .. Len(marks) : w \in WindowsOf(s, marks[i])}

\* The key counts a request until its refund.
KeyCounted(q) == q.pc # "arrives" /\ (q.pc = "closing" => q.guarded)

\* What a request holds is what it remembers.
Remembers(q, h, m) ==
  ~q.gone /\ q.pc # "done" =>
    /\ \A s \in Models : \A w \in Windows \ m :
         w[1] = s => h[w] = Cardinality(Marked(s, q.marks[s], w))
    /\ \A w \in Windows \ m :
         w[1] = Key => h[w] = IF KeyCounted(q) /\ w \in WindowsOf(Key, q.anchor) THEN 1 ELSE 0

\* No gate counts a request twice in a window, and of two windows one is shut by
\* its token limit.  A gate that has not admitted the request has only counted it
\* in windows that it then shut, and refuses it until they are over.
Gated(q, h) ==
  \A g \in GateSet, k \in Kinds :
    /\ \A b \in Buckets : h[<<g, k, b>>] <= 1
    /\ \A b, c \in Buckets : b # c /\ h[<<g, k, b>>] > 0 /\ h[<<g, k, c>>] > 0 =>
         <<g, k, b>> \in q.shut \/ <<g, k, c>> \in q.shut
    /\ q.pc # "done" /\ q.memo[g].is # "pass" =>
         \A b \in Buckets : h[<<g, k, b>>] > 0 =>
           /\ <<g, k, b>> \in q.shut /\ q.memo[g].is = "full"
           /\ ResetAt(<<g, k, b>>) <= q.memo[g].until

\* A request that is done is charged for what was tried.
Charged(q, h, m) ==
  q.pc = "done" /\ ~q.gone =>
    \A w \in Windows \ m : h[w] > 0 =>
      \/ w[1] \in {Key, Model} /\ q.tried # {}
      \/ w[1] \in q.tried \cup GateSet

\* The tokens of an answer are billed as it ends, unless a call failed or the
\* header of its stream could not be sent.
Paid(q, out) ==
  /\ q.pc # "done" => q.billed = {} /\ ~q.unsent
  /\ q.answered => q.pc \in {"opening", "answered", "done"}
  /\ out = 0 /\ q.pc = "done" /\ q.answered => (q.billed = {} <=> q.unsent)

Good(q, h, m, out) ==
  Typed(q) /\ Sensible(q) /\ Remembers(q, h, m) /\ Gated(q, h) /\ Charged(q, h, m) /\ Paid(q, out)

Recorded ==
  /\ tokens \in [Buckets -> Nat]
  /\ \A b \in Buckets : tokens[b] = Cardinality({r \in Requests : b \in req[r].billed})

IInv ==
  /\ Counters /\ Recorded
  /\ DOMAIN req = Requests /\ \A r \in Requests : Good(req[r], held[r], missed, outages)

(***************************************************************************)
(* Marks are added at the end and claimed from the front.                  *)
(***************************************************************************)

LEMMA ListParts ==
  ASSUME NEW S, NEW list \in Seq(S), list # <<>>
  PROVE  Head(list) \in S /\ Tail(list) \in Seq(S)
<1>1. Head(list) = list[1] /\ Len(list) \in Nat \ {0} /\ Tail(list) \in Seq(S)
  OBVIOUS
<1>2. \A i \in 1 .. Len(list) : list[i] \in S
  OBVIOUS
<1>3. 1 \in 1 .. Len(list)
  BY <1>1
<1> QED  BY <1>1, <1>2, <1>3

LEMMA MarkedType ==
  ASSUME NEW s, NEW w, NEW marks \in Seq(0 .. MaxTime)
  PROVE  /\ IsFiniteSet(Marked(s, marks, w)) /\ Cardinality(Marked(s, marks, w)) \in Nat
         /\ marks = <<>> => Cardinality(Marked(s, marks, w)) = 0
<1>1. Marked(s, marks, w) \subseteq 1 .. Len(marks)
  BY DEF Marked
<1>2. IsFiniteSet(1 .. Len(marks))
  BY FS_Interval
<1>3. IsFiniteSet(Marked(s, marks, w))
  BY <1>1, <1>2, FS_Subset
<1>4. marks = <<>> => Marked(s, marks, w) = {}
  BY DEF Marked
<1> QED  BY <1>3, <1>4, FS_EmptySet, FS_CardinalityType

LEMMA MarkedAppend ==
  ASSUME NEW s, NEW w, NEW marks \in Seq(0 .. MaxTime), NEW t \in 0 .. MaxTime
  PROVE  Cardinality(Marked(s, Append(marks, t), w)) =
           IF w \in WindowsOf(s, t) THEN Cardinality(Marked(s, marks, w)) + 1
                                    ELSE Cardinality(Marked(s, marks, w))
<1> DEFINE longer == Append(marks, t)
<1>1. /\ Len(longer) = Len(marks) + 1 /\ Len(marks) \in Nat /\ longer[Len(marks) + 1] = t
      /\ \A i \in 1 .. Len(marks) : longer[i] = marks[i]
  OBVIOUS
<1> HIDE DEF longer
<1>2. Marked(s, longer, w) =
        Marked(s, marks, w) \cup (IF w \in WindowsOf(s, t) THEN {Len(marks) + 1} ELSE {})
  BY <1>1 DEF Marked
<1>3. Len(marks) + 1 \notin Marked(s, marks, w)
  BY <1>1 DEF Marked
<1>4. CASE w \in WindowsOf(s, t)
  <2>1. Marked(s, longer, w) = Marked(s, marks, w) \cup {Len(marks) + 1}
    BY <1>2, <1>4
  <2>2. Cardinality(Marked(s, longer, w)) = Cardinality(Marked(s, marks, w)) + 1
    BY <1>3, <2>1, MarkedType, FS_AddElement
  <2> QED  BY <1>4, <2>2 DEF longer
<1>5. CASE w \notin WindowsOf(s, t)
  <2>1. Marked(s, longer, w) = Marked(s, marks, w)
    BY <1>2, <1>5
  <2> QED  BY <1>5, <2>1 DEF longer
<1> QED  BY <1>4, <1>5

LEMMA MarkedTail ==
  ASSUME NEW s, NEW w, NEW marks \in Seq(0 .. MaxTime), marks # <<>>
  PROVE  Cardinality(Marked(s, marks, w)) =
           IF w \in WindowsOf(s, Head(marks)) THEN Cardinality(Marked(s, Tail(marks), w)) + 1
                                              ELSE Cardinality(Marked(s, Tail(marks), w))
<1> DEFINE rest == Tail(marks)
           later == {i \in 2 .. Len(marks) : w \in WindowsOf(s, marks[i])}
           shift == [i \in Marked(s, rest, w) |-> i + 1]
<1>1. /\ rest \in Seq(0 .. MaxTime) /\ Len(rest) = Len(marks) - 1 /\ Len(marks) \in Nat \ {0}
      /\ Head(marks) = marks[1]
      /\ \A i \in 1 .. Len(rest) : rest[i] = marks[i + 1]
  OBVIOUS
<1> HIDE DEF rest
<1>2. shift \in Bijection(Marked(s, rest, w), later)
  <2>1. shift \in [Marked(s, rest, w) -> later]
    BY <1>1 DEF Marked
  <2>2. \A a, b \in Marked(s, rest, w) : shift[a] = shift[b] => a = b
    BY <1>1 DEF Marked
  <2>3. \A j \in later : \E i \in Marked(s, rest, w) : shift[i] = j
    <3> SUFFICES ASSUME NEW j \in later PROVE j - 1 \in Marked(s, rest, w) /\ shift[j - 1] = j
      OBVIOUS
    <3>1. j - 1 \in 1 .. Len(rest) /\ (j - 1) + 1 = j
      BY <1>1
    <3>2. rest[j - 1] = marks[j]
      BY <1>1, <3>1
    <3> QED  BY <3>1, <3>2 DEF Marked
  <2> HIDE DEF shift, later
  <2>4. shift \in Injection(Marked(s, rest, w), later)
    BY <2>1, <2>2 DEF Injection, IsInjective
  <2>5. shift \in Surjection(Marked(s, rest, w), later)
    BY <2>1, <2>3 DEF Surjection
  <2> QED  BY <2>4, <2>5 DEF Bijection
<1>3. IsFiniteSet(later) /\ Cardinality(later) = Cardinality(Marked(s, rest, w))
  BY <1>1, <1>2, MarkedType, FS_Bijection DEF ExistsBijection
<1>4. 1 \notin later
  OBVIOUS
<1>5. CASE w \in WindowsOf(s, Head(marks))
  <2>1. Marked(s, marks, w) = later \cup {1}
    BY <1>1, <1>5 DEF Marked
  <2> HIDE DEF later
  <2>2. Cardinality(Marked(s, marks, w)) = Cardinality(later) + 1
    BY <1>3, <1>4, <2>1, FS_AddElement
  <2> QED  BY <1>3, <1>5, <2>2 DEF rest
<1>6. CASE w \notin WindowsOf(s, Head(marks))
  <2>1. Marked(s, marks, w) = later
    BY <1>1, <1>6 DEF Marked
  <2> HIDE DEF later
  <2> QED  BY <1>3, <1>6, <2>1 DEF rest
<1> QED  BY <1>5, <1>6

(***************************************************************************)
(* Steps of one request.                                                   *)
(***************************************************************************)

LEMMA GoodParts ==
  ASSUME Counters
  PROVE  /\ now \in 0 .. MaxTime /\ outages \in Nat
         /\ \A r \in Requests : held[r] \in [Windows -> Nat]
BY Bounds DEF Counters

\* A step of one request leaves the others good.
LEMMA StepGood ==
  ASSUME IInv, NEW r \in Requests, NEW z, req' = [req EXCEPT ![r] = z],
         Counters', \A o \in Requests \ {r} : held'[o] = held[o],
         missed \subseteq missed', outages <= outages', Recorded',
         Good(z, held'[r], missed', outages')
  PROVE  IInv'
<1>1. DOMAIN req' = Requests /\ \A o \in Requests : req'[o] = IF o = r THEN z ELSE req[o]
  BY DEF IInv
<1>2. outages \in Nat /\ outages' \in Nat
  BY Bounds DEF IInv, Counters
<1>3. ASSUME NEW o \in Requests, o # r PROVE Good(req[o], held[o], missed', outages')
  <2>1. Good(req[o], held[o], missed, outages)
    BY DEF IInv
  <2>2. Remembers(req[o], held[o], missed') /\ Charged(req[o], held[o], missed')
    BY <2>1 DEF Good, Remembers, Charged
  <2>3. Paid(req[o], outages')
    BY <1>2, <2>1 DEF Good, Paid
  <2> QED  BY <2>1, <2>2, <2>3 DEF Good
<1>4. \A o \in Requests : Good(req'[o], held'[o], missed', outages')
  BY <1>1, <1>3
<1> QED  BY <1>1, <1>4 DEF IInv

\* Nothing is billed.
LEMMA RecordedSame ==
  ASSUME IInv, NEW r \in Requests, NEW z, req' = [req EXCEPT ![r] = z],
         UNCHANGED tokens, z.billed = req[r].billed
  PROVE  Recorded'
<1>1. \A o \in Requests : req'[o].billed = req[o].billed
  BY DEF IInv
<1> QED  BY <1>1 DEF IInv, Recorded

\* The handler goes on, and with it what was counted.
Keeps(z, q) ==
  /\ DOMAIN z = Fields /\ DOMAIN z.memo = GateSet
  /\ z.marks = q.marks /\ z.anchor = q.anchor /\ z.billed = q.billed
  /\ z.shut = q.shut /\ z.unsent = q.unsent
  /\ q.gone => z.gone
  /\ q.pc # "done" /\ z.pc # "done" /\ (KeyCounted(z) <=> KeyCounted(q))
  /\ z.answered => z.pc \in {"opening", "answered"}

LEMMA RunsOn ==
  ASSUME NEW q, NEW z, NEW h, NEW m, NEW out, NEW n \in SUBSET Windows, NEW more \in Nat,
         Good(q, h, m, out), Keeps(z, q), m \subseteq n, Typed(z), Sensible(z), Gated(z, h)
  PROVE  Good(z, h, n, more)
<1>1. Remembers(z, h, n)
  BY DEF Good, Keeps, Remembers
<1>2. Charged(z, h, n) /\ Paid(z, more)
  BY DEF Good, Keeps, Charged, Paid
<1> QED  BY <1>1, <1>2 DEF Good

\* The handler ends: what the request is charged for must have been tried.
Ending(q, h, m) ==
  ~q.gone => \A w \in Windows \ m : h[w] > 0 =>
    \/ w[1] \in {Key, Model} /\ q.tried # {}
    \/ w[1] \in q.tried \cup GateSet

LEMMA EndedType ==
  ASSUME NEW q, Typed(q)
  PROVE  /\ Typed(Ended(q)) /\ Sensible(Ended(q)) /\ Ended(q).pc = "done"
         /\ Ended(q).gone = q.gone /\ Ended(q).tried = q.tried
         /\ Ended(q).answered = q.answered /\ Ended(q).billed = q.billed
         /\ Ended(q).shut = q.shut /\ Ended(q).unsent = q.unsent
<1> DEFINE z == Ended(q)
<1>1. /\ DOMAIN z = Fields /\ z.pc = "done" /\ z.anchor = 0 /\ z.marks = [s \in Models |-> <<>>]
      /\ z.memo = [g \in GateSet |-> NoMemo] /\ z.model = Model /\ z.tier = 1
      /\ z.guarded = FALSE /\ z.gone = q.gone /\ z.answered = q.answered
      /\ z.tried = q.tried /\ z.billed = q.billed
      /\ z.shut = q.shut /\ z.unsent = q.unsent
  BY DEF Ended, NewRequest, Fields
<1> HIDE DEF z
<1>2. <<>> \in Seq(0 .. MaxTime)
  OBVIOUS
<1>3. z.marks \in [Models -> Seq(0 .. MaxTime)] /\ \A s \in Models : z.marks[s] = <<>>
  BY <1>1, <1>2
<1>4. Typed(z)
  <2>1. 0 \in 0 .. MaxTime /\ Model \in Models
    BY Bounds, Scoping
  <2>2. /\ z.gone \in BOOLEAN /\ z.guarded \in BOOLEAN /\ z.answered \in BOOLEAN
        /\ z.tried \subseteq Models /\ z.billed \subseteq Buckets
    BY <1>1 DEF Typed
  <2>3. DOMAIN z.memo = GateSet /\ z.pc \in PCs /\ \A g \in GateSet : z.memo[g].until \in Nat
    BY <1>1 DEF PCs, NoMemo
  <2>4. DOMAIN z = Fields /\ z.tier = 1 /\ z.anchor = 0 /\ z.model = Model
    BY <1>1
  <2> QED  BY <1>3, <2>1, <2>2, <2>3, <2>4 DEF Typed
<1>5. Sensible(z)
  BY <1>1, <1>3 DEF Sensible
<1> QED  BY <1>1, <1>4, <1>5 DEF z

LEMMA Ends ==
  ASSUME NEW q, NEW h, NEW n \in SUBSET Windows, NEW out \in Nat,
         Typed(q), Gated(q, h), Ending(q, h, n),
         out = 0 /\ q.answered => (q.billed = {} <=> q.unsent)
  PROVE  Good(Ended(q), h, n, out)
<1>1. /\ Typed(Ended(q)) /\ Sensible(Ended(q)) /\ Ended(q).pc = "done"
      /\ Ended(q).gone = q.gone /\ Ended(q).tried = q.tried
      /\ Ended(q).answered = q.answered /\ Ended(q).billed = q.billed
      /\ Ended(q).shut = q.shut /\ Ended(q).unsent = q.unsent
  BY EndedType
<1>2. Remembers(Ended(q), h, n) /\ Gated(Ended(q), h)
  BY <1>1 DEF Remembers, Gated
<1>3. Charged(Ended(q), h, n) /\ Paid(Ended(q), out)
  BY <1>1 DEF Charged, Ending, Paid
<1> QED  BY <1>1, <1>2, <1>3 DEF Good

\* A request is charged for its key and for what it has marked.
LEMMA HoldsMarks ==
  ASSUME NEW q, NEW h \in [Windows -> Nat], NEW m, Typed(q), Remembers(q, h, m),
         ~q.gone, q.pc # "done", NEW w \in Windows \ m, h[w] > 0
  PROVE  \/ w[1] = Key /\ KeyCounted(q) /\ w \in WindowsOf(Key, q.anchor)
         \/ w[1] \in Models /\ q.marks[w[1]] # <<>>
         \/ w[1] \in GateSet
<1>1. w[1] \in {Key} \cup GateSet \cup Models
  BY WindowParts DEF Scopes
<1>2. CASE w[1] = Key
  BY <1>2 DEF Remembers
<1>3. CASE w[1] \in Models
  <2>1. q.marks[w[1]] \in Seq(0 .. MaxTime)
    BY <1>3 DEF Typed
  <2>2. h[w] = Cardinality(Marked(w[1], q.marks[w[1]], w))
    BY <1>3 DEF Remembers
  <2> QED  BY <1>3, <2>1, <2>2, MarkedType
<1> QED  BY <1>1, <1>2, <1>3

\* A step that counts nothing: the handler goes on, or returns.
Quiet == UNCHANGED <<now, tokens, count, held>> /\ (Up \/ Down({}))

LEMMA QuietCounts ==
  ASSUME Counters, Quiet
  PROVE  /\ Counters' /\ missed' = missed /\ outages' \in Nat
         /\ outages <= outages' /\ missed' \subseteq Windows /\ held' = held
<1>1. Counters' /\ missed' = missed /\ (outages' = outages \/ outages' > outages)
  <2>1. CASE Up
    BY <2>1, IdleCounts DEF Quiet, Up, counters
  <2>2. CASE Down({})
    BY <2>2, DownCounts DEF Quiet
  <2> QED  BY <2>1, <2>2 DEF Quiet
<1> QED  BY <1>1, Bounds DEF Counters, Quiet

Alike(z, q) ==
  /\ DOMAIN z = Fields /\ z.marks = q.marks /\ z.anchor = q.anchor /\ z.billed = q.billed
  /\ z.shut = q.shut /\ z.unsent = q.unsent
  /\ z.memo = q.memo

LEMMA Moves ==
  ASSUME IInv, NEW r \in Requests, NEW z, req' = [req EXCEPT ![r] = z], Quiet,
         Alike(z, req[r]), z.gone = req[r].gone \/ z.gone = TRUE,
         req[r].pc # "done", z.pc \in PCs \ {"done"}, (KeyCounted(z) <=> KeyCounted(req[r])),
         z.model \in Models, z.tier \in Nat \ {0}, z.tried \subseteq Models,
         z.guarded \in BOOLEAN, z.answered \in BOOLEAN,
         z.answered => z.pc \in {"opening", "answered"}, Sensible(z)
  PROVE  IInv'
<1>1. Good(req[r], held[r], missed, outages)
  BY DEF IInv
<1>2. Typed(z)
  <2>1. z.gone \in BOOLEAN
    BY <1>1 DEF Good, Typed
  <2> QED  BY <1>1, <2>1 DEF Good, Typed, Alike
<1>3. Keeps(z, req[r]) /\ Gated(z, held[r])
  BY <1>1 DEF Good, Typed, Alike, Keeps, Gated
<1>4. /\ Counters' /\ missed' = missed /\ outages' \in Nat
      /\ outages <= outages' /\ missed' \subseteq Windows /\ held' = held
  BY QuietCounts DEF IInv
<1>5. Good(z, held'[r], missed', outages')
  BY <1>1, <1>2, <1>3, <1>4, RunsOn
<1>6. Recorded'
  BY RecordedSame DEF Quiet, Alike
<1> QED  BY <1>4, <1>5, <1>6, StepGood

LEMMA Returns ==
  ASSUME IInv, NEW r \in Requests, req' = [req EXCEPT ![r] = Ended(req[r])],
         UNCHANGED <<now, tokens, counters>>,
         Ending(req[r], held[r], missed), ~req[r].answered
  PROVE  IInv'
<1>1. Good(req[r], held[r], missed, outages)
  BY DEF IInv
<1>2. Quiet
  BY DEF Quiet, counters, Up
<1>3. /\ Counters' /\ missed' = missed /\ outages' \in Nat
      /\ outages <= outages' /\ missed' \subseteq Windows /\ held' = held
  BY <1>2, QuietCounts DEF IInv
<1>4. Good(Ended(req[r]), held'[r], missed', outages')
  BY <1>1, <1>3, Ends DEF Good
<1>5. Recorded'
  <2>1. Ended(req[r]).billed = req[r].billed
    BY <1>1, EndedType DEF Good
  <2> QED  BY <2>1, RecordedSame
<1> QED  BY <1>3, <1>4, <1>5, StepGood

\* A step that changes nothing that the invariant speaks of, but where the handler is.
Moved(z, q) ==
  /\ Alike(z, q) /\ z.gone = q.gone /\ z.model = q.model /\ z.tier = q.tier
  /\ z.tried = q.tried /\ z.guarded = q.guarded /\ z.answered = q.answered

LEMMA GotoMoves ==
  ASSUME NEW r \in Requests, Typed(req[r]), NEW pc
  PROVE  Moved(Goto(r, pc), req[r]) /\ Goto(r, pc).pc = pc
BY DEF Typed, Fields, Moved, Alike, Goto

\* Checks before the attempts.
LEMMA MovingSteps ==
  ASSUME IInv, NEW r \in Requests,
         \/ Refuse(r) \/ ModelRefuses(r) \/ TokenGate(r)
         \/ \E some \in BOOLEAN : CandidatesTooSmall(r, some)
  PROVE  IInv'
<1> DEFINE q == req[r]
<1>1. Typed(q) /\ Sensible(q) /\ Paid(q, outages)
  BY DEF IInv, Good
<1>2. q.pc \in {"model", "tokens", "candidates"}
  BY DEF Refuse, ModelRefuses, TokenGate, CandidatesTooSmall, Step
<1>3. PICK z : /\ req' = [req EXCEPT ![r] = z] /\ Moved(z, q)
               /\ z.pc \in {"closing", "candidates", "tiers"}
  <2>1. \A pc : Moved(Goto(r, pc), q) /\ Goto(r, pc).pc = pc
    BY <1>1, GotoMoves
  <2>2. CASE Refuse(r) \/ ModelRefuses(r)
    <3>1. req' = [req EXCEPT ![r] = Goto(r, "closing")]
      BY <2>2 DEF Refuse, ModelRefuses, Step
    <3> QED  BY <2>1, <3>1
  <2>3. CASE TokenGate(r)
    <3>1. PICK pc \in {"closing", "candidates"} : req' = [req EXCEPT ![r] = Goto(r, pc)]
      <4> DEFINE spent == tokens[now \div TokenWidth] >= TokenLimit
      <4>2. \/ req' = [req EXCEPT ![r] = Goto(r, IF spent THEN "closing" ELSE "candidates")]
            \/ req' = [req EXCEPT ![r] = Goto(r, "candidates")]
        BY <2>3 DEF TokenGate, Step
      <4> HIDE DEF spent
      <4>3. CASE spent
        BY <4>2, <4>3
      <4>4. CASE ~spent
        BY <4>2, <4>4
      <4> QED  BY <4>3, <4>4
    <3> QED  BY <2>1, <3>1
  <2>4. ASSUME NEW some \in BOOLEAN, CandidatesTooSmall(r, some)
        PROVE  \E z : /\ req' = [req EXCEPT ![r] = z] /\ Moved(z, q)
                      /\ z.pc \in {"closing", "candidates", "tiers"}
    <3> DEFINE z == [q EXCEPT !.pc = "tiers", !.spare = some]
    <3>1. Moved(z, q) /\ z.pc = "tiers"
      BY <1>1 DEF Typed, Fields, Moved, Alike
    <3> QED  BY <2>4, <3>1 DEF CandidatesTooSmall, Step
  <2> QED  BY <2>2, <2>3, <2>4
<1>4. q.guarded /\ ~q.answered
  BY <1>1, <1>2 DEF Sensible, Paid
<1>5. KeyCounted(z) <=> KeyCounted(q)
  BY <1>2, <1>3, <1>4 DEF KeyCounted, Moved
<1>6. Sensible(z)
  BY <1>1, <1>2, <1>3, <1>4 DEF Sensible, Moved, Alike
<1>7. Quiet
  BY DEF Quiet, Refuse, ModelRefuses, Full, TokenGate, CandidatesTooSmall, counters, Up
<1>8. z.pc \in PCs \ {"done"} /\ q.pc # "done"
  BY <1>2, <1>3 DEF PCs
<1> QED  BY <1>1, <1>3, <1>4, <1>5, <1>6, <1>7, <1>8, Moves DEF Typed, Moved

LEMMA TierType ==
  ASSUME NEW r \in Requests, Typed(req[r]), HasTier(r)
  PROVE  TierModel(r) \in Models
BY Scoping DEF Typed, HasTier, TierModel

\* The tiers and the attempts, as long as nothing is counted.
LEMMA TryingSteps ==
  ASSUME IInv, NEW r \in Requests,
         \/ CandidatesFit(r) \/ TierFits(r) \/ Answers(r) \/ Prepares(r) \/ CacheAnswers(r)
         \/ AttemptsFail(r) \/ ClientLeaves(r)
         \/ \E i \in DOMAIN Gates : GateStillRefuses(r, i)
  PROVE  IInv'
<1> DEFINE q == req[r]
<1>1. Typed(q) /\ Sensible(q) /\ Paid(q, outages)
  BY DEF IInv, Good
<1>2. Quiet
  BY DEF Quiet, Up, counters, CandidatesFit, TierFits, Answers, Prepares, CacheAnswers,
         AttemptsFail, ClientLeaves, GateStillRefuses
<1>3. CASE CandidatesFit(r)
  <2> DEFINE z == [Starts(q) EXCEPT !.tried = {Model}]
  <2>1. /\ Alike(z, q) /\ z.pc = "attempt" /\ z.gone = q.gone /\ z.model = q.model
        /\ z.tier = q.tier /\ z.tried = {Model} /\ z.guarded = FALSE /\ z.answered = q.answered
    BY <1>1 DEF Typed, Fields, Alike, Starts
  <2>2. q.pc = "candidates" /\ req' = [req EXCEPT ![r] = z] /\ ~q.answered
    BY <1>1, <1>3 DEF CandidatesFit, Step, Paid
  <2> HIDE DEF z
  <2>3. Sensible(z)
    BY <1>1, <2>1, <2>2 DEF Sensible, Alike
  <2>4. z.pc \in PCs \ {"done"} /\ (KeyCounted(z) <=> KeyCounted(q))
    BY <2>1, <2>2 DEF PCs, KeyCounted
  <2> QED  BY <1>1, <1>2, <2>1, <2>2, <2>3, <2>4, Moves, Scoping DEF Typed
<1>4. CASE Prepares(r)
  <2> DEFINE z == Goto(r, "answered")
  <2>1. Moved(z, q) /\ z.pc = "answered"
    BY <1>1, GotoMoves
  <2>2. q.pc = "opening" /\ req' = [req EXCEPT ![r] = z]
    BY <1>4 DEF Prepares, Step
  <2> HIDE DEF z
  <2>3. Sensible(z)
    BY <1>1, <2>1, <2>2 DEF Sensible, Alike, Moved
  <2>4. z.pc \in PCs \ {"done"} /\ (KeyCounted(z) <=> KeyCounted(q))
    BY <2>1, <2>2 DEF PCs, KeyCounted, Moved
  <2> QED  BY <1>1, <1>2, <2>1, <2>2, <2>3, <2>4, Moves DEF Typed, Moved
<1>5. CASE TierFits(r)
  <2>1. PICK model \in {TierModel(r), q.model} :
          req' = [req EXCEPT ![r] = [Starts(q) EXCEPT !.model = model,
                                                      !.tried = q.tried \cup {TierModel(r)}]]
    <3>1. req' = [req EXCEPT ![r] = [Starts(q) EXCEPT
            !.model = IF q.guarded THEN TierModel(r) ELSE Starts(q).model,
            !.tried = Starts(q).tried \cup {TierModel(r)}]]
      BY <1>5 DEF TierFits, Step
    <3>2. Starts(q).model = q.model /\ Starts(q).tried = q.tried
      BY <1>1 DEF Typed, Fields, Starts
    <3>3. CASE q.guarded
      BY <3>1, <3>2, <3>3
    <3>4. CASE ~q.guarded
      BY <3>1, <3>2, <3>4
    <3> QED  BY <3>3, <3>4
  <2> DEFINE z == [Starts(q) EXCEPT !.model = model, !.tried = q.tried \cup {TierModel(r)}]
  <2>2. /\ Alike(z, q) /\ z.pc = "attempt" /\ z.gone = q.gone /\ z.model = model
        /\ z.tier = q.tier /\ z.tried = q.tried \cup {TierModel(r)} /\ z.guarded = FALSE
        /\ z.answered = q.answered
    BY <1>1 DEF Typed, Fields, Alike, Starts
  <2>3. q.pc = "tier_checks" /\ ~q.answered
    BY <1>1, <1>5 DEF TierFits, Step, Paid
  <2> HIDE DEF z
  <2>4. TierModel(r) = Tiers[q.tier] /\ TierModel(r) \in Models
    BY <1>1, <2>3, TierType DEF Sensible, HasTier, TierModel
  <2>5. Sensible(z)
    BY <1>1, <2>2, <2>3, <2>4 DEF Sensible, Alike
  <2>6. z.pc \in PCs \ {"done"} /\ (KeyCounted(z) <=> KeyCounted(q))
    BY <2>2, <2>3 DEF PCs, KeyCounted
  <2>7. z.model \in Models /\ z.tried \subseteq Models /\ z.tier \in Nat \ {0}
    BY <1>1, <2>2, <2>4 DEF Typed
  <2>8. req' = [req EXCEPT ![r] = z]
    BY <2>1 DEF z
  <2>9. z.guarded \in BOOLEAN /\ z.answered \in BOOLEAN /\ q.pc # "done" /\ ~z.answered
    BY <1>1, <2>2, <2>3 DEF Typed
  <2> QED  BY <1>2, <2>2, <2>5, <2>6, <2>7, <2>8, <2>9, Moves
<1>6. CASE Answers(r) \/ CacheAnswers(r)
  <2>0. PICK pc \in {"answered", "opening"} :
          req' = [req EXCEPT ![r] = [Goto(r, pc) EXCEPT !.answered = TRUE]]
    BY <1>6 DEF Answers, CacheAnswers, Step
  <2> DEFINE z == [Goto(r, pc) EXCEPT !.answered = TRUE]
  <2>1. /\ Alike(z, q) /\ z.pc = pc /\ z.gone = q.gone /\ z.model = q.model
        /\ z.tier = q.tier /\ z.tried = q.tried /\ z.guarded = q.guarded /\ z.answered = TRUE
    BY <1>1 DEF Typed, Fields, Alike, Goto
  <2>2. q.pc = "attempt" /\ req' = [req EXCEPT ![r] = z]
    BY <1>6, <2>0 DEF Answers, CacheAnswers, Step
  <2> HIDE DEF z
  <2>3. Sensible(z)
    BY <1>1, <2>1, <2>2 DEF Sensible, Alike
  <2>4. z.pc \in PCs \ {"done"} /\ (KeyCounted(z) <=> KeyCounted(q))
    BY <2>1, <2>2 DEF PCs, KeyCounted
  <2> QED  BY <1>1, <1>2, <2>1, <2>2, <2>3, <2>4, Moves DEF Typed
<1>7. CASE AttemptsFail(r)
  <2> DEFINE tier == IF q.cascade THEN q.tier + 1 ELSE 1
  <2>1. tier \in Nat \ {0} /\ req' = [req EXCEPT ![r] = [q EXCEPT !.pc = "tiers", !.cascade = TRUE, !.tier = tier]]
    <3>1. q.tier \in Nat
      BY <1>1 DEF Typed
    <3> QED  BY <1>7, <3>1 DEF AttemptsFail, Step
  <2> HIDE DEF tier
  <2> DEFINE z == [q EXCEPT !.pc = "tiers", !.cascade = TRUE, !.tier = tier]
  <2>2. /\ Alike(z, q) /\ z.pc = "tiers" /\ z.gone = q.gone /\ z.model = q.model
        /\ z.tier = tier /\ z.tried = q.tried /\ z.guarded = q.guarded /\ z.answered = q.answered
    BY <1>1 DEF Typed, Fields, Alike
  <2>3. q.pc = "attempt" /\ ~q.answered
    BY <1>1, <1>7 DEF AttemptsFail, Step, Paid
  <2> HIDE DEF z
  <2>4. Sensible(z)
    BY <1>1, <2>2, <2>3 DEF Sensible, Alike
  <2>5. z.pc \in PCs \ {"done"} /\ (KeyCounted(z) <=> KeyCounted(q))
    BY <2>2, <2>3 DEF PCs, KeyCounted
  <2>6. req' = [req EXCEPT ![r] = z]
    BY <2>1 DEF z
  <2>7. /\ z.model \in Models /\ z.tier \in Nat \ {0} /\ z.tried \subseteq Models
        /\ z.guarded \in BOOLEAN /\ z.answered \in BOOLEAN /\ ~z.answered /\ q.pc # "done"
    BY <1>1, <2>1, <2>2, <2>3 DEF Typed
  <2> QED  BY <1>2, <2>2, <2>4, <2>5, <2>6, <2>7, Moves
<1>8. CASE ClientLeaves(r)
  <2> DEFINE z == [q EXCEPT !.gone = TRUE]
  <2>1. /\ Alike(z, q) /\ z.pc = q.pc /\ z.gone = TRUE /\ z.model = q.model
        /\ z.tier = q.tier /\ z.tried = q.tried /\ z.guarded = q.guarded
        /\ z.answered = q.answered
    BY <1>1 DEF Typed, Fields, Alike
  <2>2. q.pc # "done" /\ req' = [req EXCEPT ![r] = z]
    BY <1>8 DEF ClientLeaves
  <2> HIDE DEF z
  <2>3. Sensible(z)
    BY <1>1, <2>1 DEF Sensible, Alike
  <2>4. z.pc \in PCs \ {"done"} /\ (KeyCounted(z) <=> KeyCounted(q))
    BY <1>1, <2>1, <2>2 DEF Typed, KeyCounted
  <2>5. z.answered => z.pc \in {"opening", "answered"}
    BY <1>1, <2>1, <2>2 DEF Paid
  <2> QED  BY <1>1, <1>2, <2>1, <2>2, <2>3, <2>4, <2>5, Moves DEF Typed
<1>9. CASE \E i \in DOMAIN Gates : GateStillRefuses(r, i)
  <2> DEFINE z == Attempted(r)
  <2>1. Moved(z, q) /\ z.pc = q.pc
    BY <1>1 DEF Typed, Fields, Alike, Moved, Attempted
  <2>2. q.pc = "attempt" /\ req' = [req EXCEPT ![r] = z] /\ ~q.answered
    BY <1>1, <1>9 DEF GateStillRefuses, Step, Paid
  <2> HIDE DEF z
  <2>3. Sensible(z)
    BY <1>1, <2>1 DEF Sensible, Alike, Moved
  <2>4. z.pc \in PCs \ {"done"} /\ (KeyCounted(z) <=> KeyCounted(q))
    BY <1>1, <2>1, <2>2 DEF Typed, KeyCounted, Moved
  <2> QED  BY <1>1, <1>2, <2>1, <2>2, <2>3, <2>4, Moves DEF Typed, Moved
<1> QED  BY <1>3, <1>4, <1>5, <1>6, <1>7, <1>8, <1>9

\* A request that ends before anything was counted for it, when all of it was
\* given back, or among the tiers, when all that was counted has been tried.
LEMMA EndingWhere ==
  ASSUME IInv, NEW r \in Requests,
         \/ req[r].pc = "arrives"
         \/ /\ req[r].pc = "closing" /\ ~req[r].guarded
            /\ \A s \in Models : req[r].marks[s] = <<>>
         \/ req[r].pc = "tiers" /\ ~req[r].guarded
  PROVE  Ending(req[r], held[r], missed) /\ ~req[r].answered
<1> DEFINE q == req[r]
<1>1. /\ Typed(q) /\ Sensible(q) /\ Remembers(q, held[r], missed) /\ Paid(q, outages)
      /\ held[r] \in [Windows -> Nat]
  BY GoodParts DEF IInv, Good
<1>2. ASSUME ~q.gone, NEW w \in Windows \ missed, held[r][w] > 0
      PROVE  \/ w[1] \in {Key, Model} /\ q.tried # {}
             \/ w[1] \in q.tried \cup GateSet
  <2>1. \/ w[1] = Key /\ KeyCounted(q)
        \/ w[1] \in Models /\ q.marks[w[1]] # <<>>
        \/ w[1] \in GateSet
    BY <1>1, <1>2, HoldsMarks
  <2> QED  BY <1>1, <2>1 DEF Sensible, KeyCounted
<1>3. ~q.answered
  BY <1>1 DEF Paid
<1> QED  BY <1>2, <1>3 DEF Ending

LEMMA ReturningSteps ==
  ASSUME IInv, NEW r \in Requests,
         \/ LimitRefuses(r) \/ Closed(r) \/ TiersExhausted(r) \/ TierRefuses(r)
         \/ \E refused \in BOOLEAN : TierSkipped(r, refused)
  PROVE  IInv'
<1> DEFINE q == req[r]
<1>1. Typed(q) /\ Sensible(q) /\ Paid(q, outages)
  BY DEF IInv, Good
<1>2. Quiet /\ UNCHANGED <<now, tokens, counters>>
  BY DEF Quiet, Up, counters, LimitRefuses, Closed, TiersExhausted, TierRefuses,
         TierSkipped, Full
<1>3. CASE /\ req' = [req EXCEPT ![r] = Ended(q)]
           /\ \/ LimitRefuses(r) \/ Closed(r)
              \/ q.pc = "tiers" /\ ~q.guarded
  <2>1. Ending(q, held[r], missed) /\ ~q.answered
    BY <1>3, EndingWhere DEF LimitRefuses, Closed, Step
  <2> QED  BY <1>2, <1>3, <2>1, Returns
<1>4. CASE q.pc = "tiers" /\ req' = [req EXCEPT ![r] = NextTier(q)]
  <2> DEFINE z == NextTier(q)
  <2>1. /\ Alike(z, q) /\ z.pc = "tiers" /\ z.gone = q.gone /\ z.model = q.model
        /\ z.tier = q.tier + 1 /\ z.tried = q.tried /\ z.guarded = q.guarded
        /\ z.answered = q.answered
    BY <1>1 DEF Typed, Fields, Alike, NextTier
  <2> HIDE DEF z
  <2>2. Sensible(z)
    BY <1>1, <1>4, <2>1 DEF Sensible, Alike
  <2>3. z.pc \in PCs \ {"done"} /\ (KeyCounted(z) <=> KeyCounted(q)) /\ z.tier \in Nat \ {0}
    BY <1>1, <1>4, <2>1 DEF PCs, KeyCounted, Typed
  <2>4. ~q.answered
    BY <1>1, <1>4 DEF Paid
  <2>5. req' = [req EXCEPT ![r] = z]
    BY <1>4 DEF z
  <2> QED  BY <1>1, <1>2, <1>4, <2>1, <2>2, <2>3, <2>4, <2>5, Moves DEF Typed
<1>5. CASE q.pc = "tiers" /\ q.guarded /\ req' = [req EXCEPT ![r] = [Starts(q) EXCEPT !.tried = {Model}]]
  <2> DEFINE z == [Starts(q) EXCEPT !.tried = {Model}]
  <2>1. /\ Alike(z, q) /\ z.pc = "attempt" /\ z.gone = q.gone /\ z.model = q.model
        /\ z.tier = q.tier /\ z.tried = {Model} /\ z.guarded = FALSE /\ z.answered = q.answered
    BY <1>1 DEF Typed, Fields, Alike, Starts
  <2>2. q.pc = "tiers" /\ req' = [req EXCEPT ![r] = z] /\ ~q.answered
    BY <1>1, <1>5 DEF Paid
  <2> HIDE DEF z
  <2>3. Sensible(z)
    BY <1>1, <1>5, <2>1, <2>2 DEF Sensible, Alike
  <2>4. z.pc \in PCs \ {"done"} /\ (KeyCounted(z) <=> KeyCounted(q))
    BY <2>1, <2>2 DEF PCs, KeyCounted
  <2> QED  BY <1>1, <1>2, <2>1, <2>2, <2>3, <2>4, Moves, Scoping DEF Typed
<1>6. CASE q.pc = "tiers" /\ q.guarded /\ req' = [req EXCEPT ![r] = Goto(r, "closing")]
  <2> DEFINE z == Goto(r, "closing")
  <2>1. Moved(z, q) /\ z.pc = "closing"
    BY <1>1, GotoMoves
  <2>2. req' = [req EXCEPT ![r] = z] /\ ~q.answered
    BY <1>1, <1>6 DEF Paid
  <2> HIDE DEF z
  <2>3. Sensible(z)
    BY <1>1, <1>6, <2>1 DEF Sensible, Alike, Moved
  <2>4. z.pc \in PCs \ {"done"} /\ (KeyCounted(z) <=> KeyCounted(q))
    BY <1>6, <2>1 DEF PCs, KeyCounted, Moved
  <2> QED  BY <1>1, <1>2, <1>6, <2>1, <2>2, <2>3, <2>4, Moves DEF Typed, Moved
<1>7. CASE LimitRefuses(r) \/ Closed(r)
  BY <1>3, <1>7 DEF LimitRefuses, Closed, Step
<1>8. CASE TiersExhausted(r)
  <2>1. /\ q.pc = "tiers"
        /\ req' = [req EXCEPT ![r] = IF ~q.guarded THEN Ended(q)
                      ELSE IF q.spare THEN [Starts(q) EXCEPT !.tried = {Model}]
                      ELSE Goto(r, "closing")]
    BY <1>8 DEF TiersExhausted, Step
  <2>2. \/ ~q.guarded /\ req' = [req EXCEPT ![r] = Ended(q)]
        \/ q.guarded /\ req' = [req EXCEPT ![r] = [Starts(q) EXCEPT !.tried = {Model}]]
        \/ q.guarded /\ req' = [req EXCEPT ![r] = Goto(r, "closing")]
    <3>1. CASE ~q.guarded
      BY <2>1, <3>1
    <3>2. CASE q.guarded /\ q.spare
      BY <2>1, <3>2
    <3>3. CASE q.guarded /\ ~q.spare
      BY <2>1, <3>3
    <3> QED  BY <3>1, <3>2, <3>3
  <2> QED  BY <1>3, <1>5, <1>6, <2>1, <2>2
<1>9. CASE TierRefuses(r) \/ \E refused \in BOOLEAN : TierSkipped(r, refused)
  <2>1. /\ q.pc = "tiers"
        /\ \/ req' = [req EXCEPT ![r] = IF q.guarded THEN NextTier(q) ELSE Ended(q)]
           \/ req' = [req EXCEPT ![r] = NextTier(q)]
    <3>1. CASE TierRefuses(r)
      BY <3>1 DEF TierRefuses, Step, TierRefused
    <3>2. CASE TierSkipped(r, TRUE)
      BY <3>2 DEF TierSkipped, Step, TierRefused
    <3>3. CASE TierSkipped(r, FALSE)
      BY <3>3 DEF TierSkipped, Step
    <3> QED  BY <1>9, <3>1, <3>2, <3>3
  <2>2. CASE q.guarded
    BY <1>4, <2>1, <2>2
  <2>3. CASE ~q.guarded
    BY <1>3, <1>4, <2>1, <2>3
  <2> QED  BY <2>2, <2>3
<1> QED  BY <1>7, <1>8, <1>9

(***************************************************************************)
(* Counting steps.                                                         *)
(***************************************************************************)

LEMMA GatedSame ==
  ASSUME NEW q, NEW z, NEW h, NEW l, Gated(q, h), z.memo = q.memo, z.shut = q.shut,
         q.pc # "done",
         \A g \in GateSet, k \in Kinds, b \in Buckets : l[<<g, k, b>>] = h[<<g, k, b>>]
  PROVE  Gated(z, l)
BY DEF Gated

\* A request is counted for a model, and marked.
LEMMA MarksModel ==
  ASSUME IInv, NEW r \in Requests, NEW s \in Models, NEW z, Passes(r, s),
         req' = [req EXCEPT ![r] = z], UNCHANGED <<now, tokens>>, Typed(z), Sensible(z),
         z.marks = [req[r].marks EXCEPT ![s] = Append(@, now)],
         z.anchor = req[r].anchor, z.billed = req[r].billed, z.memo = req[r].memo,
         z.shut = req[r].shut, z.unsent = req[r].unsent,
         z.gone = req[r].gone, req[r].pc # "done", z.pc # "done", ~z.answered,
         KeyCounted(z) <=> KeyCounted(req[r])
  PROVE  IInv'
<1> DEFINE q == req[r]
           W == WindowsOf(s, now)
<1>1. Good(q, held[r], missed, outages) /\ now \in 0 .. MaxTime /\ held[r] \in [Windows -> Nat]
  BY GoodParts DEF IInv
<1>2. Counters' /\ CountsUp(r, W)
  BY PassCounts, Scoping DEF IInv
<1>3. W \subseteq Windows /\ \A w \in W : w[1] = s
  BY <1>1, WindowsOfType, Scoping
<1>4. /\ \A w \in Windows : w[1] # s => held'[r][w] = held[r][w]
      /\ missed \subseteq missed' /\ missed' \subseteq Windows
  BY <1>2, <1>3 DEF CountsUp, Counters
<1>5. Remembers(z, held'[r], missed')
  <2> SUFFICES ASSUME ~z.gone
               PROVE  /\ \A o \in Models : \A w \in Windows \ missed' :
                           w[1] = o => held'[r][w] = Cardinality(Marked(o, z.marks[o], w))
                      /\ \A w \in Windows \ missed' :
                           w[1] = Key => held'[r][w] = IF KeyCounted(z) /\ w \in WindowsOf(Key, z.anchor)
                                                      THEN 1 ELSE 0
    BY DEF Remembers
  <2>1. ASSUME NEW o \in Models, NEW w \in Windows \ missed', w[1] = o
        PROVE  held'[r][w] = Cardinality(Marked(o, z.marks[o], w))
    <3>1. held[r][w] = Cardinality(Marked(o, q.marks[o], w))
      BY <1>1, <1>4, <2>1 DEF Good, Remembers
    <3>2. q.marks \in [Models -> Seq(0 .. MaxTime)]
      BY <1>1 DEF Good, Typed
    <3>3. CASE o = s
      <4>1. z.marks[o] = Append(q.marks[o], now) /\ q.marks[o] \in Seq(0 .. MaxTime)
        BY <3>2, <3>3
      <4>2. held'[r][w] = IF w \in W THEN held[r][w] + 1 ELSE held[r][w]
        BY <1>2 DEF CountsUp
      <4>3. Cardinality(Marked(o, z.marks[o], w)) =
              IF w \in W THEN Cardinality(Marked(o, q.marks[o], w)) + 1
                         ELSE Cardinality(Marked(o, q.marks[o], w))
        BY <1>1, <3>3, <4>1, MarkedAppend
      <4> QED  BY <3>1, <4>2, <4>3
    <3>4. CASE o # s
      <4>1. z.marks[o] = q.marks[o]
        BY <3>2, <3>4
      <4> QED  BY <1>4, <2>1, <3>1, <3>4, <4>1
    <3> QED  BY <3>3, <3>4
  <2>2. ASSUME NEW w \in Windows \ missed', w[1] = Key
        PROVE  held'[r][w] = IF KeyCounted(z) /\ w \in WindowsOf(Key, z.anchor) THEN 1 ELSE 0
    <3>1. held[r][w] = IF KeyCounted(q) /\ w \in WindowsOf(Key, q.anchor) THEN 1 ELSE 0
      BY <1>1, <1>4, <2>2 DEF Good, Remembers
    <3>2. w[1] # s
      BY <2>2, Scoping
    <3> QED  BY <1>4, <3>1, <3>2
  <2> QED  BY <2>1, <2>2
<1>6. Gated(z, held'[r])
  <2>1. \A g \in GateSet, k \in Kinds, b \in Buckets : held'[r][<<g, k, b>>] = held[r][<<g, k, b>>]
    BY <1>4, Scoping DEF Windows
  <2>2. Gated(q, held[r]) /\ z.memo = q.memo /\ z.shut = q.shut /\ q.pc # "done"
    BY <1>1 DEF Good
  <2> QED  BY <2>1, <2>2, GatedSame
<1>7. Charged(z, held'[r], missed') /\ Paid(z, outages')
  BY <1>1 DEF Charged, Paid, Good
<1>8. Recorded'
  BY RecordedSame
<1> QED  BY <1>2, <1>5, <1>6, <1>7, <1>8, StepGood DEF CountsUp, Good

LEMMA ModelPassesGood ==
  ASSUME IInv, NEW r \in Requests, ModelPasses(r) \/ TierPasses(r) PROVE IInv'
<1> DEFINE q == req[r]
<1>1. Typed(q) /\ Sensible(q) /\ Paid(q, outages) /\ now \in 0 .. MaxTime
  BY GoodParts DEF IInv, Good
<1>2. CASE ModelPasses(r)
  <2> DEFINE z == [q EXCEPT !.pc = "tokens", !.marks[Model] = Append(@, now)]
  <2>1. /\ DOMAIN z = Fields /\ z.marks = [q.marks EXCEPT ![Model] = Append(@, now)]
        /\ z.anchor = q.anchor /\ z.billed = q.billed /\ z.memo = q.memo /\ z.gone = q.gone
        /\ z.shut = q.shut /\ z.unsent = q.unsent
        /\ z.pc = "tokens" /\ z.model = q.model /\ z.tier = q.tier /\ z.tried = q.tried
        /\ z.guarded = q.guarded /\ z.answered = q.answered
    BY <1>1 DEF Typed, Fields
  <2>2. q.pc = "model" /\ Passes(r, Model) /\ UNCHANGED <<now, tokens>>
    BY <1>2 DEF ModelPasses, Step
  <2>3. req' = [req EXCEPT ![r] = z]
    BY <1>2 DEF ModelPasses, Step
  <2> HIDE DEF z
  <2>4. z.marks \in [Models -> Seq(0 .. MaxTime)] /\ \A s \in Models \ {Model} : z.marks[s] = q.marks[s]
    <3>1. q.marks \in [Models -> Seq(0 .. MaxTime)]
      BY <1>1 DEF Typed
    <3>2. Append(q.marks[Model], now) \in Seq(0 .. MaxTime)
      BY <1>1, <3>1, Scoping
    <3> QED  BY <2>1, <3>1, <3>2
  <2>5. Typed(z)
    BY <1>1, <2>1, <2>4 DEF Typed, PCs
  <2>6. Sensible(z)
    BY <1>1, <2>1, <2>2, <2>4 DEF Sensible
  <2>7. (KeyCounted(z) <=> KeyCounted(q)) /\ ~z.answered
    BY <1>1, <2>1, <2>2 DEF KeyCounted, Paid
  <2> QED  BY <2>1, <2>2, <2>3, <2>5, <2>6, <2>7, MarksModel, Scoping
<1>3. CASE TierPasses(r)
  <2> DEFINE m == TierModel(r)
             z == [q EXCEPT !.pc = "tier_checks", !.marks[m] = Append(@, now)]
  <2>1. /\ DOMAIN z = Fields /\ z.marks = [q.marks EXCEPT ![m] = Append(@, now)]
        /\ z.anchor = q.anchor /\ z.billed = q.billed /\ z.memo = q.memo /\ z.gone = q.gone
        /\ z.shut = q.shut /\ z.unsent = q.unsent
        /\ z.pc = "tier_checks" /\ z.model = q.model /\ z.tier = q.tier /\ z.tried = q.tried
        /\ z.guarded = q.guarded /\ z.answered = q.answered
    BY <1>1 DEF Typed, Fields
  <2>2. q.pc = "tiers" /\ Passes(r, m) /\ UNCHANGED <<now, tokens>>
    BY <1>3 DEF TierPasses, Step
  <2>3. req' = [req EXCEPT ![r] = z]
    BY <1>3 DEF TierPasses, Step
  <2>4. m \in Models /\ m = Tiers[q.tier] /\ q.tier <= Len(Tiers)
    BY <1>1, <1>3, TierType DEF TierPasses, HasTier, TierModel
  <2> HIDE DEF z, m
  <2>5. /\ z.marks \in [Models -> Seq(0 .. MaxTime)]
        /\ \A s \in Models \ {m} : z.marks[s] = q.marks[s]
        /\ z.marks[m] = Append(q.marks[m], now) /\ q.marks[m] \in Seq(0 .. MaxTime)
    BY <1>1, <2>1, <2>4 DEF Typed
  <2>6. Typed(z)
    BY <1>1, <2>1, <2>5 DEF Typed, PCs
  <2>7. z.marks[m] # <<>> /\ (q.marks[m] = <<>> => Tail(z.marks[m]) = <<>>)
    BY <2>5
  <2>8. Sensible(z)
    <3>1. \A s \in Models \ (q.tried \cup {Model}) : q.marks[s] = <<>>
      BY <1>1, <2>2 DEF Sensible
    <3>2. \A s \in Models \ (z.tried \cup {Model}) : z.marks[s] # <<>> =>
            s = m /\ Tail(z.marks[s]) = <<>>
      BY <2>1, <2>5, <2>7, <3>1
    <3> QED  BY <1>1, <2>1, <2>2, <2>4, <2>7, <3>2 DEF Sensible
  <2>9. (KeyCounted(z) <=> KeyCounted(q)) /\ ~z.answered
    BY <1>1, <2>1, <2>2 DEF KeyCounted, Paid
  <2> QED  BY <2>1, <2>2, <2>3, <2>4, <2>6, <2>8, <2>9, MarksModel
<1> QED  BY <1>2, <1>3

LEMMA LimitPassesGood ==
  ASSUME IInv, NEW r \in Requests, LimitPasses(r) PROVE IInv'
<1> DEFINE q == req[r]
           W == WindowsOf(Key, now)
           z == [q EXCEPT !.pc = "model", !.anchor = now, !.guarded = TRUE]
<1>1. /\ Good(q, held[r], missed, outages) /\ Typed(q) /\ Sensible(q)
      /\ now \in 0 .. MaxTime /\ held[r] \in [Windows -> Nat]
  BY GoodParts DEF IInv, Good
<1>2. q.pc = "arrives" /\ req' = [req EXCEPT ![r] = z] /\ Passes(r, Key) /\ UNCHANGED <<now, tokens>>
  BY DEF LimitPasses, Step
<1>3. /\ DOMAIN z = Fields /\ z.pc = "model" /\ z.anchor = now /\ z.guarded = TRUE
      /\ z.marks = q.marks /\ z.memo = q.memo /\ z.billed = q.billed /\ z.gone = q.gone
      /\ z.shut = q.shut /\ z.unsent = q.unsent
      /\ z.model = q.model /\ z.tier = q.tier /\ z.tried = q.tried /\ z.answered = q.answered
  BY <1>1 DEF Typed, Fields
<1> HIDE DEF z
<1>4. Counters' /\ CountsUp(r, W)
  BY <1>2, PassCounts, Scoping DEF IInv
<1>5. W \subseteq Windows /\ \A w \in W : w[1] = Key
  BY <1>1, WindowsOfType, Scoping
<1>6. /\ \A w \in Windows : w[1] # Key => held'[r][w] = held[r][w]
      /\ missed \subseteq missed' /\ missed' \subseteq Windows
  BY <1>4, <1>5 DEF CountsUp, Counters
<1>7. Typed(z)
  BY <1>1, <1>3 DEF Typed, PCs
<1>8. Sensible(z)
  BY <1>1, <1>2, <1>3 DEF Sensible
<1>9. Remembers(z, held'[r], missed')
  <2> SUFFICES ASSUME ~z.gone
               PROVE  /\ \A o \in Models : \A w \in Windows \ missed' :
                           w[1] = o => held'[r][w] = Cardinality(Marked(o, z.marks[o], w))
                      /\ \A w \in Windows \ missed' :
                           w[1] = Key => held'[r][w] = IF KeyCounted(z) /\ w \in WindowsOf(Key, z.anchor)
                                                      THEN 1 ELSE 0
    BY DEF Remembers
  <2>1. ASSUME NEW o \in Models, NEW w \in Windows \ missed', w[1] = o
        PROVE  held'[r][w] = Cardinality(Marked(o, z.marks[o], w))
    <3>1. held[r][w] = Cardinality(Marked(o, q.marks[o], w))
      BY <1>1, <1>2, <1>3, <1>6, <2>1 DEF Good, Remembers
    <3>2. w[1] # Key
      BY <2>1, Scoping
    <3> QED  BY <1>3, <1>6, <3>1, <3>2
  <2>2. ASSUME NEW w \in Windows \ missed', w[1] = Key
        PROVE  held'[r][w] = IF KeyCounted(z) /\ w \in WindowsOf(Key, z.anchor) THEN 1 ELSE 0
    <3>1. held[r][w] = 0
      BY <1>1, <1>2, <1>3, <1>6, <2>2 DEF Good, Remembers, KeyCounted
    <3>2. held'[r][w] = IF w \in W THEN held[r][w] + 1 ELSE held[r][w]
      BY <1>3, <1>4 DEF CountsUp
    <3> QED  BY <1>3, <3>1, <3>2 DEF KeyCounted
  <2> QED  BY <2>1, <2>2
<1>10. Gated(z, held'[r])
  <2>1. \A g \in GateSet, k \in Kinds, b \in Buckets : held'[r][<<g, k, b>>] = held[r][<<g, k, b>>]
    BY <1>6, Scoping DEF Windows
  <2>2. Gated(q, held[r]) /\ q.pc # "done"
    BY <1>1, <1>2 DEF Good
  <2> QED  BY <1>3, <2>1, <2>2, GatedSame
<1>11. Charged(z, held'[r], missed') /\ Paid(z, outages')
  BY <1>1, <1>2, <1>3 DEF Charged, Paid, Good
<1>12. Recorded'
  BY <1>2, <1>3, RecordedSame
<1> QED  BY <1>2, <1>4, <1>7, <1>8, <1>9, <1>10, <1>11, <1>12, StepGood DEF CountsUp, Good

\* A gate that has not admitted the request, and no longer refuses it, counts it in
\* windows of now: what it counted before is over, and was shut.
LEMMA GateCounts ==
  ASSUME IInv, NEW r \in Requests, NEW g \in GateSet, Passes(r, g), UNCHANGED now,
         req[r].pc # "done", ~Admitted(r, g), ~Refusing(r, g)
  PROVE  /\ Counters' /\ CountsUp(r, WindowsOf(g, now))
         /\ missed \subseteq missed' /\ missed' \subseteq Windows
         /\ \A w \in Windows : w[1] # g => held'[r][w] = held[r][w]
         /\ \A k \in Kinds, b \in Buckets :
              /\ held'[r][<<g, k, b>>] <= 1
              /\ held'[r][<<g, k, b>>] > 0 =>
                   \/ <<g, k, b>> \in WindowsOf(g, now)
                   \/ <<g, k, b>> \in req[r].shut /\ ResetAt(<<g, k, b>>) <= now
<1> DEFINE q == req[r]
           W == WindowsOf(g, now)
<1>1. /\ Gated(q, held[r]) /\ Typed(q) /\ now \in 0 .. MaxTime /\ held[r] \in [Windows -> Nat]
  BY GoodParts DEF IInv, Good
<1>2. g \in Scopes
  BY Scoping
<1>3. Counters' /\ CountsUp(r, W)
  BY <1>2, PassCounts DEF IInv
<1>4. W \subseteq Windows /\ \A w \in W : w[1] = g /\ ResetAt(w) \in Nat /\ ResetAt(w) > now
  BY <1>1, <1>2, WindowsOfType, WindowsLast
<1>5. \A w \in Windows : w[1] # g => held'[r][w] = held[r][w]
  BY <1>3, <1>4 DEF CountsUp
<1>6. ASSUME NEW k \in Kinds, NEW b \in Buckets
      PROVE  /\ held'[r][<<g, k, b>>] <= 1
             /\ held'[r][<<g, k, b>>] > 0 =>
                  \/ <<g, k, b>> \in W
                  \/ <<g, k, b>> \in q.shut /\ ResetAt(<<g, k, b>>) <= now
  <2> DEFINE w == <<g, k, b>>
  <2>1. /\ w \in Windows /\ held[r][w] \in Nat /\ held[r][w] <= 1
    BY <1>1, <1>2 DEF Windows, Gated
  <2>2. ResetAt(w) \in Int
    BY <1>2, Bounds DEF ResetAt, Buckets
  <2>3. held[r][w] > 0 => w \in q.shut /\ ResetAt(w) <= now
    <3>1. held[r][w] > 0 =>
            w \in q.shut /\ q.memo[g].is = "full" /\ ResetAt(w) <= q.memo[g].until
      BY <1>1 DEF Gated, Admitted
    <3>2. q.memo[g].is = "full" => ~(now < q.memo[g].until)
      BY DEF Refusing
    <3>3. q.memo[g].until \in Nat /\ now \in Int
      BY <1>1 DEF Typed
    <3> QED  BY <2>2, <3>1, <3>2, <3>3
  <2>4. CASE w \in W
    <3>1. held[r][w] = 0
      BY <1>1, <1>4, <2>1, <2>2, <2>3, <2>4
    <3>2. held'[r][w] \in {held[r][w], held[r][w] + 1}
      BY <1>3, <2>4 DEF CountsUp
    <3> QED  BY <2>4, <3>1, <3>2
  <2>5. CASE w \notin W
    <3>1. held'[r][w] = held[r][w]
      BY <1>3, <2>1, <2>5 DEF CountsUp
    <3> QED  BY <2>1, <2>3, <2>5, <3>1
  <2> QED  BY <2>4, <2>5
<1>7. missed \subseteq missed' /\ missed' \subseteq Windows
  BY <1>3 DEF CountsUp, Counters
<1> QED  BY <1>3, <1>5, <1>6, <1>7

\* The answer of gate g is remembered anew, in z for q; what the gates counted, l
\* for h, is at most one more in the windows W of g.
Anew(z, q, g, W, l, h) ==
  /\ q.shut \subseteq z.shut /\ \A o \in GateSet \ {g} : z.memo[o] = q.memo[o]
  /\ \A k \in Kinds, b, c \in Buckets : <<g, k, b>> \in W /\ <<g, k, c>> \in W => b = c
  /\ \A o \in GateSet \ {g}, k \in Kinds, b \in Buckets : l[<<o, k, b>>] = h[<<o, k, b>>]
  /\ \A k \in Kinds, b \in Buckets :
       /\ l[<<g, k, b>>] <= 1
       /\ l[<<g, k, b>>] > 0 => <<g, k, b>> \in W \cup q.shut
       /\ l[<<g, k, b>>] > 0 /\ z.memo[g].is # "pass" =>
            /\ <<g, k, b>> \in z.shut /\ z.memo[g].is = "full"
            /\ ResetAt(<<g, k, b>>) <= z.memo[g].until

LEMMA GatedAnew ==
  ASSUME NEW q, NEW z, NEW g \in GateSet, NEW W, NEW h, NEW l,
         Gated(q, h), q.pc # "done", Anew(z, q, g, W, l, h)
  PROVE  Gated(z, l)
<1> SUFFICES ASSUME NEW o \in GateSet, NEW k \in Kinds
             PROVE  /\ \A b \in Buckets : l[<<o, k, b>>] <= 1
                    /\ \A b, c \in Buckets : b # c /\ l[<<o, k, b>>] > 0 /\ l[<<o, k, c>>] > 0 =>
                         <<o, k, b>> \in z.shut \/ <<o, k, c>> \in z.shut
                    /\ z.pc # "done" /\ z.memo[o].is # "pass" =>
                         \A b \in Buckets : l[<<o, k, b>>] > 0 =>
                           /\ <<o, k, b>> \in z.shut /\ z.memo[o].is = "full"
                           /\ ResetAt(<<o, k, b>>) <= z.memo[o].until
  BY DEF Gated
<1>1. CASE o = g
  <2>1. \A b \in Buckets : l[<<g, k, b>>] > 0 => <<g, k, b>> \in W \/ <<g, k, b>> \in z.shut
    BY DEF Anew
  <2>2. ASSUME NEW b \in Buckets, NEW c \in Buckets, b # c, l[<<g, k, b>>] > 0, l[<<g, k, c>>] > 0
        PROVE  <<g, k, b>> \in z.shut \/ <<g, k, c>> \in z.shut
    BY <2>1, <2>2 DEF Anew
  <2> QED  BY <1>1, <2>2 DEF Anew
<1>2. CASE o # g
  <2>1. \A b \in Buckets : l[<<o, k, b>>] = h[<<o, k, b>>]
    BY <1>2 DEF Anew
  <2>2. z.memo[o] = q.memo[o] /\ q.shut \subseteq z.shut
    BY <1>2 DEF Anew
  <2> QED  BY <2>1, <2>2 DEF Gated
<1> QED  BY <1>1, <1>2

\* A gate's answer is remembered, and nothing else of the handler changes.
Recalls(z, q, g, m) ==
  /\ DOMAIN z = Fields /\ z.pc = q.pc /\ z.anchor = q.anchor /\ z.guarded = q.guarded
  /\ z.marks = q.marks /\ z.billed = q.billed /\ z.unsent = q.unsent /\ z.gone = q.gone
  /\ z.model = q.model /\ z.tier = q.tier /\ z.tried = q.tried /\ z.answered = q.answered
  /\ DOMAIN z.memo = GateSet /\ \A o \in GateSet \ {g} : z.memo[o] = q.memo[o]
  /\ z.memo[g] = m

\* A gate counts the request, if the call does not fail, and its answer is
\* remembered: an admission, or a refusal that outlasts what it counted.
LEMMA GateCounted ==
  ASSUME IInv, NEW r \in Requests, NEW g \in GateSet, Passes(r, g), UNCHANGED <<now, tokens>>,
         req[r].pc = "attempt", ~Admitted(r, g), ~Refusing(r, g),
         NEW z, req' = [req EXCEPT ![r] = z], NEW m, Recalls(z, req[r], g, m), m.until \in Nat,
         \/ m.is = "pass" /\ z.shut = req[r].shut
         \/ /\ m.is = "full" /\ m.until > now /\ z.shut = req[r].shut \cup WindowsOf(g, now)
            /\ \A w \in WindowsOf(g, now) : ResetAt(w) <= m.until
  PROVE  IInv'
<1> DEFINE q == req[r]
           W == WindowsOf(g, now)
<1>1. /\ Good(q, held[r], missed, outages) /\ Typed(q) /\ Sensible(q) /\ Gated(q, held[r])
      /\ now \in 0 .. MaxTime /\ held[r] \in [Windows -> Nat]
  BY GoodParts DEF IInv, Good
<1>2. /\ Counters' /\ CountsUp(r, W) /\ missed \subseteq missed' /\ missed' \subseteq Windows
      /\ \A w \in Windows : w[1] # g => held'[r][w] = held[r][w]
  BY GateCounts
<1>3. \A k \in Kinds, b \in Buckets :
        /\ held'[r][<<g, k, b>>] <= 1
        /\ held'[r][<<g, k, b>>] > 0 =>
             \/ <<g, k, b>> \in W
             \/ <<g, k, b>> \in q.shut /\ ResetAt(<<g, k, b>>) <= now
  BY GateCounts
<1>4. g \in Scopes /\ g # Key /\ g \notin Models
  BY Scoping
<1>5. Typed(z) /\ Sensible(z)
  <2>1. \A o \in GateSet : z.memo[o].until \in Nat
    BY <1>1 DEF Typed, Recalls
  <2> QED  BY <1>1, <2>1 DEF Typed, Sensible, Recalls
<1>6. Remembers(z, held'[r], missed')
  BY <1>1, <1>2, <1>4 DEF Good, Remembers, KeyCounted, Recalls
<1>7. Gated(z, held'[r])
  <2>1. \A k \in Kinds, b, c \in Buckets : <<g, k, b>> \in W /\ <<g, k, c>> \in W => b = c
    BY <1>1, <1>4, WindowsOfType
  <2>2. \A o \in GateSet \ {g}, k \in Kinds, b \in Buckets :
          held'[r][<<o, k, b>>] = held[r][<<o, k, b>>]
    BY <1>2, Scoping DEF Windows
  <2>3. ASSUME NEW k \in Kinds, NEW b \in Buckets, held'[r][<<g, k, b>>] > 0,
               z.memo[g].is # "pass"
        PROVE  /\ <<g, k, b>> \in z.shut /\ z.memo[g].is = "full"
               /\ ResetAt(<<g, k, b>>) <= z.memo[g].until
    <3>1. /\ z.memo[g].is = "full" /\ z.memo[g].until > now /\ z.shut = q.shut \cup W
          /\ \A w \in W : ResetAt(w) <= z.memo[g].until
      BY <2>3 DEF Recalls
    <3>2. ResetAt(<<g, k, b>>) \in Int /\ now \in Int /\ z.memo[g].until \in Nat
      BY <1>1, <1>5, Bounds DEF ResetAt, Buckets, Typed
    <3>3. <<g, k, b>> \in W \/ (<<g, k, b>> \in q.shut /\ ResetAt(<<g, k, b>>) <= now)
      BY <1>3, <2>3
    <3> QED  BY <3>1, <3>2, <3>3
  <2>4. \A k \in Kinds, b \in Buckets : held'[r][<<g, k, b>>] > 0 => <<g, k, b>> \in W \cup q.shut
    BY <1>3
  <2>5. \A k \in Kinds, b \in Buckets :
          /\ held'[r][<<g, k, b>>] <= 1
          /\ held'[r][<<g, k, b>>] > 0 => <<g, k, b>> \in W \cup q.shut
          /\ held'[r][<<g, k, b>>] > 0 /\ z.memo[g].is # "pass" =>
               /\ <<g, k, b>> \in z.shut /\ z.memo[g].is = "full"
               /\ ResetAt(<<g, k, b>>) <= z.memo[g].until
    BY <1>3, <2>3, <2>4
  <2>6. /\ q.pc # "done" /\ q.shut \subseteq z.shut
        /\ \A o \in GateSet \ {g} : z.memo[o] = q.memo[o]
    BY DEF Recalls
  <2>7. Anew(z, q, g, W, held'[r], held[r])
    BY <2>1, <2>2, <2>5, <2>6 DEF Anew
  <2> HIDE DEF W
  <2> QED  BY <1>1, <2>6, <2>7, GatedAnew
<1>8. Charged(z, held'[r], missed') /\ Paid(z, outages')
  BY <1>1 DEF Charged, Paid, Good, Recalls
<1>9. Recorded'
  BY RecordedSame DEF Recalls
<1> QED  BY <1>2, <1>5, <1>6, <1>7, <1>8, <1>9, StepGood DEF CountsUp, Good

\* A gate of the provider admits the request: it counts once.
LEMMA GatePassesGood ==
  ASSUME IInv, NEW r \in Requests, NEW i \in DOMAIN Gates, GatePasses(r, i) PROVE IInv'
<1> DEFINE q == req[r]
           g == Gates[i]
           m == [is |-> "pass", until |-> 0]
           z == [q EXCEPT !.memo[g] = m]
<1>1. Typed(q)
  BY DEF IInv, Good
<1>2. /\ q.pc = "attempt" /\ req' = [req EXCEPT ![r] = z] /\ Passes(r, g)
      /\ UNCHANGED <<now, tokens>> /\ ~Admitted(r, g) /\ ~Refusing(r, g)
  BY DEF GatePasses, Step, AtGate
<1>3. /\ DOMAIN z = Fields /\ z.pc = q.pc /\ z.anchor = q.anchor /\ z.guarded = q.guarded
      /\ z.marks = q.marks /\ z.billed = q.billed /\ z.unsent = q.unsent /\ z.gone = q.gone
      /\ z.model = q.model /\ z.tier = q.tier /\ z.tried = q.tried /\ z.answered = q.answered
      /\ z.shut = q.shut /\ z.memo = [q.memo EXCEPT ![g] = m]
  BY <1>1 DEF Typed, Fields
<1>4. g \in GateSet
  BY Scoping
<1>5. m.is = "pass" /\ m.until \in Nat
  OBVIOUS
<1> HIDE DEF z, g, m
<1>6. Recalls(z, q, g, m)
  BY <1>1, <1>3, <1>4 DEF Typed, Recalls
<1> QED  BY <1>2, <1>3, <1>4, <1>5, <1>6, GateCounted

\* The column counts it and refuses it for its tokens: what it counted is shut, and
\* over when the refusal is forgotten, as both limits have the same windows.
LEMMA GateShutsGood ==
  ASSUME IInv, NEW r \in Requests, NEW i \in DOMAIN Gates, GateShuts(r, i) PROVE IInv'
<1> DEFINE q == req[r]
           g == Gates[i]
           W == WindowsOf(g, now)
           until == (now \div TokenWidth + 1) * TokenWidth
           m == [is |-> "full", until |-> until]
           z == [Attempted(r) EXCEPT !.memo[g] = m, !.shut = @ \cup W]
<1>1. Typed(q) /\ now \in 0 .. MaxTime
  BY GoodParts DEF IInv, Good
<1>2. /\ q.pc = "attempt" /\ req' = [req EXCEPT ![r] = z] /\ Passes(r, g) /\ g \in Metered
      /\ UNCHANGED <<now, tokens>> /\ ~Admitted(r, g) /\ ~Refusing(r, g)
  BY DEF GateShuts, Step, AtGate
<1>3. g \in GateSet
  BY Scoping
<1>4. until \in Nat /\ until > now
  <2>1. \A n \in Nat, d \in Nat \ {0} : (n \div d + 1) * d \in Nat /\ (n \div d + 1) * d > n
    OBVIOUS
  <2> QED  BY <1>1, <2>1, Bounds
<1>5. \A w \in W : ResetAt(w) = until
  <2> SUFFICES ASSUME NEW w \in W PROVE ResetAt(w) = until
    OBVIOUS
  <2>1. PICK k \in Kinds : Limit[g][k] > 0 /\ w = <<g, k, now \div Width[k]>>
    BY DEF WindowsOf, WindowOf
  <2>2. Width[k] = TokenWidth
    BY <1>2, <2>1, MeteredAssumption
  <2> QED  BY <2>1, <2>2 DEF ResetAt
<1> HIDE DEF until, g, W
<1>6. /\ DOMAIN z = Fields /\ z.pc = q.pc /\ z.anchor = q.anchor /\ z.guarded = q.guarded
      /\ z.marks = q.marks /\ z.billed = q.billed /\ z.unsent = q.unsent /\ z.gone = q.gone
      /\ z.model = q.model /\ z.tier = q.tier /\ z.tried = q.tried /\ z.answered = q.answered
      /\ z.shut = q.shut \cup W /\ z.memo = [q.memo EXCEPT ![g] = m]
  BY <1>1 DEF Typed, Fields, Attempted
<1>7. m.is = "full" /\ m.until = until
  OBVIOUS
<1> HIDE DEF z, m
<1>8. Recalls(z, q, g, m)
  BY <1>1, <1>3, <1>6 DEF Typed, Recalls
<1>9. \A w \in W : ResetAt(w) <= m.until
  BY <1>4, <1>5, <1>7
<1> QED  BY <1>2, <1>3, <1>4, <1>6, <1>8, <1>9, <1>7, GateCounted DEF W

\* A full gate counts nothing, and its refusal outlasts one that it replaces.
LEMMA GateRefusesGood ==
  ASSUME IInv, NEW r \in Requests, NEW i \in DOMAIN Gates, GateRefuses(r, i) PROVE IInv'
<1> DEFINE q == req[r]
           g == Gates[i]
<1>1. /\ Good(q, held[r], missed, outages) /\ Typed(q) /\ Sensible(q) /\ Gated(q, held[r])
      /\ now \in 0 .. MaxTime /\ held[r] \in [Windows -> Nat]
  BY GoodParts DEF IInv, Good
<1>2. g \in GateSet /\ g \in Scopes
  BY Scoping
<1>3. PICK until \in Nat :
        /\ until > now
        /\ req' = [req EXCEPT ![r] = [Attempted(r) EXCEPT
                                        !.memo[g] = [is |-> "full", until |-> until]]]
  <2> DEFINE w == CHOOSE w \in WindowsOf(g, now) : ~Fits({w})
  <2>1. req' = [req EXCEPT ![r] = [Attempted(r) EXCEPT
                                     !.memo[g] = [is |-> "full", until |-> ResetAt(w)]]]
    BY DEF GateRefuses, Step
  <2>2. \E x \in WindowsOf(g, now) : ~Fits({x})
    BY DEF GateRefuses, Full, Fits
  <2>3. w \in WindowsOf(g, now)
    BY <2>2
  <2> HIDE DEF w
  <2>4. ResetAt(w) \in Nat /\ ResetAt(w) > now
    BY <1>1, <1>2, <2>3, WindowsLast
  <2> QED  BY <2>1, <2>4
<1> DEFINE z == [Attempted(r) EXCEPT !.memo[g] = [is |-> "full", until |-> until]]
<1>4. /\ q.pc = "attempt" /\ ~Admitted(r, g) /\ ~Refusing(r, g)
      /\ UNCHANGED <<now, tokens, counters>>
  BY DEF GateRefuses, Step, AtGate, Full
<1>5. /\ DOMAIN z = Fields /\ z.pc = q.pc /\ z.anchor = q.anchor /\ z.guarded = q.guarded
      /\ z.marks = q.marks /\ z.billed = q.billed /\ z.gone = q.gone
      /\ z.shut = q.shut /\ z.unsent = q.unsent
      /\ z.model = q.model /\ z.tier = q.tier /\ z.tried = q.tried /\ z.answered = q.answered
      /\ z.memo = [q.memo EXCEPT ![g] = [is |-> "full", until |-> until]]
  BY <1>1 DEF Typed, Fields, Attempted
<1>6. req' = [req EXCEPT ![r] = z]
  BY <1>3
<1> HIDE DEF z, g
<1>7. /\ DOMAIN z.memo = GateSet /\ \A o \in GateSet \ {g} : z.memo[o] = q.memo[o]
      /\ z.memo[g].is = "full" /\ z.memo[g].until = until
  BY <1>1, <1>2, <1>5 DEF Typed
<1>8. Typed(z) /\ Sensible(z)
  <2>1. \A o \in GateSet : z.memo[o].until \in Nat
    BY <1>1, <1>3, <1>7 DEF Typed
  <2> QED  BY <1>1, <1>5, <1>7, <2>1 DEF Typed, Sensible
<1>9. Gated(z, held[r])
  <2>1. ASSUME NEW k \in Kinds, NEW b \in Buckets, held[r][<<g, k, b>>] > 0
        PROVE  <<g, k, b>> \in q.shut /\ ResetAt(<<g, k, b>>) <= until
    <3>1. /\ <<g, k, b>> \in q.shut /\ q.memo[g].is = "full"
          /\ ResetAt(<<g, k, b>>) <= q.memo[g].until
      BY <1>1, <1>2, <1>4, <2>1 DEF Gated, Admitted
    <3>2. q.memo[g].until <= now
      BY <1>1, <1>2, <1>4, <3>1 DEF Refusing, Typed
    <3>3. ResetAt(<<g, k, b>>) \in Int /\ q.memo[g].until \in Nat
      BY <1>1, <1>2, Bounds DEF ResetAt, Buckets, Typed
    <3> QED  BY <1>1, <1>3, <3>1, <3>2, <3>3
  <2>2. \A k \in Kinds, b \in Buckets : held[r][<<g, k, b>>] <= 1
    BY <1>1, <1>2 DEF Gated
  <2>3. \A k \in Kinds, b, c \in Buckets :
          <<g, k, b>> \in WindowsOf(g, now) /\ <<g, k, c>> \in WindowsOf(g, now) => b = c
    BY <1>1, <1>2, WindowsOfType
  <2>4. \A k \in Kinds, b \in Buckets :
          held[r][<<g, k, b>>] > 0 => <<g, k, b>> \in WindowsOf(g, now) \cup q.shut
    BY <2>1
  <2>5. Anew(z, q, g, WindowsOf(g, now), held[r], held[r])
    BY <1>5, <1>7, <2>1, <2>2, <2>3, <2>4 DEF Anew
  <2> QED  BY <1>1, <1>2, <1>4, <2>5, GatedAnew
<1>10. Quiet
  BY <1>4 DEF Quiet, Up, counters
<1>11. /\ Counters' /\ missed' = missed /\ outages' \in Nat
       /\ outages <= outages' /\ missed' \subseteq Windows /\ held' = held
  BY <1>10, QuietCounts DEF IInv
<1>12. (KeyCounted(z) <=> KeyCounted(q)) /\ ~z.answered
  BY <1>1, <1>4, <1>5 DEF KeyCounted, Good, Paid
<1>13. Keeps(z, q)
  BY <1>4, <1>5, <1>7, <1>12 DEF Keeps
<1>14. Good(z, held'[r], missed', outages')
  BY <1>1, <1>8, <1>9, <1>11, <1>13, RunsOn
<1>15. Recorded'
  BY <1>4, <1>5, <1>6, RecordedSame
<1> QED  BY <1>6, <1>11, <1>14, <1>15, StepGood

(***************************************************************************)
(* Refunds.                                                                *)
(***************************************************************************)

\* A mark is claimed back: what is held is what the other marks say.
LEMMA ClaimsMark ==
  ASSUME IInv, NEW r \in Requests, NEW s \in Models, req[r].marks[s] # <<>>, req[r].pc # "done",
         Refund(r, s, Head(req[r].marks[s])), UNCHANGED now, NEW y, Typed(y),
         y.marks = [req[r].marks EXCEPT ![s] = Tail(@)], y.anchor = req[r].anchor,
         y.memo = req[r].memo, y.shut = req[r].shut, y.gone = req[r].gone, KeyCounted(y) <=> KeyCounted(req[r])
  PROVE  /\ Counters' /\ CountsDown(r, WindowsOf(s, Head(req[r].marks[s])))
         /\ Remembers(y, held'[r], missed') /\ Gated(y, held'[r])
<1> DEFINE q == req[r]
           t == Head(q.marks[s])
           W == WindowsOf(s, t)
<1>1. /\ Good(q, held[r], missed, outages) /\ held[r] \in [Windows -> Nat]
      /\ q.marks \in [Models -> Seq(0 .. MaxTime)]
  BY GoodParts DEF IInv, Good, Typed
<1>2. /\ t \in 0 .. MaxTime /\ q.marks[s] \in Seq(0 .. MaxTime)
      /\ Tail(q.marks[s]) \in Seq(0 .. MaxTime)
  <2>1. q.marks[s] \in Seq(0 .. MaxTime) /\ q.marks[s] # <<>>
    BY <1>1
  <2> QED  BY <2>1, ListParts
<1>3. W \subseteq Windows /\ \A w \in W : w[1] = s
  BY <1>2, WindowsOfType, Scoping
<1>4. ~q.gone => \A w \in W \ missed : held[r][w] > 0
  <2> SUFFICES ASSUME ~q.gone, NEW w \in W \ missed PROVE held[r][w] > 0
    OBVIOUS
  <2>1. held[r][w] = Cardinality(Marked(s, q.marks[s], w))
    BY <1>1, <1>3 DEF Good, Remembers
  <2>2. Cardinality(Marked(s, q.marks[s], w)) = Cardinality(Marked(s, Tail(q.marks[s]), w)) + 1
    BY <1>2, MarkedTail
  <2>3. Cardinality(Marked(s, Tail(q.marks[s]), w)) \in Nat
    BY <1>2, MarkedType
  <2> QED  BY <2>1, <2>2, <2>3
<1>5. Counters' /\ CountsDown(r, W)
  BY <1>2, <1>4, RefundCounts, Scoping DEF IInv
<1>6. /\ \A w \in Windows : w[1] # s => held'[r][w] = held[r][w]
      /\ missed \subseteq missed' /\ missed' \subseteq Windows
  BY <1>3, <1>5 DEF CountsDown, Counters
<1>7. Remembers(y, held'[r], missed')
  <2> SUFFICES ASSUME ~y.gone
               PROVE  /\ \A o \in Models : \A w \in Windows \ missed' :
                           w[1] = o => held'[r][w] = Cardinality(Marked(o, y.marks[o], w))
                      /\ \A w \in Windows \ missed' :
                           w[1] = Key => held'[r][w] = IF KeyCounted(y) /\ w \in WindowsOf(Key, y.anchor)
                                                      THEN 1 ELSE 0
    BY DEF Remembers
  <2>1. ASSUME NEW o \in Models, NEW w \in Windows \ missed', w[1] = o
        PROVE  held'[r][w] = Cardinality(Marked(o, y.marks[o], w))
    <3>1. held[r][w] = Cardinality(Marked(o, q.marks[o], w))
      BY <1>1, <1>6, <2>1 DEF Good, Remembers
    <3>2. CASE o = s
      <4>1. y.marks[o] = Tail(q.marks[o])
        BY <1>1, <3>2
      <4>2. held'[r][w] = IF w \in W THEN held[r][w] - 1 ELSE held[r][w]
        BY <1>5 DEF CountsDown
      <4>3. Cardinality(Marked(o, q.marks[o], w)) =
              IF w \in W THEN Cardinality(Marked(o, Tail(q.marks[o]), w)) + 1
                         ELSE Cardinality(Marked(o, Tail(q.marks[o]), w))
        BY <1>2, <3>2, MarkedTail
      <4>4. Cardinality(Marked(o, Tail(q.marks[o]), w)) \in Nat
        BY <1>2, <3>2, MarkedType
      <4> QED  BY <3>1, <4>1, <4>2, <4>3, <4>4
    <3>3. CASE o # s
      <4>1. y.marks[o] = q.marks[o]
        BY <1>1, <3>3
      <4> QED  BY <1>6, <2>1, <3>1, <3>3, <4>1
    <3> QED  BY <3>2, <3>3
  <2>2. ASSUME NEW w \in Windows \ missed', w[1] = Key
        PROVE  held'[r][w] = IF KeyCounted(y) /\ w \in WindowsOf(Key, y.anchor) THEN 1 ELSE 0
    <3>1. held[r][w] = IF KeyCounted(q) /\ w \in WindowsOf(Key, q.anchor) THEN 1 ELSE 0
      BY <1>1, <1>6, <2>2 DEF Good, Remembers
    <3>2. w[1] # s
      BY <2>2, Scoping
    <3> QED  BY <1>6, <3>1, <3>2
  <2> QED  BY <2>1, <2>2
<1>8. Gated(y, held'[r])
  <2>1. \A g \in GateSet, k \in Kinds, b \in Buckets : held'[r][<<g, k, b>>] = held[r][<<g, k, b>>]
    BY <1>6, Scoping DEF Windows
  <2>2. Gated(q, held[r])
    BY <1>1 DEF Good
  <2> QED  BY <2>1, <2>2, GatedSame
<1> QED  BY <1>5, <1>7, <1>8

\* tutup() claims a mark back.
LEMMA RefundMarkGood ==
  ASSUME IInv, NEW r \in Requests, NEW s \in Models, RefundMark(r, s) PROVE IInv'
<1> DEFINE q == req[r]
           z == [q EXCEPT !.marks[s] = Tail(@)]
<1>1. Good(q, held[r], missed, outages) /\ Typed(q) /\ Sensible(q)
  BY DEF IInv, Good
<1>2. /\ q.pc = "closing" /\ ~q.guarded /\ q.marks[s] # <<>> /\ UNCHANGED <<now, tokens>>
      /\ req' = [req EXCEPT ![r] = z] /\ Refund(r, s, Head(q.marks[s]))
  BY DEF RefundMark, Step
<1>3. /\ DOMAIN z = Fields /\ z.marks = [q.marks EXCEPT ![s] = Tail(@)]
      /\ z.anchor = q.anchor /\ z.billed = q.billed /\ z.memo = q.memo /\ z.gone = q.gone
      /\ z.shut = q.shut /\ z.unsent = q.unsent
      /\ z.pc = q.pc /\ z.model = q.model /\ z.tier = q.tier /\ z.tried = q.tried
      /\ z.guarded = q.guarded /\ z.answered = q.answered
  BY <1>1 DEF Typed, Fields
<1> HIDE DEF z
<1>4. /\ z.marks \in [Models -> Seq(0 .. MaxTime)]
      /\ \A o \in Models \ {s} : z.marks[o] = q.marks[o]
  <2>1. q.marks \in [Models -> Seq(0 .. MaxTime)]
    BY <1>1 DEF Typed
  <2>2. Tail(q.marks[s]) \in Seq(0 .. MaxTime)
    <3>1. q.marks[s] \in Seq(0 .. MaxTime) /\ q.marks[s] # <<>>
      BY <1>2, <2>1
    <3> QED  BY <3>1, ListParts
  <2> QED  BY <1>3, <2>1, <2>2
<1>5. Typed(z)
  BY <1>1, <1>3, <1>4 DEF Typed
<1>6. Sensible(z)
  BY <1>1, <1>2, <1>3, <1>4 DEF Sensible
<1>7. KeyCounted(z) <=> KeyCounted(q)
  BY <1>3 DEF KeyCounted
<1>8. /\ Counters' /\ CountsDown(r, WindowsOf(s, Head(q.marks[s])))
      /\ Remembers(z, held'[r], missed') /\ Gated(z, held'[r])
  BY <1>2, <1>3, <1>5, <1>7, ClaimsMark
<1>9. Charged(z, held'[r], missed') /\ Paid(z, outages')
  BY <1>1, <1>2, <1>3 DEF Charged, Paid, Good
<1>10. Recorded'
  BY <1>2, <1>3, RecordedSame
<1> QED  BY <1>2, <1>5, <1>6, <1>8, <1>9, <1>10, StepGood DEF CountsDown, Good

\* A tier is dropped after it was counted: its mark is claimed back, and the
\* handler goes on to the next tier or ends.
LEMMA TierDroppedGood ==
  ASSUME IInv, NEW r \in Requests, NEW refused \in BOOLEAN, TierDropped(r, refused) PROVE IInv'
<1> DEFINE q == req[r]
           s == TierModel(r)
           y == [q EXCEPT !.marks[s] = Tail(@)]
<1>1. Good(q, held[r], missed, outages) /\ Typed(q) /\ Sensible(q) /\ Paid(q, outages)
  BY DEF IInv, Good
<1>2. /\ q.pc = "tier_checks" /\ UNCHANGED <<now, tokens>> /\ Refund(r, s, Head(q.marks[s]))
      /\ req' = [req EXCEPT ![r] = IF refused THEN TierRefused(y) ELSE NextTier(y)]
  BY DEF TierDropped, Step
<1>3. /\ DOMAIN y = Fields /\ y.marks = [q.marks EXCEPT ![s] = Tail(@)]
      /\ y.anchor = q.anchor /\ y.billed = q.billed /\ y.memo = q.memo /\ y.gone = q.gone
      /\ y.shut = q.shut /\ y.unsent = q.unsent
      /\ y.pc = q.pc /\ y.model = q.model /\ y.tier = q.tier /\ y.tried = q.tried
      /\ y.guarded = q.guarded /\ y.answered = q.answered
  BY <1>1 DEF Typed, Fields
<1>4. s \in Models /\ s = Tiers[q.tier] /\ q.marks[s] # <<>>
  BY <1>1, <1>2, TierType DEF Sensible, HasTier, TierModel
<1> HIDE DEF y, s
<1>5. /\ y.marks \in [Models -> Seq(0 .. MaxTime)] /\ y.marks[s] = Tail(q.marks[s])
      /\ \A o \in Models \ {s} : y.marks[o] = q.marks[o]
  <2>1. q.marks \in [Models -> Seq(0 .. MaxTime)]
    BY <1>1 DEF Typed
  <2>2. Tail(q.marks[s]) \in Seq(0 .. MaxTime)
    <3>1. q.marks[s] \in Seq(0 .. MaxTime) /\ q.marks[s] # <<>>
      BY <1>4, <2>1
    <3> QED  BY <3>1, ListParts
  <2> QED  BY <1>3, <1>4, <2>1, <2>2
<1>6. Typed(y)
  BY <1>1, <1>3, <1>5 DEF Typed
<1>7. KeyCounted(y) <=> KeyCounted(q)
  BY <1>3 DEF KeyCounted
<1>8. /\ Counters' /\ CountsDown(r, WindowsOf(s, Head(q.marks[s])))
      /\ Remembers(y, held'[r], missed') /\ Gated(y, held'[r])
  BY <1>2, <1>3, <1>4, <1>6, <1>7, ClaimsMark
<1>9. \A o \in Models \ (q.tried \cup {Model}) : y.marks[o] = <<>>
  BY <1>1, <1>2, <1>4, <1>5 DEF Sensible
<1>10. ~q.answered /\ (q.guarded \/ q.tried # {}) /\ (q.guarded => q.tried = {})
  BY <1>1, <1>2 DEF Paid, Sensible
<1>11. CASE req' = [req EXCEPT ![r] = NextTier(y)]
  <2> DEFINE z == NextTier(y)
  <2>1. /\ Alike(z, y) /\ z.pc = "tiers" /\ z.gone = y.gone /\ z.model = y.model
        /\ z.tier = y.tier + 1 /\ z.tried = y.tried /\ z.guarded = y.guarded
        /\ z.answered = y.answered
    BY <1>3 DEF Fields, Alike, NextTier
  <2> HIDE DEF z
  <2>2. Typed(z)
    BY <1>6, <2>1 DEF Typed, Alike, PCs
  <2>3. Sensible(z)
    BY <1>3, <1>9, <1>10, <2>1 DEF Sensible, Alike
  <2>4. Remembers(z, held'[r], missed') /\ Gated(z, held'[r])
    BY <1>2, <1>3, <1>8, <2>1 DEF Remembers, Gated, Alike, KeyCounted
  <2>5. Charged(z, held'[r], missed') /\ Paid(z, outages')
    BY <1>1, <1>2, <1>3, <1>10, <2>1 DEF Charged, Paid, Alike
  <2>6. req' = [req EXCEPT ![r] = z]
    BY <1>11 DEF z
  <2>7. z.billed = q.billed
    BY <1>3, <2>1 DEF Alike
  <2>8. Recorded'
    BY <1>2, <2>6, <2>7, RecordedSame
  <2> QED  BY <1>8, <2>2, <2>3, <2>4, <2>5, <2>6, <2>8, StepGood DEF CountsDown, Good
<1>12. CASE ~q.guarded /\ req' = [req EXCEPT ![r] = Ended(y)]
  <2>1. held'[r] \in [Windows -> Nat] /\ missed' \subseteq Windows /\ outages' \in Nat
    BY <1>8, Bounds DEF Counters
  <2>2. Ending(y, held'[r], missed')
    <3> SUFFICES ASSUME ~y.gone, NEW w \in Windows \ missed', held'[r][w] > 0
                 PROVE  \/ w[1] \in {Key, Model} /\ y.tried # {}
                        \/ w[1] \in y.tried \cup GateSet
      BY DEF Ending
    <3>1. \/ w[1] = Key
          \/ w[1] \in Models /\ y.marks[w[1]] # <<>>
          \/ w[1] \in GateSet
      BY <1>2, <1>3, <1>6, <1>8, <2>1, HoldsMarks
    <3> QED  BY <1>3, <1>9, <1>10, <1>12, <3>1
  <2>3. Good(Ended(y), held'[r], missed', outages')
    BY <1>3, <1>6, <1>8, <1>10, <2>1, <2>2, Ends
  <2>4. Ended(y).billed = q.billed
    BY <1>3, <1>6, EndedType
  <2>5. Recorded'
    BY <1>2, <1>12, <2>4, RecordedSame
  <2> QED  BY <1>8, <1>12, <2>3, <2>5, StepGood DEF CountsDown
<1>13. \/ req' = [req EXCEPT ![r] = NextTier(y)]
       \/ ~q.guarded /\ req' = [req EXCEPT ![r] = Ended(y)]
  <2>1. TierRefused(y) = IF q.guarded THEN NextTier(y) ELSE Ended(y)
    BY <1>3 DEF TierRefused
  <2>2. CASE refused /\ ~q.guarded
    BY <1>2, <2>1, <2>2
  <2>3. CASE refused /\ q.guarded
    BY <1>2, <2>1, <2>3
  <2>4. CASE ~refused
    BY <1>2, <2>4
  <2> QED  BY <2>2, <2>3, <2>4
<1> QED  BY <1>11, <1>12, <1>13

\* tutup() gives back what was counted for the key.
LEMMA RefundKeyGood ==
  ASSUME IInv, NEW r \in Requests, RefundKey(r) PROVE IInv'
<1> DEFINE q == req[r]
           W == WindowsOf(Key, q.anchor)
           z == [q EXCEPT !.guarded = FALSE]
<1>1. /\ Good(q, held[r], missed, outages) /\ Typed(q) /\ Sensible(q)
      /\ held[r] \in [Windows -> Nat]
  BY GoodParts DEF IInv, Good
<1>2. /\ q.pc = "closing" /\ q.guarded /\ UNCHANGED <<now, tokens>>
      /\ req' = [req EXCEPT ![r] = z] /\ Refund(r, Key, q.anchor)
  BY DEF RefundKey, Step
<1>3. /\ DOMAIN z = Fields /\ z.marks = q.marks /\ z.anchor = q.anchor /\ z.billed = q.billed
      /\ z.shut = q.shut /\ z.unsent = q.unsent
      /\ z.memo = q.memo /\ z.gone = q.gone /\ z.pc = q.pc /\ z.model = q.model
      /\ z.tier = q.tier /\ z.tried = q.tried /\ z.answered = q.answered
      /\ z.guarded = FALSE
  BY <1>1 DEF Typed, Fields
<1> HIDE DEF z
<1>4. q.anchor \in 0 .. MaxTime
  BY <1>1 DEF Typed
<1>5. W \subseteq Windows /\ \A w \in W : w[1] = Key
  BY <1>4, WindowsOfType, Scoping
<1>6. KeyCounted(q) /\ ~KeyCounted(z)
  BY <1>2, <1>3 DEF KeyCounted
<1>7. ~q.gone => \A w \in W \ missed : held[r][w] = 1
  BY <1>1, <1>2, <1>5, <1>6 DEF Good, Remembers
<1>8. Counters' /\ CountsDown(r, W)
  <2>1. ~q.gone => \A w \in W \ missed : held[r][w] > 0
    BY <1>7
  <2> QED  BY <1>2, <1>4, <2>1, RefundCounts, Scoping DEF IInv
<1>9. /\ \A w \in Windows : w[1] # Key => held'[r][w] = held[r][w]
      /\ missed \subseteq missed' /\ missed' \subseteq Windows
  BY <1>5, <1>8 DEF CountsDown, Counters
<1>10. Typed(z) /\ Sensible(z)
  BY <1>1, <1>2, <1>3 DEF Typed, Sensible
<1>11. Remembers(z, held'[r], missed')
  <2> SUFFICES ASSUME ~z.gone
               PROVE  /\ \A o \in Models : \A w \in Windows \ missed' :
                           w[1] = o => held'[r][w] = Cardinality(Marked(o, z.marks[o], w))
                      /\ \A w \in Windows \ missed' : w[1] = Key => held'[r][w] = 0
    BY <1>6 DEF Remembers
  <2>1. ASSUME NEW o \in Models, NEW w \in Windows \ missed', w[1] = o
        PROVE  held'[r][w] = Cardinality(Marked(o, z.marks[o], w))
    <3>1. held[r][w] = Cardinality(Marked(o, q.marks[o], w))
      BY <1>1, <1>2, <1>3, <1>9, <2>1 DEF Good, Remembers
    <3>2. w[1] # Key
      BY <2>1, Scoping
    <3> QED  BY <1>3, <1>9, <3>1, <3>2
  <2>2. ASSUME NEW w \in Windows \ missed', w[1] = Key PROVE held'[r][w] = 0
    <3>1. held[r][w] = IF w \in W THEN 1 ELSE 0
      BY <1>1, <1>2, <1>3, <1>6, <1>9, <2>2 DEF Good, Remembers
    <3>2. held'[r][w] = IF w \in W THEN held[r][w] - 1 ELSE held[r][w]
      BY <1>3, <1>8 DEF CountsDown
    <3> QED  BY <3>1, <3>2
  <2> QED  BY <2>1, <2>2
<1>12. Gated(z, held'[r])
  <2>1. \A g \in GateSet, k \in Kinds, b \in Buckets : held'[r][<<g, k, b>>] = held[r][<<g, k, b>>]
    BY <1>9, Scoping DEF Windows
  <2>2. Gated(q, held[r]) /\ q.pc # "done"
    BY <1>1, <1>2 DEF Good
  <2> QED  BY <1>3, <2>1, <2>2, GatedSame
<1>13. Charged(z, held'[r], missed') /\ Paid(z, outages')
  BY <1>1, <1>2, <1>3 DEF Charged, Paid, Good
<1>14. Recorded'
  BY <1>2, <1>3, RecordedSame
<1> QED  BY <1>2, <1>8, <1>10, <1>11, <1>12, <1>13, <1>14, StepGood DEF CountsDown, Good

(***************************************************************************)
(* The end of an answer, and time.                                         *)
(***************************************************************************)

\* A request that was answered may end: what it is charged for was tried.
LEMMA AnsweredEnding ==
  ASSUME IInv, NEW r \in Requests, req[r].pc \in {"opening", "answered"}, NEW m, missed \subseteq m
  PROVE  Ending(req[r], held[r], m)
<1> DEFINE q == req[r]
<1>1. /\ Typed(q) /\ Sensible(q) /\ held[r] \in [Windows -> Nat] /\ Remembers(q, held[r], missed)
  BY GoodParts DEF IInv, Good
<1> SUFFICES ASSUME ~q.gone, NEW w \in Windows \ m, held[r][w] > 0
             PROVE  \/ w[1] \in {Key, Model} /\ q.tried # {}
                    \/ w[1] \in q.tried \cup GateSet
  BY DEF Ending
<1>2. \/ w[1] = Key
      \/ w[1] \in Models /\ q.marks[w[1]] # <<>>
      \/ w[1] \in GateSet
  BY <1>1, HoldsMarks
<1>3. q.tried # {} /\ \A s \in Models \ (q.tried \cup {Model}) : q.marks[s] = <<>>
  BY <1>1 DEF Sensible
<1> QED  BY <1>2, <1>3

\* gagalSiapkanSSE: the handler returns, and records nothing.
LEMMA PrepareFailsGood ==
  ASSUME IInv, NEW r \in Requests, PrepareFails(r) PROVE IInv'
<1> DEFINE q == req[r]
           y == [q EXCEPT !.unsent = TRUE]
<1>1. Typed(q) /\ Gated(q, held[r]) /\ Paid(q, outages)
  BY DEF IInv, Good
<1>2. /\ q.pc = "opening" /\ UNCHANGED <<now, tokens, counters>>
      /\ req' = [req EXCEPT ![r] = Ended(y)]
  BY DEF PrepareFails, Step
<1>3. /\ DOMAIN y = Fields /\ y.marks = q.marks /\ y.anchor = q.anchor /\ y.billed = q.billed
      /\ y.memo = q.memo /\ y.gone = q.gone /\ y.pc = q.pc /\ y.model = q.model
      /\ y.tier = q.tier /\ y.tried = q.tried /\ y.answered = q.answered
      /\ y.guarded = q.guarded /\ y.shut = q.shut /\ y.unsent = TRUE
  BY <1>1 DEF Typed, Fields
<1> HIDE DEF y
<1>4. Typed(y) /\ Gated(y, held[r]) /\ Ending(y, held[r], missed) /\ y.billed = {}
  <2>1. Ending(q, held[r], missed)
    BY <1>2, AnsweredEnding
  <2> QED  BY <1>1, <1>2, <1>3, <2>1 DEF Typed, Gated, Ending, Paid
<1>5. Quiet
  BY <1>2 DEF Quiet, Up, counters
<1>6. /\ Counters' /\ missed' = missed /\ outages' \in Nat
      /\ outages <= outages' /\ missed' \subseteq Windows /\ held' = held
  BY <1>5, QuietCounts DEF IInv
<1>7. Good(Ended(y), held'[r], missed', outages')
  BY <1>3, <1>4, <1>6, Ends
<1>8. Recorded'
  BY <1>2, <1>3, <1>4, EndedType, RecordedSame
<1> QED  BY <1>2, <1>6, <1>7, <1>8, StepGood

\* CatatToken: the window of now counts this answer, or the call fails.
LEMMA BillGood ==
  ASSUME IInv, NEW r \in Requests, Bill(r) PROVE IInv'
<1> DEFINE q == req[r]
           b == now \div TokenWidth
           y == [q EXCEPT !.billed = {b}]
<1>1. /\ Good(q, held[r], missed, outages) /\ Typed(q) /\ Sensible(q) /\ Gated(q, held[r])
      /\ held[r] \in [Windows -> Nat] /\ now \in 0 .. MaxTime /\ Remembers(q, held[r], missed)
  BY GoodParts DEF IInv, Good
<1>2. q.pc = "answered" /\ UNCHANGED <<now, count, held>> /\ q.billed = {} /\ ~q.unsent
  BY <1>1 DEF Bill, Step, Good, Paid
<1>3. b \in Buckets
  BY <1>1, Divided, Bounds
<1>4. \A m : missed \subseteq m => Ending(q, held[r], m)
  BY <1>2, AnsweredEnding
<1> HIDE DEF b
<1>5. CASE /\ req' = [req EXCEPT ![r] = Ended(y)]
           /\ tokens' = [tokens EXCEPT ![b] = @ + 1] /\ Up
  <2>1. /\ DOMAIN y = Fields /\ y.marks = q.marks /\ y.anchor = q.anchor /\ y.billed = {b}
        /\ y.memo = q.memo /\ y.gone = q.gone /\ y.pc = q.pc /\ y.model = q.model
        /\ y.tier = q.tier /\ y.tried = q.tried /\ y.answered = q.answered
        /\ y.guarded = q.guarded /\ y.shut = q.shut /\ y.unsent = q.unsent
    BY <1>1 DEF Typed, Fields
  <2> HIDE DEF y
  <2>2. Typed(y)
    BY <1>1, <1>3, <2>1 DEF Typed
  <2>3. Gated(y, held[r]) /\ Ending(y, held[r], missed)
    BY <1>1, <1>4, <2>1 DEF Gated, Ending
  <2>4. Counters' /\ missed' = missed /\ outages' \in Nat /\ outages <= outages'
        /\ missed' \subseteq Windows /\ held' = held
    <3>1. UNCHANGED counters
      BY <1>2, <1>5 DEF Up, counters
    <3>2. Counters'
      BY <1>2, <3>1, IdleCounts DEF IInv
    <3> QED  BY <3>1, <3>2, Bounds DEF Counters, counters
  <2>5. Good(Ended(y), held'[r], missed', outages')
    <3>1. y.billed # {} /\ ~y.unsent
      BY <1>2, <2>1
    <3> QED  BY <2>1, <2>2, <2>3, <2>4, <3>1, Ends
  <2>6. \A o \in Requests : req'[o].billed = IF o = r THEN {b} ELSE req[o].billed
    BY <1>5, <2>1, <2>2, EndedType DEF IInv
  <2>7. Recorded'
    <3>1. tokens' \in [Buckets -> Nat]
      BY <1>3, <1>5 DEF IInv, Recorded
    <3>2. ASSUME NEW c \in Buckets
          PROVE  tokens'[c] = Cardinality({o \in Requests : c \in req'[o].billed})
      <4> DEFINE Old == {o \in Requests : c \in req[o].billed}
                 New == {o \in Requests : c \in req'[o].billed}
      <4>1. IsFiniteSet(Old) /\ tokens[c] = Cardinality(Old)
        BY FiniteAssumption, FS_Subset DEF IInv, Recorded
      <4>2. CASE c = b
        <5>1. New = Old \cup {r} /\ r \notin Old
          BY <1>2, <2>6, <4>2
        <5> HIDE DEF Old, New
        <5>2. Cardinality(New) = Cardinality(Old) + 1
          BY <4>1, <5>1, FS_AddElement
        <5>3. tokens'[c] = tokens[c] + 1
          BY <1>3, <1>5, <4>2 DEF IInv, Recorded
        <5> QED  BY <4>1, <5>2, <5>3 DEF New
      <4>3. CASE c # b
        <5>1. New = Old
          BY <1>2, <2>6, <4>3
        <5>2. tokens'[c] = tokens[c]
          BY <1>3, <1>5, <4>3 DEF IInv, Recorded
        <5> QED  BY <4>1, <5>1, <5>2
      <4> QED  BY <4>2, <4>3
    <3> QED  BY <3>1, <3>2 DEF Recorded
  <2> QED  BY <1>5, <2>4, <2>5, <2>7, StepGood
<1>6. CASE req' = [req EXCEPT ![r] = Ended(q)] /\ Down({}) /\ UNCHANGED tokens
  <2>1. Counters' /\ missed' = missed /\ outages' > outages
    BY <1>2, <1>6, DownCounts DEF IInv
  <2>2. /\ outages \in Nat /\ outages' \in Nat /\ missed' \subseteq Windows
        /\ outages <= outages' /\ held' = held /\ outages' # 0
    BY <1>2, <2>1, Bounds DEF IInv, Counters
  <2>3. Good(Ended(q), held'[r], missed', outages')
    BY <1>1, <1>2, <1>4, <2>1, <2>2, Ends
  <2>4. Recorded'
    BY <1>1, <1>6, EndedType, RecordedSame
  <2> QED  BY <1>2, <1>6, <2>1, <2>2, <2>3, <2>4, StepGood
<1> QED  BY <1>5, <1>6 DEF Bill, Step, b

LEMMA TickGood ==
  ASSUME IInv, Tick PROVE IInv'
<1>1. UNCHANGED <<req, tokens, held, outages, missed>>
  BY DEF Tick
<1>2. Counters'
  BY TickCounts DEF IInv
<1>3. Recorded' /\ DOMAIN req' = Requests
  BY <1>1 DEF IInv, Recorded
<1>4. \A r \in Requests : Good(req'[r], held'[r], missed', outages')
  BY <1>1 DEF IInv
<1> QED  BY <1>2, <1>3, <1>4 DEF IInv

LEMMA IdleGood ==
  ASSUME IInv, UNCHANGED vars PROVE IInv'
<1>1. UNCHANGED <<req, tokens, held, outages, missed, now>> /\ UNCHANGED counters
  BY DEF vars, counters
<1>2. Counters'
  BY <1>1, IdleCounts DEF IInv
<1>3. Recorded' /\ DOMAIN req' = Requests
  BY <1>1 DEF IInv, Recorded
<1>4. \A r \in Requests : Good(req'[r], held'[r], missed', outages')
  BY <1>1 DEF IInv
<1> QED  BY <1>2, <1>3, <1>4 DEF IInv

(***************************************************************************)
(* Initially, and always.                                                  *)
(***************************************************************************)

LEMMA InitGood ==
  ASSUME Init PROVE IInv
<1>1. Counters
  <2>1. \A w \in Windows : LimitOf(w) \in Nat
    BY WindowParts, Bounds DEF LimitOf
  <2>2. \A w \in Windows : Held(w) = {}
    BY DEF Init, Held
  <2>3. Earned
    BY <2>2, FS_EmptySet DEF Init, Earned
  <2> QED  BY <2>1, <2>3, Bounds DEF Init, Counters
<1>2. DOMAIN req = Requests /\ \A r \in Requests : req[r] = NewRequest
  BY DEF Init
<1>3. NewRequest.billed = {}
  BY DEF NewRequest
<1>4. Recorded
  <2>1. \A b \in Buckets : {r \in Requests : b \in req[r].billed} = {}
    BY <1>2, <1>3
  <2>2. tokens = [b \in Buckets |-> 0]
    BY DEF Init
  <2> QED  BY <2>1, <2>2, FS_EmptySet DEF Recorded
<1> DEFINE q == NewRequest
           h == [w \in Windows |-> 0]
<1>5. /\ DOMAIN q = Fields /\ q.pc = "arrives" /\ q.anchor = 0
      /\ q.marks = [s \in Models |-> <<>>] /\ q.memo = [g \in GateSet |-> NoMemo]
      /\ q.model = Model /\ q.tier = 1 /\ q.guarded = FALSE /\ q.gone = FALSE
      /\ q.answered = FALSE /\ q.tried = {} /\ q.billed = {} /\ q.unsent = FALSE
  BY DEF NewRequest, Fields
<1>6. \A w \in Windows : h[w] = 0
  OBVIOUS
<1>7. \A r \in Requests : held[r] = h
  BY DEF Init
<1> HIDE DEF q, h
<1>8. <<>> \in Seq(0 .. MaxTime)
  OBVIOUS
<1>9. Typed(q)
  <2>1. q.marks \in [Models -> Seq(0 .. MaxTime)]
    BY <1>5, <1>8
  <2>2. 0 \in 0 .. MaxTime /\ Model \in Models /\ q.pc \in PCs
    BY <1>5, Bounds, Scoping DEF PCs
  <2>3. DOMAIN q.memo = GateSet /\ \A g \in GateSet : q.memo[g].until \in Nat
    BY <1>5 DEF NoMemo
  <2>4. /\ q.tier = 1 /\ q.guarded \in BOOLEAN /\ q.gone \in BOOLEAN /\ q.answered \in BOOLEAN
        /\ q.tried \subseteq Models /\ q.billed \subseteq Buckets
    BY <1>5
  <2>5. DOMAIN q = Fields /\ q.anchor = 0 /\ q.model = Model
    BY <1>5
  <2> QED  BY <2>1, <2>2, <2>3, <2>4, <2>5 DEF Typed
<1>10. Sensible(q)
  BY <1>5 DEF Sensible
<1>11. Remembers(q, h, {})
  <2>1. ASSUME NEW s \in Models, NEW w PROVE Cardinality(Marked(s, q.marks[s], w)) = 0
    <3>1. q.marks[s] = <<>>
      BY <1>5
    <3> QED  BY <1>8, <3>1, MarkedType
  <2> QED  BY <1>5, <1>6, <2>1 DEF Remembers, KeyCounted
<1>12. Gated(q, h)
  <2>1. \A g \in GateSet, k \in Kinds, b \in Buckets : <<g, k, b>> \in Windows
    BY Scoping DEF Windows
  <2> QED  BY <1>6, <2>1 DEF Gated
<1>13. Charged(q, h, {}) /\ Paid(q, 0)
  BY <1>5 DEF Charged, Paid
<1>14. \A r \in Requests : Good(req[r], held[r], missed, outages)
  <2>1. missed = {} /\ outages = 0
    BY DEF Init
  <2> QED  BY <1>2, <1>7, <1>9, <1>10, <1>11, <1>12, <1>13, <2>1 DEF Good, q
<1> QED  BY <1>1, <1>2, <1>4, <1>14 DEF IInv

LEMMA NextGood ==
  ASSUME IInv, Next PROVE IInv'
<1>1. CASE Tick
  BY <1>1, TickGood
<1>2. ASSUME NEW r \in Requests, ClientLeaves(r) \/ Handling(r) PROVE IInv'
  <2>1. CASE Refuse(r) \/ \E some \in BOOLEAN : CandidatesTooSmall(r, some)
    BY <2>1, MovingSteps
  <2>2. CASE \/ CandidatesFit(r) \/ TierFits(r) \/ Answers(r) \/ Prepares(r)
             \/ CacheAnswers(r) \/ AttemptsFail(r) \/ ClientLeaves(r)
             \/ \E i \in DOMAIN Gates : GateStillRefuses(r, i)
    BY <2>2, TryingSteps
  <2>3. CASE \/ TiersExhausted(r) \/ Closed(r)
             \/ \E refused \in BOOLEAN : TierSkipped(r, refused)
    BY <2>3, ReturningSteps
  <2>4. CASE \E refused \in BOOLEAN : TierDropped(r, refused)
    BY <2>4, TierDroppedGood
  <2>5. CASE RefundKey(r) \/ \E m \in Models : RefundMark(r, m)
    BY <2>5, RefundKeyGood, RefundMarkGood
  <2>6. CASE PrepareFails(r)
    BY <2>6, PrepareFailsGood
  <2> QED  BY <1>2, <2>1, <2>2, <2>3, <2>4, <2>5, <2>6 DEF Handling
<1>3. ASSUME NEW r \in Requests, Limiting(r) PROVE IInv'
  <2>1. CASE ModelRefuses(r) \/ TokenGate(r)
    BY <2>1, MovingSteps
  <2>2. CASE LimitRefuses(r) \/ TierRefuses(r)
    BY <2>2, ReturningSteps
  <2>3. CASE LimitPasses(r) \/ ModelPasses(r) \/ TierPasses(r)
    BY <2>3, LimitPassesGood, ModelPassesGood
  <2>4. CASE \E i \in DOMAIN Gates : GatePasses(r, i) \/ GateShuts(r, i) \/ GateRefuses(r, i)
    BY <2>4, GatePassesGood, GateShutsGood, GateRefusesGood
  <2>5. CASE Bill(r)
    BY <2>5, BillGood
  <2> QED  BY <1>3, <2>1, <2>2, <2>3, <2>4, <2>5 DEF Limiting
<1> QED  BY <1>1, <1>2, <1>3 DEF Next

LEMMA AlwaysGood == Spec => []IInv
<1>1. Init => IInv
  BY InitGood
<1>2. IInv /\ [Next]_vars => IInv'
  BY NextGood, IdleGood
<1> QED  BY <1>1, <1>2, PTL DEF Spec

\* Every variable has its type, and no window ever counts more than its limit.
THEOREM TypesHold == Spec => []TypeOK
<1>1. IInv => TypeOK
  <2> SUFFICES ASSUME IInv PROVE TypeOK
    OBVIOUS
  <2>1. \A r \in Requests : req[r].pc \in PCs /\ req[r].model \in Models /\ req[r].tried \subseteq Models
    BY DEF IInv, Good, Typed
  <2> QED  BY <2>1 DEF IInv, Counters, Recorded, TypeOK
<1> QED  BY <1>1, AlwaysGood, PTL

\* A window that is not over counts what requests were counted in it and did not
\* give back: no refund takes the count of another request, in whichever window
\* and however late it runs.
THEOREM CountsEarned == Spec => []CountsAreEarned
<1>1. IInv => CountsAreEarned
  BY DEF IInv, Counters, Earned, CountsAreEarned
<1> QED  BY <1>1, AlwaysGood, PTL

\* What a request that is done is still charged for was tried for it, whichever
\* tiers were counted and dropped on its way.
THEOREM OnlyTriesCharged == Spec => []OnlyTriesAreCharged
<1>1. IInv => OnlyTriesAreCharged
  BY DEF IInv, Good, Charged, OnlyTriesAreCharged
<1> QED  BY <1>1, AlwaysGood, PTL

\* No window of the provider's limits counts a request twice, through whichever
\* attempts and tiers it goes; and of two windows of one limit that count it, one
\* is such that the provider's token limit refused it there after counting it.
THEOREM CountedOnce == Spec => []ProviderCountedOnce
<1>1. IInv => ProviderCountedOnce
  BY DEF IInv, Good, Gated, ProviderCountedOnce
<1> QED  BY <1>1, AlwaysGood, PTL

\* Every answer is recorded in tokens once, unless a call of Redis failed: not
\* recorded are exactly the streams whose header could not be sent.
THEOREM AnswersBilled == Spec => []AnswersAreBilled
<1>1. IInv => AnswersAreBilled
  BY DEF IInv, Recorded, Good, Paid, AnswersAreBilled
<1> QED  BY <1>1, AlwaysGood, PTL

=============================================================================
