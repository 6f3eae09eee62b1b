----------------------------- MODULE OAuthProofs ----------------------------
(***************************************************************************)
(* Proofs about OAuth, for any number of refreshers, tries, grants,         *)
(* rotations and faults: the lock keeps every refresh token from being used *)
(* twice, and no refresh throws a living one away.                          *)
(***************************************************************************)
EXTENDS OAuth, TLAPS

\* Grants are numbered as they are given.
Numbered ==
  /\ account.token.grant <= grants /\ pending.grant <= grants
  /\ \A t \in live : t.grant <= grants
  /\ \A r \in Refreshers : job[r].token.grant <= grants

\* The identity provider accepts one token of a grant at a time.
OneLive == \A t, u \in live : t.grant = u.grant => t = u

\* Nobody has a token of a grant that is not saved yet.
Unsaved ==
  pending # NoToken =>
    /\ account.token.grant # pending.grant
    /\ \A r \in Refreshers : job[r].token.grant # pending.grant
    /\ \A t \in live : t.grant = pending.grant => t = pending

Uses(r) == job[r].pc \in {"asking", "saving", "disabling"}

\* A refresh works with the account's token, as long as the grant is the same.
InUse ==
  \A r \in Refreshers :
    Uses(r) /\ Exists /\ account.token.grant = job[r].token.grant =>
      account.id = job[r].id /\ account.token = job[r].token

\* What was refused is dead for good.
Dead == \A r \in Refreshers : job[r].pc = "disabling" => job[r].token \notin live

\* What is about to be saved is the one token of its grant.
Newest ==
  \A r \in Refreshers : job[r].pc = "saving" =>
    /\ job[r].got.grant = job[r].token.grant
    /\ \A t \in live : t.grant = job[r].got.grant => t = job[r].got

Parts == Numbered /\ OneLive /\ Unsaved /\ InUse /\ Dead /\ Newest
IInv  == TypeOK /\ Parts /\ TokenKept

Accounts == [id : 0 .. MaxGrants, enabled : BOOLEAN, on : BOOLEAN,
             token : Tokens \cup {NoToken}, left : 0 .. Life]
Jobs == [pc : Stages, id : 0 .. MaxGrants, token : Tokens \cup {NoToken},
         got : Tokens \cup {NoToken}, tries : 0 .. MaxTries - 1]

LEMMA Bounds ==
  /\ Life \in Nat /\ MaxTries \in Nat /\ MaxTries > 0
  /\ MaxGrants \in Nat /\ MaxRotations \in Nat /\ MaxFaults \in Nat /\ MaxEdits \in Nat
  /\ None \notin Refreshers
  BY BoundsAssumption, LifeAssumption, NoneAssumption
     DEF BoundsAssumption, LifeAssumption, NoneAssumption

LEMMA NoneTyped == NoAccount \in Accounts /\ NoJob \in Jobs /\ NoToken.grant = 0
  BY Bounds DEF NoAccount, NoJob, NoToken, Accounts, Jobs, Stages

LEMMA TypeParts ==
  TypeOK <=> /\ account \in Accounts /\ live \subseteq Tokens /\ grants \in 0 .. MaxGrants
             /\ pending \in Tokens \cup {NoToken} /\ job \in [Refreshers -> Jobs]
             /\ lock \in Refreshers \cup {None}
             /\ \A r \in Refreshers : (lock = r) <=> (job[r].pc \notin {"idle", "picked"})
             /\ lost \subseteq 1 .. MaxGrants
             /\ faults \in 0 .. MaxFaults /\ edits \in 0 .. MaxEdits
  BY DEF TypeOK, Accounts, Jobs

\* Tokens have numbers for grants.
LEMMA TokenGrants ==
  /\ \A t \in Tokens : t.grant \in 1 .. MaxGrants /\ t.n \in 0 .. MaxRotations
  /\ \A t \in Tokens \cup {NoToken} : t.grant \in Nat
  BY Bounds DEF Tokens, NoToken

\* Only one refresh at a time is past the lock.
LEMMA OnlyHolder ==
  ASSUME TypeOK, NEW r \in Refreshers, NEW q \in Refreshers,
         job[r].pc \notin {"idle", "picked"}, job[q].pc \notin {"idle", "picked"}
  PROVE  q = r /\ lock = r
  BY TypeParts

\* A refresh that ends leaves the others, and nobody has the lock that it had.
LEMMA EndsType ==
  ASSUME TypeOK, NEW r \in Refreshers, Ends(r)
  PROVE  /\ job' \in [Refreshers -> Jobs] /\ lock' \in Refreshers \cup {None}
         /\ \A q \in Refreshers : (lock' = q) <=> (job'[q].pc \notin {"idle", "picked"})
         /\ job'[r] = NoJob /\ \A q \in Refreshers \ {r} : job'[q] = job[q]
<1>1. job' = [job EXCEPT ![r] = NoJob] /\ job \in [Refreshers -> Jobs]
  BY TypeParts DEF Ends
<1>2. job'[r] = NoJob /\ \A q \in Refreshers \ {r} : job'[q] = job[q]
  BY <1>1
<1>3. job' \in [Refreshers -> Jobs]
  BY <1>1, NoneTyped
<1>4. NoJob.pc = "idle"
  BY DEF NoJob
<1>5. lock' = IF lock = r THEN None ELSE lock
  BY DEF Ends
<1>6. lock' \in Refreshers \cup {None}
  BY <1>5, TypeParts
<1>7. ASSUME NEW q \in Refreshers
      PROVE  (lock' = q) <=> (job'[q].pc \notin {"idle", "picked"})
  BY <1>2, <1>4, <1>5, TypeParts, Bounds
<1> QED  BY <1>2, <1>3, <1>6, <1>7

\* A refresh that goes on to the job j, with the lock or without.
LEMMA MovesType ==
  ASSUME TypeOK, NEW r \in Refreshers, NEW j \in Jobs, job' = [job EXCEPT ![r] = j],
         \/ lock' = lock /\ (lock = r <=> j.pc \notin {"idle", "picked"})
         \/ lock = None /\ lock' = r /\ j.pc \notin {"idle", "picked"}
  PROVE  /\ job' \in [Refreshers -> Jobs] /\ lock' \in Refreshers \cup {None}
         /\ \A q \in Refreshers : (lock' = q) <=> (job'[q].pc \notin {"idle", "picked"})
         /\ job'[r] = j /\ \A q \in Refreshers \ {r} : job'[q] = job[q]
<1>1. job \in [Refreshers -> Jobs]
  BY TypeParts
<1>2. job'[r] = j /\ \A q \in Refreshers \ {r} : job'[q] = job[q]
  BY <1>1
<1>3. job' \in [Refreshers -> Jobs]
  BY <1>1
<1>4. lock' \in Refreshers \cup {None}
  BY TypeParts
<1>5. ASSUME NEW q \in Refreshers
      PROVE  (lock' = q) <=> (job'[q].pc \notin {"idle", "picked"})
  BY <1>2, TypeParts, Bounds
<1> QED  BY <1>2, <1>3, <1>4, <1>5

\* Steps that neither touch rows nor tokens: a refresh takes up the account's token,
\* goes on with the token it has, or ends without a new one.
LEMMA QuietIInv ==
  ASSUME IInv, NEW r \in Refreshers, UNCHANGED <<account, live, grants, pending>>,
         lost \subseteq lost', lost' \subseteq 1 .. MaxGrants,
         faults' \in 0 .. MaxFaults, edits' \in 0 .. MaxEdits,
         job' \in [Refreshers -> Jobs], lock' \in Refreshers \cup {None},
         \A q \in Refreshers : (lock' = q) <=> (job'[q].pc \notin {"idle", "picked"}),
         \A q \in Refreshers \ {r} : job'[q] = job[q],
         job'[r].pc # "saving",
         job[r].pc = "saving" /\ job[r].got # job[r].token => job[r].token.grant \in lost',
         job'[r].pc = "disabling" => job'[r].token \notin live,
         job'[r].token \in {NoToken, account.token, job[r].token},
         Uses(r)' =>
           \/ job'[r].token = account.token /\ job'[r].id = account.id
           \/ Uses(r) /\ job'[r].token = job[r].token /\ job'[r].id = job[r].id
  PROVE  IInv'
<1> USE DEF IInv, Parts
<1>1. TypeOK'
  <2>1. \A q \in Refreshers : job'[q] \in Jobs
    OBVIOUS
  <2> QED  BY <2>1, TypeParts DEF TypeOK, Jobs
<1>2. Numbered'
  <2> SUFFICES ASSUME NEW q \in Refreshers PROVE job'[q].token.grant <= grants
    BY DEF Numbered
  <2> QED  BY NoneTyped, TypeParts DEF Numbered
<1>3. OneLive' /\ Dead'
  BY DEF OneLive, Dead
<1>4. Unsaved'
  BY NoneTyped, TokenGrants, TypeParts DEF Unsaved
<1>5. Newest'
  BY DEF Newest
<1>6. InUse'
  <2> SUFFICES ASSUME NEW q \in Refreshers, Uses(q)', Exists,
                      account.token.grant = job'[q].token.grant
               PROVE  account.id = job'[q].id /\ account.token = job'[q].token
    BY DEF InUse, Exists
  <2>1. CASE q # r
    BY <2>1 DEF InUse, Uses
  <2>2. CASE q = r
    BY <2>2 DEF InUse
  <2> QED  BY <2>1, <2>2
<1>7. TokenKept'
  <2> SUFFICES ASSUME Exists, account.token.grant \notin lost',
                      NEW t \in live, t.grant = account.token.grant, t # account.token
               PROVE  \E q \in Refreshers : Same(q)' /\ job'[q].pc = "saving" /\ job'[q].got = t
    BY DEF TokenKept, Exists
  <2>1. PICK q \in Refreshers : Same(q) /\ job[q].pc = "saving" /\ job[q].got = t
    BY DEF TokenKept
  <2>2. q # r
    <3> SUFFICES ASSUME q = r PROVE FALSE
      OBVIOUS
    <3>1. job[r].token.grant = t.grant
      BY <2>1 DEF Newest
    <3>2. account.token = job[r].token
      BY <2>1, <3>1 DEF InUse, Uses
    <3> QED  BY <2>1, <3>1, <3>2
  <2> QED  BY <2>1, <2>2 DEF Same, Exists
<1> QED  BY <1>1, <1>2, <1>3, <1>4, <1>5, <1>6, <1>7

-----------------------------------------------------------------------------
(* The steps of a refresh.                                                  *)

LEMMA BeginsIInv ==
  ASSUME IInv, NEW r \in Refreshers, ListExpiring(r) \/ Choose(r) \/ Pick(r)
  PROVE  IInv'
<1> USE DEF IInv
<1>0. UNCHANGED <<account, live, grants, pending, lost, faults, edits>>
  BY DEF ListExpiring, Choose, Pick
<1>1. job[r].pc = "idle" /\ account \in Accounts
  BY TypeParts DEF ListExpiring, Choose, Pick
<1>2. CASE ListExpiring(r)
  <2> DEFINE j == [NoJob EXCEPT !.pc = "asking", !.id = account.id, !.token = account.token]
  <2>1. /\ j \in Jobs /\ j.pc = "asking" /\ j.id = account.id /\ j.token = account.token
    BY <1>1, NoneTyped DEF Jobs, Accounts, Stages
  <2>2. lock = None /\ lock' = r /\ job' = [job EXCEPT ![r] = j]
    BY <1>2 DEF ListExpiring
  <2> HIDE DEF j
  <2>3. /\ job' \in [Refreshers -> Jobs] /\ lock' \in Refreshers \cup {None}
        /\ \A q \in Refreshers : (lock' = q) <=> (job'[q].pc \notin {"idle", "picked"})
        /\ job'[r] = j /\ \A q \in Refreshers \ {r} : job'[q] = job[q]
    BY <2>1, <2>2, MovesType
  <2> QED  BY <1>0, <1>1, <2>1, <2>3, QuietIInv, TypeParts
<1>3. CASE Choose(r)
  <2> DEFINE j == [NoJob EXCEPT !.pc = "chosen", !.id = account.id]
  <2>1. j \in Jobs /\ j.pc = "chosen" /\ j.token = NoToken
    BY <1>1, NoneTyped DEF Jobs, Accounts, Stages, NoJob
  <2>2. lock = None /\ lock' = r /\ job' = [job EXCEPT ![r] = j]
    BY <1>3 DEF Choose
  <2> HIDE DEF j
  <2>3. /\ job' \in [Refreshers -> Jobs] /\ lock' \in Refreshers \cup {None}
        /\ \A q \in Refreshers : (lock' = q) <=> (job'[q].pc \notin {"idle", "picked"})
        /\ job'[r] = j /\ \A q \in Refreshers \ {r} : job'[q] = job[q]
    BY <2>1, <2>2, MovesType
  <2> QED  BY <1>0, <1>1, <2>1, <2>3, QuietIInv, TypeParts DEF Uses
<1>4. CASE Pick(r)
  <2> DEFINE j == [NoJob EXCEPT !.pc = "picked", !.id = account.id]
  <2>1. j \in Jobs /\ j.pc = "picked" /\ j.token = NoToken
    BY <1>1, NoneTyped DEF Jobs, Accounts, Stages, NoJob
  <2>2. lock' = lock /\ lock # r /\ job' = [job EXCEPT ![r] = j]
    BY <1>1, <1>4, TypeParts DEF Pick
  <2> HIDE DEF j
  <2>3. /\ job' \in [Refreshers -> Jobs] /\ lock' \in Refreshers \cup {None}
        /\ \A q \in Refreshers : (lock' = q) <=> (job'[q].pc \notin {"idle", "picked"})
        /\ job'[r] = j /\ \A q \in Refreshers \ {r} : job'[q] = job[q]
    BY <2>1, <2>2, MovesType
  <2> QED  BY <1>0, <1>1, <2>1, <2>3, QuietIInv, TypeParts DEF Uses
<1> QED  BY <1>2, <1>3, <1>4

\* A refresh that ends and leaves rows and tokens alone.
LEMMA EndsIInv ==
  ASSUME IInv, NEW r \in Refreshers, Ends(r), UNCHANGED <<account, live, grants, pending>>,
         lost \subseteq lost', lost' \subseteq 1 .. MaxGrants,
         faults' \in 0 .. MaxFaults, edits' \in 0 .. MaxEdits,
         job[r].pc = "saving" /\ job[r].got # job[r].token => job[r].token.grant \in lost'
  PROVE  IInv'
<1>1. NoJob.pc = "idle" /\ NoJob.token = NoToken
  BY DEF NoJob
<1> QED  BY <1>1, EndsType, QuietIInv DEF IInv, Uses

LEMMA GoesOnIInv ==
  ASSUME IInv, NEW r \in Refreshers, Enter(r) \/ GetActiveSession(r) \/ Refused(r)
  PROVE  IInv'
<1> USE DEF IInv
<1>0. /\ UNCHANGED <<account, live, grants, pending, lost, faults, edits>>
      /\ job[r].pc \in {"picked", "chosen", "asking"} /\ job[r] \in Jobs
      /\ account \in Accounts
  BY TypeParts DEF Enter, GetActiveSession, Refused
<1>1. CASE Ends(r)
  BY <1>0, <1>1, EndsIInv, TypeParts
<1>2. CASE Enter(r) /\ ~Ends(r)
  <2> DEFINE j == [job[r] EXCEPT !.pc = "chosen"]
  <2>1. j \in Jobs /\ j.pc = "chosen" /\ j.token = job[r].token
    BY <1>0 DEF Jobs, Stages
  <2>2. lock = None /\ lock' = r /\ job' = [job EXCEPT ![r] = j]
    BY <1>2, TypeParts DEF Enter
  <2> HIDE DEF j
  <2>3. /\ job' \in [Refreshers -> Jobs] /\ lock' \in Refreshers \cup {None}
        /\ \A q \in Refreshers : (lock' = q) <=> (job'[q].pc \notin {"idle", "picked"})
        /\ job'[r] = j /\ \A q \in Refreshers \ {r} : job'[q] = job[q]
    BY <2>1, <2>2, MovesType
  <2> QED  BY <1>0, <2>1, <2>3, QuietIInv, TypeParts DEF Uses
<1>3. CASE GetActiveSession(r) /\ ~Ends(r)
  <2> DEFINE j == [job[r] EXCEPT !.pc = "asking", !.token = account.token]
  <2>1. j \in Jobs /\ j.pc = "asking" /\ j.token = account.token /\ j.id = job[r].id
    BY <1>0 DEF Jobs, Stages, Accounts
  <2>2. /\ lock' = lock /\ lock = r /\ job' = [job EXCEPT ![r] = j]
        /\ account.id = job[r].id
    BY <1>3, TypeParts DEF GetActiveSession, Same
  <2> HIDE DEF j
  <2>3. /\ job' \in [Refreshers -> Jobs] /\ lock' \in Refreshers \cup {None}
        /\ \A q \in Refreshers : (lock' = q) <=> (job'[q].pc \notin {"idle", "picked"})
        /\ job'[r] = j /\ \A q \in Refreshers \ {r} : job'[q] = job[q]
    BY <2>1, <2>2, MovesType
  <2> QED  BY <1>0, <2>1, <2>2, <2>3, QuietIInv, TypeParts
<1>4. CASE Refused(r)
  <2> DEFINE j == [job[r] EXCEPT !.pc = "disabling"]
  <2>1. j \in Jobs /\ j.pc = "disabling" /\ j.token = job[r].token /\ j.id = job[r].id
    BY <1>0 DEF Jobs, Stages
  <2>2. /\ lock' = lock /\ lock = r /\ job' = [job EXCEPT ![r] = j]
        /\ job[r].pc = "asking" /\ job[r].token \notin live
    BY <1>4, TypeParts DEF Refused
  <2> HIDE DEF j
  <2>3. /\ job' \in [Refreshers -> Jobs] /\ lock' \in Refreshers \cup {None}
        /\ \A q \in Refreshers : (lock' = q) <=> (job'[q].pc \notin {"idle", "picked"})
        /\ job'[r] = j /\ \A q \in Refreshers \ {r} : job'[q] = job[q]
    BY <2>1, <2>2, MovesType
  <2> QED  BY <1>0, <2>1, <2>2, <2>3, QuietIInv, TypeParts DEF Uses
<1> QED  BY <1>1, <1>2, <1>3, <1>4

\* The token sent is accepted: of its grant only the next one lives on.
LEMMA AcceptsLive ==
  ASSUME IInv, NEW r \in Refreshers, job[r].pc = "asking", NEW next \in Tokens,
         Accepts(job[r].token, next)
  PROVE  /\ live' \subseteq Tokens /\ next \in live' /\ next.grant = job[r].token.grant
         /\ \A t \in live' : t.grant = next.grant => t = next
         /\ \A t \in Tokens : t.grant # next.grant => (t \in live' <=> t \in live)
<1>1. job[r].token \in live /\ job[r].token \in Tokens /\ live \subseteq Tokens
  BY TypeParts DEF IInv, Accepts
<1>2. next.grant = job[r].token.grant
  BY <1>1 DEF Accepts, Tokens
<1>3. live' = (live \ {job[r].token}) \cup {next}
  BY DEF Accepts
<1> QED  BY <1>1, <1>2, <1>3 DEF IInv, Parts, OneLive

\* After that the refresh has the new token, or it is lost.
LEMMA AcceptingIInv ==
  ASSUME IInv, NEW r \in Refreshers, job[r].pc = "asking", NEW next \in Tokens,
         Accepts(job[r].token, next), UNCHANGED <<account, grants, pending>>,
         lost \subseteq lost', lost' \subseteq 1 .. MaxGrants,
         faults' \in 0 .. MaxFaults, edits' \in 0 .. MaxEdits,
         job' \in [Refreshers -> Jobs], lock' \in Refreshers \cup {None},
         \A q \in Refreshers : (lock' = q) <=> (job'[q].pc \notin {"idle", "picked"}),
         \A q \in Refreshers \ {r} : job'[q] = job[q],
         \/ job'[r] = NoJob
         \/ /\ job'[r].pc \in {"asking", "saving"}
            /\ job'[r].token = job[r].token /\ job'[r].id = job[r].id,
         job'[r].pc = "saving" => job'[r].got = next,
         next # job[r].token => job'[r].pc = "saving" \/ next.grant \in lost'
  PROVE  IInv'
<1> USE DEF IInv, Parts
<1>0. NoJob.pc = "idle" /\ NoJob.token = NoToken
  BY DEF NoJob
<1>a. \A q \in Refreshers \ {r} : job[q].pc \in {"idle", "picked"}
  <2>1. \A q \in Refreshers : job[q] \in Jobs
    BY TypeParts
  <2> QED  BY <2>1, OnlyHolder
<1>1. TypeOK'
  <2>1. live' \subseteq Tokens
    BY AcceptsLive
  <2> QED  BY <2>1, TypeParts DEF TypeOK, Jobs
<1>2. Numbered'
  <2>1. \A t \in live' : t.grant <= grants
    <3>1. next.grant = job[r].token.grant /\ job[r].token.grant <= grants
      BY AcceptsLive DEF Numbered
    <3> QED  BY <3>1, AcceptsLive DEF Numbered
  <2>2. \A q \in Refreshers : job'[q].token.grant <= grants
    BY <1>0, NoneTyped, TypeParts DEF Numbered
  <2> QED  BY <2>1, <2>2 DEF Numbered
<1>3. OneLive'
  <2> SUFFICES ASSUME NEW t \in live', NEW u \in live', t.grant = u.grant PROVE t = u
    BY DEF OneLive
  <2> QED  BY AcceptsLive DEF OneLive
<1>4. Unsaved'
  <2> SUFFICES ASSUME pending # NoToken
               PROVE  /\ account.token.grant # pending.grant
                      /\ \A q \in Refreshers : job'[q].token.grant # pending.grant
                      /\ \A t \in live' : t.grant = pending.grant => t = pending
    BY DEF Unsaved
  <2>1. pending.grant # 0
    BY TokenGrants, TypeParts
  <2>2. next.grant # pending.grant
    BY AcceptsLive DEF Unsaved
  <2>3. \A t \in live' : t.grant = pending.grant => t = pending
    BY <2>2, AcceptsLive DEF Unsaved
  <2> QED  BY <1>0, <2>1, <2>3, NoneTyped DEF Unsaved
<1>5. InUse'
  BY <1>0 DEF InUse, Uses, Exists
<1>6. Dead'
  BY <1>0, <1>a DEF Dead
<1>7. Newest'
  BY <1>0, <1>a, AcceptsLive DEF Newest
<1>8. TokenKept'
  <2> SUFFICES ASSUME Exists, account.token.grant \notin lost',
                      NEW t \in live', t.grant = account.token.grant, t # account.token
               PROVE  \E q \in Refreshers : Same(q)' /\ job'[q].pc = "saving" /\ job'[q].got = t
    BY DEF TokenKept, Exists
  <2>1. CASE t.grant # next.grant
    <3>1. t \in live
      BY <2>1, AcceptsLive
    <3>2. \E q \in Refreshers : Same(q) /\ job[q].pc = "saving" /\ job[q].got = t
      BY <3>1 DEF TokenKept
    <3> QED  BY <1>a, <3>2
  <2>2. CASE t.grant = next.grant
    <3>1. t = next /\ account.token.grant = job[r].token.grant
      BY <2>2, AcceptsLive
    <3>2. account.token = job[r].token /\ account.id = job[r].id
      BY <3>1 DEF InUse, Uses
    <3>3. job'[r].pc = "saving" /\ job'[r].id = job[r].id
      BY <1>0, <3>1, <3>2
    <3> QED  BY <3>1, <3>2, <3>3 DEF Same, Exists
  <2> QED  BY <2>1, <2>2
<1> QED  BY <1>1, <1>2, <1>3, <1>4, <1>5, <1>6, <1>7, <1>8

LEMMA AnsweredIInv ==
  ASSUME IInv, NEW r \in Refreshers, Answered(r)
  PROVE  IInv'
<1>1. PICK next \in Tokens : /\ Accepts(job[r].token, next)
                             /\ job' = [job EXCEPT ![r].pc = "saving", ![r].got = next]
  BY DEF Answered
<1>2. /\ job[r].pc = "asking" /\ job[r] \in Jobs /\ lock = r
      /\ UNCHANGED <<account, grants, pending, lock, lost, faults, edits>>
  BY TypeParts DEF Answered, IInv
<1> DEFINE j == [job[r] EXCEPT !.pc = "saving", !.got = next]
<1>3. /\ j \in Jobs /\ j.pc = "saving" /\ j.token = job[r].token /\ j.id = job[r].id
      /\ j.got = next
  BY <1>2 DEF Jobs, Stages
<1>4. job' = [job EXCEPT ![r] = j]
  BY <1>1, TypeParts DEF IInv
<1> HIDE DEF j
<1>5. /\ job' \in [Refreshers -> Jobs] /\ lock' \in Refreshers \cup {None}
      /\ \A q \in Refreshers : (lock' = q) <=> (job'[q].pc \notin {"idle", "picked"})
      /\ job'[r] = j /\ \A q \in Refreshers \ {r} : job'[q] = job[q]
  BY <1>2, <1>3, <1>4, MovesType DEF IInv
<1> QED  BY <1>1, <1>2, <1>3, <1>5, AcceptingIInv, TypeParts DEF IInv

LEMMA NotAnsweredIInv ==
  ASSUME IInv, NEW r \in Refreshers, NoExpiry(r) \/ Unanswered(r)
  PROVE  IInv'
<1>1. /\ job[r].pc = "asking" /\ job[r] \in Jobs /\ lock = r
      /\ UNCHANGED <<account, grants, pending, edits>>
      /\ faults' \in 0 .. MaxFaults /\ edits' \in 0 .. MaxEdits
  BY TypeParts, Bounds DEF NoExpiry, Unanswered, Fault, IInv
<1>2. \/ UNCHANGED <<live, lost>>
      \/ \E next \in Tokens : Accepts(job[r].token, next) /\ Loses(job[r].token, next)
  BY DEF NoExpiry, Unanswered
<1>3. /\ job' \in [Refreshers -> Jobs] /\ lock' \in Refreshers \cup {None}
      /\ \A q \in Refreshers : (lock' = q) <=> (job'[q].pc \notin {"idle", "picked"})
      /\ \A q \in Refreshers \ {r} : job'[q] = job[q]
      /\ \/ job'[r] = NoJob
         \/ job'[r].pc = "asking" /\ job'[r].token = job[r].token /\ job'[r].id = job[r].id
  <2>1. CASE Ends(r)
    BY <2>1, EndsType DEF IInv
  <2>2. CASE ~Ends(r)
    <3> DEFINE j == [job[r] EXCEPT !.tries = @ + 1]
    <3>1. /\ job' = [job EXCEPT ![r] = j] /\ lock' = lock /\ job[r].tries + 1 < MaxTries
      BY <2>2, TypeParts DEF NoExpiry, Unanswered, IInv
    <3>2. j \in Jobs /\ j.pc = "asking" /\ j.token = job[r].token /\ j.id = job[r].id
      BY <1>1, <3>1, Bounds DEF Jobs
    <3> HIDE DEF j
    <3> QED  BY <1>1, <3>1, <3>2, MovesType DEF IInv
  <2> QED  BY <2>1, <2>2
<1>4. CASE UNCHANGED <<live, lost>>
  <2>1. NoJob.pc = "idle" /\ NoJob.token = NoToken
    BY DEF NoJob
  <2> QED  BY <1>1, <1>3, <1>4, <2>1, QuietIInv, TypeParts DEF IInv, Uses
<1>5. ASSUME NEW next \in Tokens, Accepts(job[r].token, next), Loses(job[r].token, next)
      PROVE  IInv'
  <2>1. next.grant = job[r].token.grant /\ next.grant \in 1 .. MaxGrants
    BY <1>1, <1>5, AcceptsLive, TokenGrants
  <2>2. /\ lost \subseteq lost' /\ lost' \subseteq 1 .. MaxGrants
        /\ next # job[r].token => next.grant \in lost'
    BY <1>5, <2>1, TypeParts DEF Loses, IInv
  <2>3. NoJob.pc = "idle"
    BY DEF NoJob
  <2> QED  BY <1>1, <1>3, <1>5, <2>2, <2>3, AcceptingIInv
<1> QED  BY <1>2, <1>4, <1>5

\* Saving puts the one living token of the grant into the account.
LEMMA SavesIInv ==
  ASSUME IInv, NEW r \in Refreshers, SimpanHasilRefresh(r)
  PROVE  IInv'
<1> USE DEF IInv, Parts
<1>1. /\ job[r].pc = "saving" /\ job[r] \in Jobs /\ account \in Accounts /\ Ends(r)
      /\ UNCHANGED <<live, grants, pending, faults, edits>>
  BY TypeParts DEF SimpanHasilRefresh
<1>2. /\ job' \in [Refreshers -> Jobs] /\ lock' \in Refreshers \cup {None}
      /\ \A q \in Refreshers : (lock' = q) <=> (job'[q].pc \notin {"idle", "picked"})
      /\ job'[r] = NoJob /\ \A q \in Refreshers \ {r} : job'[q] = job[q]
      /\ NoJob.pc = "idle" /\ NoJob.token = NoToken
  BY <1>1, EndsType DEF NoJob
<1>3. CASE ~Same(r)
  <2>1. account' = account /\ Loses(job[r].token, job[r].got)
    BY <1>3 DEF SimpanHasilRefresh
  <2>2. job[r].got # job[r].token => job[r].token.grant \in 1 .. MaxGrants
    <3> SUFFICES ASSUME job[r].got # job[r].token, job[r].token = NoToken PROVE FALSE
      BY <1>1, TokenGrants DEF Jobs
    <3>1. job[r].got.grant = 0 /\ job[r].got \in Tokens \cup {NoToken}
      BY <1>1, NoneTyped DEF Newest, Jobs
    <3> QED  BY <3>1, TokenGrants
  <2>3. /\ lost \subseteq lost' /\ lost' \subseteq 1 .. MaxGrants
        /\ job[r].got # job[r].token => job[r].token.grant \in lost'
    BY <2>1, <2>2, TypeParts DEF Loses
  <2> QED  BY <1>1, <2>1, <2>3, EndsIInv, TypeParts
<1>4. CASE Same(r)
  <2> DEFINE new == IF job[r].got = job[r].token THEN account.token ELSE job[r].got
  <2>1. account' = [account EXCEPT !.left = Life, !.token = new] /\ lost' = lost
    BY <1>4 DEF SimpanHasilRefresh
  <2>2. new \in Tokens \cup {NoToken} /\ (new = account.token \/ new.grant = job[r].token.grant)
    BY <1>1 DEF Newest, Jobs, Accounts
  <2> HIDE DEF new
  <2>3. /\ account' \in Accounts /\ account'.token = new /\ account'.id = account.id
    <3>1. Life \in 0 .. Life
      BY Bounds
    <3> QED  BY <1>1, <2>1, <2>2, <3>1 DEF Accounts
  <2>4. TypeOK'
    BY <1>1, <1>2, <2>1, <2>3, TypeParts DEF TypeOK, Accounts, Jobs
  <2>5. Numbered' /\ OneLive' /\ Dead' /\ Newest'
    <3>1. new.grant <= grants
      BY <2>2 DEF Numbered
    <3>2. Numbered'
      BY <1>1, <1>2, <2>3, <3>1, NoneTyped, TypeParts DEF Numbered
    <3> QED  BY <1>1, <1>2, <3>2 DEF OneLive, Dead, Newest
  <2>6. Unsaved'
    <3> SUFFICES ASSUME pending # NoToken
                 PROVE  /\ new.grant # pending.grant
                        /\ \A q \in Refreshers : job'[q].token.grant # pending.grant
                        /\ \A t \in live : t.grant = pending.grant => t = pending
      BY <1>1, <2>3 DEF Unsaved
    <3>1. pending.grant # 0
      BY TokenGrants, TypeParts
    <3> QED  BY <1>2, <2>2, <3>1, NoneTyped DEF Unsaved
  <2>7. \A q \in Refreshers \ {r} : job[q].pc \in {"idle", "picked"}
    <3>1. \A q \in Refreshers : job[q] \in Jobs
      BY TypeParts
    <3> QED  BY <1>1, <3>1, OnlyHolder
  <2>8. InUse'
    BY <1>2, <2>7 DEF InUse, Uses
  <2>9. TokenKept'
    <3> SUFFICES ASSUME new.grant \notin lost, NEW t \in live, t.grant = new.grant
                 PROVE  t = new
      BY <1>1, <2>1, <2>3 DEF TokenKept
    <3>1. CASE job[r].got # job[r].token
      BY <1>1, <3>1 DEF Newest, new
    <3>2. CASE job[r].got = job[r].token
      <4>1. new = account.token
        BY <3>2 DEF new
      <4>2. CASE t = account.token
        BY <4>1, <4>2
      <4>3. CASE t # account.token
        <5>1. PICK q \in Refreshers : job[q].pc = "saving" /\ job[q].got = t
          BY <1>4, <4>1, <4>3 DEF TokenKept, Same
        <5>2. q = r
          BY <2>7, <5>1
        <5>3. account.token = job[r].token
          BY <1>1, <1>4, <3>2, <4>1, <5>1, <5>2 DEF InUse, Uses, Same
        <5> QED  BY <3>2, <4>1, <5>1, <5>2, <5>3
      <4> QED  BY <4>2, <4>3
    <3> QED  BY <3>1, <3>2
  <2> QED  BY <2>4, <2>5, <2>6, <2>8, <2>9
<1> QED  BY <1>3, <1>4

\* Steps that change the account's row but neither its token nor its id.
LEMMA RowIInv ==
  ASSUME IInv, account' \in Accounts, account'.id = account.id, account'.token = account.token,
         UNCHANGED <<live, grants, pending, lock, job, lost>>,
         faults' \in 0 .. MaxFaults, edits' \in 0 .. MaxEdits
  PROVE  IInv'
<1> USE DEF IInv, Parts
<1>1. TypeOK'
  BY TypeParts DEF TypeOK, Accounts, Jobs
<1>2. Numbered' /\ OneLive' /\ Unsaved' /\ Dead' /\ Newest'
  BY DEF Numbered, OneLive, Unsaved, Dead, Newest
<1>3. InUse' /\ TokenKept'
  BY DEF InUse, Uses, Exists, TokenKept, Same
<1> QED  BY <1>1, <1>2, <1>3

LEMMA DisableIInv ==
  ASSUME IInv, NEW r \in Refreshers, Disable(r)
  PROVE  IInv'
<1> USE DEF IInv, Parts
<1>1. /\ job[r].pc = "disabling" /\ Ends(r) /\ account \in Accounts
      /\ UNCHANGED <<live, grants, pending, lost, faults, edits>>
  BY TypeParts DEF Disable
<1>2. account' \in Accounts /\ account'.id = account.id /\ account'.token = account.token
  BY <1>1 DEF Disable, Accounts
<1>3. /\ job' \in [Refreshers -> Jobs] /\ lock' \in Refreshers \cup {None}
      /\ \A q \in Refreshers : (lock' = q) <=> (job'[q].pc \notin {"idle", "picked"})
      /\ job'[r] = NoJob /\ \A q \in Refreshers \ {r} : job'[q] = job[q]
      /\ NoJob.pc = "idle" /\ NoJob.token = NoToken
  BY <1>1, EndsType DEF NoJob
<1>4. TypeOK'
  BY <1>1, <1>2, <1>3, TypeParts DEF TypeOK, Accounts, Jobs
<1>5. Numbered' /\ OneLive' /\ Dead' /\ Newest'
  <2>1. Numbered'
    BY <1>1, <1>2, <1>3, NoneTyped, TypeParts DEF Numbered
  <2> QED  BY <1>1, <1>3, <2>1 DEF OneLive, Dead, Newest
<1>6. Unsaved'
  <2> SUFFICES ASSUME pending # NoToken
               PROVE  \A q \in Refreshers : job'[q].token.grant # pending.grant
    BY <1>1, <1>2 DEF Unsaved
  <2>1. pending.grant # 0
    BY TokenGrants, TypeParts
  <2> QED  BY <1>3, <2>1, NoneTyped DEF Unsaved
<1>7. InUse'
  BY <1>2, <1>3 DEF InUse, Uses, Exists
<1>8. TokenKept'
  BY <1>1, <1>2, <1>3 DEF TokenKept, Exists, Same
<1> QED  BY <1>4, <1>5, <1>6, <1>7, <1>8

LEMMA FailsIInv ==
  ASSUME IInv, NEW r \in Refreshers, Fails(r)
  PROVE  IInv'
<1> USE DEF IInv, Parts
<1>1. /\ Ends(r) /\ UNCHANGED <<account, live, grants, pending, edits>> /\ job[r] \in Jobs
      /\ faults' \in 0 .. MaxFaults
  BY TypeParts, Bounds DEF Fails, Fault
<1>2. CASE job[r].pc = "saving"
  <2>1. Loses(job[r].token, job[r].got)
    BY <1>2 DEF Fails
  <2>2. job[r].got # job[r].token => job[r].token.grant \in 1 .. MaxGrants
    <3> SUFFICES ASSUME job[r].got # job[r].token, job[r].token = NoToken PROVE FALSE
      BY <1>1, TokenGrants DEF Jobs
    <3>1. job[r].got.grant = 0 /\ job[r].got \in Tokens \cup {NoToken}
      BY <1>1, <1>2, NoneTyped DEF Newest, Jobs
    <3> QED  BY <3>1, TokenGrants
  <2>3. /\ lost \subseteq lost' /\ lost' \subseteq 1 .. MaxGrants
        /\ job[r].got # job[r].token => job[r].token.grant \in lost'
    BY <2>1, <2>2, TypeParts DEF Loses
  <2> QED  BY <1>1, <2>3, EndsIInv, TypeParts
<1>3. CASE job[r].pc # "saving"
  BY <1>1, <1>3, EndsIInv, TypeParts DEF Fails
<1> QED  BY <1>2, <1>3

-----------------------------------------------------------------------------
(* The operator and the owner, and all steps together.                      *)

LEMMA ExchangeIInv ==
  ASSUME IInv, Exchange
  PROVE  IInv'
<1> USE DEF IInv, Parts
<1>1. /\ pending = NoToken /\ grants' = grants + 1
      /\ pending' = [grant |-> grants + 1, n |-> 0] /\ live' = live \cup {pending'}
      /\ UNCHANGED <<account, lock, job, lost, faults, edits>>
      /\ grants < MaxGrants /\ grants \in Nat
  BY TypeParts, Bounds DEF Exchange
<1>2. pending' \in Tokens /\ pending'.grant = grants + 1 /\ grants' \in 0 .. MaxGrants
  BY <1>1, Bounds DEF Tokens
<1>3. \A t \in Tokens \cup {NoToken} : t.grant <= grants => t.grant # pending'.grant
  BY <1>1, <1>2, TokenGrants
<1>4. /\ account.token \in Tokens \cup {NoToken} /\ live \subseteq Tokens
      /\ \A r \in Refreshers : job[r].token \in Tokens \cup {NoToken}
                               /\ job[r].got \in Tokens \cup {NoToken}
  BY TypeParts DEF Accounts, Jobs
<1>5. TypeOK'
  BY <1>1, <1>2, TypeParts DEF TypeOK, Accounts, Jobs
<1>6. Numbered'
  BY <1>1, <1>2, <1>4, TokenGrants DEF Numbered
<1>7. OneLive'
  BY <1>1, <1>3, <1>4 DEF OneLive, Numbered
<1>8. Unsaved'
  BY <1>1, <1>3, <1>4 DEF Unsaved, Numbered
<1>9. InUse'
  BY <1>1 DEF InUse, Uses, Exists
<1>10. Dead'
  BY <1>1, <1>3, <1>4 DEF Dead, Numbered
<1>11. Newest'
  <2> SUFFICES ASSUME NEW r \in Refreshers, job[r].pc = "saving"
               PROVE  /\ job[r].got.grant = job[r].token.grant
                      /\ \A t \in live' : t.grant = job[r].got.grant => t = job[r].got
    BY <1>1 DEF Newest
  <2>1. job[r].got.grant <= grants
    BY DEF Newest, Numbered
  <2> QED  BY <1>1, <1>3, <1>4, <2>1 DEF Newest
<1>12. TokenKept'
  BY <1>1, <1>3, <1>4 DEF TokenKept, Exists, Same, Numbered
<1> QED  BY <1>5, <1>6, <1>7, <1>8, <1>9, <1>10, <1>11, <1>12

\* A token of a new grant is nobody else's, so no refresh is taken for its own.
LEMMA ConnectIInv ==
  ASSUME IInv, SimpanHasilExchange
  PROVE  IInv'
<1> USE DEF IInv, Parts
<1>1. /\ pending # NoToken /\ pending \in Tokens /\ pending' = NoToken
      /\ UNCHANGED <<live, grants, lock, job, lost, faults, edits>> /\ account \in Accounts
  BY TypeParts DEF SimpanHasilExchange
<1>2. account' \in Accounts /\ account'.token = pending
  <2>1. Life \in 0 .. Life /\ pending.grant \in 0 .. MaxGrants
    BY <1>1, Bounds, TokenGrants
  <2>2. CASE Exists
    <3>1. account' = [account EXCEPT !.enabled = TRUE, !.token = pending, !.left = Life]
      BY <2>2 DEF SimpanHasilExchange
    <3> QED  BY <1>1, <2>1, <3>1 DEF Accounts
  <2>3. CASE ~Exists
    <3>1. account' = [id |-> pending.grant, enabled |-> TRUE, on |-> TRUE, token |-> pending,
                      left |-> Life]
      BY <2>3 DEF SimpanHasilExchange
    <3> QED  BY <1>1, <2>1, <3>1 DEF Accounts
  <2> QED  BY <2>2, <2>3
<1>3. TypeOK'
  BY <1>1, <1>2, TypeParts DEF TypeOK, Accounts, Jobs
<1>4. Numbered' /\ OneLive' /\ Unsaved' /\ Dead' /\ Newest'
  <2>1. Numbered'
    BY <1>1, <1>2, NoneTyped, TypeParts DEF Numbered
  <2> QED  BY <1>1, <2>1 DEF OneLive, Unsaved, Dead, Newest
<1>5. InUse'
  BY <1>1, <1>2 DEF InUse, Uses, Unsaved
<1>6. TokenKept'
  BY <1>1, <1>2 DEF TokenKept, Unsaved
<1> QED  BY <1>3, <1>4, <1>5, <1>6

LEMMA OperatorIInv ==
  ASSUME IInv, ExchangeFails \/ Toggle \/ ToggleCredential \/ Delete \/ Tick
  PROVE  IInv'
<1> USE DEF IInv, Parts
<1>1. account \in Accounts
  BY TypeParts
<1>2. CASE ExchangeFails
  <2>1. /\ pending' = NoToken /\ UNCHANGED <<account, live, grants, lock, job, lost, edits>>
        /\ faults' \in 0 .. MaxFaults
    BY <1>2, TypeParts, Bounds DEF ExchangeFails, Fault
  <2>2. TypeOK'
    BY <2>1, TypeParts DEF TypeOK, Accounts, Jobs
  <2>3. Numbered'
    BY <2>1, NoneTyped, TypeParts DEF Numbered
  <2> QED  BY <2>1, <2>2, <2>3 DEF OneLive, Unsaved, InUse, Uses, Exists, Dead, Newest, TokenKept,
           Same
<1>3. CASE Tick
  <2>1. account' = [account EXCEPT !.left = @ - 1] /\ account.left - 1 \in 0 .. Life
    BY <1>1, <1>3, Bounds DEF Tick, Accounts
  <2>2. account' \in Accounts /\ account'.id = account.id /\ account'.token = account.token
    BY <1>1, <2>1 DEF Accounts
  <2> QED  BY <1>3, <2>2, RowIInv, TypeParts DEF Tick
<1>4. ASSUME NEW to, Edits(to)
      PROVE  /\ account' = to /\ UNCHANGED <<live, grants, pending, lock, job, lost>>
             /\ faults' \in 0 .. MaxFaults /\ edits' \in 0 .. MaxEdits
  BY <1>4, TypeParts, Bounds DEF Edits
<1>5. CASE Toggle
  <2>1. PICK enabled \in BOOLEAN : Edits([account EXCEPT !.enabled = enabled, !.on = enabled])
    BY <1>5 DEF Toggle
  <2> DEFINE to == [account EXCEPT !.enabled = enabled, !.on = enabled]
  <2>2. to \in Accounts /\ to.id = account.id /\ to.token = account.token
    BY <1>1 DEF Accounts
  <2> HIDE DEF to
  <2>3. Edits(to)
    BY <2>1 DEF to
  <2> QED  BY <1>4, <2>2, <2>3, RowIInv
<1>6. CASE ToggleCredential
  <2> DEFINE to == [account EXCEPT !.on = ~@]
  <2>1. to \in Accounts /\ to.id = account.id /\ to.token = account.token
    BY <1>1 DEF Accounts
  <2>2. Edits(to)
    BY <1>6 DEF ToggleCredential
  <2> HIDE DEF to
  <2> QED  BY <1>4, <2>1, <2>2, RowIInv
<1>7. CASE Delete
  <2>1. /\ account' = NoAccount /\ UNCHANGED <<live, grants, pending, lock, job, lost>>
        /\ faults' \in 0 .. MaxFaults /\ edits' \in 0 .. MaxEdits
    BY <1>4, <1>7 DEF Delete
  <2>2. NoAccount \in Accounts /\ NoAccount.id = 0 /\ NoAccount.token = NoToken
    BY NoneTyped DEF NoAccount
  <2>3. TypeOK'
    BY <2>1, <2>2, TypeParts DEF TypeOK, Accounts, Jobs
  <2>4. Numbered' /\ OneLive' /\ Dead' /\ Newest'
    <3>1. Numbered'
      BY <2>1, <2>2, NoneTyped, TypeParts DEF Numbered
    <3> QED  BY <2>1, <3>1 DEF OneLive, Dead, Newest
  <2>5. Unsaved'
    <3>1. pending # NoToken => pending.grant # 0
      BY TokenGrants, TypeParts
    <3> QED  BY <2>1, <2>2, <3>1, NoneTyped DEF Unsaved
  <2>6. InUse' /\ TokenKept'
    BY <2>1, <2>2 DEF InUse, Exists, TokenKept
  <2> QED  BY <2>3, <2>4, <2>5, <2>6
<1> QED  BY <1>2, <1>3, <1>5, <1>6, <1>7

LEMMA RevokeIInv ==
  ASSUME IInv, Revoke
  PROVE  IInv'
<1> USE DEF IInv, Parts
<1>1. live' \subseteq live /\ UNCHANGED <<account, grants, pending, lock, job, lost, faults, edits>>
  BY DEF Revoke
<1>2. TypeOK'
  BY <1>1, TypeParts DEF TypeOK, Accounts, Jobs
<1>3. Numbered' /\ OneLive' /\ Unsaved' /\ Dead' /\ Newest'
  BY <1>1 DEF Numbered, OneLive, Unsaved, Dead, Newest
<1>4. InUse' /\ TokenKept'
  BY <1>1 DEF InUse, Uses, Exists, TokenKept, Same
<1> QED  BY <1>2, <1>3, <1>4

LEMMA InitIInv == Init => IInv
<1> SUFFICES ASSUME Init PROVE IInv
  OBVIOUS
<1>1. \A r \in Refreshers : job[r] = NoJob /\ NoJob.pc = "idle" /\ NoJob.token = NoToken
  BY DEF Init, NoJob
<1>2. account.id = 0 /\ account.token = NoToken
  BY DEF Init, NoAccount
<1>3. TypeOK
  <2>1. job \in [Refreshers -> Jobs]
    BY NoneTyped DEF Init
  <2> QED  BY <1>1, <2>1, NoneTyped, Bounds, TypeParts DEF Init
<1>4. Numbered
  BY <1>1, <1>2, NoneTyped DEF Init, Numbered
<1>5. OneLive /\ Unsaved /\ InUse /\ Dead /\ Newest /\ TokenKept
  BY <1>1, <1>2 DEF Init, OneLive, Unsaved, InUse, Exists, Dead, Newest, TokenKept
<1> QED  BY <1>3, <1>4, <1>5 DEF IInv, Parts

\* The invariant is inductive.
LEMMA NextIInv == IInv /\ [Next]_vars => IInv'
<1> SUFFICES ASSUME IInv, [Next]_vars PROVE IInv'
  OBVIOUS
<1>1. ASSUME NEW r \in Refreshers, ListExpiring(r) \/ Choose(r) \/ Pick(r) PROVE IInv'
  BY <1>1, BeginsIInv
<1>2. ASSUME NEW r \in Refreshers, Goes(r) PROVE IInv'
  BY <1>2, GoesOnIInv, AnsweredIInv, SavesIInv, DisableIInv DEF Goes
<1>3. ASSUME NEW r \in Refreshers, NoExpiry(r) \/ Unanswered(r) \/ Fails(r) PROVE IInv'
  BY <1>3, NotAnsweredIInv, FailsIInv
<1>4. CASE Exchange \/ SimpanHasilExchange
  BY <1>4, ExchangeIInv, ConnectIInv
<1>5. CASE ExchangeFails \/ Toggle \/ ToggleCredential \/ Delete \/ Tick
  BY <1>5, OperatorIInv
<1>6. CASE Revoke
  BY <1>6, RevokeIInv
<1>7. CASE UNCHANGED vars
  BY <1>7 DEF vars, IInv, TypeOK, Parts, Numbered, OneLive, Unsaved, InUse, Uses, Exists, Dead,
     Newest, TokenKept, Same
<1> QED  BY <1>1, <1>2, <1>3, <1>4, <1>5, <1>6, <1>7 DEF Next

-----------------------------------------------------------------------------

\* The inductive invariant holds in every behaviour, with or without fairness.
THEOREM Invariance == Spec => []IInv
  BY InitIInv, NextIInv, PTL DEF Spec

\* Types, and the lock: whoever looks up or uses a refresh token holds it.
THEOREM TypeCorrect == Spec => []TypeOK
<1>1. IInv => TypeOK
  BY DEF IInv
<1> QED  BY Invariance, <1>1, PTL

\* No refresh throws the living token of an account away, however often tokens are
\* replaced and accounts connected anew.
THEOREM NoTokenLost == Spec => []TokenKept
<1>1. IInv => TokenKept
  BY DEF IInv
<1> QED  BY Invariance, <1>1, PTL

\* The lock is enough for a refresh not to switch a living account off.
THEOREM LivingStays == Spec => OnlyDeadDisabled
<1> DEFINE Right ==
      account.enabled /\ ~account'.enabled /\ edits' = edits =>
        \/ account.token \notin live
        \/ \E r \in Refreshers : lock = r /\ job[r].token.grant # account.token.grant
<1>1. IInv /\ [Next]_vars => Right
  <2> SUFFICES ASSUME IInv, [Next]_vars, account.enabled, ~account'.enabled, edits' = edits
               PROVE  \/ account.token \notin live
                      \/ \E r \in Refreshers :
                           lock = r /\ job[r].token.grant # account.token.grant
    OBVIOUS
  <2>1. account' # account /\ account \in Accounts /\ edits \in Nat
    BY TypeParts, Bounds DEF IInv
  <2>2. ~SimpanHasilExchange
    <3> SUFFICES ASSUME SimpanHasilExchange PROVE account'.enabled
      OBVIOUS
    <3>1. CASE Exists
      BY <2>1, <3>1 DEF SimpanHasilExchange, Accounts
    <3>2. CASE ~Exists
      BY <3>2 DEF SimpanHasilExchange
    <3> QED  BY <3>1, <3>2
  <2>3. ~Toggle /\ ~ToggleCredential /\ ~Delete
    <3>1. \A to : ~Edits(to)
      BY <2>1 DEF Edits
    <3> QED  BY <3>1, Zenon DEF Toggle, ToggleCredential, Delete
  <2>4. ~Tick
    BY <2>1 DEF Tick, Accounts
  <2>5. ASSUME NEW r \in Refreshers PROVE ~SimpanHasilRefresh(r)
    BY <2>1 DEF SimpanHasilRefresh, Accounts
  <2>6. ASSUME NEW r \in Refreshers
        PROVE  /\ ~ListExpiring(r) /\ ~Choose(r) /\ ~Pick(r) /\ ~Enter(r) /\ ~GetActiveSession(r)
               /\ ~Answered(r) /\ ~Refused(r) /\ ~NoExpiry(r) /\ ~Unanswered(r) /\ ~Fails(r)
    BY <2>1 DEF ListExpiring, Choose, Pick, Enter, GetActiveSession, Answered, Refused, NoExpiry,
       Unanswered, Fails
  <2>7. ~Exchange /\ ~ExchangeFails /\ ~Revoke /\ ~UNCHANGED vars
    BY <2>1 DEF Exchange, ExchangeFails, Revoke, vars
  <2>8. PICK r \in Refreshers : Disable(r)
    BY <2>2, <2>3, <2>4, <2>5, <2>6, <2>7 DEF Next, Goes
  <2>9. job[r].pc = "disabling" /\ lock = r /\ Same(r)
    BY <2>1, <2>8, TypeParts DEF Disable, IInv
  <2>10. job[r].token \notin live
    BY <2>9 DEF IInv, Parts, Dead
  <2>11. CASE account.token.grant = job[r].token.grant
    BY <2>9, <2>10, <2>11 DEF IInv, Parts, InUse, Uses, Same
  <2> QED  BY <2>9, <2>11
<1> QED  BY Invariance, <1>1, PTL DEF Spec, OnlyDeadDisabled

=============================================================================
