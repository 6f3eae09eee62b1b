-------------------------------- MODULE OAuth -------------------------------
(***************************************************************************)
(* The OAuth account of an upstream provider: its session row with the     *)
(* refresh token, its credential row with the access token, and everybody  *)
(* who refreshes or changes them: the periodic worker, requests that found *)
(* no usable credential or were refused by the upstream, and operators     *)
(* (internal/worker/oauth_refresh_sesi.go, oauth_refresh.go, penyegar.go,  *)
(* internal/database/repo/upstream/oauth.go, internal/admin/oauth.go).     *)
(*                                                                         *)
(* Refreshes exclude one another by an advisory lock of the database; the  *)
(* operator's actions do not take it.  The identity provider may replace   *)
(* the refresh token with every refresh, and the old one is dead then.     *)
(*                                                                         *)
(* A session and its credential are created by one transaction and deleted *)
(* together (the foreign key cascades), so one record stands for both.     *)
(* Left out: what is only shown (last_refresh_error), several accounts of  *)
(* one provider, and the loss of the connection that holds the lock.       *)
(***************************************************************************)
EXTENDS Integers, FiniteSets

CONSTANTS
  Refreshers,   \* goroutines that refresh: of the worker, of requests, of operators
  MaxTries,     \* maksPercobaanRefresh
  Life,         \* life of an access token, in ticks
  Ahead,        \* it is refreshed when so many are left (threshold)
  MaxGrants,    \* bound: consents given by the account's owner
  MaxRotations, \* bound: refresh tokens that replace one another in a grant
  MaxFaults,    \* bound: lost answers, failed statements, clients that leave, crashes
  MaxEdits,     \* bound: changes by an operator
  None

ASSUME LifeAssumption == Life \in Nat /\ Ahead \in 0 .. Life - 1

ASSUME BoundsAssumption ==
  /\ MaxTries \in Nat \ {0}
  /\ {MaxGrants, MaxRotations, MaxFaults, MaxEdits} \subseteq Nat

ASSUME NoneAssumption == None \notin Refreshers

VARIABLES
  account,  \* the rows of provider_oauth_sessions and provider_credentials, id 0 without them
  live,     \* refresh tokens the identity provider accepts
  grants,   \* consents given so far
  pending,  \* the token of a code that was exchanged and not saved yet
  lock,     \* who holds the advisory lock LockOAuthRefresh
  job,      \* per refresher: what it does
  lost,     \* grants of which a new refresh token was issued and never saved
  faults, edits

vars == <<account, live, grants, pending, lock, job, lost, faults, edits>>

Tokens  == [grant : 1 .. MaxGrants, n : 0 .. MaxRotations]
NoToken == [grant |-> 0, n |-> 0]

NoAccount == [id |-> 0, enabled |-> FALSE, on |-> FALSE, token |-> NoToken, left |-> 0]
NoJob     == [pc |-> "idle", id |-> 0, token |-> NoToken, got |-> NoToken, tries |-> 0]

Exists  == account.id # 0
Due     == account.left <= Ahead
Same(r) == Exists /\ account.id = job[r].id

\* Mutant: the lock stays with its connection, which goes back to the pool (audit F5).
Ends_KeepsLock(r) ==
  /\ job' = [job EXCEPT ![r] = NoJob]
  /\ UNCHANGED lock

\* defer unlock(); the connection of a process that died gives the lock up too.
Ends(r) ==
  /\ job' = [job EXCEPT ![r] = NoJob]
  /\ lock' = IF lock = r THEN None ELSE lock

Fault == faults < MaxFaults /\ faults' = faults + 1

-----------------------------------------------------------------------------

\* Mutant: only tokens that have not expired yet are listed.
ListExpiring_NotExpired(r) ==
  /\ job[r].pc = "idle" /\ lock = None
  /\ Exists /\ account.enabled /\ account.on /\ Due /\ account.left > 0
  /\ lock' = r
  /\ job' = [job EXCEPT ![r] = [NoJob EXCEPT !.pc = "asking", !.id = account.id,
                                             !.token = account.token]]
  /\ UNCHANGED <<account, live, grants, pending, lost, faults, edits>>

\* OAuthRefreshWorker.Run lists what is due, with the tokens, under the lock.
ListExpiring(r) ==
  /\ job[r].pc = "idle" /\ lock = None
  /\ Exists /\ account.enabled /\ account.on /\ Due
  /\ lock' = r
  /\ job' = [job EXCEPT ![r] = [NoJob EXCEPT !.pc = "asking", !.id = account.id,
                                             !.token = account.token]]
  /\ UNCHANGED <<account, live, grants, pending, lost, faults, edits>>

\* RefreshProvider, for a request without a usable credential, and RefreshKredensial,
\* after the upstream has refused it, look the session up under the lock.
Choose(r) ==
  /\ job[r].pc = "idle" /\ lock = None
  /\ Exists /\ account.enabled
  /\ lock' = r
  /\ job' = [job EXCEPT ![r] = [NoJob EXCEPT !.pc = "chosen", !.id = account.id]]
  /\ UNCHANGED <<account, live, grants, pending, lost, faults, edits>>

\* refreshOAuthSession of an operator looks it up before it takes the lock.
Pick(r) ==
  /\ job[r].pc = "idle"
  /\ Exists /\ account.enabled
  /\ job' = [job EXCEPT ![r] = [NoJob EXCEPT !.pc = "picked", !.id = account.id]]
  /\ UNCHANGED <<account, live, grants, pending, lock, lost, faults, edits>>

\* Mutant: a manual refresh does not take the lock (before V-EO-19).
Enter_Unlocked(r) ==
  /\ job[r].pc = "picked"
  /\ job' = [job EXCEPT ![r].pc = "chosen"]
  /\ UNCHANGED <<account, live, grants, pending, lock, lost, faults, edits>>

\* The lock is tried once; when it is taken the answer is 409.
Enter(r) ==
  /\ job[r].pc = "picked"
  /\ IF lock = None
     THEN lock' = r /\ job' = [job EXCEPT ![r].pc = "chosen"]
     ELSE Ends(r)
  /\ UNCHANGED <<account, live, grants, pending, lost, faults, edits>>

\* GetActiveSession reads the token, of a disabled session too.
GetActiveSession(r) ==
  /\ job[r].pc = "chosen"
  /\ IF Same(r)
     THEN job' = [job EXCEPT ![r].pc = "asking", ![r].token = account.token] /\ UNCHANGED lock
     ELSE Ends(r)
  /\ UNCHANGED <<account, live, grants, pending, lost, faults, edits>>

-----------------------------------------------------------------------------
(* RefreshSesiOAuth.                                                        *)

\* The identity provider accepts the token t: it stays, or the next one replaces it.
Accepts(t, next) ==
  /\ t \in live
  /\ next = t \/ (t.n < MaxRotations /\ next = [t EXCEPT !.n = @ + 1])
  /\ live' = (live \ {t}) \cup {next}

\* A new token that is not saved is lost.
Loses(t, next) == lost' = IF next = t THEN lost ELSE lost \cup {t.grant}

Answered(r) ==
  /\ job[r].pc = "asking"
  /\ \E next \in Tokens :
       /\ Accepts(job[r].token, next)
       /\ job' = [job EXCEPT ![r].pc = "saving", ![r].got = next]
  /\ UNCHANGED <<account, grants, pending, lock, lost, faults, edits>>

\* The answer has no expires_in, which counts as a failure and is not tried again.
NoExpiry(r) ==
  /\ Fault
  /\ job[r].pc = "asking"
  /\ \E next \in Tokens : Accepts(job[r].token, next) /\ Loses(job[r].token, next)
  /\ Ends(r)
  /\ UNCHANGED <<account, grants, pending, edits>>

\* No answer arrives, though the provider may have given one: the same token is sent
\* again, MaxTries times at most or until the context is done.
Unanswered(r) ==
  /\ Fault
  /\ job[r].pc = "asking"
  /\ \/ UNCHANGED <<live, lost>>
     \/ \E next \in Tokens : Accepts(job[r].token, next) /\ Loses(job[r].token, next)
  /\ \/ /\ job[r].tries + 1 < MaxTries
        /\ job' = [job EXCEPT ![r].tries = @ + 1] /\ UNCHANGED lock
     \/ Ends(r)
  /\ UNCHANGED <<account, grants, pending, edits>>

\* invalid_grant is final.
Refused(r) ==
  /\ job[r].pc = "asking" /\ job[r].token \notin live
  /\ job' = [job EXCEPT ![r].pc = "disabling"]
  /\ UNCHANGED <<account, live, grants, pending, lock, lost, faults, edits>>

\* Mutant: the new refresh token is thrown away (before V-EO-18).
SimpanHasilRefresh_OldToken(r) ==
  /\ job[r].pc = "saving"
  /\ account' = IF Same(r) THEN [account EXCEPT !.left = Life] ELSE account
  /\ IF Same(r) THEN UNCHANGED lost ELSE Loses(job[r].token, job[r].got)
  /\ Ends(r)
  /\ UNCHANGED <<live, grants, pending, faults, edits>>

\* One transaction saves the access token, and the refresh token if it is a new one.
SimpanHasilRefresh(r) ==
  /\ job[r].pc = "saving"
  /\ account' =
       IF Same(r)
       THEN [account EXCEPT !.left = Life,
                            !.token = IF job[r].got = job[r].token THEN @ ELSE job[r].got]
       ELSE account
  /\ IF Same(r) THEN UNCHANGED lost ELSE Loses(job[r].token, job[r].got)
  /\ Ends(r)
  /\ UNCHANGED <<live, grants, pending, faults, edits>>

\* SetEnabled(false): a refused session is switched off, with its credential.
Disable(r) ==
  /\ job[r].pc = "disabling"
  /\ account' = IF Same(r) THEN [account EXCEPT !.enabled = FALSE, !.on = FALSE] ELSE account
  /\ Ends(r)
  /\ UNCHANGED <<live, grants, pending, lost, faults, edits>>

\* A statement fails, the egress pool cannot be read, the client of the request
\* leaves, or the process dies.
Fails(r) ==
  /\ Fault
  /\ job[r].pc \notin {"idle", "asking"}
  /\ IF job[r].pc = "saving" THEN Loses(job[r].token, job[r].got) ELSE UNCHANGED lost
  /\ Ends(r)
  /\ UNCHANGED <<account, live, grants, pending, edits>>

-----------------------------------------------------------------------------
(* The operator and the owner of the account.                               *)

\* ExchangeAuthCodeWithProxy: the owner consents (again) and the code is exchanged.
Exchange ==
  /\ pending = NoToken /\ grants < MaxGrants
  /\ grants' = grants + 1
  /\ pending' = [grant |-> grants + 1, n |-> 0]
  /\ live' = live \cup {pending'}
  /\ UNCHANGED <<account, lock, job, lost, faults, edits>>

\* SimpanHasilExchange replaces the tokens of the account of that name, or creates
\* it.  The credential that it finds is not switched on.
SimpanHasilExchange ==
  /\ pending # NoToken
  /\ account' =
       IF Exists THEN [account EXCEPT !.enabled = TRUE, !.token = pending, !.left = Life]
       ELSE [id |-> pending.grant, enabled |-> TRUE, on |-> TRUE, token |-> pending,
             left |-> Life]
  /\ pending' = NoToken
  /\ UNCHANGED <<live, grants, lock, job, lost, faults, edits>>

ExchangeFails ==
  /\ Fault
  /\ pending # NoToken /\ pending' = NoToken
  /\ UNCHANGED <<account, live, grants, lock, job, lost, edits>>

Edits(to) ==
  /\ edits < MaxEdits /\ edits' = edits + 1
  /\ Exists /\ account' = to
  /\ UNCHANGED <<live, grants, pending, lock, job, lost, faults>>

\* toggleOAuthSession does nothing when the session is in that state (B-469).
Toggle ==
  \E enabled \in BOOLEAN :
    /\ account.enabled # enabled
    /\ Edits([account EXCEPT !.enabled = enabled, !.on = enabled])

\* The switch of the credential alone, and the deletion of the session or of its
\* credential.
ToggleCredential == Edits([account EXCEPT !.on = ~@])
Delete           == Edits(NoAccount)

\* The owner withdraws a consent.
Revoke ==
  \E t \in live :
    /\ live' = {u \in live : u.grant # t.grant}
    /\ UNCHANGED <<account, grants, pending, lock, job, lost, faults, edits>>

Tick ==
  /\ account.left > 0
  /\ account' = [account EXCEPT !.left = @ - 1]
  /\ UNCHANGED <<live, grants, pending, lock, job, lost, faults, edits>>

Init ==
  /\ account = NoAccount /\ live = {} /\ grants = 0 /\ pending = NoToken
  /\ lock = None /\ job = [r \in Refreshers |-> NoJob]
  /\ lost = {} /\ faults = 0 /\ edits = 0

\* What a refresh does once it has begun.
Goes(r) ==
  \/ Enter(r) \/ GetActiveSession(r) \/ Answered(r) \/ Refused(r)
  \/ SimpanHasilRefresh(r) \/ Disable(r)

Next ==
  \/ \E r \in Refreshers :
       \/ ListExpiring(r) \/ Choose(r) \/ Pick(r) \/ Goes(r)
       \/ NoExpiry(r) \/ Unanswered(r) \/ Fails(r)
  \/ Exchange \/ SimpanHasilExchange \/ ExchangeFails
  \/ Toggle \/ ToggleCredential \/ Delete \/ Revoke \/ Tick

Spec == Init /\ [][Next]_vars

\* The worker runs again and again, a refresh that has begun goes on, and with only
\* so many faults the identity provider answers in the end.
Fairness ==
  /\ WF_vars(\E r \in Refreshers : ListExpiring(r))
  /\ \A r \in Refreshers : WF_vars(Goes(r))

FairSpec == Spec /\ Fairness

-----------------------------------------------------------------------------
(* Properties.                                                              *)

Stages == {"idle", "picked", "chosen", "asking", "saving", "disabling"}

\* Every variable keeps its type, and what looks up or uses a refresh token holds
\* the lock.
TypeOK ==
  /\ account \in [id : 0 .. MaxGrants, enabled : BOOLEAN, on : BOOLEAN,
                  token : Tokens \cup {NoToken}, left : 0 .. Life]
  /\ live \subseteq Tokens
  /\ grants \in 0 .. MaxGrants
  /\ pending \in Tokens \cup {NoToken}
  /\ job \in [Refreshers -> [pc : Stages, id : 0 .. MaxGrants, token : Tokens \cup {NoToken},
                             got : Tokens \cup {NoToken}, tries : 0 .. MaxTries - 1]]
  /\ lock \in Refreshers \cup {None}
  /\ \A r \in Refreshers : (lock = r) <=> (job[r].pc \notin {"idle", "picked"})
  /\ lost \subseteq 1 .. MaxGrants
  /\ faults \in 0 .. MaxFaults /\ edits \in 0 .. MaxEdits

\* As long as a grant stands and none of its tokens was lost on the way, the account
\* has the token that is accepted, or a refresh is about to save it (V-EO-18).
TokenKept ==
  Exists /\ account.token.grant \notin lost =>
    \A t \in live : t.grant = account.token.grant =>
      \/ t = account.token
      \/ \E r \in Refreshers : Same(r) /\ job[r].pc = "saving" /\ job[r].got = t

\* A refresh switches an account off only when the token it has is dead, unless it
\* was connected anew meanwhile: no failure that may pass, and no second refresh
\* with the same token, costs a living account (V-EO-17, V-EO-19).
OnlyDeadDisabled ==
  [][account.enabled /\ ~account'.enabled /\ edits' = edits =>
       \/ account.token \notin live
       \/ \E r \in Refreshers : lock = r /\ job[r].token.grant # account.token.grant]_vars

\* An account in service whose access token has expired gets a new one, or leaves
\* service, whoever else was refreshing and whatever failed.  Its provider stays
\* enabled and its token can be decrypted: the worker's listing skips the others.
KeptAlive ==
  (account.enabled /\ account.on /\ account.left = 0)
    ~> ~(account.enabled /\ account.on /\ account.left = 0)

\* Connecting a refused account anew is the way to recover it.
ReconnectRecovers == account.enabled /\ edits = 0 => account.on

=============================================================================
