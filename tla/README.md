# Route-X: verification models

TLA+ models of Route-X, an AI gateway: clients call one HTTP API with a gateway
key, the gateway chooses an upstream (provider, model) for each request,
forwards it, and accounts for tokens, money and limits. PostgreSQL holds
configuration, keys, budgets and the request log; Redis holds what several
gateway processes share on the hot path.

Line numbers below and in `PROJECT.json` refer to `src/`; paths without a
directory are in `src/internal/gateway/`.

## 1. Inventory

| Component | Source | State it keeps | Operations | Hard behaviour | What makes it correct |
|---|---|---|---|---|---|
| Circuit breaker | `breaker.go` | Redis hash per (provider, model[, rule config]); per-process memo and last announced state | Allow, Record, Reset, State, Warm | scripts of many processes, late results, retried scripts, dead probes, clock skew, stale memo | probe quota per window; an episode is decided only by its own probes; an open period is left alone; memo bounded by memoTTL; no wedge |
| Executor | `executor.go` | the attempts of one request; per-provider concurrency slots | attempt loop, failover, streaming wrappers | slot ownership moves to the stream; failures classified; retry versus failover | slots returned exactly once; one breaker report per permit; no failover after bytes were sent |
| Gateway HTTP, guard, codecs | `http.go`, `anthropic.go`, `responses.go`, `guard.go`, `codec.go`, `contentfilter/` | the request in flight | gate order, refunds, SSE | partial failure between gates | what was reserved is returned when the request does not run |
| Rate limiter of keys | `internal/apikey/limiter.go`, `internal/ratelimit/` | Redis counters per window | check-and-increment script, refund | refund across a window, fail-open, token counts after the fact | admitted requests of a window never exceed the limit; refunds return what was taken |
| Budgets | `internal/billing/billing.go`, `internal/database/repo/policy/budgets.go`, `internal/worker/budget.go` | budget rows; per-process copy and holds; alert marks | Check, Tahan (hold), AddSpend, Announce, rollover | holds expire, copies go stale, rollover against spend | no overshoot by a burst; spend counted once; one alert per threshold and period |
| Usage recorder | `usage.go`, `internal/usage/` | bounded queue, request log | Record, workers, Close | full queue, failed insert, shutdown | every finished request adds its spend; Close loses none that was accepted |
| Response cache | `internal/responsecache/` | Redis entries, settings | lookup, store, invalidate | invalidation against a store under way | no answer from before an invalidation after it |
| Router | `internal/router/` | rules, snapshot, counters of strategies | choose candidates | snapshot refresh while routing | a candidate is enabled and permitted by the rule |
| Upstream credentials and OAuth refresh | `internal/database/repo/upstream/oauth.go`, `internal/worker/oauth_refresh*.go`, `internal/oauth/` | token rows | refresh under lock, sessions | two refreshers, crash between exchange and save | a refresh token is spent once; the newest token wins |
| API keys | `internal/database/repo/keys/`, `internal/apikey/middleware.go` | key rows, cache | authenticate, rotate, revoke | cached key after revoke | a revoked key stops working within the cache's TTL |
| Sessions and login limits | `internal/auth/` | sessions, attempt counters | login, refresh, logout, lock | concurrent login failures, expiry | lock after N failures; revoked sessions stay revoked |
| Webhooks | `internal/webhooks/` | delivery rows | enqueue, claim, deliver, retry, abandon | crash between delivery and mark, two dispatchers | at-least-once; terminal states final |
| Worker | `internal/worker/` | advisory locks, job schedule | run jobs, drain | two processes, overlap, lost lock | one process runs a job at a time |
| Key rotation | `internal/security/rotation/` | encrypted columns | re-encrypt in batches | crash, concurrent writes | every value stays readable by some installed key |
| Backup and restore | `internal/admin/backup.go` | database schemas | dump, scratch restore, swap | crash during swap | all old or all new |
| Migrations | `internal/database/migrate.go` | schema version | up, down | two processes, crash | applied once, in order |
| Egress pools and health | `internal/worker/egress_health.go`, `internal/httpx/`, `internal/provision/` | pool health | probe, choose | stale health | fail-open choice |
| Admin API, CLI tools, UI | `internal/admin/`, `internal/cliconfig/`, `cmd/`, `web/` | rows of the above | CRUD | - | authorization, validation |
| Provider adapters | `internal/providers/` | none | encode, decode, stream | wire formats | faithful translation |
| Observability, config | `internal/observability/`, `internal/config/`, `internal/health/` | metrics, settings | - | - | - |

How they interact: a request passes authentication, rate limits and budget
checks (`http.go`), the router yields candidates, the executor takes for each
one a slot and a breaker permit, calls the adapter, reports the result to the
breaker, and the outcome goes to the usage recorder, which writes the log and
adds the spend. Worker jobs roll budgets over, dispatch webhooks, refresh OAuth
tokens. The breaker's transitions and the budget's alerts become webhook rows.


## 2. Modules

| Module | What it is | Code |
|---|---|---|
| `Breaker` | the breaker's Redis scripts, memo, transitions and operator reset, driven by calls of several processes | `breaker.go`, as `executor.go` calls it |
| `Circuit` | abstract: one circuit with three states and a bounded number of probes per trial | implemented by `Breaker` (`Promise`) |
| `BreakerProofs` | theorems about `Breaker` | |
| `Recorder` | the bounded queue of finished requests, its writers, the drop path and shutdown | `usage.go`, server shutdown |
| `Ledger` | abstract: the cost of a request is charged at most once and its outcome is final | implemented by `Recorder` (`KeepsTheBooks`) |
| `RecorderProofs` | theorems about `Recorder` | |
| `Budget` | copies, holds, spending, alerts and renewal of budgets | `internal/billing/billing.go`, `internal/database/repo/policy/budgets.go`, `internal/worker/budget.go` |
| `BudgetProofs` | theorems about `Budget` | |
| `Executor` | the attempt loop over candidates, slots, permits, retries, failover, streams and their guard | `executor.go`, `internal/providers/errors.go`, the streaming loop of `http.go` |
| `ExecutorProofs` | theorems about `Executor` | |
| `Quota` | what a request spends of the rate limits of its key, models, tiers and providers, and what it gets back | `internal/apikey/limiter.go`, `guard.go`, the handlers of `http.go` |
| `QuotaProofs` | theorems about `Quota` | |
| `Webhooks` | the queue of webhook deliveries: claims under a lease, posts, results, recovery | `internal/webhooks/`, `internal/worker/webhook.go` |
| `WebhooksProofs` | theorems about `Webhooks` | |
| `OAuth` | the OAuth account of an upstream, everybody who refreshes it, and the identity provider's rotation | `internal/worker/oauth_refresh*.go`, `penyegar.go`, `internal/database/repo/upstream/`, `internal/admin/oauth.go` |
| `OAuthProofs` | theorems about `OAuth` | |
| `Induction` | induction over the naturals as a lemma about sets, for the proofs | |
| `MC*` | instances for TLC | |

The components meet at small interfaces, and each module leaves the other side
of its interface arbitrary: `Executor` gets any answer from the breaker and
records what it reports; `Breaker` gets calls that ask, run and report in any
order; `Recorder` receives finished requests and adds their cost; `Budget`
receives requests and their cost; `Quota` lets attempts succeed or fail as they
like; `Webhooks` gets events at any time, among them the notices of the breaker
and of budgets; `OAuth` gets refreshes at any time. So each property holds
whatever the neighbour does, and the instances stay small. `PROJECT.json` maps
every definition to the lines it models.

### Breaker

| Variable | Code |
|---|---|
| `now`, constant `Skew` | the clock each process passes to the scripts (`now_ms`) |
| `hash` | the Redis hash of a key: `open_until`, `probes`, `probes_at`, the sample buckets, and the TTL |
| `memo` | the cached decision of a process (memoTTL, memoExpiry) |
| `transisi` | the last state a process announced |
| `call` | an attempt: asking, answered, running upstream, reporting, reported |
| `reset` | Reset in progress: keys found, keys deleted, announced |
| `cur`, `flipAt` | history: holders of the present window's probes, last change of the circuit |

An action is one atomic step: a script in Redis (`AllowReads`, `AllowProbe`,
`RecordIgnored`, `RecordVerdict`, `RecordSample`), or what a process does before
and after it (`Ask`, `AllowReturns`, `End`, `RecordReturns`). Between sending a
script and its execution up to `MaxDelay` passes, and the script uses the time
read when it was sent. Losing a reply makes the client execute the script again,
as go-redis retries do (`reply_lost`); Redis may refuse (`redis_down`: requests
pass, nothing is recorded); a process may die with its calls and its memo
(`crash`); an operator may reset a circuit (`reset`), which is a scan and a
delete of possibly several keys; the memo map may be cleared (`memo_flush`).

Left out: the counters that go only into the payload of notices
(`open_failures`, totals); `State` and `Close`, which change nothing here; a
rule configuration equal to the global one.

`DelayAssumption` (`MaxDelay + MaxSkew < OpenDuration`) says that a script is
late by less than an open period; the client's timeouts are a few seconds and
the default period is 30. A rule configured with an open period of about a
second is outside that assumption.

### Recorder

`phase` follows each request from its handler through `Record` (lock, check of
the stop signal, send or drop) to the end of its event; `queue` is the channel
`antre`; `worker` the writers; `mati` the stop signal; `closer` the shutdown
sequence of `cmd/ai-gateway` and `Close`; `rows` the log; `charges` the cost
added per request. A behaviour chooses at its start which failures it may meet
(`faults`): a failed insert, a failed charge, a panic in a writer, a server
shutdown or a Close that gives up. Left out: the timeline of attempts, metrics
and prices. A request without cost only gets its row and is not distinguished.

### Budget

`row` is the database row of a budget (spent, the two alert marks, active or
not); `logged` the cost in the request log since the period ended, from which
the worker computes the new period's spending; `copy`, `failed`, `load` the
cache of a process, with one load at a time; `hold` the live holds; `req` a
request from Check to the landing of its cost; `sent` counts alerts. Time is
measured in ages: a copy, a failed load, a request each have one, and `Tick`
lets one unit pass (`Tick` waits for what has a deadline in the code: a load ends
within `LoadTime`, a request within `MaxRun`).

The code keeps a list of holds with their times of expiry and adds up those that
are alive (`totalTahanTerkunci`). Nothing else is done with the list, so
`hold[p][b]` is this sum, for now (`hold[p][b][0]`) and for each later tick up to
`HoldTTL`: a new hold adds its estimate to all of them (`Reserves`), and a tick
moves them up by one (`Swept`).

Abstractions: expired holds disappear at `Tick` (the code sweeps them when it
next looks, which nothing can tell apart); marking an alert and enqueueing its
notice are one step (a crash in between loses the notice, which the comment
there accepts); budgets of providers, which reserve nothing, are requests with
`Estimate` 0; in the runs that check `NoOvershoot` a request costs at most its
estimate; updating, switching and deleting budgets is left out. Two pairs of
statements are one step each: the row of the log and the charge of its cost
(`Lands`; `internal/usage/usage.go:630` and 774), and the sum over the
log and the reset (`PeriodRenews`; `internal/worker/budget.go:118` and 126). No
property here depends on the gap in the first; the second is planned as `Rollover`
(section 5).

### Executor

`slotAktif` is the table of slots; `req[r]` is the request handler `r` serves:
its plan and position (`idx`, `n`, `allowed`, `left`), what the current
candidate did (`calls`, `candErr`), the models that refused (`rejected`), the
outcome so far (`err`, `spare`), the state of its context and stream (`gone`,
`ended`, `idle`, `events`) and history used only by properties (`got`,
`reports`, `tried`, `refusals`, `real`). The kinds of failure are
grouped by what the executor does with them; `local` is a refusal of the
gateway's own limits, `late` a stream that opened as its deadline fired.

`Step` holds what the process does by itself or within a deadline. `Permitted`
and `Denied` are both always possible: the breaker's answer is arbitrary. Left
out: the breaker's key per candidate, the length of pauses, the texts of errors;
the cascade over combo tiers of the HTTP layer is in `Quota`.
An empty plan is answered at once as an unknown model (`unknown_model`).
`PeriksaBatasProvider` remembers an admission for the whole request
(`guard.go:662`); here a retry may meet another answer, so the model has more
behaviours than the code.

### Quota

`count` is the Redis counter of each fixed window, a window being a scope (the
key, a model, a gate of the provider), a kind and a number; `tokens` the tokens
recorded per window of the key; `req[r]` the handler of a request: where it is
(`pc`), the time the middleware planted for refunds (`anchor`), the counts made
for models (`marks`, tandaKuotaModel), the answers of the provider's gates it
remembers (`memo`, memoBatas), whether the deferred refund is active
(`guarded`, jagaKuota), and the tier it tries. The last gate of a provider is its
column with two limits per minute: it counts the request against the first and may
then refuse it for the tokens of the provider (`GateShuts`), which is remembered
until the minute is over, as any refusal (`memoBatasSimpan`); what was counted
stays counted (`shut` keeps these windows). `held` is history: what was
counted for whom; `outages` and `missed` are the calls that failed and the
windows they were about.

An action is one call of a script with the handler's step around it, or a
handler's decision. Every check that can refuse between the middleware and the
first attempt is `Refuse`, enabled before each of them; `TierDropped` stands for
the checks after a tier's model was counted, `TierSkipped` for those before it. A
stream that opened at the upstream waits in `opening` for `PrepareSSE`: when the
header cannot be sent, the handler returns before it has deferred the recording
of tokens (`PrepareFails`, history `unsent`). A script fails when Redis does or
when the request's context is cancelled because the client left; then an
admission is not counted, a token gate opens and a refund is lost, as in
`failOpenDecision`. `CatatToken` has a context of its own.

Left out: the scopes of users, addresses and organisations, which behave like
the key's; poisoned keys; the mode that fails closed; what spends the tokens of a
provider's column, which other keys do as well: its limit refuses at any time; a
delay between reading the clock and the script, or between the two questions a
column is asked; a script that ran although its caller saw a failure, and one that
the client of Redis sent twice, which counts twice.

### Webhooks

`row` is the table: status, attempts, the wait until the row is due, the age of
its lease and who has it; `item` what a worker has of its batch in memory and
how far each delivery is; `age` the age of a worker's round, whose context ends
at `Deadline`; `hook` the webhook. `ClaimDue` takes any set of due rows
(`FOR UPDATE SKIP LOCKED`), `RenewLeases` is jagaSewa, `RecoverStuck` begins a
round. A round that is over records nothing: its rows stay leased until they
are recovered. The statements that record a result name the row by its id only;
that they never reopen what has ended is `FinalStays`, not a guard of theirs.

`LeaseAssumption` is `Deadline <= Stuck`: the code has 5 minutes for both and
recovers rows whose lease is strictly older. Left out: signatures, payloads,
address checks, and the columns that are only shown (`consecutive_failures`).
The promise is about the row: an endpoint may still see one delivery twice, when
a worker dies between the answer and its record. An edit of a webhook may also
change its `max_retries` (`webhooks.go:707`); `MaxRetries` is a constant here.

### OAuth

`account` is the session row with the refresh token together with the credential
row it belongs to; `live` the refresh tokens the identity provider accepts, one
of each `grant` (a consent of the account's owner); `pending` a code that was
exchanged and not saved yet; `lock` the advisory lock; `job[r]` a refresh, of
the periodic worker (`ListExpiring`), of a request (`Choose`) or of an operator
(`Pick`, `Enter`), which ends up in RefreshSesiOAuth (`asking`, `saving`,
`disabling`). The identity provider keeps the token or replaces it, and the old
one is dead then (`Accepts`); it may have done so although no answer arrives
(`Unanswered`), and the code then asks again with the old token. `lost` is
history: the grants that lost a new token that way or by a failed save.

Left out: several accounts of one provider, providers that are switched off and
sessions whose token cannot be decrypted (the worker's listing skips both,
`internal/database/repo/upstream/oauth.go:339` and 358), the Code Assist project,
re-encryption of the ciphertexts, and the loss of the connection that holds the
lock, which the program would not notice.

## 3. Runs

| Run | Question | Instance |
|---|---|---|
| `probes` | quota, tokens, verdicts and the refinement of `Circuit`, with lost replies, Redis down, crashes and resets | 1 process, 2 calls on a rule's key, quota 2, scripts late by 1, horizon 5 |
| `memo_live` | how far a memo may be from Redis; an open period is left alone; a probe window ends | 2 processes whose clocks differ by 1, 1 call each after the other, memoTTL 3, flushed memos |
| `recorder` | the queue, its drop path and shutdown | 3 requests, 2 writers, queue of 1, no failures or any of five |
| `gate` | overshoot and alerts of one process, with failed charges and crashes | 3 requests on up to 2 budgets, limit 4, estimates 2, costs 0-2 |
| `alerts` | an exhausted budget is announced | 1 process, 2 requests, failed loads and marks, resets, renewals |
| `burst` | violation: several processes share a blocking budget | 2 processes, limit 2 |
| `executor` | slots, reports, budgets, answers and termination | 2 handlers, a combo with budget against a rule or a stream, 1 slot |
| `quota` | refunds, charges for untried requests, counts at the provider's gates, billing | 2 requests, a key with two windows, 2 models, a provider with a gate of its policy and its column, one client that leaves or one failed call |
| `webhooks` | one deliverer per row, final states, causes of abandonment, every delivery ends | 2 workers, 1 row, 2 retries, 2 faults, 2 edits |
| `webhooks_unread` | violation: only what is hopeless is abandoned | the same without edits |
| `oauth` | exclusion, rotated tokens kept, only dead accounts switched off, expired ones renewed | 2 refreshers, 2 grants, 2 rotations, 3 faults, 1 edit |
| `oauth_reconnect` | violation: connecting anew recovers a refused account | 1 refresher, no faults, no edits |

### Why the bounds are enough

- Breaker: two probes per window and two calls allow a holder of the present
  window next to one of an earlier window or one that came without a probe,
  which is every pair the token must tell apart; the theorems hold for any
  number of calls. The horizon holds an opening, a window, the silence that
  replaces it, and another one; `BucketCap` 1 suffices because the instance
  trips on one sample (`MinSamples` 1).
- Recorder: with a queue of one, two further requests meet it full; two writers
  let one leave while the other still writes. `QueueSize` and the sets are
  arbitrary in the proofs.
- Budget: three requests of estimate 2 against a limit of 4 are one more than
  fits, and a cost below its estimate leaves room for a third. `SpendCap` is one
  above the limit, so a charge too many is seen. `HoldTTL = MaxRun + LoadTime +
  CopyTTL` is the smallest for which a hold outlives its request until a copy
  shows the spend; one less violates `NoOvershoot`. The program has 10 minutes
  of hold and 5 seconds each for loading and for the copy's age, so the property
  is about requests that run for up to 9 minutes and 50 seconds; a longer stream
  outlives its hold.
- Executor: one slot and two handlers are enough to find a slot full; the combo
  has two models, two providers and a budget smaller than its three candidates
  need; a stream may send one event after its first, so that the guard's timer
  is started again.
- Quota: limits of 1 and 2 with two requests make every window full once and
  let a refund that goes to a wrong window be seen; the short kind of window
  ends within the horizon (`MaxTime` 1) and the long one does not; one tier is
  tried before or after the attempts; `MaxTries` 1 gives a refused attempt that
  is remembered: with the column's token limit and the tier, a request is counted in
  two windows of the column. The header of a stream may fail for any request,
  without using up a fault. One fault is any one client that leaves or any one failed call.
- Webhooks: one row suffices for what two workers can do to each other over it;
  rows of one batch meet only in its lease keeper and its deadline, and the
  theorems hold for any number of rows and any size of a batch. Two faults let
  two workers in a row die or fail.
- OAuth: two refreshers meet at the lock; two grants are an account and its
  reconnection; two rotations let a token be replaced twice; three faults
  are a whole round of retries (`MaxTries` 3, as in the code).

Clock, horizon, `BucketCap`, `SpendCap`, `MaxEvents`, `MaxTime`, `MaxTries` of
`Quota`, `MaxGrants`, `MaxRotations`, `MaxFaults` and `MaxEdits` are the only
bounds on counters. Deadlock is checked in the Budget, Executor and Webhooks
runs. It is not in the breaker's and in Quota's, which stop at their horizon,
in the recorder's, where the process exits, nor in OAuth's, where nothing
happens once grants, faults and edits are used up.

### Fairness

- Breaker (`memo_live`): time passes; every call's own step is taken, since scripts
  and attempts have timeouts; requests keep arriving, because a breaker changes
  state only when it is asked. Processes do not crash in this run.
- Recorder: database calls of handlers and writers have deadlines
  (`konteksLangkah`); writers and the closer are scheduled. A request need not
  arrive and the server need not stop.
- Budget (`alerts`): as above, and loads and marks that are tried again and
  again do not fail for ever (strong fairness).
- Executor: handlers are scheduled, attempts and pauses have deadlines, a write
  to the client ends, the guard's timer fires while a Recv waits, and a Recv of a
  closed stream returns. No upstream has to answer a stream, end it, or send
  anything. That a write ends is an assumption about the client's connection:
  `PrepareSSE` lifts the write deadline.
- Webhooks: rounds are scheduled every second and their goroutines run. A
  request ends within its timeout, at most 120 seconds, which is shorter than a
  round (5 minutes), so a delivery is not cut off in every round (strong
  fairness of its steps). Faults are bounded: a database that always fails
  delivers nothing.
- OAuth: the worker runs every 10 minutes (`cmd/ai-gateway/main.go:701`) and a
  refresh that has begun goes on; the identity provider answers in the end, as
  faults are bounded.

### Findings

1. `burst` - every process keeps its own holds and copy. Two of them let through
   together what either alone would refuse, so a blocking budget is overshot,
   although the README promises that a parallel burst cannot overshoot a limit.
2. `webhooks_unread` - `Dispatch` takes any error of reading the webhook for a
   deleted webhook: a short failure of the database gives the delivery up for
   good, without one request.
3. `oauth_reconnect` - an account that was refused is switched off with its
   credential. Connecting it anew switches on its session, but not the
   credential it finds by the label: the account looks connected and is never
   chosen, and switching the session on is a no-op then.

`PROJECT.json` quotes the lines.

Some properties hold only under conditions that the instances fix or that they
state, and a reader should know them.

- `NoOvershoot` holds for one process (finding 1), no failed loads (a process
  without a copy lets requests pass) and no renewal: between the end of a period
  and the worker's renewal, up to a minute later, nothing is enforced.
- `ThresholdFirst` holds without renewals and failed marks. An alert noticed
  with a copy from before a renewal marks the renewed row
  (`internal/database/repo/policy/budgets.go:505` has no condition on the
  period), so the new period carries a mark it did not earn.
- `ReportsMatchOutcome` excepts a stream that opens as its deadline fires:
  closing it reports a success and the failed attempt a failure, for one permit.
  A slow client makes the guard fire too, since its time includes the handler's
  write; the breaker then hears of a failure of a healthy provider.
- The budget of a combo (`BudgetIsForAttempts`) is used by attempts that a limit of
  the gateway refused too: such a refusal is Local and has no SkipReason, and only
  a SkipReason exempts (`executor.go:598` and 862). The comments there
  (`executor.go:591` and 860) mean the budget for attempts that really contact an
  upstream; the property says what the code does, and `AnswerIsReal` counts
  those attempts in the same way.
- `ProviderCountedOnce` allows a request to count in a second window of a
  provider's column when the column's token limit refused it after it was counted
  (`guard.go:733`): the refusal is forgotten with its window (`guard.go:643`), and the
  request is counted anew. The comments of `PeriksaKolomProvider` and of the memo
  speak of one count per request. A retry or a tier within the same minute meets
  the remembered refusal and counts nothing.
- `AnswersAreBilled` excepts a stream that opened at the upstream and whose header
  could not be sent, as its client left or a deadline could not be lifted:
  `http.go:2478` returns before the recording of tokens is deferred (`http.go:2507`), so
  that what the provider charges up to there costs the key no tokens. The comment
  at `http.go:2503` means the recording for every client that closes its
  connection early. `anthropic.go:1479` does the same.
- A process suppresses a transition equal to the last one it announced itself
  (`breaker.go:890`); with several processes circuit.opened and circuit.closed
  are not paired. The model has the memory, no property is about the notices.
- `CountsAreEarned` and `OnlyTriesAreCharged` leave out the windows that a failed
  call was about: a request admitted uncounted and refused later gets a refund
  of what was never counted, which is another request's count.
- `AbandonedForCause` leaves out deliveries whose webhook could not be read
  (finding 2).
- `OnlyDeadDisabled` and `TokenKept` leave out a refresh whose token belongs to
  an earlier grant. When the account is connected anew during a refresh, the
  refusal of the old token switches the new session off, and a success of the
  old grant overwrites its token: both statements name the row by its id only.

## 4. Proofs

Checked by TLAPS for every value of the constants that meets the assumptions the
modules state. Every invariant, action property and refinement of a passing run
is stated by a theorem; liveness is not (see the end of this section). Each
theorem `Spec => []P` rests on an inductive invariant `I` with a lemma for
`Init => I`, lemmas for the actions, which together give
`I /\ [Next]_vars => I'`, and `I => P` in the theorem itself.

| Theorem | States | Hypotheses beyond the module's assumptions |
|---|---|---|
| `BreakerProofs!TypeCorrect` | `TypeOK` | |
| `BreakerProofs!TokensIdentifyWindows` | `TokenIdentifiesWindow` | |
| `BreakerProofs!VerdictsAreCurrent` | `VerdictByCurrentProbe` | |
| `BreakerProofs!QuotaHolds` | `ProbeQuota` | |
| `BreakerProofs!StalenessBounded` | `MemoStalenessBounded` | |
| `BreakerProofs!DenialsEnd` | `MemoDenialEndsWithEpisode` | |
| `BreakerProofs!OpenUndisturbed` | `OpenIsLeftAlone` | |
| `BreakerProofs!KeepsPromise` | `Promise`, the refinement of `Circuit` | clocks that agree (`MaxSkew = 0`) |
| `RecorderProofs!RecorderTypeCorrect` | `TypeOK` | |
| `RecorderProofs!NothingIsStranded` | `NothingStranded` | |
| `RecorderProofs!BooksAreKept` | `KeepsTheBooks`, the refinement of `Ledger` | |
| `BudgetProofs!TypesHold` | `TypeOK` | |
| `BudgetProofs!SentOnce` | `AlertedOnce` | |
| `BudgetProofs!ThresholdComesFirst` | `ThresholdFirst` | no renewals, no failed marks |
| `BudgetProofs!LimitStands` | `NoOvershoot` | `Prudent` |
| `ExecutorProofs!TypesHold` | `TypeOK` | |
| `ExecutorProofs!SlotsHeld` | `SlotsAreHeld` | |
| `ExecutorProofs!ReportsMatch` | `ReportsMatchOutcome` | |
| `ExecutorProofs!BudgetForAttempts` | `BudgetIsForAttempts` | |
| `ExecutorProofs!RefusedNotAsked` | `RefusedModelNotAsked` | |
| `ExecutorProofs!AnswersAreReal` | `AnswerIsReal` | |
| `QuotaProofs!TypesHold` | `TypeOK` | |
| `QuotaProofs!CountsEarned` | `CountsAreEarned` | |
| `QuotaProofs!OnlyTriesCharged` | `OnlyTriesAreCharged` | |
| `QuotaProofs!CountedOnce` | `ProviderCountedOnce` | |
| `QuotaProofs!AnswersBilled` | `AnswersAreBilled` | |
| `WebhooksProofs!TypeCorrect` | `TypeOK` | |
| `WebhooksProofs!OneHolder` | `HolderIsLessee` | |
| `WebhooksProofs!Finality` | `FinalStays` | |
| `WebhooksProofs!Causes` | `AbandonedForCause` | |
| `OAuthProofs!TypeCorrect` | `TypeOK` | |
| `OAuthProofs!NoTokenLost` | `TokenKept` | |
| `OAuthProofs!LivingStays` | `OnlyDeadDisabled` | |

**Breaker**, for any number of instances, calls, rules and probes, and every
clock skew and delay within `DelayAssumption`.

- `TInv` adds to `TypeOK` that a bucket has no more failures than samples and
  that calls carry past times, without which a token could lie outside its type.
- `TokensIdentifyWindows` is not inductive alone: one must know that a window
  begins after the open period it follows, and that the tokens given out on a key
  precede the end of its open period and are no later than its window, so that a
  new window's time differs from every one of them. `WInv` states this:
  `WindowFollowsOpening` and `TokensArePast` per key, and `HoldersCarryTokens`
  for calls. The lemma `KeyStep` covers the steps that grant no probe; `StepWInv`
  has one case per action. `DelayAssumption` is what makes a new open period end
  after every token given out so far, since the clock reading it starts from is
  at most `MaxDelay` old. `VerdictsAreCurrent` follows from `TInv` and `WInv`.
- `QuotaHolds` needs that the holders of the present window are a finite set with
  no more members than the key counts, and that a key has a window exactly when
  it counts probes (`QInv`, `KeySound`). A new window starts with no holder but
  the call that began it, and each later probe adds one to both sides.
- `StalenessBounded` and `DenialsEnd` are invariants of replies under way as much
  as of remembered ones: a decision is stored when the reply arrives, but lasts
  from the clock reading before the script ran. `MInv` says `Honest` of both. That
  a refusal still ends with the open period when an operator's reset and a second
  opening came between needs `DelayAssumption`: the second opening ends later.
- `OpenUndisturbed` and `KeepsPromise` use the lemma `Writes`: a step that changes
  a key is a probe, a verdict, a sample or its removal, with the state the key
  was in then. `StepOfCircuit` maps each of them to a step of `Circuit`. The
  refinement holds only if the clocks agree: a process whose clock is ahead opens
  the trial of an open period before the others see it end.

**Recorder** (`RecorderProofs`). The invariant `RInv` says that an accepted
event is in exactly one place, a slot of the queue or the hands of one writer
(`QueuedIsHeld`, `HeldIsQueued`, `HeldOnce`); that after the stop signal nobody
is about to send (`SignalStopsSenders`, because Close takes the lock that
senders hold for reading); that a writer leaves only after the signal with an
empty queue (`LeavingIsFinal`); and that only accounting charges
(`ChargedOnce`). `NothingIsStranded` follows because the closer returns once
every writer has left, for which there must be a writer at all
(`WorkersAssumption`; `WithWorkers` ignores 0). `BooksAreKept` maps each step to
a step of `Ledger` or a stutter.

**Budget**, for any number of processes, requests and budgets, any limit,
estimate and cost. `SentOnce` needs that an alert was sent if and only if its
mark is set (`Announced`), and nothing about who sends it: any process may find
the same alert due from a copy of any age. `ThresholdComesFirst` is about the
order of two marks that are set by different requests, so `InOrder` says that
whoever is to announce an exhaustion either announces the threshold first or
works from rows in which it was announced, and that what a copy or a load saw
marked is still marked, for which no period may be renewed.

`LimitStands` compares a reservation with spend that nobody may have seen yet. Its
invariant `OInv` says, for one process and each blocking budget: the holds that
are alive cover the running requests, at present and for as long as each of them
may still run (`Paced`, with the amounts held `t` ticks ahead); and what the rows
read by a query lack of the true spend and reservations, the holds that are still
alive when the copy made of these rows expires make up for (`Covered`). Each
action keeps a covered budget covered: landing moves an amount from the
reservations to the row (`Lands`), a decision adds the same to both sides
(`Decides`), a tick moves the holds while it uses up one tick of the time that
is left. Amounts are the cardinality of a set with `Estimate[r]` units for each
request `r`, so that sums over sets of requests of any size can be reasoned about.
The hypothesis `Prudent` collects what the property needs and the run `gate`
fixes as well: one process (with two it is false, finding 1); no renewals and no
failed loads; no request that costs more than its estimate; and
`HoldTTL >= CopyTTL + LoadTime + MaxRun`. Crashes and failed charges are
allowed.

**Executor**, for any number of handlers and providers, any plans and limits.
`IInv` is `RequestsSound /\ SlotsCounted`. For each request: attempts stay within
the candidate's allowance and the allowance within what is left of the budget
(`Counters`); what was tried and what is left add up to the budget, plus the calls
of the candidate under way (`Accounted`); while the outcome of a permit is open
nothing was reported, and afterwards what happened (`Told`); the refusals are
remembered, and no candidate with a refused model is under way (`Remembered`);
between candidates the error is that of the last attempt (`LastError`), which is
what the final answer is then compared with (`Answer`). `SlotsCounted` says that a
provider's counter is the number of the requests that hold one of its slots. The
lemma `AfterSound` states once what leaving a candidate, with or without an
error, does to a request, since every action that gives a candidate up ends that
way. The plan's candidates are filtered by a recursive function (`Healthy`); that it yields a
sequence of candidates (`HealthyType`) is proved by induction over the length,
for which module `Induction` states induction as a lemma about sets of numbers,
derived from the well-foundedness of `<`.

**Quota**, for any number of requests, tiers, gates and kinds of window, any
widths and limits. A window's counter is the number of counts that requests hold
in it (`Earned`), for which each request must remember exactly what it holds: of
a model, one count per mark (`tandaKuotaModel`) whose time falls into the window;
of the key, one at the time the middleware planted, until its refund
(`Remembers`); of a gate, at most one in each window, and while it has not admitted
the request only in windows that its token limit then shut, which are over when the
remembered refusal lapses (`Gated`). That is where the assumption that the two limits
of a column have windows of one length is used (`MeteredAssumption`; both are
per minute). A refund takes the first mark (`jagaKuota` and the tiers do so
in the order of counting), so it takes back what the same request counted, in the
window it was counted in. What a request that is done still holds was tried
(`Charged`); tokens of an answer are recorded as it ends, unless its header was not sent
(`Paid`, `Recorded`). Windows about which a call failed are left out, as in the properties.

**Webhooks** (`WebhooksProofs`), for any number of workers, rows, retries and
faults. `OneHolder` is not inductive alone: `Leased` adds that a lease is not
older than the round of the worker that holds it. With `LeaseAssumption` a row
that is old enough to be recovered then belongs to a round that is over, and a
round that is over does nothing any more. `Finality` follows: what records a
result holds the lease, so the row has not ended. `Causes` has an invariant of
its own, `Reasons`, which says the same of deliveries about to be abandoned.

**OAuth** (`OAuthProofs`), for any number of refreshers, tries, grants,
rotations, faults and edits. The invariant has six parts: grants are numbered as
they are given (`Numbered`); a grant has one living token (`OneLive`); a token
that was exchanged and not saved is known to nobody else (`Unsaved`); a refresh
works with the account's own token while the grant is the same (`InUse`); what
was refused stays dead (`Dead`); what is about to be saved is the living token
of its grant (`Newest`). `InUse` rests on the lock: two refreshes past it are the
same one (`OnlyHolder`). `NoTokenLost` and `LivingStays` follow from them.

**Only model-checked**: liveness (`ProbeWindowEnds`, `FinishedIsCharged`,
`CloseEnds`, `ExhaustionAnnounced`, `RequestsEnd`, `EveryDeliveryEnds`,
`KeptAlive`), since the prover does not reason about fairness and ENABLED. The
three runs that expect a violation show what does not hold. `MaxTime`, `SpendCap`
and the other bounds of the models are constants of the theorems too: they hold
for every horizon.

## 5. Not modelled, and the plan

The components of section 1 without a module are not modelled: adapters, codecs,
configuration, observability, the admin API and the UI are data and input/output
without state of their own to check; they are also most of the program's lines.
The largest files (`internal/cliconfig/manager.go`, `anthropic.go`,
`internal/admin/dto.go`, `internal/providers/google/translate.go`) translate one
format into another. The others follow in this order:

1. `Rollover`: rows with periods in absolute time, the log, the worker under an
   advisory lock that may be lost, the operator's reset. Properties: the worker
   never moves a period backwards, a request is counted in exactly one period,
   an ended period is renewed. To be looked at: a cost that lands between the
   sum over the log and the reset
   (`internal/database/repo/policy/budgets.go:446`).
2. `ResponseCache`: an invalidation against a store under way.
3. `Credentials`: the choice among several accounts, their failures and the
   notices when the chosen one changes; the loss of the refresh lock's
   connection.
4. `Sessions`: login attempts, lock and refresh; then worker locks and key
   rotation.
5. The fail-closed mode and the poisoned keys of the limiter.

Proofs to come: the safety of the modules above; and of the modules that exist,
the progress that their liveness rests on as action properties, which need no
fairness - every step of `Executor` that is not the client's or the stream's
decreases the attempts and candidates that are left, a round of `Webhooks` only
comes nearer to its end.
