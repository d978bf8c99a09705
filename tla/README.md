# JobStream: formal models of the intake service and its clients

JobStream accepts job applications from several sources (a dashboard CLI, a
Chrome extension, a scraper), stores each in Postgres together with an outbox
event, and promises that submitting the same application twice gives one row
and one id. This directory holds TLA+ models of that promise and of what
surrounds it (interceptors, gateway, rate limits, cleaning of texts, start and
shutdown, the scraper), TLC runs that check them on small instances, and TLAPS
proofs for every instance.

Paths below are relative to `src/`; `intake/` stands for `services/intake/internal/`.

## 1. Inventory

| Component | State it keeps | Operations | What makes it correct |
|---|---|---|---|
| submission pipeline, `intake/server/server.go` | none of its own; per call its position, context, record | `submitOne`: transform, validate, Check, Claim, Check again, InsertWithOutbox, Set or Release | one application per key, one id for all callers; what it answers is stored |
| dedup store, `intake/dedup/dedup.go` | one Redis string per (user, company, title): absent, pending sentinel (30 s), id (24 h) | Check = GET, Claim = SET NX, Set = SET, Release = DEL | an entry names a committed row; a claim protects its holder; nothing blocks a key for good |
| repository, `intake/repo`, `intake/db`, `intake/migrations` | tables `applications`, `outbox`; an open transaction per call | BeginTx, InsertApplication, InsertOutbox, Commit, deferred Rollback; GetByIDAndUserID | both rows or neither; no transaction left open |
| batch, `server.go` `BatchSubmitApplication` | position in the batch | the pipeline per item, sequentially, on one context | one result per item, in order, each id or error |
| status query, `server.go` `GetApplicationStatus` | none | read by (id, user) | owner only; absent is NOT_FOUND |
| canonical event and transformers, `intake/canonical`, `intake/transform` | none | trim, collapse white space, strip board suffix, strip tracking parameters, validate; derive the key | one posting has one key, whatever a page adds to it, and no other posting's; blanks are refused |
| rate limiter, `intake/ratelimit` | a token bucket per user, never evicted | `Allow`: limiterFor, clock, AllowN | at most burst + rate * time requests; nobody is refused who has not had that |
| interceptors, `intake/middleware`, `intake/auth`, `intake/ratelimit` | none | logging, recovery, auth, rate limit, in that order | every outcome is logged as it is sent; no handler runs unauthenticated or unpaid; a panic kills nothing |
| HTTP gateway, `intake/httpgateway` | none | JSON to gRPC and back | a status says no more than is true |
| process, `cmd/intake/main.go` | listeners, pool, Redis client | start; on a signal Shutdown (10 s), GracefulStop, deferred closes | no store closed under a running handler; accepted requests are served; a signal ends it |
| scraper, `sources/scraper` | remaining count, Stats, a limiter | batching loop under a context, a deadline and a token | the summary adds up and overstates nothing; the rate is kept; it stops when asked |
| configuration, `intake/config` | none | read once | - |
| dashboard CLI, `sources/dashboard-cli` | none | checks, then one call with a 10 s deadline | refuses nothing the service would accept |
| Chrome extension, `sources/chrome-ext` | settings | parser, popup, background and content messages | its parser and the service's cleaning agree |
| outbox relay, consumers, Kafka | not in the repository | | |

How they interact: a source calls the gRPC server, directly or through the HTTP
gateway; the interceptors run around the handler; the handler runs `submitOne`
in a goroutine per request (a batch runs it once per item). The only state that
goroutines, and several intake processes, share is Redis and Postgres, and the
code uses them without a common lock or transaction. That is where everything
hard happens: two round trips of one call are never atomic, Redis and Postgres
fail separately, an answer may be lost after the effect, the request's context
may end anywhere and with it every later round trip of the call, entries expire
by the clock, and a process can die between any two steps. The other
components are hard in their own ways: a rate limiter whose clock is read
outside its lock, an order of interceptors that panics and users depend on, a
shutdown against calls in flight, a load test whose calls outlive their
contexts, texts that look alike and are not. `PROJECT.json` lists these hazards
at their lines.

## 2. Modules

```
IntakeBase         constants, kinds of failure, answers
   |        \
 Dedup      Repo           one Redis string per key / two tables and transactions
     \      /
      Submit               submitOne: one action per round trip and outcome
     /      \
 Batch     SubmitProperties ---- Register    the abstract write-once register
     \      /    |       \                   (INSTANCE Register WITH ...)
 BatchProperties |    SubmitProofs
    |       \    |        |
 MCBatch     \ MCSubmit RegisterProofs
              \           |
               \------- BatchProofs

 TokenBucket               x/time/rate, used by both ends
   |       \
 RateLimit  Scraper        limiterFor, clock, AllowN / runner, main, and the service's bucket
   |   \         \
   |  Access      \        gateway, chain, handlers, client around the actions of RateLimit
   |     \         \
 ..Properties, MC.., RateLimitProofs -- AccessProofs, ScraperProofs
                     (INSTANCE RateLimitProofs WITH ...)

 Process                   main, both servers, requests in flight; ProcessProperties, ProcessProofs
 DedupKey -- Transform     texts and the key / sources and transformers
                  |
                 TransformProperties -- MCTransform, TransformProofs
```

Three modules compose others: `Batch` runs `Submit`'s calls, `Access` puts the
limiter's own actions into the chain, `Scraper` has a `TokenBucket` at each end
of the wire. `Register` is the abstract specification that `Submit` implements,
and `Submit` in turn is the one that `Batch` implements. `Access` takes a
handler's outcome as a choice among those that `Submit` has; the stores are not
composed with it, since no interceptor touches them.

`Dedup` and `Repo` contain no actions of their own: they define the effect of
one command or statement on the store. `Submit` puts them in the order in which
`submitOne` and `InsertWithOutbox` issue them. `pc[r]` names the round trip a
call is about to make; a step is that round trip plus the Go code up to the
next one. For a reader who has the code open:

| code | actions |
|---|---|
| `server.go` 133-141 transform, validate | `Arrive`, `Reject` |
| 145 `Check` | `CheckHit`, `CheckMiss` (a miss, the sentinel, or an error) |
| 152 `Claim` | `ClaimWon`, `ClaimLost`, `ClaimFailed` (error: go on unclaimed), `ClaimRetried` |
| 154 second `Check` | `RecheckHit`, `RecheckMiss` |
| `postgres.go` 75-116 | `Begin`, `InsertApp`, `InsertEvent`, `CommitTx`, `CommitLost`, and `InsertFails` for every error return with its deferred Rollback |
| `server.go` 172 `Release` | `ReleaseClaim`, `ReleaseRetried` |
| 177 `Set` | `SetId`, `SetRetried` |

The environment has actions of its own: `Cancel`, `Crash`, `ExpirePending`,
`ExpireCommitted`, and `Retry` for the client who is told "duplicate submission
in progress, retry shortly". `Quiescent` lets a behaviour end when all calls
have, so that TLC's deadlock check means that no call is ever stuck.

`Batch` adds `BatchSubmitApplication` around these actions. `Items[b]` is the
sequence of calls that batch `b` makes, calls of no batch are single submissions
beside it.

| code | actions |
|---|---|
| `server.go` 61-71 size check | `Receive`, `RefuseBatch` |
| 75-78 `ctx.Err()` before each item | `SkipItem`, or `StartItem` when it is nil |
| 79 `submitOne` | `ItemStep`: a step of the current item, on the batch's context |
| 80-87 the result | `CollectItem` |
| 88 the answer | `Respond` |

`results[b]` is the part of the `results` slice that has been written; its length
is the loop's index. The context belongs to the batch (`ended`): when it ends,
by `EndContext` or while COMMIT is in flight, the current item is cancelled and
the items after it are skipped. `Lose` is the death of the batch's goroutine.
A result keeps the code toGRPCError would give, since the message errResult
writes tells the outcomes apart just as well.

`RateLimit`: `Allow` is three steps that other requests come between.

| code | actions |
|---|---|
| `ratelimit.go` 72-85 interceptor: user from the context | `Extract` (no user: straight to the handler) |
| `ratelimit.go` 60-69 `limiterFor`, under the map's mutex | `Lookup` |
| `Allow`: `clock.Now()`, outside every lock | `ReadClock` |
| `AllowN` under the bucket's mutex | `Admit`, `Refuse` |

The bucket counts its level in ticks, `Interval` of which make a token, so that
fractions of a token are whole numbers. An instant earlier than the last one
adds nothing but becomes the last one (`Accrued`, `Take`), as in x/time/rate.

`Access`: `Chain` is the sequence of layers in the order in which `main.go`
passes them; `depth[r]` is the layer a request is at, going `down` or `up`.

| code | actions |
|---|---|
| `gateway.go` `withCORS`, `Handler`, `handleSubmit` early returns | `GatewayRefuse` |
| `handleSubmit` calling the client, `grpcCodeToHTTP` | `GatewayForward`, `Deliver` |
| generated handlers: decoding | `Dispatch`, `Undecodable` |
| `auth/auth.go` | `Auth` (health methods are let through) |
| rate limit interceptor | `Limiter`: the actions of `RateLimit` |
| handlers, `toGRPCError`, `GetApplicationStatus` | `Handle`: why it ends (`Causes`) and with which code |
| `middleware/recovery.go`, `logging.go`, `errors.go` | `Recover`, `LogCall`, `Return` |
| the client's deadline, cancellation, connection | `LocalEnd`: the client is told, the handler goes on |

`Process`: `main` names the stage `main()` is in.

| code | actions |
|---|---|
| `config.go`, `main.go` 34-116 | `Load`, `RunMigrations`, `Connect`, `Listen`, `Notify`, `DialGateway` |
| the goroutines of Serve and ListenAndServe | `GrpcServes`, `GrpcFails` (Serve returns; connections that are open are still served, no new ones), `HttpServes` |
| SIGINT, SIGTERM | `Signal`: kills before Notify, else fills the channel |
| `main.go` 118-126 and the deferred calls | `Quit`, `Shutdown`, `GracefulStop`, `Close`, `Exit` |
| a request in flight | `Come`, `Call`, `HandlerEnds`, `Reply`, `StreamEnds` |

`Scraper`: `Run` is the loop in `runner.go`, call by call; `cfg` is one of a set
of flag values, chosen at the start.

| code | actions |
|---|---|
| `runner.go` 42-63 checks, the limiter | `Check`, `BurstOf` |
| 67-90 the loop | `Loop`, `Wait` and `Elapse` (limiter.Wait and its timer), `Return`, `Send`, `Succeed`, `Rejected` |
| `stats.go` | `RecordRPCError`, `RecordRPCSuccess` |
| `main.go` signals, deadline, token | `Interrupt`, `Kill`, `Expire`, `Authentic` |
| the wire | `Arrive`, `Break`, `Abandon`, `ArriveLate`: a call that failed here may still reach the service |

`Transform`: a text is a sequence of characters of which only the kind counts (a
letter, its capital, white space, a character without width, the separator, a
site's name as one character). White space comes in the kinds that somebody
tells apart, since the code has three readers of it:

| kind | `unicode.IsSpace` (`TrimSpace`) | `\s`, `trim` (the extension's parser) | `collapseWhitespace` |
|---|---|---|---|
| ASCII's, nbsp | space | space | space |
| em space, for Unicode's others | space | space | a letter like others |
| NEL (U+0085) | space | no space | a letter like others |
| byte order mark (U+FEFF) | no space | space | dropped |
| U+200B to U+200D | no space | no space | dropped |

A behaviour takes a
posting as its author wrote it, lets a page add noise to it (`Spoil`, `Harden`,
`Capitalise`, `Tag`, `Share`, `Pad`: the environment), and submits it: by a transformer
directly (`Transform`), through the command line client (`RunCLI`), through the
gateway (`PostAny`), or through the extension's parser and worker (`submitJob`).
The helpers keep the names of `transform.go`. A client may send the user's name
and an address with white space around (`Spellings`, `Pad`), which the
transformers trim. `parsed` remembers that the extension's parser has read the
page. A posting's own texts are taken to be tidy, with no other white space than
single spaces, and a title not to end in a site's name already
(`PostingsAssumption`): the code cannot tell such a title from a tagged one.
A page may add every kind of white space to them.

What `Submit` abstracts. A key is an element of `Keys`: the pipeline only ever hashes
user, company and title together. An application row is its id and its key. An
id is drawn fresh, as `gen_random_uuid()` does. Times are replaced by the order
of events: a TTL may run out at any moment at which the failure set allows it.

External behaviour of the stores, modelled from how the code uses it:

* `redis.NewClient` is given default options, so a command that meets a network
  error is sent again. A resent SET NX can find the sentinel the first one left
  (`ClaimRetried`); a resent DEL or SET acts a second time (`ReleaseRetried`,
  `SetRetried`). One resend per command is modelled; a second resend finds what
  the first one could have found.
* A command on a context that has already ended fails without being sent: the
  calls in `cancelled` get nothing done in either store. With go-redis's default
  options a command that has been sent does not watch the context. pgx does
  watch it: a context that ends while COMMIT is in flight yields an error for a
  transaction that may be committed (second branch of `CommitLost`).
* A crash covers the process and a panic in the handler: the goroutine does
  nothing more, its transaction is rolled back. The recovery interceptor's
  answer to the panicking caller is not represented.

`Faults` selects the failures of a behaviour; `IntakeBase` lists the kinds.
Definitions introduced as "a mistake" (`PlainSetWins`, `ClaimLostIgnored`,
`RollbackForgotten`, ...) are not part of the specification: each is the way one
definition would read if the code had a certain bug, and `PROJECT.json` pairs it
with the property that notices.

### Charged failures

The code does not promise one row per key: it accepts duplicates when Redis is
unreachable, and its TTLs can run out. The history variable `faults[k]` counts
the events that may cost one: a live call's failed Claim, a COMMIT whose answer is lost
to a live call, a DEL that may be sent twice, and an entry that expires while a row
exists or a live call is inserting. Everything else (cancellation, crashes, failed
statements, failed Check, Set or Release) is free: the models show that none of
those costs a duplicate by itself.

## 3. Properties

* `Budget`: rows of a key are at most one plus the charged failures, and the
  reason for it, see section 5.
* `PublishedIdsAreRows`: no id is in Redis or in an answer before its row is committed.
* `SameAnswer`: callers of one key are told one id, absent charged failures.
* `DualWrite`, `TxProgress`: the outbox mirrors the applications at every
  moment; a transaction is open exactly inside `InsertWithOutbox`.
* `FailedLeavesNothing`: "Internal" to a live caller means nothing was stored.
* `EntryRetained`: a committed entry changes only by its TTL.
* `AtRest`: when a key's submissions are over, none dead and none cancelled,
  Redis answers with the id that was given out, and the key is free if none
  was. `Remembered` is what the comments promise without that condition.
* `IdempotentRegister`: `Submit` implements `Register`, a write-once cell per
  key in which the first accepted call stores and every accepted call reads;
  `store[k]` is the set of ids of the committed rows of `k`.
* `GetsThrough` (liveness): a call that checks, retrying while it is told of a pending
  duplicate, ends with an id or a real failure, or dies.
* `ResultsParallel`: an answered batch has a result for each item, at its index;
  from the first item that found the context over, only the context's error,
  for items that were never begun.
* `RepeatsAnswered`, `NoSelfBlock`: an application named twice in one batch is
  answered with one id (unless a failure is charged), and no item makes a later
  one a pending duplicate.
* `AsSubmissions`: with batches the stores behave as under `Submit!Spec`.
* `BatchAnswered` (liveness): a received batch is answered unless it is lost.

* `WindowBudget`: no window of a user's admissions exceeds burst plus refill,
  plus the time that late arrivals make the bucket go through twice. The skew is
  real: without that last term TLC finds a window that is too full.
* `RefusalDeserved`: whoever is refused has been admitted, since some earlier
  instant, so often that one more would exceed burst plus refill.
* `LoggedAsSent`: one "rpc" record per call, with the code the client gets, and
  the panic's record before it if there was one.
* `RunsArePaid`: no handler but the health check's runs without a user, nor more
  often for a user than tokens were taken from that user's bucket.
* `HonestStatus`: 200 means stored, 4xx means not stored; 5xx leaves it open.
* `AccessTypeOK` also says that no request is "dead": no panic passes the chain.
* `StoresOutliveHandlers`, `AcceptedAreServed`, `NothingCutShort`, `SignalEnds`
  (liveness): what the order of starting and stopping is for. The exceptions are
  those of the code: requests that outlast Shutdown's ten seconds, a gRPC
  server that failed by itself (a gateway that is connected still reaches it, one
  that is not does not), streams that clients never end.
* `Accounting`, `HonestStats`: the scraper's summary adds up at every moment, and
  never claims more than the service accepted.
* `RateHonoured`, `NeverRefused`: calls keep the rate, and a scraper whose rate
  and burst (plus one token, for calls that arrive close together) fit into the
  service's is never refused for it, unless a call it gave up arrives later.
* `StopsWhenAsked` (liveness): a context that is done ends the run.
* `SourcesAgree`: extension and scraper give a posting the key it would have in
  the dashboard, whatever noise a page adds, with four exceptions, each of which
  the code has: white space that nobody on the way takes for it (`Unknown`: em
  space and NEL, of which the extension's parser knows the former), a byte order
  mark that the extension's parser has read (it makes "a b" of an "ab" with a
  mark inside, `collapseWhitespace` makes "ab"), the site's name for the scraper,
  which strips none, and a title that is nothing but a site's name, which keeps
  it. One suffix is removed, not several.
* `BlankRefused`: a scraped title or company that shows nothing is refused, with
  the right violation, and nothing else is, unless the page has `Unknown` white
  space: a title of em spaces only is accepted. On all pages, the command line
  client refuses only what the service would refuse, and the extension's parser
  only a posting without title or company.
* `AddressKept`: an accepted address has no tracking parameter left, no space
  before it, and every other parameter that parses, values in order.
* `KeysTellApart`: different postings have different keys, if no company has the
  separator in it.

## 4. Runs

| run | instance | failures | shows |
|---|---|---|---|
| `strict` | 3 calls, 2 keys | insert, cancel, crash | refinement of `Register`, `EntryRetained`, `FailedLeavesNothing`, `AtRest` |
| `faulty` | 3 calls, 1 key | all seven kinds | `TypeOK`, `Budget`, `PublishedIdsAreRows`, `SameAnswer`, `TxProgress`, `DualWrite` |
| `liveness` | 3 calls, 1 key, retrying clients | pendingTTL, insert, crash | `GetsThrough` |
| `batch` | a batch of 2, one of 3 that is refused, a single call, 1 key | insert, cancel, crash, entryTTL | the batch properties, refinement of `Submit`, `BatchAnswered` |
| `ratelimit` | 4 requests, 2 users, burst 2, 2 ticks a token, 3 ticks | | `WindowBudget`, `RefusalDeserved` |
| `access` | 2 requests, 2 users, burst 1, 1 tick | panics, ended calls, failing statements | `LoggedAsSent`, `RunsArePaid`, `HonestStatus` |
| `process` | 3 requests, ports unset, distinct or equal, one taken | failing start, failing server, slow clients | the four shutdown properties |
| `scraper` | 10 configurations, totals up to 3, 4 ticks | broken, late, expired and refused calls | the scraper properties |
| `transform` | 13 postings, 2 pieces of noise and the site's name | | the four text properties |
| `cancelled_set` | 2 calls, 1 key | cancel | `Remembered` violated |
| `stray_release` | 2 calls, 1 key | redis, insert | `EntryRetained` violated |
| `context_error` | 1 request | | `ContextErrorsMapped` violated |

Bounds of the pipeline. Keys do not interact, so one key loses nothing for the
invariants; two keys in `strict` guard against a mix-up between keys. Three
calls allow a holder, a competitor that read a stale miss, and a third that
comes in between; the conflicts the properties forbid need two. There are as
many ids as calls, one insert each. Calls, keys and ids are interchangeable
(symmetry), except in runs with liveness properties, which use none. Nothing
else is bounded: every call is a finite path, and the only loop, the client's
retry, is used without Redis failures, where it does not grow any counter.

`MaxBatchSize` is 2: the loop treats items alike, so two items show every order
of success, failure, skip and repetition between neighbours, and the batch of
three lies beyond the bound. Batch and single call share one key, for most
conflicts; they need three ids, since items of a refused batch never insert.
`NoSelfBlock` holds only while Redis works (a resent Claim can meet its own
sentinel), and the run's failures are chosen accordingly.

`ratelimit`: four requests exceed the burst of two twice over, and three ticks
are more than the two that make a token, so refills, partial refills and refusals
all occur. `access`: with a burst of one the second request of a user is
refused, or admitted if the one tick of time that passes refills the bucket. `process`: three
requests are one of each way of coming in. `scraper`: three submissions in
batches of one or two give a smaller last batch; the configurations include
every value `Run` refuses and a deadline that falls before, between and after
the calls; the token expires with the fourth tick. `transform`: two
additions and the site's name are what it takes for white space inside white
space behind a suffix, for a suffix written with a no-break space and something
invisible, or for a character without width between two spaces. The six kinds
of noise are the kinds of white space that the table in section 2 tells apart (tab
for ASCII's, nbsp, em space, NEL) and the two kinds of characters without width. One spelling of the
user has a space before it. The run has 758,861 states.

Fairness. `liveness`: goroutines that can step do (the Go scheduler and the
drivers' own timeouts return control), Redis removes due pending entries, and
the client retries. Requests need not arrive, and nothing fails by obligation.
Redis failures are excluded: with a Redis that loses every answer, `ClaimRetried`
can send a client around for ever. `batch`: the batch's own loop only, and no expiry of
sentinels, so the loop must get past a sentinel that stays for ever. `process`:
`main` and the servers' goroutines are scheduled, Shutdown's timer fires,
handlers return; a client need neither finish its body (the server sets no read
timeout) nor end a stream, so `SignalEnds` assumes the latter where it needs it.
`scraper`: the runner's goroutine, and a call returns when its context is done;
the service owes no answer and time need not pass. `Access` states no
liveness: each request is a finite path, TLC's deadlock check shows that none
is stuck on it, and `AccessTypeOK` that none dies.

Disagreements. The three violations are disagreements between the code and what its
comments and tests say; `findings` in `PROJECT.json` quotes both sides. The
first two concern the cleanup after the insert: it runs on the request's context,
and its DEL is unconditional. In the third, `toGRPCError` has made a context's
error an Internal status before the recovery interceptor can map it.

Others have no run; the properties that hold carry the condition they force:

* Release on a context that has ended (`server.go:172`) leaves a claim that
  blocks its key for 30 s; hence "none cancelled" in `AtRest`.
* An id that is no UUID makes `GetApplicationStatus` answer Internal, though
  `intake.proto` 18-19 promises NOT_FOUND for an id that does not exist.
* When the limiter's Wait refuses before a deadline, `Run` returns a nil error
  with submissions left (`runner.go` 75-76, against the comment at 38-40); hence
  the condition of `NilMeansAll`.
* The flag `-burst` is documented as defaulting to the rate (`main.go` 43);
  `runner.go` 58-61 makes it one.
* `dedup.go:112` joins parts by "|", which a company may contain; hence the
  condition of `KeysTellApart` and of the theorem.
* `collapseWhitespace` (`transform.go` 119-138) promises whitespace and knows
  ASCII's and nbsp. An em space or a NEL stays within a text and at its ends,
  though `TrimSpace` knows both and the extension's parser the former; a scraped
  title of nothing else passes `Validate`. Hence `Unknown` in `SourcesAgree` and
  `BlankRefused`; without it TLC finds both.
* U+FEFF is white space to the extension's parser (`parser.js:13`) and dropped
  by `invisibleReplacer` (`transform.go:116`), so that a mark inside a word gives
  the posting another key than the scraper's and the dashboard's. Hence the last
  condition of `SourcesAgree` on pages.
* A resent SET NX that meets its own sentinel reports a duplicate that does not
  exist (`dedup.go:91`); no property forbids it.
* `stripTrackingParams` (`transform.go` 192, 203) drops parameters that do not
  parse, if and only if there is one to strip; hence "that parses" in `AddressKept`.

## 5. Proofs

`SubmitProofs` proves, for any finite set of calls, any keys and ids, and any
set of failures (assumption `IntakeAssumption`, nothing else):

* `TypeCorrect`, `TxProgressCorrect`: `TypeOK` and `TxProgress`, together
  inductive (`TypeHolds`): `InsertOutbox` and `Set` are well typed only if the
  call has a record, which is what `TxProgress` says of the statements before.
* `DualWriteCorrect`: the tables change only by `Commit` (`TablesOfStep`), which by
  `TxProgress` adds one row and that row's event.
* `PublishedCorrect`: ids enter Redis only from `Set` after a commit, answers
  only from Redis or from the call's own commit, and rows never disappear.
* `BudgetCorrect`, `RowBudgetCorrect` (at most one row more than charged
  failures): the number of rows alone is not inductive: nothing in it
  says why a second call cannot insert. `Budget` adds what could still become a row: the live calls between Claim and the end of
  Release (`Stake`) and the free slot. Winning a claim turns the slot into a
  stake, a commit turns a stake into a row, a release turns it back into the
  slot; steps that create something from nothing are exactly the charged ones.
  `OwnLedger` goes through the steps of a call, `ExpireLedger` through the TTLs,
  `QuietLedger` disposes of everything that leaves a key alone.
* `SameAnswerCorrect`: from the previous two; a set of at most one row that
  contains the rows of both answers makes them equal.

`RegisterProofs` builds on these invariants, under the same assumption:

* `FailedLeavesNothingCorrect`, from `RecordInv`: ids are never drawn twice, a
  call that has inserted nothing has no record, every row is the record of one
  call that has committed (`RowsOwned`), and who fails on a good context is none
  of these. A run that may lose a COMMIT's answer is excepted in the property itself.
* `RegisterRefined`, `EntryRetainedCorrect`: both assume `[]Uncharged`, that no
  failure is ever charged, whichever ones the behaviour may contain. A call that
  holds a stake at an uncharged key finds it without a row (`StakeMeansNoRow`, from
  `Budget`), so a commit is the register's one store, and no Release, Set or
  Claim can replace an entry that names a row. With charged failures both are false:
  a duplicate is what a charge stands for.
* `AtRestCorrect`, assuming that "redis" is not among the `Faults`: `SlotInv`
  says that every sentinel has a call that is to remove it (or was too dead or
  too cancelled to), and that every id in Redis was told to somebody. A command
  whose outcome is unknown breaks the first without being charged: a Set or a
  Release that fails leaves the sentinel to its TTL.
* `StrictCorrect`: statements that fail, contexts that end and handlers that die
  are never charged, so against these the refinement, `EntryRetained` and
  `AtRest` hold without further condition. This is the run `strict` at every size.
* `ToldIsRememberedCorrect`: what is true of the promise that `cancelled_set`
  refutes. While Redis works, an id told on a good context is what Redis answers
  with, until a failure is charged to the key.

`BatchProofs` does the same for batches, for any `Items` without repeated calls
(`BatchAssumption`):

* `BatchRefines`: each step of `Batch` is a step of `Submit` or leaves its
  variables alone. Hence `BatchesKeepPromises`: the theorems of `SubmitProofs`
  and `FailedLeavesNothing` hold with batches, and `BatchesAreIdempotent`: so
  does the refinement of `Register`, while no failure is charged.
* `BatchTypeCorrect`: types; it is a part of `BatchInv`, as is `Parallel`.
* `ResultsParallelCorrect`: the property speaks of answered batches only; the
  inductive `Parallel` says where a running one stands. Its results split at some
  index `m` (`SplitAt`), before which items are done and after which they are idle
  and the context is over; items after the current one are idle. It is kept
  because only the current item of a loop moves (`OwnMove`, `ItemAlone`), and an
  item that is idle cannot start once the context is over.
* `NoSelfBlockCorrect`, `RepeatsAnsweredCorrect`, both while Redis works. The
  inductive parts are `ContextInv` (the items share one context, and an item that
  runs or dies takes its batch along) and, from it and `Parallel`, that at most one item
  is under way (`OneAtATime`). So whoever owns the sentinel an item might
  meet (`PendingOwned`) is not another item: it would have to be done, and who is
  done on a good context has no claim left. `Unblocked` follows such an item
  step by step; `Follows` does so for one that repeats another, which finds the
  id in Redis (`Answerable`).

`RateLimitProofs`, for any requests, users, burst and interval:

* `RateTypeCorrect`: types, and no bucket above its burst or in debt.
* `WindowBudgetCorrect`: what is inductive is `Charged`: since any earlier
  admission, the bucket's level and the worth of the admissions since then are at
  most the burst, what time has refilled, and the time gone through twice. An
  admission moves worth from the level into the count; an instant that is early
  puts its distance into `back`, from which a later instant may accrue it again.
* `RefusalDeservedCorrect`: the same from below (`Drained`). Since some admission
  at which the bucket was full, its level and the worth of the admissions since
  make up at least the burst and the refill. A bucket that overflows is full
  again, and the next admission starts a new account.
* `OneTokenEachCorrect`: no more of a user's requests are past the interceptor
  than there are admissions.

`AccessProofs`, for any requests, users, burst and interval:

* `AccessTypeCorrect`, `LoggedAsSentCorrect`, `HonestStatusCorrect`, from `ChainInv`,
  which follows each request down (`Inbound`), up (`Outbound`), behind the chain
  (`Away`) and at the client (`Told`). A record is written at one layer and
  compared at another, so what is in between has to be said: how deep a request
  is, that a panic gets no further than recovery, and that only logging and
  recovery write.
* `LimiterInChain`: `Access` implements `RateLimit`. The mapping (`phase`,
  `asker`) forgets every layer but the limiter's; a request is "idle" until it
  gets there. So the limiter's theorems carry over: `BudgetInChain`, and
  `RunsArePaidCorrect`, which is `OneTokenEach` at the handler together with
  what `Inbound` says of users.

`ProcessProofs`, for any requests and ports:

* `ProcessTypeCorrect`, `StoresOutliveHandlersCorrect`, `AcceptedAreServedCorrect`,
  `NothingCutShortCorrect`, all from two inductive parts: `Stages` says which
  clients are open and what the servers can be at each stage of `main`, and
  `Inflight` which requests there can still be then.

`ScraperProofs`, for any set of configurations, any limits of the service, and
any number of calls:

* `ScraperTypeCorrect`, `AccountingCorrect`, `HonestStatsCorrect`: `Claims`.
* `RateHonouredCorrect`: `Pace` says that reservations are spaced: since any call
  that was sent, later calls and the bucket's debt are paid for by time.
* `NeverRefusedCorrect`: `Room` compares the two buckets. The service's always
  holds what the runner's does, and one token more while a call is reserved but has
  not arrived; this survives a call that is slow, since buckets only fill
  meanwhile, and a call that never arrives, which leaves the service's fuller.

`TransformProofs`, for any postings that are as `PostingsAssumption` says, texts
and addresses of any length, and any number of additions:

* The cleaning functions are folds, and the library states induction for an
  operator, which the provers cannot be given. `NatSetInduction` and
  `TextInduction` state it for a set, and take it from the well-foundedness of
  the numbers (`WFMin`). `FoldExists` and `FoldStep` then give each fold its
  equations: what it is of the empty text, and of a text with one character more.
* `Shown` is what a reader sees of a text, who knows all white space, in lower
  case. It is computed by one
  `Step` per character, so that a character's effect on all that follows is known
  from its effect on what was before it: `SeenAfter`, `InsertShown`, `ReplaceShown`,
  `TagShown`. Hence the inductive invariant, `TransformInv`. A page shows what
  its posting says, with the site's name behind it at most, and the same values
  of `id` (`PageInv`); an event is what one of the transformers makes of the
  page, or of what the extension's parser has `Taken` from it, or there is none,
  for a reason (`EventInv`).
* The readers agree on a part of the characters. On `Plain` texts, without em
  space and NEL, `collapseWhitespace` is that reader (`PlainIs`, `CollapseIs`).
  Of `Clear` texts, without byte order mark and NEL, the extension's parser
  makes something that is shown alike, and of those that may have the mark
  something that is blank exactly if they are (`TextOfShown`); both are `Plain`. `TakenIs`
  puts the two together under the properties' conditions.
* `SourcesAgreeCorrect`: the key is of what is shown (`NormalizeShown`). A title
  that is shown as the posting's has no suffix to strip (`Unstripped`), of a tagged
  one its title is left (`StripTagged`).
* `TransformTypeCorrect` (`CollapseTidy`, `StripTidy`, for all characters) and
  `BlankRefusedCorrect`: a cleaned `Plain` text is empty only if nothing is shown
  (`BlankIs`).
* `AddressKeptCorrect`: what is encoded is what `Query` finds (`EncodeIs`), and `Query`
  finds that again, in its order (`QueryTwice`).
* `KeyTellsApart`, for any characters: without the separator in a company, equal
  keys mean equal normalized companies and titles. The first separator of a
  payload ends both companies (`NotLonger`). `KeysTellApartCorrect` is the same
  of events.

Only model-checked is liveness: `GetsThrough`, `BatchAnswered`, `SignalEnds`,
`StopsWhenAsked`. They rest on fairness and thus on ENABLED, which is beyond the
prover.

Every other property of a passing run has a theorem. Some have conditions that
the runs' failures imply: `[]Uncharged`, or that "redis" is not a fault.

## 6. Plan

1. Proofs: what `RegisterProofs` excludes by `"redis" \notin Faults`, key by
   key: which single commands of unknown outcome cost which promise.
2. `Extension`: popup, background and content messages.

## 7. Not modelled

* Configuration other than the two ports: values that are read once and passed on.
* The scraper's generator (random texts) and the printed summary; the CLI's
  token and output.
* The extension's messages between popup, worker and content script, and its
  options: each click is one chain of awaits that shares nothing with another
  but the status line.
* `Validate`'s rules on user, source and schema version, which no transformer
  can break.
* Generated code, the SQL of the migrations (`RunMigrations` is a step that
  succeeds or fails), deployment files and scripts, log texts, JWT verification
  and protobuf encoding (libraries).
* The outbox relay and its consumers, which the repository announces but does
  not contain.
