# Verification of codely-proxy

TLA+ models of the Go program in `src/` (and of one page of its WebUI), TLC
instances of them, and TLAPS proofs. codely-proxy is a local gateway: it takes
OpenAI and Anthropic style requests, picks one of several logged-in upstream
accounts, forwards the request with that account's `sk-` key, and moves on to
another account when one is exhausted or broken. Around that it logs accounts
in, keeps their rotating OAuth credentials on disk, shows quotas and logs.

File references are to `src/internal/...` unless they say otherwise.

## Inventory

| Component | State | Operations | Talks to | Hard because of | Correct when | Models |
|---|---|---|---|---|---|---|
| request loop (`proxy/handler.go`, `forward.go`) | per request: accounts excluded, counter, budget, attempt | handle, AttemptForward, pipeResponse | pool (Pick, MarkFailure), account state (keys) | nested retries, failover, a client that leaves, other requests on the same pool | an account is met once, sent to again only after it refused its key, and every request ends in one outcome | `ProxyHandler`, `Failover` |
| account pool (`balancer/balancer.go`) | pool, `rrIndex`, config | syncPool, Pick, MarkFailure, UpdateConfig, OnAccountRemoved/Saved | registry (ListSlugs, GetCurrentName) | Pick is many critical sections; the pool changes under it | the pick is never an excluded account; a failing one cools | `Balancer`, `KeyCache` |
| account state (`balancer/account_state.go`) | cooldown, key and negative cache, quota cache, flights | GetAPIKey, RefreshAPIKey, FetchQuota, persistCreds | registry, oauth | shared flights, results applied late, a name that changes hands | a key is its account's own; rotated credentials reach the files | `Balancer`, `CredStore`, `KeyCache` (part) |
| account registry (`account/registry.go`) | `index.json`, `<slug>.json`, caches | save, activate, remove, the Sync* family | codely-creds.json, pool hooks | check-then-act across locks, failing writes, crashes, removal racing refreshes | files, index and activation agree; nothing removed returns | `CredStore`, `KeyCache` |
| global credentials (`oauth/creds.go`) | `codely-creds.json`, `refreshFlight` | RefreshAccessToken, SaveCredsIfUnchanged | registry hooks | a network call between load and save | a rotation is written to its own account | `CredStore` |
| key exchange (`oauth/apikey.go`, `http.go`) | none | FetchAPIKey, ProbeBackends | upstream | a 401 that refreshes on the way | the refreshed token is returned to be persisted | steps of `KeyCache`, `CredStore` |
| login flow (`account/login_flow.go`, `webui/login_handlers.go`) | one slot | Start, Poll, Cancel, complete | upstream, registry, page | overwritten slot, slow_down, several tabs | a code is used once; a login gives its user an account that works | `LoginFlow`, `AccountDesk` |
| request log (`proxy/reqlog.go`) | ring, head, count, seq | Push, Snapshot | WebUI | wrap-around, cursor, restart | a snapshot is what the log says | `RequestLog` |
| log page (`webui/web/pages/logs.js`, `assets/*.js`) | cursor, view, fullReload, filter | mount, load, poller | `/api/logs` | continuations after an await, shared fetches, doubles | every entry once, none hidden | `LogPage` |
| SSE guards (`sseguard/guard.go`, `proxy/idlebody.go`) | open blocks, flags, held-back text | Write, Finish | upstream body, client | a stream cut anywhere, stop words spread over deltas | a stream is closed exactly once, in order, and cut at the first stop word | `AnthropicGuard`, `OpenAIGuard`, `StreamPump` |
| proxy keys (`security/security.go`) | `proxy-key.txt`, mtime cache | Add, Remove, Set, Validate | WebUI, proxy | read-modify-write without a lock | no change is lost | not modelled |
| WebUI sessions, limiter (`webui/auth.go`) | sessions, table of addresses | login, Blocked, Fail, OK | handlers | a table at its cap | | not modelled |
| quota (`quota/quota.go`, `balancer/status.go`) | 15 s cache | FetchSnapshot | oauth, registry | a switch during a fetch | a snapshot is the account's own | not modelled |
| model probing (`webui/models_handlers.go`) | one flag | probe | upstream | concurrent probes | one at a time | not modelled |
| atomic files (`atomicfile/atomicfile.go`) | temporary files | Write, CleanupTemp | disk | a crash inside a write | old or new content | steps of `CredStore` |
| stop sequences (`proxy/stoptrim.go`) | none | TrimStopBody | handler | two implementations, blocks and choices | cut at the first hit, like the stream | `StopWords` |
| rewriting (`sanitize`, `proxy/errors.go`, `modelsmeta.go`), signature (`gateway`), configuration and start (`config`, `cmd`), other pages | none or constant | | | | | not modelled: sequential text work, cryptography, wiring, rendering |

Locks: `r.mu` (registry), then `b.mu` (pool), then `st.mu` (account); `saveMu`
before `b.mu`. Network calls hold none of them; a `singleflight` group joins
calls that want the same thing.

## Modules

| Module | What it is |
|---|---|
| `Failover` | Abstract: what one request is promised. It is handed to different accounts, within a budget, and ends in one outcome that is justified by what it tried. |
| `Balancer` | The pool and everything that changes it from outside a request: configuration, logins, switches, removals in their three steps, cooldowns that end. One action per critical section of `b.mu` or `r.mu`. |
| `ProxyHandler` | Composes `Balancer` with the request goroutines: `Handler.handle`, `Balancer.Pick` step by step (`list` ... `scan`), `AttemptForward`. Implements `Failover`. |
| `*_proofs` | Theorems about `ProxyHandler`, `CredStore` (`CredRotation_proofs`: what refreshing single accounts keeps), `LogPage`, `AccountDesk` and `StreamPump` (`StreamContent_proofs`: the texts and events its client gets). |
| `NaturalOrder` | Lemmas for the proofs: the order of the naturals and what a fold over a finite set and an iterated function give, without induction theorems. |
| `CredStore` | The credential files, the upstream's refresh tokens, and the goroutines that refresh, persist, switch and remove. |
| `RequestLog` | The ring behind `/api/logs`. |
| `LogPage` | Composes the ring with the page that polls it. |
| `ClosedStream` | Abstract: what a client is promised of one event stream. |
| `EventStream` | Lines of server-sent events and the client that reads them, line by line and event by event (external). |
| `StopWords` | Where a text is cut, as streams and as buffered bodies look for it. |
| `AnthropicGuard`, `OpenAIGuard` | The two guards: their state and what they write for a line and at the end. |
| `StreamPump` | Composes an upstream, a guard and a client. Implements `ClosedStream`. |
| `Grants` | The upstream's device logins (external). |
| `LoginFlow` | The login slot and the tabs that poll it. |
| `KeyCache` | Keys in memory, in files and upstream; the pool's account states; removals and logins under the same name. |
| `AccountDesk` | Composes `LoginFlow` with `KeyCache`: what a login saves, imports. |
| `MC*` | Instances for TLC. |

### Correspondence: requests and pool

`pc[r]` names the place of request r. `idle` is before `Handle`; `list`, `sync`
are `syncPool`'s ListSlugs and its critical section; `config`, `current`,
`useCurrent`, `candidates`, `rank`, `fallback`, `scan` are the parts of `Pick`
between which it holds no lock; `key`, `send`, `await` are one turn of the
inner loop, of which `upload`, `await`, `readKey`, `readQuota` are inside
`AttemptForward`: until the upstream has the request, until its headers are
there, and while the body of a 401/403 or a 402/429 is read; `retryKey`,
`quota`, `denied`, `ok`, `error` are its results; `pinOn`, `pinOff` are between
the configuration `Pick` has read and the lookup of the pinned account;
`piping`, `done` are the response. `acctTry`, `excluded`, `budget`, `attempt`
are the code's variables of these names or `maxAccts`. Upstream answers are
nondeterministic and are classified as `AttemptForward` does (retry with a new
key, quota, denied, ok, error). `tried`, `sends` (by account) and `refused`
(the accounts that answered 401/403 for their key) are history. Whoever asks
for the current account of an empty registry may import one from
`codely-creds.json` first (`ImportActivation`; what is in that file is
`CredStore`'s, here it is there or not). An account is its name's rank in sort
order. A removal is three steps: the registry's, the reload of the pool, and
`OnAccountRemoved`.

### Correspondence: credentials

A refresh token is a user and a number; `live` are those the upstream accepts.
Each action is one critical section of `r.mu` (`Login`, `ActivateAccount`,
`RemoveAccount`, `SyncRotatedCreds`, `AskCurrent` for GetCurrentName with its
import by `ensureLocked`, `Look` for every other transaction that may import,
`Align` for SyncActivationCreds, `SyncCurrent`, `RescueRotation`) or one access
to `codely-creds.json` made without it (`CheckActivation`, `WriteActivation`,
the deletion in `Cascade`). `held[w]` is what goroutine w loaded and `fresh[w]`
what the refresh returned: the state that is read before a network call and
used after it. A shared flight is the action of its leader, with the joiners
that were in time chosen freely; a joiner goes on by itself, whenever it is
scheduled. Who may be in one flight (`Waiting`) is told by the token
(`tokenRefreshFlight`) and, for the jobs `key` and `quota` that go through
`RefreshCreds`, by the account (`refreshFlight`), so that one who loaded a
newer token may still be handed the successor of an older one; a refresh in the
middle of `FetchAPIKey` (`fetch`) shares by token only. A refresh may fail
before the upstream has seen it or after: then (`AnswerLost`) the token is used
up and its successor is known to nobody, and `unheard` remembers it. A failing
write leaves what the code's rollback leaves. `Crash` ends the process between
any two steps or inside a transaction, after any of its writes (`CutLogin`,
`CutSwitch`, `CutRemoval`, `CutImport`, `CutPersist`); a single write is all or
nothing, which is what `atomicfile` is for. `unwritten` is history: the names
an import that was killed has left without a file, until nothing is left under
them (no entry, no file, no goroutine at work).

### Correspondence: streams

A line is its kind, type, block and text; a text is a sequence of characters.
`AnthropicWrite` and `OpenAIWrite` are what the guards do with one complete
line, `AnthropicFinish` and `OpenAIFinish` what they add at the end; both
return the guard's next state and the lines they write, which `cl` takes in.
`g.buffer` is the line buffer: `ReadHalf` is a Read that ends inside a line,
`Flood` a line over `lineBufferCap`, of any type but the few that tell a
passthrough guard something (`Endless`). `End` is the end of the body, a read
error or the idle timer of `idlebody.go`, anywhere. `cut` remembers where that
was. `sent` is the history of the texts that arrived, from which `TextKept`
computes what is due. The client appears twice in `cl`: each data line by
itself (`open`, `ends`, `text`), and event by event (`name`, `data`,
`malformed`).

The upstream of the instances sends blocks in order of their index, deltas to
the block that was started last and, when stop words are looked for, one block
at a time: interleaved deltas of two open blocks would be re-sent under the
last one's index (`guard.go:344`), and `synthStopSeq` closes one block only.

### Correspondence: keys and logins

A grant has the number of the login it came from and stands for the tokens it
is rotated through and the keys fetched with them, so that whose a key is can
be told. `file`, `keyFile`, `current` are the files; `pool` maps a name to an
account state, which keeps `key`, `failed` (the negative cache) and `flight`
when the name changes hands. `at[w]` is the place of goroutine w in GetAPIKey
or RefreshAPIKey; `state[w]` is the state it was given. A read of memory and,
failing that, of the key file is one step (`GetKey`): what it finds in the file
it writes to memory in another. `signed` (whom a name was last saved for) and
`overtaken` (what was under way under it then, and the key in its file when the
credentials beside it were not of the user who logs in) are history, and so is
`late` (the credentials of the flights that ran under a name when it was last
saved or removed). A removal of the active account is followed by the switch to
the next one in a step of its own (`Cascade`). The write of a key file may fail
without anybody being told. An import may lack a `user_id`: `UserID` is what a
later login then compares with.

`slot` is the login slot with its throttling: `since` counts time since the
last poll; `Intervals` are what the upstream may ask for, as `Start` takes it,
longer than `Longest` (30 s), too, which a `slow_down` then shortens.
`poll[p]` is the place of tab p's request, `ticket[p]` the slot it
took with it over the call, `answer[p]` what the upstream said.

### Correspondence: log and page

`ring`, `head`, `count`, `seq` are those of `RequestLog`; `log` is a history of
everything this process pushed. `kindFilter`, `lastSeq`, `fullReload`, `view`
are those of `logs.js`. A load is a waiter of a fetch; `Deliver` runs the
second halves of all waiters, as the promises do, with the page's state of that
moment. Sequence numbers start at the time in nanoseconds, where doubles are
256 apart: `Number` is the conversion when the page reads JSON, `Printed` the
one when it writes the cursor into the path. `Grain` and `DecimalUnit` are 4
and 3 instead of 256 and 100 in the instances, so that rounding goes both ways
within a few entries. `Restart` assumes only that the clock moved on.

## Runs

| Run | Checks | Bounds |
|---|---|---|
| `ProxyHandlerAlone` | types; failed accounts stay excluded; no account is sent to twice unless it refused its key, none three times; the loop's bookkeeping; refinement of `Failover`; a client that has gone is no account's failure; a passed-on 402/429 cools its account; every request is answered, unless the upstream hangs | 1 request at a time, 3 accounts of which one may be disabled, one administrative operation at any point, every mode, balancing off |
| `CredRotation` | activation belongs to the current account; no rotation is lost that the proxy was told of; the same of the activation's token; no removed account comes back | 2 users, 2 workers, 5 tokens, one failing switch or lost answer; key and quota refreshes, switches, removals; no two jobs of one account at once; one account is kept |
| `CredFiles` | types; a registered account's file is its own user's | 2 users, 2 workers, all kinds of jobs with overlaps, imports by anybody, 4 tokens, two failures: a login's or a switch's write, or a crash inside any transaction |
| `LogPage` | types and limits; snapshots are exact; the cursor ends within a rounding of the newest entry | ring of 2, 3 entries, 1 restart, 1 user action or failure |
| `StreamGuards` | types, and nothing held back at the end; refinement of `ClosedStream`; the text up to the first stop word and all of it; cut as the buffered body would be; well-formed events when nothing is trimmed | both protocols, with and without stop words, 6 events, 2 blocks, words of 2 and 3 characters that overlap |
| `LoginDesk` | a code is exchanged once; nobody's late answer ends a login; an authorized login is taken up | 2 tabs, 2 logins, 2 users, 1 lapse of the clock, intervals within and above what the back-off goes to |
| `KeyRace` | types; keys and key files are the account's own user's, credentials those of its last login; a fresh login is not refused for what was before it | 2 goroutines, 2 imports of 2 users, switches and removals, 2 account states |
| `CrossedActivation`, `LostRotation`, `RemovalRace`, `StreamNames`, `LoginRepairs` | one documented statement each, which the code does not keep (below) | |

Why the bounds are enough to be interesting: three accounts are the code's own
cap of accounts per request (`TryCap`); one may be pinned, one is active, one
may be disabled. One request at a time meets every other actor of the pool through
the administrative operation; requests in parallel, which change the cursor and
the cooldowns for each other, are what the theorems about any number of them
are for.

Two workers and two users are what every hazard of the credentials takes: the one
whose tokens are rotated and the one who is switched to, removed or refreshed
meanwhile; five tokens are two logins and three rotations, so that a rotation
can be overtaken by a second one. A ring of two with three entries wraps
around. Six events are two blocks with their deltas and stops, or one block
with three deltas, so that a word of three characters comes in three pieces;
the words `aba` and `bb` share characters, so that the end of one may be the
beginning of the other. Two tabs are what a code exchanged twice takes, two
logins what a late answer about an older one takes, two goroutines and two
names what a name that changes hands takes. Tabs and goroutines run apart
(`Crews`), for together they have millions of states; they meet only in what a
login saves, which an import saves, too, and the theorems about the desk are
about any crew.

`CredFiles` leaves out the quota fetch, all of whose steps a key refresh takes,
too, and lets nothing be lost on its way back: whose a file is does not depend
on it. `CredRotation` leaves out `look`, for
with one account kept nothing is imported. In `LoginDesk` the upstream asks for
an interval of one step, which is too short for it, or of three, more than the
back-off goes to (`Longest`, two); `Ever` bounds the time that is counted.

Bounds are constants, named as such where they are declared:
`AdminBudget`, `CursorCycle`, `MaxTokens`, `MaxFaults`, `MaxPushes`,
`MaxRestarts`, `MaxEvents`, `MaxUnits`, `MaxLogins`, `MaxLapses`, `MaxSlug`,
`MaxStates`, `Ever`, `Crews`. `Overlap`, `KeepOne` and `Failing` narrow an
instance; where a property holds only because of them, a run shows what
happens without (`LostRotation` without the first, `RemovalRace` without the
second, `CrossedActivation` with the global refresh).

`CHECK_DEADLOCK FALSE` in `CredFiles` and `RemovalRace`: once the last account
is removed and no token is left to issue, an instance stops. So does a stream
that has ended, and a desk without logins left (`StreamGuards`, `LoginDesk`,
`KeyRace` and the runs that share their modules).

Fairness: `FairSpec` of `ProxyHandler` is weak fairness of what each request's
goroutine comes to do by itself (`Unaided`). It runs as long as its request
does, the critical sections are short, and an upstream that has the request is
cut off by `ResponseHeaderTimeout`. Not so one that does not take the request
in, or that falls silent inside the body of a 401/403 or a 402/429
(`forward.go:184-198` reads those without a timeout; `idlebody.go` wraps what
`pipeResponse` reads only, and the client has none): at these places
(`Stalling`) only a client that leaves moves the request on, and
`EveryRequestAnswered` says that it is answered or hangs there for ever, for a
client that stays. Nothing is assumed of the client, the administrator, of
cooldowns ending, or of how long a response is piped.

`FairSpec` of `LogPage` is weak fairness of the page's timer and of the answering and
delivery of fetches, which `api.js` cuts off after ten seconds; the page is
open and visible. `FairSpec` of `AccountDesk`: the clock runs, and each tab's
page polls every three seconds until it hears the end (`accounts.js:213`), both
weakly fair; that the upstream answers some poll is strong fairness, because a
call may fail any number of times but not every time. Nothing is assumed of
users, cancellations or expiry.

Exceptions in the properties, each with what happens in it:

* `KeysOwn` asks of an account's credentials that they are those of its last
  login or of a flight that ran when that was saved: a late `persistCreds`
  (`registry.go:653`) does put the old ones back, or another user's when the
  name has changed hands. Of the key file and the pooled key it does not speak
  when they are of what was under way when the name changed hands, nor of the
  key that lies beside credentials that are not the last login's (`overtaken`):
  a late key file (`account_state.go:331`) does end up with the next account of
  that name, and the key file stays when that name's owner logs in again. A
  pooled state that outlived its account keeps its key.
* `RefusalsFresh` exempts the flight that ran at the very moment the account
  was saved: it may still have the fresh login turned away for `keyFailTTL`.
* `FilesOwnIdentity` does not speak of names an import left without a file
  (`registry.go:308`) until nothing is left under them.
* `AccountsUsable` and `ActivationUsable` count a token as good whose successor
  was lost on its way to the proxy (`unheard`): nothing the proxy does could
  save that account.
* `ActivationFollowsCurrent` and `ActivationUsable` allow that there is no
  activation, so the deletion of a fresh login's by a removal's cascade
  (`registry.go:819`) breaks neither; and they do not speak of the time between
  the two steps of a removal, when the copy is the removed account's.
* `TrimmedAlike` does not speak of words that begin in one block and end in the
  next, a known limit (`guard.go:304`).
* `StreamClosed` and what depends on `cut` promise nothing of a stream that
  breaks off inside a line of which the client has a part: what the guard adds
  may run into it. With stop words the client has no part, and the end is
  promised after half a line, too, but for half a `content_block_stop` or
  `message_stop` (below).

## What the code does not keep

| Run | Statement | What happens |
|---|---|---|
| `CrossedActivation` | `creds.go:172`, `docs/模块审查与验收标准.md:181` | `SaveCredsIfUnchanged` compares and writes in two steps; a switch in between is overwritten by the previous account's tokens. |
| `LostRotation` | `creds.go:199` | Someone who joined a refresh persists its result after a later one was persisted; the account's file keeps a used-up token. |
| `RemovalRace` | `registry.go:637` | While the last account is removed, `GetCurrentName` of a refresh under way imports it again. |
| `StreamNames` | `guard.go:303`, `guard.go:35` | With stop words, text held back is written as an event of its own between the name line and the data line of the block's stop, which then has no name. |
| `LoginRepairs` | `creds.go:138`, `apikey.go:103` | A login of the active account's user is taken for a duplicate and its tokens are dropped, also when the account's own are dead. |

Seen while modelling, without a run of its own here:

* A truncated `message_stop` or `content_block_stop` that is left in the line
  buffer is counted by `trimLine` as soon as its type can be read, so that no
  end is made up although the client cannot read it; `guard.go:455-459` says a
  malformed line sets no state.
* A `content_block_start` over `lineBufferCap` opens a block for the client
  that the guard does not know of and never closes. A delta over it is lost
  when stop words are looked for.
* An error body that stops arriving holds its request, and the connection, for
  as long as the client waits (`forward.go:184-198`).
* With balancing off a request leaves the active account once that has failed
  it (`balancer.go:245`); `docs/模块审查与验收标准.md:210` says it always falls
  back to that account.
* When the log page opens, two loads share one fetch and the second prepends
  all rows to themselves (`logs.js:117`).
* The page's cursor is rounded to a double (`reqlog.go:61`, `logs.js:113`):
  above the newest entry it hides the following ones, below it repeats rows
  with every poll. `CursorFollows` bounds the error.
* `emitHit` (`guard.go:685`) writes its chunk and `[DONE]` without a blank line
  between, so that a client that joins data lines gets one event of the two.
* An OpenAI stream cut inside a line gets `[DONE]` appended to that line; an
  Anthropic stream cut after a data line, with no block open, gets the made-up
  `message_delta` merged into that event; cut between `message_delta` and
  `message_stop`, it is told a second stop reason, `end_turn`.
* The page sends `/login/cancel` also after a success (`accounts.js:180`), and
  the request names no login: it may end another tab's.
* A crash inside an import, later a switch and a global refresh, and an
  account's file is another user's; a goroutine that loaded that file, and is
  killed between the two writes of `SyncRotatedCreds`, even leaves it to the
  next account of the name (see `FilesOwnIdentity`).
* `SaveAccountAutoSlug` looks for a free name (`registry.go:538`) before
  `saveAccountLocked` imports a left-over activation: if both go by the same
  name and a later write of the login fails, the imported account keeps the
  other user's file. The theorem about files therefore excludes failing logins
  where names are shared (`Orderly`).
* `SyncActivationCreds` compares names only (`registry.go:576`): after a
  removal and a login of another user under the same name, a late refresh
  overwrites the new account's activation with the old one's tokens.

* Of stop words that lie inside each other, a stream is cut at the one that is
  complete first (`guard.go:350`), a buffered body at the one that begins
  first: with `abab` and `b`, the deltas `ab`, `ab` show `a`, the delta `abab`
  and the same text in a body show nothing. `TextKept` and `TrimmedAlike` are
  therefore about words that are apart (`WordsApart`); `NoWordShown` is about
  any, and is proved, but checked by no run: of the run's words, which are
  apart, `TextKept` says it all.

## Proofs

Every theorem is about the specification with its constants free: any accounts,
requests, workers, tabs and goroutines, any bounds. The
assumptions on constants are the named ASSUMEs of the component modules, which
TLC evaluates in every run; hypotheses beyond them are in the statement of the
theorem and explained here.

### `ProxyHandler_proofs`

* `TypeCorrect`, and `FailedStayExcluded`, `BookkeepingKept`, `AtMostTwoSends`:
  the invariants `FailedAreExcluded`, `LoopBookkeeping`, `TwoSendsPerAccount`.
* `HandlerImplementsFailover`: `Spec => FailoverKept`.
* `LeaversCoolNobody`, `PassedOnQuotasCool`: the action properties about
  cooldowns.

The inductive invariant `IInv` is `TypeOK` and, per request,
`FailedAreExcluded` with `LoopBookkeeping`. Neither half is inductive alone:
that a pick is a new account needs the ranked candidates to be clear of the
excluded ones, and the counter to agree with the number of accounts tried; that
again needs every way out of the inner loop to exclude the account it leaves,
which the places of the loop record; and the bound on the sends to each account
needs that an account not yet tried was sent nothing (`Unsent`), how many the
stage still allows to the one at hand, and that a second attempt follows a
refused key (`Paced`). A step of one request leaves the others' `RequestInv`
alone (`OthersSame`), a step of the pool or the administrator leaves all of
them alone. The refinement maps `outcome` and `pc` to `verdict` and `pinned` to
`free`; each step is a stutter (`HiddenStep`), the choice of an account
(`TryStep`), an end (`EndStep`) or the border of a request. The action
properties need no more than the types and which steps of whom give which
outcome (`WhoseOutcome`) or cool an account (`WhoCools`).

### `LogPage_proofs`

`SnapshotsExact`: for any capacity, limit, cursor and number of restarts the
ring's `Snapshot` is what the log of the process says. The invariant
(`LogIInv`) is that slot `At(i)`, i places behind the head, holds the i-th
newest entry (`RingMirrorsLog`) and that the log is numbered without gaps
(`Consecutive`), so that the early stop of the loop is right. `SnapshotIs` and
`RecentIs` compute both sides.

`PageTypeCorrect`: `TypeOK` of the page, which is more than types: a path has
one fetch, the view never outgrows the page's limit, and the cursor never gets
ahead of the newest number by more than rounding. The invariant adds
(`PageInv`) that no answer under way is ahead of the server (`NotAhead`); a
step of the server keeps the page's part because `Number`, the rounding to
doubles, is monotone (`NumberGrows`) and moves a number by half a grain at most
(`NumberNear`). However many loads share a fetch, their second halves are one
function iterated (`AfterAllTyped`). `Shown`, the page's filter, is written as
a recursive function: the prover knows nothing of `SelectSeq`.

### `CredStore_proofs`

* `TypeCorrect`: no hypotheses. `TypeInv` adds to `TypeOK` what a goroutine has
  at each of its places (`WorkerOK`).
* `FilesKeepIdentity`: `FilesOwnIdentity` if the process lives and, when logins
  may fail half-way, nobody's login may take the name of another's import
  (`Orderly`). Users may share names otherwise. Needs that no entry is without
  a file (`FilesThere`).
* `FilesSurviveCrashes`: the same with crashes between and inside all
  transactions, if no two users go by one name (`NamesApart`). The invariant
  (`NamesInv`) must speak of files without an entry, too, of what goroutines
  hold, and of entries that `CutPersist` left behind its file: under each name
  that is not `unwritten` there are only credentials of users who go by it.
  With a shared name and a crash the property is false: a login that is killed
  half-way does what one that fails does (`registry.go:538` above).
* `RemovedStayGone`: `NoResurrection` if the process lives and one account is
  kept. Without the second, the run `RemovalRace` shows how one comes back.

### `CredRotation_proofs`

* `ActivationStaysCurrent`: `ActivationFollowsCurrent` without crashes, without
  the global refresh (`CrossedActivation` shows what it does) and with names
  apart (see `registry.go:576` above). Refreshes may overlap, logins and
  switches may fail. The invariant names, for every place a token may be
  (`Bears`: files and goroutines), who it may be of.
* `NoRotationLost`, `ActivationStaysUsable`: `AccountsUsable` and
  `ActivationUsable` under `Quiet`: no overlapping refreshes of one account
  (`LostRotation` shows what they do), no global refresh, one account kept, no
  crash, and nothing fails but switches and the way back of a refresh's answer.
  What was lost there is `unheard`, and as good as a token can be. Names may be
  shared. The invariant
  (`Settled`): every token has one home (`OneHome`), no two goroutines are at
  work with one account (`OneEach`), and the token of a file is accepted or its
  successor is in the hands of somebody who is about to write it (`FilesKept`);
  for the activation, `ActivationHome` and `ActivationLive` say the same of the
  active account.

`Overlap`, `KeepOne` and the sets `Jobs` and `Failing` are parameters of the
specification, so that these hypotheses are instances, not idle: `CredRotation`
is an instance of `Quiet`, `CredFiles` one of `NamesApart` with crashes.

### `AccountDesk_proofs`

* `DeskTypeCorrect`: also that `SaveAccountAutoSlug` always finds a free name
  (`NameFound`, by the cardinality of the names taken), that a key has one
  flight, and that nobody waits for a flight nobody has (`FlightOK`).
* `CodesUsedOnce`, `LoginsEndThemselves`: a login is still to start, in the
  slot, or in the hands of the one tab that took it out (`OneTaker`).
* `KeysStayOwn`, `RefusalsStayFresh`, with the exceptions above: `Owned` says
  whose everything is that is kept under a name, on disk, in the pool and in
  goroutines' hands. It needs that goroutines who hold the pool's state hold it
  under its name (`StatesOK`), which holds because a removed account's state
  never returns to the pool, and that what is kept anywhere is of a completed
  login (`GrantsKept`), whose user is known for good.

### `StreamPump_proofs`

* `StreamTypeCorrect`: with it, that a guard keeps at most `Holdback`
  characters back, and nothing of a stream that is over.
* `StreamIsClosed`: `Spec => StreamClosed`, the refinement of `ClosedStream`,
  for both protocols, with and without stop words, for any words, texts, blocks
  and number of events, wherever the upstream breaks off, but for the half
  lines named above. `StreamAssumption` and `StopsAssumption` say only that
  texts and stop words are sequences over `Chars`, that there is a word and
  none is empty, and that blocks are numbered from 0.

The client of the model is a machine of its own, which is told something by
each line it reads. First, what it is told: a complete line of a guarded stream
tells exactly what it says (`TakeTells`, `ReceiveTells`), several lines what
they say together (`LinesTell`), and one telling line between quiet ones what
it alone says. The client's `ReceiveAll` is a recursive function on the number
of lines, so that this is induction by a set of naturals (`NaturalOrder`).
Then, what a guard writes for a line: quiet lines and that line, or a whole end
(`TrimLineTells`, `TrimLineOTells`, `FinishIs`, `EndingTells`).

The invariant, `StreamInv`, is of a running stream that
* the guard knows what the client was told: its open blocks, its end, and any
  error (`Agreed`); a guard that is `done` has closed everything;
* the client is in step with the upstream, up to the event that is under way
  (`InStep`), which is how a guard that closes one block at a stop word closes
  all that are open;
* an unfinished line is the beginning of the next one of the upstream, in the
  line buffer, and without stop words at the client, too (`HalfOK`).

`Finish` has four cases, as the code does: done already, nothing left over, a
left-over line that is trimmed, and one the client already has.

### `StreamContent_proofs`

* `StreamTextKept`, `StreamTrimmedAlike`: `TextKept` and `TrimmedAlike`, for
  any stop words that are apart (`WordsApart`: none lies inside another one,
  unless it ends where that one ends). Without that both are false (see above).
  `WordsApart` is a hypothesis of the theorems, not of the model; TLC's words
  for these properties satisfy it.
* `StreamWordsWithheld`: `NoWordShown`, for any words. Of words that are apart
  it follows from `TextKept`, and no run checks it; the theorem is about words
  that are not.
* `StreamRelayedWhole`: `RelayedWhole`, without hypotheses.

Of a stream that looks for words, the invariant (`TextInv`) says that either no
word has come, and what was sent of each block is what was shown and, in the
block that was spoken of last, what is held back (`Stands`); or one has come in
a block, which was shown up to a cut, all blocks before it are shown whole and
nothing of those behind it (`CutShort`). What is held back is `Holdback`
characters long unless nothing was shown yet (`Waits`), so that a word that
ends in the next delta begins in what is held back (`Window`): that is why the
guard need not look at what it has shown. Only the block that was started last
may still grow (`Growing`, `Frontier`), and the event that is under way fits
that (`TextAhead`), so that what is held back is flushed before another block
speaks. A text may grow after its cut; that the cut stays where the first word
is needs that no other word is completed in front of it (`StaysCut`), and is
the only place `WordsApart` is used.

`StreamTrimmedAlike` follows from the same invariant: where a text lies among
the joined ones (`Upto`, `StartIs`), the first word of the joined texts is the
first word of a block or straddles two (`HitOfText`, `BlocksCut`).

For `RelayedWhole` the client's half-read event must be in the invariant: it is
what the upstream has sent of the event under way (`EventSound`), so that a
name line meets its own data line, and what the guard adds comes after a blank
line, or, with a block open, begins with one.

### How they are laid out

Where a specification has many actions, a lemma first says which kinds of steps
there are for the state an invariant speaks of (`DiskCases`, `RotationCases`,
`KeyCases`, `DataCases`, `Moves`), and each part of the invariant is shown for
those. `NaturalOrder` proves what the library has only as theorems over
operators: the least element of a set of naturals, that a set with 0 and all
successors is all of them, and that the recursion behind the library's folds
has exactly one solution on finite sets; these say what `SyncPool` and the
name of a new login are.

What trying to prove found: `FilesOwnIdentity` was stated with an exception
that was too small (five tokens are needed to see it, the run has four): an
entry without a file hands a stranger's to a goroutine, which survives the
removal of the entry, so `unwritten` now lasts as long as anything under the
name does. `ActivationUsable` is not true between the two steps of a removal.
The desk's `Import` was wrong and is corrected. `ClosedStream` let a stop word
end a stream in which another block is open, and the upstream of `StreamPump`
could start a block after its `message_delta`; two of the guards' case
distinctions overlapped (`Scan`, `End`), which a `CASE` leaves undetermined.

### Only model-checked

* Liveness: `EveryRequestAnswered`, `AuthorizedTakenUp`, `CursorFollows`.
  Liveness under fairness is out of the prover's reach.
* The five disagreements are counterexamples of TLC.

## Not modelled, and why

* Bodies, headers, metrics and log texts: nothing is decided from them. The
  rewriting of requests and responses (`sanitize`, `errors.go`,
  `modelsmeta.go`) is sequential text work without state.
* Failing deletions in `RemoveAccount`, and failing writes of rotated
  credentials and of imports, which the code reports or ignores, and leaves. A
  rollback that fails in its turn (`restoreActivationLocked`), which takes two
  failures at once.
* Overlapping blocks of an Anthropic stream with stop words, and lines over
  `lineBufferCap` that stop or start something (above).
* Identities at two teams of one user; choices of an OpenAI stream but the
  first, which the guard does not trim (a documented limit).
* Bytes and runes of a text are not told apart; JSON that cannot be parsed is
  one case.
* The key file's and the directory's caches by modification time
  (`registry.go:331`), and the registry's cache of the index.
* Proxy keys, sessions and the login limiter: access control, kept apart from
  everything modelled here and under one mutex each, but for the key file's
  read-modify-write, which is listed as a hazard.
* Quota snapshots are for display; the balancer's ranking by quota is a free
  choice in `Balancer`, and the refresh a fetch may take is in `CredStore`.
* The configuration file, the probing flag, exports, hidden tabs and expired
  sessions of the WebUI, the gateway's signature, start and shutdown.

## Plan

Done: requests and pool with the proof of `Failover`; credentials with failing
writes and crashes, and the proofs of all their properties; log page with the
proofs of its ring and its own state; guards with the proof of `ClosedStream`
and of what they show; keys and logins with the proofs of their safety. Every
safety invariant and action property that a passing run checks is stated by a
theorem.

Left, in this order:

1. `ProxyKeys` and the saving of the balancer's configuration.
2. Quota snapshots with their fingerprint.
