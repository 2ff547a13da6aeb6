# A verification project for node-crowdsec

TLA+ models of the code in this repository that keeps state or decides something:
the decision stream and its poller, the index of decisions, the bouncer middleware
with its live checks, the watcher client's token, the HTTP middleware that starts
both halves, its scenarios, and the MCP server with its process, its configuration
and its tools.  TLC checks the models on small instances; TLAPS proves the theorems
for every value of the constants.  Paths are relative to `src/packages/` unless
they begin with `docs/`.

## 1. The system

Everything runs on the one thread of a Node process.  "Concurrency" means: what
happens between two awaits, in timers, in promise continuations, in event
listeners that are called synchronously and may call back, and in answers of the
CrowdSec LAPI that come late, in another order, or not at all.

### crowdsec-client

| Component | State | Operations | What makes it correct |
| --- | --- | --- | --- |
| DecisionsStream | `_paused`, `looping`, `decisions.added/deleted`, and implicitly the parse and drain loops under way | `push`, `loop`, `emitDecisions`, `pause`, `resume`, `close` | each decision reaches the listeners once, in order, only while resumed; the lock is given back; nothing is stranded |
| DecisionsBouncer (poll loop) | `runningStreams`, `getStreamTimeout`, per stream `first` | `getStream`, the loop started by a resume, its timer, `stop` | a stream that is not paused keeps polling, one that is falls silent |
| WatcherClient | `autoRenewTimeout`, `heartbeatTimeout`, the Authorization header | `login`, `_login`, the renewal timer, `heartbeatLoop`, `stop` | the token does not expire, renewals do not pile up, heartbeats go on |
| CrowdSecClient, BouncerClient | the HTTP client | `testConnection`, `login`, `stop` | as their users need it |
| Alerts, Allowlists, DecisionsWatcher | none | one request each | as the MCP tools use them |
| durations | none | `parseDuration`, `parseGoDuration`, `toGoDuration` | what is written lasts as long as what was asked, whoever reads it |
| validation, errors, generated types | none | pure | - |

### crowdsec-http-middleware

| Component | State | Operations | What makes it correct |
| --- | --- | --- | --- |
| IpDecisionDB | one table per prefix length, `activeMasks` | `insert`, `lookup`, `delete`, `removeIf` | a lookup is a longest-prefix scan over the decisions |
| Bouncer middleware | the index and `decisionKeys`, `cleanCache`, `errorCache`, `pendingChecks`, `concurrentChecks`, `expirationScan`, `decisionStream` | `start`, `stop`, the `added`/`deleted` listeners, the expiration scan, `middleware`, `spawnLiveCheck`, `runLiveCheck` | what the LAPI bans is enforced, what it no longer bans is let go, checks are capped, deduplicated and accounted for |
| Watcher middleware | `scenarios`, the scenarios its client announces | `start` (import, register, load, login), `extractIp`, `middleware` (check, enrich), `stop` | an alert is about the visitor's address, is pushed once, and spares friends |
| CrowdSecHTTPMiddleware | both of the above | `start`, `stop`, `middleware` | a `start()` that resolved left nothing half done, whatever failed beside it |
| IP objects and their cache | an LRU cache of immutable values | `getIpObject` | - |

### crowdsec-client-scenarios

| Component | State | Operations | What makes it correct |
| --- | --- | --- | --- |
| X-Forwarded-For checker | `extractIpCache` | `extractIps`, `extractIp`, `check` | the nearest hop nobody trusts is the visitor |
| Enrichers: allowlist, HTTP, MaxMind | the databases loaded | `load`, `enrich` | they complete an alert or drop it; none is used before it is loaded |
| Scenario base classes | none | parsing of addresses, merging of metas | - |

### crowdsec-mcp

| Component | State | Operations | What makes it correct |
| --- | --- | --- | --- |
| Process (`index.ts`) | `context`, `httpServer`, `stopping` | `main`, `shutdown` on a signal | it ends, and not before it has answered |
| HTTP transport | a server and a context per request in passthrough mode | `handleRequest`, `createRequestServer`, `cleanup` | a context is open exactly as long as its response |
| Session (`client.ts`) | `loginPromise` | `ensureReady`, `stop` | one login is shared, and survives its failures |
| Configuration, registry, documentation, prompts | none | `loadConfig`, `selectTools`, `buildInstructions`, prompts | write tools are served only if asked for; what is told is what is served |
| Tools | none | 11 tools, among them `ban_ip`, `unban_ip`, `delete_alerts` | they touch what was named, and report what was done |

### How they interact

    LAPI --polls--> DecisionsBouncer --push--> DecisionsStream --added/deleted-->
        Bouncer middleware --insert/delete--> IpDecisionDB <--lookup-- requests
    Bouncer middleware --live checks--> LAPI        (answers go round the stream)
    WatcherClient --login, renewals, heartbeats--> LAPI
    CrowdSecHTTPMiddleware --start, stop--> bouncer middleware, watcher middleware
    a request --> extractIp (a checker and its cache) --> bouncer --> watcher:
        checks --> enrichers --> alerts pushed to the LAPI
    MCP client --> transport --> server per request or per process --> tool
        --ensureReady--> shared login --> LAPI requests, in order or parallel

The listeners of the stream run inside its drain and may push, pause, resume or
throw.  Live answers and stream events change the same index.  All streams of a
client share one timer field.  Scans, caches and the clock act at any time.
Requests reach scenarios that a `start()` has registered and not yet loaded.  The
calls of MCP tools share a login, and the LAPI with everybody else.

### What is hard

* *Interleaving*: two drains and several parse loops walk arrays that the others
  change; a listener that throws makes `Promise.all` reject while the other drain
  goes on; requests, timers and pauses of several streams; `stop()` while `start()`
  awaits; logins over renewals; requests during a `start()`; two signals.
* *Order*: `added` and `deleted` are drained independently; a live answer was
  computed before what the stream has delivered since.
* *Failure and retry*: polls, renewals, heartbeats, live checks and logins that
  fail; one half, one database or one of several parallel deletions that fails.
* *Stale state*: clean and error caches, keys of removed decisions, entries of
  `pendingChecks` that belong to a check `stop()` forgot, chains of proxies kept under
  a header, a verdict of the allowlists that is old when the ban is pushed.
* *Long sequences of options*: the filters of a deletion, flags beside variables
  beside defaults, instructions written apart from the selection of tools.
* *Liveness*: the lock of the stream, the loops that must plan their next turn, a
  shutdown that waits for requests that wait for the LAPI.

`PROJECT.json` lists every such hazard at its line with the properties that cover
it, or the reason why none does.

## 2. The modules

| Module | Models | Kind |
| --- | --- | --- |
| `DecisionsFeed` | what a stream promises: one ordered, exactly-once feed per kind of decision | abstract |
| `DecisionsStream` | `DecisionsStream.ts` and the `nonBlockingLoop` it uses | component, implements `DecisionsFeed` |
| `DecisionsStreamProofs` | theorems about `DecisionsStream` | proofs |
| `StreamPoller` | `DecisionsBouncer.ts`, the poll loops | component |
| `StreamPollerProofs` | theorems about `StreamPoller` | proofs |
| `IpDecisionDB` | `IpDecisionDB.ts` and the addresses it reads | algorithm, against a reference scan |
| `IpDecisionDBProofs` | theorems about `IpDecisionDB` | proofs |
| `BouncerMiddleware` | `CrowdSecHTTPBouncerMiddleware.ts` in an arbitrary environment | component |
| `Bouncer` | the middleware between an LAPI and a `DecisionsFeed` | composition |
| `BouncerProofs` | theorems about `BouncerMiddleware` and `Bouncer` | proofs |
| `WatcherClient` | `WatcherClient.ts` | component |
| `WatcherClientProofs` | theorems about `WatcherClient` | proofs |
| `Scenarios` | the checker and the enrichers of crowdsec-client-scenarios | algorithms |
| `HTTPMiddleware` | `CrowdSecHTTPMiddleware.ts` and `CrowdSecHTTPWatcherMiddleware.ts`, with `Scenarios` | component |
| `HTTPMiddlewareProofs` | theorems about `HTTPMiddleware` | proofs |
| `McpProcess` | `index.ts`, `client.ts`, `transports/http.ts` of crowdsec-mcp | component |
| `McpProcessProofs` | theorems about `McpProcess` | proofs |
| `Durations` | `duration.ts`, and `parseExpiration` of `utils.ts` (crowdsec-client) | algorithms |
| `McpConfig` | `config.ts`, `registry.ts`, `docs.ts`, `prompts.ts` of crowdsec-mcp | algorithms |
| `McpTools` | the tools of crowdsec-mcp at work on an LAPI, with `McpConfig` and `Durations` | component |
| `McpToolsProofs` | theorems about `McpTools` and the configuration and durations under it | proofs |
| `MCBouncerMiddleware`, `MCBouncer`, `MCHTTPMiddleware`, `MCMcpTools` | values of the constants for TLC | model checking |

### DecisionsStream

`queue` is `this.decisions` with `Empty` where the code leaves `undefined` in a
slot it has emitted; `looping` and `paused` are the fields of those names.
Everything that has no field is explicit state: `parsers` (the `nonBlockingLoop`s
of `push`), `drains` (the `emitDecisions()` calls under way, two per loop, with the
index they are at), and `thread`, the stack of the drains that run synchronously: a
listener that resumes the stream starts a loop *inside* an emission.  A loop gives
the thread back after every index that is a multiple of `BreakCounter`, including
index 0; `Wake` is the `setImmediate` that follows.  Promise continuations
(`Settle`, `LoopDone`, `LoopFailed`) run before any task of the event loop
(`NoMicrotask`).  `LoopFailed` is the rejection of `Promise.all`: the lock is given
back at once and the other drain becomes an *orphan* that nobody waits for.
`Cleanup` is the `forEach` at the end of `emitDecisions`, index by index.

Abstractions: the `raw`, `parsed` and `error` events carry no state and are not
actions, so a `raw` listener that throws out of `push()` is not modelled; a
listener that resumes the stream and *then* throws is not modelled; the order of
several `setImmediate`s is left open (the code's is first-in first-out).

`ImplementsFeed` maps the backlog to the slots that are not empty and the flow to
`~paused`; a delivery is one step of the feed, everything else stutters, receives
or switches.

### StreamPoller

One action per stretch of `getStream`'s loop between two awaits.  `handle` is
`getStreamTimeout` while the timer in it is armed.  Assigning the field over an
armed timer does not clear it, so such timers are counted in `leaked`; they fire
(`LeakedTimerFires`) but nothing can clear them.  `Answer` and `Fail` are the two
outcomes of a request; either way the loop goes on unless the stream is paused
*then*.  The listeners of `error` are taken not to throw: one that does so ends the
loop (`DecisionsBouncer.ts:154`), which is left out.  `stop()` closes the streams in `runningStreams`.  A stream resumed after
`close()` polls again and `stop()` no longer reaches it, as in the code.

### IpDecisionDB

`masks` is the map of per-prefix tables, `activeMasks` the array the lookup walks,
`KeyFor` the shift of `keyFor` with its 32-bit and bigint keys.  `entries`
remembers what the index should hold.  The widths of the address families are
constants, so that TLC can enumerate every address and network.  `Pow2` stands for the
shifts, `Among` for `Array.filter`, `Descending` for the sort.  Values the
parser rejects (`getIpObject` throws or returns nothing) never reach the index
and are left out; IPv4-mapped addresses reach it unwrapped, and the unwrapping
(crowdsec-http-middleware `utils.ts:46-51`) is not modelled.

### BouncerMiddleware and Bouncer

The index is the set of its decisions, which is what `IpDecisionDB`'s lookup
property justifies.  `Added`, `Deleted`, `RemoveExpiredDecisions`, `Request`,
`LiveClean`, `LiveBlocking`, `LiveCheckError`, `Start`, `LoginSucceeds`,
`LoginFails` and `Stop` are the handlers; `start()` is split at the await of the
login.  `scans` counts the intervals that are armed and `expirationScan` is
whether a handle is in the field: after two starts the first interval has no
handle.  `Evict` stands for the time-to-live and the size of both LRU caches.  A
live answer has at most two decisions on the address; values with a /0 prefix, for which
`insert` throws, are left out (`MiddlewareAssumption`); of two with one key either
may come first.

In `BouncerMiddleware` the environment may announce, withdraw and answer anything
at any time: its properties, all of them safety, are about the middleware alone.  `Bouncer` adds
the LAPI (`lapi`, what is in force; `news` and `gone`, what changed since the last
poll), the feed (`added`, `deleted`) and answers on their way back (`answers`).
`overlooked` is a history variable: the decisions whose announcement met a *stray*
one of their key (`Stray`: lifted at the LAPI, its withdrawal past, and in the index
all the same), until a live check finds them.
It uses the feed as `DecisionsFeed` promises it, not the stream's loops.  The LAPI
is external: its listing of new and ended decisions follows the generated API
types and the way the client uses them.  Polls that are lost are not modelled.

### WatcherClient

`_login()` is split at its await (`Renew`, then `LoginAnswered` or `LoginFails`),
whoever called it; `ConnectionTested` is the HEAD request by which `login()` ends.
A tick of the clock is longer than an HTTP timeout (2 s) and shorter than the five
minutes by which a renewal is early, so a `Tick` waits for requests in flight and
for renewals that are due.  Heartbeats are not timed.  `heartbeatTimeout` is never
assigned, hence no variable: `stop()` clears nothing.  Tokens are taken to live
longer than the five minutes (`RenewBefore < Life`).

### Scenarios and HTTPMiddleware

`Scenarios` holds what is a function of one request: the hops from the socket
outwards (`ExtractIps`), the address (`ExtractIp`), the alert of the checker, and the
enrichers, which return an alert, drop it (`Nothing`) or throw (`Throws`).  An
address is a model value; a hop is the text of one, plain or IPv4-mapped, or
`Garbage`.

`HTTPMiddleware` is the rest of the two middlewares.  `watcher.start()` is split at
its awaits: the import of the default scenarios, the loading of the databases, the
login; `bouncer.start()` is one await, its inside being `BouncerMiddleware`'s.
`Settled` is the `Promise.all` over both.  Every call of `start()` makes scenarios of
its own, so an instance is a name and a call, and `chains` and `loaded` are per call.
A constructor that throws leaves the scenarios before it registered
(`AddScenarios`), and `load()` is called on the instances of earlier calls too, since
`loaded` is never set.  A request is one step, because nothing in it awaits before
its alerts are handed to the LAPI; `last` remembers what became of it.  Its alerts are
kept under where they come from: the place of the scenario and the alert's own in what
the scenario returned (`Alerts`).

Abstractions: the package of scenarios is installed; the bouncer is only passed
through (it marks a request with its decision, which is `BouncerMiddleware`'s, and the
watcher sees marked requests too); the option `getCurrentIp`, a function of the user,
is left out, as is the push of alerts, whose failure is logged.

### McpProcess

`main()` is split at its awaits (`CreateContext`, `Listen`); `handlers` are the
`process.once` listeners, so that a second signal of the *same* kind kills the
process.  `Shutdown` ends at once unless a server listens; `Closed` is the callback
of its `close()`.  A request is in its `body`, waits for a `login`, runs a `tool`, is
`answered`, or `over`.  The end of a body creates the server of the request, connects it,
registers the close listener and hands the message over in one turn of the event
loop, hence in one step.  `session` is `loginPromise` and `logins` the requests the
LAPI owes an answer; the rejection of a login reaches all who wait in one turn too,
so none of them can clear the promise of a newer login.

External, modelled as used: node:http.  `close()` waits for busy connections and ends
idle ones; it also ends the enforcement of `requestTimeout`, which is why `RequestTimeout`
needs `~stopping`.  The renewal of a token is `WatcherClient`'s.  In stdio mode a
signal exits at once and calls under way are cut off, as in the code.

### Durations, McpConfig and McpTools

`Durations` reads and writes texts as sequences of parts, a number and a unit, counted
in tenths of a second; `GoParse` and `GoString` are the LAPI's (external), and
`ParseExpiration` is what a bouncer makes of the duration it reads back.
`McpConfig` follows `loadConfig()` piece by piece, each refusing or not, then
`selectTools()`; `Guide` is the set of tools the instructions and prompts call available
or say to call.  Texts, file contents and the parsing of the command line are left out.

`McpTools` starts with any of the settings (`Serve`), then runs calls.  `Plan` is all
that a tool does before its first request: the checks of its schema and handler, and
which request comes first.  The requests follow, one action each: the check of the
allowlists and the push of a ban; a deletion by query, by id, or a search whose
results are deleted in parallel (`DeleteOne`); a list; a read.  `RequestFails` ends
any of them but the parallel ones, where `Outcome` is `Promise.all`: the call is
answered by the first failure while the others go on.  Meanwhile decisions expire and
allowlists change.

The LAPI is external: alerts that hold decisions, searches by overlap, deletions.
Values are in their normal form; texts of results are left out, except what a list shows,
counts and hints at.

## 3. The runs

Ten runs in which everything holds:

| Run | What it shows |
| --- | --- |
| `stream_order` | The stream implements the ordered exactly-once feed until a listener throws; with the orphans this leaves, too, no decision is lost or repeated, the lock is given back and everything is delivered |
| `poller_streams` | A lone stream keeps polling whatever fails and however pause, resume, close and stop are interleaved; with two streams as well, a paused one falls silent and stays so |
| `ip_index` | Lookup by shifted prefixes is the longest-prefix scan, for both families, after any insertions and removals |
| `middleware_live` | Index and keys agree; every check holds one slot and gives it back; checks are deduplicated; nothing runs after a stop that overlaps no start |
| `bouncer_stream` | Stream mode end to end: bans are enforced, ended ones are not, every ban arrives |
| `bouncer_live` | Live mode, with values that are banned again: a late answer may bring a lifted ban back, and that hides a new one of its value and type, but nothing else does, and only until a check finds the new one; a banned visitor who keeps coming is stopped whatever the stream does; what came back from the dead, and what has reached its end, is let go |
| `watcher_logins` | Overlapping logins, renewals, failures and stops: the token stays valid while the LAPI answers, renewals do not pile up, heartbeats go on |
| `http_starts` | Two calls of `start()` with every failure of a half, a database or a login, with stops and requests at any moment: one that resolved left nothing half done; a request gets the address of its visitor, unless a chain of another socket was kept; alerts spare friends and are pushed once; enrichers throw only before or after a failure of loading; `start()` settles |
| `mcp_process` | Three configurations with signals, failing logins, slow bodies and clients that leave: an exit has answered what was taken, contexts end with their responses, requests and shutdowns end |
| `mcp_tools` | Every configuration, then two calls while decisions expire, allowlists change and requests fail: what is served and told, what deletions touch, what bans last, what lists admit to hide, that all ends |

Two runs in which TLC finds what the repository's own words rule out:

| Run | The words | What the code does |
| --- | --- | --- |
| `bouncer_renewal` | `docs/adr/0002-bouncer-decision-store.md:140` "long durations and renewals need no special handling" | A renewed decision is ignored because its key is stored (`CrowdSecHTTPBouncerMiddleware.ts:201`), and dropped at its first end |
| `http_shared_chain` | `crowdsec-client-scenarios/readme.md:129` "so you now know the real ip of your visitor" | The chain of proxies is kept under the header alone (`XForwardedForChecker.ts:224`), its first hop being the socket of the request that was first: the same header from another socket gets that one's address |

`http_starts` checks the same of every request whose chain is its own
(`AddressIsVisitor`, guarded by `OwnChain`).

### Other disagreements met while modelling

These are visible in the models, and the properties are stated so as to leave them
out; no run of their own is spent on them.

* `crowdsec-client/README.md:65` says "the stream polls the API at this interval": the
  timer is one field of the client (`DecisionsBouncer.ts:145`), so each poll, pause or
  close of a stream clears the timer of *another* one, which never polls again.
  `LoneStreamKeepsPolling` is about a client with one stream.
* `types/generated/DecisionsRoute.ts:27` says "a full list must be provided" at startup:
  `first` is spent when the request is sent (`DecisionsBouncer.ts:113`); if that one
  fails, no later poll asks for the full list.
* `crowdsec-client/README.md:115` says that `autoRenew` "keeps it fresh": a renewal
  that fails is only logged (`WatcherClient.ts:91`), and no other is planned.
  `TokenFresh` is for a client none of whose requests failed.
* A second `start()` of the watcher middleware registers every scenario again and
  announces it again: a visit is then reported twice.  `ReportedOnce` is for one call.
* The instructions and prompts of the MCP server do not look at `CROWDSEC_MCP_TOOLS`
  and `CROWDSEC_MCP_DISABLE_TOOLS`: with either of them a model is told to call
  what is not served.  `ServesAsTold` is for a server whose tools are not chosen by name.
* `docs.ts:58` calls `delete_alerts` "hidden" unless it is served, and `docs.ts:88`
  tells every watcher that may write when it "requires confirm=true": with a plain
  `--write` the instructions name a tool that is not there.  `ServesAsTold` excepts
  this rule, and only it.
* `crowdsec-mcp/src/tools/decisions.ts:120-121`, the schema that a model is shown, says
  of `ip` and `range` of `unban_ip` "exact match"; lines 303-324 delete what lies
  *inside* a range as well ("decisions for individual IPs inside the range are also
  removed"; `crowdsec-mcp/README.md:239` and 258 say so too), and an `ip` is sent to the
  LAPI, which also takes what lies *around* it.  `RemovesOnlyNamed` follows the code:
  `NamesRange` and `NamesAddress` say in which direction a target reaches beyond itself,
  and anything in the other direction violates it.
* `crowdsec-mcp/README.md:258` says that `unban_ip` accepts a CIDR in `ip`: it is refused
  (`decisions.ts:518`).  Line 260 says that it resolves decisions of other scopes and
  deletes them by id: the LAPI is asked to delete them (`decisions.ts:317`).
* A list of one page (`maybeMore`) of which a decision runs out while the answer travels
  is shorter than its limit when it is shown (`format/decisions.ts:34`), and the hint that
  there may be more is not given.  In `ListAnswered` answer and filter are one step.
* `unban_ip` with a range and a type searches alerts by type and deletes *all* their
  decisions, those of another type as well.  `RemovesOnlyNamed` is about scope and value.
* A login of an MCP context that succeeded is remembered for ever; when its token is
  lost, calls fail until the process is started anew.
* Over stdio a signal ends the process with calls under way; over HTTP a client that
  does not finish its body holds a shutdown for as long as it stays (`ShutdownEnds` says
  so), because node stops enforcing `requestTimeout` when the server closes.
* `DecisionsStream.ts:93` says "delete empty decisions, keep new decisions"; the
  loop below it counts from one past the end of an array that it shortens, so it
  skips a slot after each removal and never looks at the first one: about half of
  the empty slots stay until later clean-ups.  It costs memory, never a decision
  (`NeverLostNorRepeated`).
* `CrowdSecClient.ts:145` "stop the current client, and running processes":
  `stop()` during a `start()` that awaits its login is overtaken by it, and a second
  `start()` loses the handle of the first interval
  (`CrowdSecHTTPBouncerMiddleware.ts:179`).  `NothingRunsAfterStop` is for calls
  that do not overlap; the history variable `overlapped` marks the others.
* `docs/adr/0002-bouncer-decision-store.md:132` "pending live checks are
  deduplicated per IP": `stop()` clears `pendingChecks` (line 242) but not the checks,
  so after a restart an address can have two.  `OneCheckPerIp` is for a middleware
  that was never stopped.
* `crowdsec-http-middleware/readme.md:265` "A malicious unknown IP can pass once,
  never twice": every request that arrives while the check is in flight passes.
  And it can pass again later: a live answer that crosses a withdrawal stores the lifted
  ban again; a new ban of that value and type is then ignored when the stream announces
  it (`CrowdSecHTTPBouncerMiddleware.ts:201`), the scan drops the old one at its end, and
  until a check finds the new one it is enforced no more.  `HiddenByLateAnswersOnly` says
  that this is the only way to be hidden, `BannedVisitorStopped` that it does not last.
* `WatcherClient.ts:129` never stores the heartbeat timer, so `stop()` does not end
  heartbeats; `WatcherClient.ts:90` sets the renewal timer also after a `stop()` that
  came during the request.

## 4. Bounds, and why they are enough

* `DecisionsStream`: `BreakCounter = 2` (100 in the code) makes a list of three cross
  a break in its middle; index 0 is a break for every value.  Three decisions of each
  kind (four in all) are enough for an emptied slot before, under and after the cursor
  while a parse loop appends.  One malformed decision ends one list; `MaxThrows = 1`
  leaves one orphan beside the next loop.
* `StreamPoller`: two streams are enough for one to clear or overwrite the other's
  timer, `MaxLoops = 3` loops of one stream for a leaked timer, an armed one and a
  request at once.  `MaxLoops` stands in the guard of `Resume`, which is the only step
  that adds a loop.
* `IpDecisionDB`: widths 2 and 3, where every prefix length from 0 to full width, every
  address occur; three entries for two in a bucket and one
  elsewhere.  For wider addresses and larger indexes there are the theorems.
* `BouncerMiddleware`: two visitors, a range around both, a range above
  `subnetLevel`, one blocking type and one that is not, as many checks as the cap
  (2) and two visitors, so that the cap is reached by two addresses and, after a
  restart, by one; two starts and one stop; a clock of one tick, so that a decision may have
  expired, be expiring, or last.
* `Bouncer`: up to three bans within two ticks over an address, the range around it
  and a range too large.  In live mode two bans within two ticks on one range, two
  visitors in it and two checks at a time: enough for the first ban to be withdrawn
  while a check that found it is in flight, for the second to be announced while the
  first is back, and for the scan to drop that (TLC finds `overlooked` not empty there,
  and `BansEnforced` violated).
* `WatcherClient`: tokens of three ticks, renewed one early; three logins, two
  failures, one stop, three timer names.  A bound on logins, stops and failures is in the guards
  of `Login`, `Stop`, `LoginFails` and `ConnectionFails`.  Heartbeat counters need no
  bound: only a resolved login adds one.

* `HTTPMiddleware`: two calls of `start()` are enough for one to overtake, fail beside or
  double another; three calls of anything let a request come between them or two requests
  share a chain; a trusted proxy, a friend and a visitor, each as a socket and as a hop,
  with an unreadable hop.  One database per instance: the other one would load alike.
* `McpProcess`: two requests share a login, or one closes while the other is answered;
  each of the three modes.
* `McpTools`: an address, the range around it, another address and a country; about fifty
  inputs, chosen so that every path of every plan is taken, beside a second call that
  bans, unbans or deletes in the same range; one change of the rest of the world; four
  alerts; bans up to one and a half hours, in tenths of a second, one tenth beyond the
  limit included.  The settings: all flags, logins and tokens, and what else
  may be wrong, one at a time.

No run uses symmetry: most check temporal properties, for which TLC's reduction
is not sound, and the rest are small without it.

## 5. Fairness

* `DecisionsStream`: a drain that is on the thread or was woken goes on, `setImmediate`
  and promise continuations run, and the poller pushes an answer (be it empty)
  every interval, `WF(Push(NoDecision, {}))`.  The last is needed: a decision that
  arrives behind a drain's last look at the array waits for the next push.
  `StreamPoller` shows that polls keep coming for a lone stream.
* `StreamPoller`: timers fire and axios ends every request, by an answer or by its
  timeout; so each pair `Answer \/ Fail` is fair, neither is alone.
* `Bouncer`: polls and deliveries happen (`BouncerStreamSpec`).  In live mode
  (`BouncerLiveSpec`) the stream need not do anything; the interval fires, each visitor
  comes back, what the LRU caches hold on him runs out (they have a time-to-live), and
  of the checks on his address infinitely many are answered, not failed, if infinitely
  many are made.  That visitors come back is not the code's doing: `BannedVisitorStopped`
  is about those who do.  That time passes is the premise of `StaleBanGoes` alone.
* `WatcherClient`: requests end one way or the other, timers fire, time passes.
* `HTTPMiddleware`: imports, loads and logins end, one way or the other: the first two
  read files, the last has axios' timeout.
* `McpProcess`: the LAPI answers or the client's timeout does; responses are sent; idle
  connections are closed; a body is cut off at `requestTimeout` while the server listens.
  Clients need not send, finish or leave.
* `McpTools`: each request is answered or times out; nothing else is fair.

Users, the LAPI's bans, pauses, starts, stops and signals are under no fairness.
Deadlock is checked except in `http_starts`, `http_shared_chain`, `mcp_process` and
`mcp_tools`, where the system stops by itself: calls and requests are bounded, and a
process ends.  There liveness (`StartSettles`, `RequestsEnd`, `ShutdownEnds`, `CallsEnd`)
says that it does not stop too early.

## 6. The proofs

The theorems hold for every value of the constants that the named assumptions of the
modules allow, each of which TLC evaluates in the runs: `StreamAssumption`,
`PollerAssumption`, `IndexAssumption`, `MiddlewareAssumption` with `BouncerAssumption`, `WatcherAssumption`,
`ScenariosAssumption` with `HTTPAssumption` and `RequestsAssumption`,
`ProcessAssumption`, and `GoAssumption`, `ToolsAssumption`, `AlertsAssumption`,
`InputsAssumption` and `OptionsAssumption`.  Hypotheses of a theorem of its own are in
the table.

| Theorem | For every ... | Says |
| --- | --- | --- |
| `DecisionsStreamProofs!TypeCorrect` | set of decisions, chunk length, bounds | `TypeOK` |
| `DecisionsStreamProofs!LockCorrect` | same | `OneDrainPerArray`: until a listener throws, `looping` is an effective lock |
| `DecisionsStreamProofs!QueueKeepsDecisions` | same | `NeverLostNorRepeated`, also after listeners have thrown |
| `DecisionsStreamProofs!StreamIsFeed` | same | `ImplementsFeed`: the stream refines `DecisionsFeed` |
| `StreamPollerProofs!TypeCorrect` | set of streams, `MaxLoops` | `TypeOK` |
| `StreamPollerProofs!PausedStaysQuiet` | same | `NothingArmedWhilePaused`, an action property |
| `StreamPollerProofs!LoneStreamCorrect` | same | `LoneStreamKeepsPolling` |
| `IpDecisionDBProofs!TightAlways` | width of an address, tags, number of decisions | `IndexIsTight` |
| `IpDecisionDBProofs!LookupAlwaysRight` | same | `LookupIsLongestPrefix` |
| `BouncerProofs!TypeCorrect`, `SlotsCorrect` | addresses, values, cap, options, bounds | `TypeOK`, `SlotsMatchChecks` |
| `BouncerProofs!IndexCorrect` | same | `IndexSound` |
| `BouncerProofs!DedupeCorrect` | same | `OneCheckPerIp` |
| `BouncerProofs!StopCorrect` | same | `NothingRunsAfterStop` |
| `BouncerProofs!LiveBansEnforced` | same, with live checks or not, where a value may be banned again once its ban has gone (`Rebans # "renewal"`), and a poll waits for the stream to be drained | `HiddenByLateAnswersOnly` |
| `BouncerProofs!StreamBansEnforced` | same, in stream mode | `BansEnforced` |
| `BouncerProofs!StreamNoStaleBan` | same | `NoStaleBan` |
| `WatcherClientProofs!TypeCorrect` | life of a token, timers, bounds | `TypeOK` |
| `WatcherClientProofs!TokenFreshCorrect` | same | `TokenFresh` |
| `WatcherClientProofs!OneRenewalCorrect` | same | `OneRenewal` |
| `HTTPMiddlewareProofs!TypeCorrect` | lists of scenarios, databases, addresses, requests, bounds | `TypeOK` |
| `HTTPMiddlewareProofs!StartCorrect` | same | `StartedIsReady` |
| `HTTPMiddlewareProofs!AddressCorrect` | same | `AddressIsVisitor` |
| `HTTPMiddlewareProofs!FriendsSpared` | same, if an allow list comes before every checker, as by default | `AlertsSpareFriends` |
| `HTTPMiddlewareProofs!VisitsReportedOnce` | same, if the list has one checker at most, as by default | `ReportedOnce` |
| `HTTPMiddlewareProofs!ThrowsExplained` | same, if a MaxMind scenario has a database (`Throws`, the exception, being no alert) | `ThrowsOnlyUnready`, an action property |
| `McpProcessProofs!TypeCorrect` | requests, modes, with and without a token | `TypeOK` |
| `McpProcessProofs!LoginsCorrect` | same | `WaitersHaveALogin` |
| `McpProcessProofs!ExitCorrect` | same | `GracefulExit` |
| `McpProcessProofs!ContextsCorrect` | same | `ContextsFollowResponses` |
| `McpToolsProofs!ToolsInvariant` | number of calls, inputs, addresses, alerts, settings, bounds | `ToolsInv`, the invariant below |
| `McpToolsProofs!DeletionsAreDone` | same | `ReportedIsDone` |
| `McpToolsProofs!DeletionsAreNamed` | same | `RemovesOnlyNamed` |
| `McpToolsProofs!BansAreSpared` | same | `BansSpareAllowlist` |
| `McpToolsProofs!ListsAreHonest` | same | `ListIsHonest` |
| `McpToolsProofs!BansLast` | same, and any duration text | `BansLastAsAsked` |
| `McpToolsProofs!ServedAsAsked` | combination of flags and variables | `ServesAsAsked`, an action property |
| `McpToolsProofs!ServedAsTold` | same | `ServesAsTold`, an action property |

The arguments:

* *The lock of the stream.*  A listener may call `push` or `resume` from inside an
  emission, so a step of a drain may put a loop of two drains on the stack above it.
  `StackInv` says that the drains on the stack are running and that none is there twice;
  `LockInv` that no drain failed or was orphaned, and that all are idle when the lock is
  free, so that a loop which takes it finds no other.  Both hold until a listener throws,
  when `Promise.all` gives the lock back too early.
* *The decisions of the stream.*  `NeverLostNorRepeated` counts each decision in what was
  accepted, queued and delivered.  It is inductive with the types (`HeldInv`), once it is
  known what each step does to these counts: an emission empties the slot it delivers, and
  the clean-up, whatever index of the shrinking array it is at, removes only slots
  that are empty.  `StreamIsFeed` needs the order too: `OrderInv` says that a
  drain at work has nothing undelivered behind it, which holds because drains of
  one array exclude each other (`LockInv`) and because the clean-up runs between them.
  With it each emission is the delivery of the first of the backlog, and the other steps
  receive, switch or stutter.
* *Poller.*  `TypeOK` is inductive.  What a step does to the numbers of timers and
  requests of each stream is stated once per building block (`RequestCounts`,
  `AnsweredCounts`, `HandleGoes`, ...).  `PausedStaysQuiet` then needs only that
  `Rearm`, the one place that sets a timer, looks at `paused`.
  `LoneStreamKeepsPolling` is not inductive: when a stream joins a client it must
  have no part in anything yet, and the field must not hold the timer of a stream
  that was never returned.  `AliveInv` adds that.
* *Index of addresses.*  `IndexInv` says that the tables are a function of the decisions in
  the index, `masks = Index(entries)`: a table for each length of masks in use, a bucket
  for each key, and in it the decisions of that key in the order they came.  Both
  properties follow from it, and it is inductive once `activeMasks` is in it, strictly
  descending: the sort after a `push` puts the new length in its place (`Placed`), filters
  keep order (`AmongDown`), and removing first or filtering first is the same
  (`WithoutAmong`).  That equal keys are equal first bits is `KeysTell`: halving a number is
  dropping its last bit (`Halved`, `SameBits`), and the type of the key keeps the
  families apart when a lookup shifts an address by a mask of the other one.
* *Middleware.*  `TypeOK` is not inductive (`concurrentChecks - 1` and `scans - 1`
  must stay natural): `SlotInv` adds that the checks in flight are finitely many and
  as many as `concurrentChecks`, and that a handle in the field belongs to an
  interval.  `IndexSound` is inductive as it stands.  `OneCheckPerIp` needs that
  every check in flight has its entry in `pendingChecks` (`PendingInv`), which is
  what `stop()` breaks.  `NothingRunsAfterStop` needs that, without overlaps, at most
  one `start()` is under way, only when nothing runs, and that the field holds the
  handle of the one interval (`TurnInv`).
* *End to end.*  `FeedInv` says that whatever is on its way to the index (announced,
  withdrawn, answered) was pronounced by the LAPI, and that what is in force there has
  not reached its end.  `BooksInv` keeps the books of the LAPI and the stream: a value has
  one ban in force for a type, and no withdrawal on its way hits what was announced
  after it.  That is where polls must wait for the stream.  `LiveInv` then follows each ban
  from its delivery: it is in the index itself, and leaves it only with its end or its
  withdrawal, or it was overlooked because a stray one had its key; late answers, scans
  and deliveries may come in any order.  Without live checks nothing is stray, because
  all that is in the index is in force, has ended, or has its withdrawal on its way
  (`StreamInv`); so nothing is overlooked and `BansEnforced` follows.
* *Watcher.*  `TokenFresh` says nothing of timers.  `FreshInv` adds, for a client that
  neither failed nor stopped, that every armed timer goes off `RenewBefore` ahead of
  the token's end and that a valid token has a renewal ahead of it.  `OneRenewal`
  follows from `RenewalInv`: a request under way and no timer, or one timer, the one in
  the field.
* *HTTP middleware, starting.*  `StartedIsReady` speaks of promises that resolved.  `BothUp`
  takes it back to both halves, `AllLoaded` and `DatabasesComing` to the databases: a call
  that logs in awaits no load, and each database of its instances is loaded or awaited.
  `CheckersTold` and `HalvesRun` are the other two conjuncts for calls still on their way.
  That a registration is announced is a fact about sequences (`AddScenarioTells`).
* *HTTP middleware, requests.*  `ChainsInv`: a chain that is kept for a header is the
  chain of some socket with that header.  What `ExtractIps` and `ExtractIp` make of
  such a chain is a lemma (`ChainOfHops`, `IpOfChain`): the first hop that is no trusted
  proxy, if confidence is full.  `EnrichKeeps` follows an alert through all scenarios: it is
  dropped, or throws for one of three reasons (`Blamed`), or is about the same address, and
  then no allow list had that address.  `ListedInv` says that a checker is never
  registered without an allow list, even by a constructor that throws half-way,
  `CalledInv` that what is registered or loading belongs to a call that was made, and `OnceInv`
  that a single call registers its list once.
* *MCP process.*  `WaitersHaveALogin` is inductive with the types.  `GracefulExit` and
  `ContextsFollowResponses` need `RequestsInOrder`: nothing is under way before the server
  listens, and what is left of a request whose client is gone is a login or a tool.
* *MCP tools.*  `ToolsInv` says of the LAPI that its alerts are finitely many and numbered
  (`AlertsInv`) and of each call, whatever the others do, what it has promised so
  far: its plan is one that its input and the configuration allow (`PlanInv`), what it
  reports as deleted is gone (`DoneInv`), what it touches its input named (`NamedInv`), what
  it bans no allowlist holds that held it throughout (`BanInv`), and what it lists it
  counted (`ListInv`).  `BansLast` adds `LengthsInv`: the alert of a ban is as long as its
  plan.  The rest of it is about texts alone: that what `toGoDuration` writes, Go reads and
  prints, and `parseExpiration` reads again is the same length.  `ServedAsAsked` and
  `ServedAsTold` are facts about the one step that takes up a configuration.

Sums over texts, walks through queues and scenarios are recursive functions, and what they
compute is proved by induction.  The induction theorems of the library are about
operators and cannot be used by the provers at hand; `NumberInduction` and
`SequenceInduction` say the same of sets, and rest on `LeastNumber`, which follows from the
theorems on finite sets.

The type invariants, `OneDrainPerArray`, `WaitersHaveALogin` and `ToolsInv` are proved and
not among the properties of the runs.

Only model-checked: liveness, which is out of the prover's reach with `ENABLED`.  Each
invariant and each action property of a passing run is the subject of a theorem, under the
hypotheses the table names.

## 7. What is not modelled, and why

* HTTP itself, TLS options, headers and user agents, building clients: configuration
  and I/O without state of their own.  An axios timeout appears as a failure.
* Machine registration and deletion, and the requests of Alerts, Allowlists and
  DecisionsWatcher that no MCP tool makes: single requests that keep no state.
* The cache of IP objects: it returns immutable values for equal strings.
* Reading MaxMind files; default scenarios other than those of the package; the
  option `getCurrentIp`.
* Logging, formatting, wording, examples, the development server, benchmarks, generated
  types and their generator, type guards and errors: no logic that keeps state, or none
  that is the program's own.
* Some outcomes of the parts that are modelled: listeners of `error`, `raw` and `parsed`
  that throw, tokens that live less than five minutes or more than 24 days
  (`WatcherClient.ts:87`), polls of `Bouncer` that are lost, values with a /0 prefix, the
  unwrapping of IPv4-mapped addresses (crowdsec-http-middleware `utils.ts:46-51`), a
  socket address that does not parse (`XForwardedForChecker.ts:212` throws; in the model the
  request has no address), a decision that runs out between the LAPI's answer to a
  list and its display, rounding of durations in floating point (they are exact tenths).
* Hazards that the code does not survive, where no property can hold: `PROJECT.json` lists
  them with a note and no property, or with a property that stops short of them (a
  `stop()` during a `start()`, a second `start()`, a failed renewal, overlapping logins,
  heartbeats after `stop()`, a request before the databases are loaded).  Section 3
  describes each.

## 8. The plan

Done, in this order: the stream and its feed; the poller; the index of addresses;
the middleware; the end-to-end composition; the watcher client; the scenarios and the
HTTP middleware; the MCP process; durations, configuration and tools.  Then the theorems:
types and the safety of each component, the refinement of the feed by the stream, the
end-to-end theorems of the bouncer, the requests of the HTTP middleware, and the tools.

Next, proofs: that the index of `BouncerMiddleware`, a set of decisions, is what
`IpDecisionDB` keeps.

The runs stay few: one per question.
