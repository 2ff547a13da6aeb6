---------------------------- MODULE HTTPMiddleware ----------------------------
(***************************************************************************)
(* crowdsec-http-middleware: CrowdSecHTTPMiddleware, which starts, stops   *)
(* and calls a bouncer and a watcher middleware, and the watcher half of   *)
(* it: registering, loading and running scenarios.  The bouncer half is    *)
(* BouncerMiddleware, of which only "it runs" is kept here; the watcher's  *)
(* client is WatcherClient, of which only "it is logged in" is.            *)
(*                                                                         *)
(* start() is asynchronous and may be called again; requests come at any   *)
(* time and are handled in one step, by whatever scenarios are there then. *)
(***************************************************************************)
EXTENDS Scenarios, FiniteSets

CONSTANTS
  ScenarioList,          \* options.scenarios, or the defaults: Seq of names
  AlertOnNotTrustedIps,  \* the option of the X-Forwarded-For checker
  Requests,              \* what visitors send: [remote, header, path]
  MaxStarts,             \* bound: calls of start()
  MaxCalls               \* bound: calls of start() and stop(), and requests

Names == {"allow-list", "x-forwarded-for", "http-enricher", "maxmind"}

ASSUME HTTPAssumption ==
  /\ ScenarioList \in Seq(Names)
  /\ AlertOnNotTrustedIps \in BOOLEAN
  /\ {MaxStarts, MaxCalls} \subseteq Nat

\* A socket that is gone has no address.
ASSUME RequestsAssumption ==
  \A req \in Requests : req.remote \in Texts \cup {Nothing} /\ req.header \in Seq(Texts)

Call == 1..MaxStarts

VARIABLES
  scenarios,   \* the watcher's scenarios: Seq of instances, in order
  announced,   \* client.scenarios: the names a login tells the LAPI
  loaded,      \* [Call -> databases]: those of its MaxMind instance
  chains,      \* [Call -> header -> chain]: its checker's extractIpCache
  bouncer,     \* [Call -> phase]: bouncer.start()
  watcher,     \* [Call -> phase]: watcher.start()
  loading,     \* [Call -> loads it awaits]: of any call's databases
  result,      \* [Call -> what became of the promise of start()]
  running,     \* the halves whose client runs: "bouncer", "watcher"
  stops,       \* calls of stop()
  last,        \* the last request and what became of it
  visits       \* requests handled

startVars == <<scenarios, announced, loaded, bouncer, watcher, loading, result>>

vars == <<startVars, chains, running, stops, last, visits>>

NoChain == [h \in {} |-> <<>>]

\* Every call of start() makes instances of its own.
Instance == [name : Names, call : Call]

Init ==
  /\ scenarios = <<>>
  /\ announced = <<>>
  /\ loaded = [n \in Call |-> {}]
  /\ chains = [n \in Call |-> NoChain]
  /\ bouncer = [n \in Call |-> "none"]
  /\ watcher = [n \in Call |-> "none"]
  /\ loading = [n \in Call |-> {}]
  /\ result = [n \in Call |-> "none"]
  /\ running = {}
  /\ stops = 0
  /\ last = Nothing
  /\ visits = 0

-----------------------------------------------------------------------------
(* start() and stop()                                                      *)

\* Mutant of Settled: one half is enough.
SettledByEither(n, b, w) ==
  IF result[n] # "pending" THEN result[n]
  ELSE IF "up" \in {b, w} THEN "resolved"
  ELSE IF b = "failed" /\ w = "failed" THEN "rejected" ELSE "pending"

\* Promise.all over the two halves: the first rejection is its result, and the
\* other half goes on.
Settled(n, b, w) ==
  IF result[n] # "pending" THEN result[n]
  ELSE IF "failed" \in {b, w} THEN "rejected"
  ELSE IF b = "up" /\ w = "up" THEN "resolved" ELSE "pending"

CallsMade == visits + stops + Cardinality({n \in Call : result[n] # "none"})

\* The calls are numbered in the order they are made.
Start(n) ==
  /\ result[n] = "none"
  /\ CallsMade < MaxCalls
  /\ \A m \in 1..(n - 1) : result[m] # "none"
  /\ result' = [result EXCEPT ![n] = "pending"]
  /\ bouncer' = [bouncer EXCEPT ![n] = "login"]
  /\ watcher' = [watcher EXCEPT ![n] = "import"]
  /\ UNCHANGED <<scenarios, announced, loaded, loading, chains, running, stops,
                 visits>>
  /\ last' = Nothing

\* bouncer.start() ends.
BouncerStarts(n, ok) ==
  /\ bouncer[n] = "login"
  /\ bouncer' = [bouncer EXCEPT ![n] = IF ok THEN "up" ELSE "failed"]
  /\ running' = IF ok THEN running \cup {"bouncer"} ELSE running
  /\ result' = [result EXCEPT ![n] = Settled(n, bouncer'[n], watcher[n])]
  /\ UNCHANGED <<scenarios, announced, loaded, watcher, loading, chains, stops,
                 visits>>
  /\ last' = Nothing

\* Mutant of WatcherFails: start() is not told.
WatcherFailsUnheard(n) ==
  /\ watcher' = [watcher EXCEPT ![n] = "failed"]
  /\ UNCHANGED result

WatcherFails(n) ==
  /\ watcher' = [watcher EXCEPT ![n] = "failed"]
  /\ result' = [result EXCEPT ![n] = Settled(n, bouncer[n], "failed")]

Checkers(names) == {i \in DOMAIN names : names[i] = "x-forwarded-for"}

\* _addScenario(): of the names added, those the LAPI is told: checkers.
AddScenario(names) ==
  [i \in 1..Cardinality(Checkers(names)) |-> "x-forwarded-for"]

\* The databases an instance of a call loads, each on its own.
Loads(n) == {n} \X MaxMindPaths

\* watcher.start() after the import: scenarios are registered one by one, and
\* a constructor that throws (a database whose file is missing) leaves those
\* before it.  Then load() is called on every MaxMind instance there is:
\* "loaded" is never set, so those of earlier calls load again.
AddScenarios(n) ==
  LET add(names) ==
        /\ scenarios' = scenarios \o
             [i \in DOMAIN names |-> [name |-> names[i], call |-> n]]
        /\ announced' = announced \o AddScenario(names)
  IN  /\ watcher[n] = "import"
      /\ \/ /\ add(ScenarioList)
            /\ loading' = [loading EXCEPT ![n] =
                 UNION {Loads(s.call) :
                          s \in {t \in ToSet(scenarios') : t.name = "maxmind"}}]
            /\ watcher' = [watcher EXCEPT ![n] = "load"]
            /\ UNCHANGED result
         \/ \E i \in DOMAIN ScenarioList :
              /\ ScenarioList[i] = "maxmind"
              /\ add(SubSeq(ScenarioList, 1, i - 1))
              /\ WatcherFails(n)
              /\ UNCHANGED loading
      /\ UNCHANGED <<loaded, bouncer, chains, running, stops, visits>>
      /\ last' = Nothing

\* Mutant of DatabaseLoads: a load that fails is taken for one that succeeds.
DatabaseLoadsAnyhow(n, load, ok) ==
  /\ load \in loading[n]
  /\ loading' = [loading EXCEPT ![n] = @ \ {load}]
  /\ loaded' = [loaded EXCEPT ![load[1]] = IF ok THEN @ \cup {load[2]} ELSE @]
  /\ UNCHANGED <<scenarios, announced, bouncer, watcher, result, chains,
                 running, stops, visits>>
  /\ last' = Nothing

\* InternalBaseEnricher.load() ends: the database is kept if it is of the right
\* type.  Promise.all rejects with the first that is not; the others go on.
DatabaseLoads(n, load, ok) ==
  /\ load \in loading[n]
  /\ loading' = [loading EXCEPT ![n] = @ \ {load}]
  /\ loaded' = [loaded EXCEPT ![load[1]] = IF ok THEN @ \cup {load[2]} ELSE @]
  /\ IF ok THEN UNCHANGED <<watcher, result>> ELSE WatcherFails(n)
  /\ UNCHANGED <<scenarios, announced, bouncer, chains, running, stops, visits>>
  /\ last' = Nothing

\* All are loaded: login.
ScenariosLoaded(n) ==
  /\ watcher[n] = "load" /\ loading[n] = {}
  /\ watcher' = [watcher EXCEPT ![n] = "login"]
  /\ UNCHANGED <<scenarios, announced, loaded, bouncer, loading, result, chains,
                 running, stops, visits>>
  /\ last' = Nothing

WatcherLogin(n, ok) ==
  /\ watcher[n] = "login"
  /\ IF ok
     THEN /\ watcher' = [watcher EXCEPT ![n] = "up"]
          /\ running' = running \cup {"watcher"}
          /\ result' = [result EXCEPT ![n] = Settled(n, bouncer[n], "up")]
     ELSE WatcherFails(n) /\ UNCHANGED running
  /\ UNCHANGED <<scenarios, announced, loaded, bouncer, loading, chains, stops,
                 visits>>
  /\ last' = Nothing

\* stop(): both clients.  The scenarios stay registered.
Stop ==
  /\ CallsMade < MaxCalls
  /\ stops' = stops + 1
  /\ running' = {}
  /\ UNCHANGED <<startVars, chains, visits>>
  /\ last' = Nothing

-----------------------------------------------------------------------------
(* Requests                                                                *)

\* The checkers, by their places among the scenarios.
Extractors == {i \in DOMAIN scenarios : scenarios[i].name = "x-forwarded-for"}

\* extractIps() of one checker: the chain kept for this header, whoever sent
\* it, or else that of the request.
ChainOf(n, req) ==
  IF req.header \in DOMAIN chains[n]
  THEN chains[n][req.header]
  ELSE ExtractIps(req.remote, req.header)

\* The watcher's extractIp(): the first result of full confidence, else the
\* first of those with the highest confidence.
IpOf(req) ==
  LET ipExtracted == [i \in Extractors |-> ExtractIp(ChainOf(scenarios[i].call, req))]
      found == {i \in Extractors : ipExtracted[i] # Nothing}
      best == {i \in found : \A j \in found :
                 ipExtracted[j].confidence <= ipExtracted[i].confidence}
  IN  IF found = {} THEN Nothing
      ELSE ipExtracted[CHOOSE i \in best : \A j \in best : i <= j]

\* All checks, of all scenarios: their alerts, each under the place of its
\* scenario and its own there.
Alerts(address, req) ==
  LET check == [i \in Extractors |->
        XForwardedForCheck(address, ChainOf(scenarios[i].call, req),
                           AlertOnNotTrustedIps)]
  IN  [at \in UNION {{i} \X DOMAIN check[i] : i \in Extractors} |->
         check[at[1]][at[2]]]

\* One alert through one scenario; Throws ends the request.
EnrichBy(path, alert, s) ==
  IF alert \in {Nothing, Throws} THEN alert
  ELSE CASE s.name = "allow-list" -> AllowListEnrich(alert)
         [] s.name = "http-enricher" -> HTTPEnrich(alert, path)
         [] s.name = "maxmind" -> MaxMindEnrich(alert, loaded[s.call])
         [] OTHER -> alert

\* One alert through all of them, in order.
Enrich(alert, path) ==
  LET after[i \in 0..Len(scenarios)] ==
        IF i = 0 THEN alert ELSE EnrichBy(path, after[i - 1], scenarios[i])
  IN  after[Len(scenarios)]

\* watcher.middleware(): what becomes of each alert.
Watched(address, req) ==
  [at \in DOMAIN Alerts(address, req) |->
     Enrich(Alerts(address, req)[at], req.path)]

Pushed(enriched) ==
  [at \in {a \in DOMAIN enriched : enriched[a] # Nothing} |-> enriched[at]]

Outcome(req, what, ip, alerts) ==
  last' = [request |-> req, outcome |-> what, ip |-> ip, alerts |-> alerts]

\* The chains every checker looked at are kept.
Remember(req) ==
  chains' = [n \in Call |->
    IF \E i \in Extractors : scenarios[i].call = n
    THEN [h \in DOMAIN chains[n] \cup {req.header} |->
            IF h = req.header THEN ChainOf(n, req) ELSE chains[n][h]]
    ELSE chains[n]]

\* middlewareFunction(), without getCurrentIp: the address, the bouncer (its
\* verdict is BouncerMiddleware's), then the watcher.  A request whose address
\* no scenario can tell is refused with an exception.
Request(req) ==
  /\ CallsMade < MaxCalls
  /\ visits' = visits + 1
  /\ IF Extractors = {}
     THEN Outcome(req, "no scenario", Nothing, <<>>) /\ UNCHANGED chains
     ELSE IF req.remote = Nothing
     THEN Outcome(req, "no socket", Nothing, <<>>) /\ UNCHANGED chains
     ELSE /\ Remember(req)
          /\ LET ip == IpOf(req)
                 enriched == Watched(GetIpObject(ip.ip), req)
             IN  IF ip = Nothing THEN Outcome(req, "no address", Nothing, <<>>)
                 ELSE IF \E at \in DOMAIN enriched : enriched[at] = Throws
                 THEN Outcome(req, "enricher", ip, <<>>)
                 ELSE Outcome(req, "handled", ip, Pushed(enriched))
  /\ UNCHANGED <<startVars, running, stops>>

\* The LRU cache of a checker drops an entry.
Evict(n, header) ==
  /\ header \in DOMAIN chains[n]
  /\ chains' = [chains EXCEPT ![n] =
                  [h \in DOMAIN chains[n] \ {header} |-> chains[n][h]]]
  /\ UNCHANGED <<startVars, running, stops, visits>>
  /\ last' = Nothing

-----------------------------------------------------------------------------
Next ==
  \/ \E n \in Call :
       \/ Start(n)
       \/ AddScenarios(n)
       \/ ScenariosLoaded(n)
       \/ \E ok \in BOOLEAN :
            \/ BouncerStarts(n, ok)
            \/ WatcherLogin(n, ok)
            \/ \E load \in loading[n] : DatabaseLoads(n, load, ok)
       \/ \E header \in DOMAIN chains[n] : Evict(n, header)
  \/ Stop
  \/ \E req \in Requests : Request(req)

Spec == Init /\ [][Next]_vars

\* Imports, loads and logins end, one way or the other.
Fairness ==
  \A n \in Call :
    /\ WF_vars(AddScenarios(n))
    /\ WF_vars(\E load \in loading[n], ok \in BOOLEAN : DatabaseLoads(n, load, ok))
    /\ WF_vars(ScenariosLoaded(n))
    /\ WF_vars(\E ok \in BOOLEAN : BouncerStarts(n, ok))
    /\ WF_vars(\E ok \in BOOLEAN : WatcherLogin(n, ok))

FairSpec == Spec /\ Fairness

-----------------------------------------------------------------------------
(* Properties                                                              *)

\* Type invariant of both halves and of the calls under way.
TypeOK ==
  /\ scenarios \in Seq(Instance)
  /\ announced \in Seq(Names)
  /\ loaded \in [Call -> SUBSET MaxMindPaths]
  /\ bouncer \in [Call -> {"none", "login", "up", "failed"}]
  /\ watcher \in [Call -> {"none", "import", "load", "login", "up", "failed"}]
  /\ loading \in [Call -> SUBSET (Call \X MaxMindPaths)]
  /\ result \in [Call -> {"none", "pending", "resolved", "rejected"}]
  /\ running \subseteq {"bouncer", "watcher"}
  /\ stops \in Nat
  /\ visits \in Nat

\* A start() that resolved left nothing half done, whatever other calls of it
\* failed meanwhile: its databases are loaded, the LAPI was told its checkers,
\* and both halves run unless stop() was called.
StartedIsReady ==
  \A n \in Call :
    result[n] = "resolved" =>
      /\ \A s \in ToSet(scenarios) :
           s.call = n /\ s.name = "maxmind" => MaxMindPaths \subseteq loaded[n]
      /\ "x-forwarded-for" \in ToSet(ScenarioList)
           => "x-forwarded-for" \in ToSet(announced)
      /\ stops = 0 => running = {"bouncer", "watcher"}

\* An enricher makes a request throw only while some start() is under way, or
\* after one failed, unless the path of the request is at fault: scenarios take
\* part in requests before they are loaded, but not once start() resolved.
ThrowsOnlyUnready ==
  [][last' \notin {last, Nothing} /\ last'.outcome = "enricher"
       => \/ last'.request.path = Throws
          \/ \E n \in Call : result[n] \in {"pending", "rejected"}]_vars

\* The hops of a request, from the socket outwards.
Hops(req) == <<req.remote>> \o Reverse(req.header)

Reliable(text) == text # Garbage /\ GetIpObject(text) \in Trusted

\* The address is the nearest hop of the request that is not a trusted proxy.
IsVisitor(ip, req) ==
  \E i \in DOMAIN Hops(req) :
    /\ Hops(req)[i] = ip
    /\ ~Reliable(ip)
    /\ \A j \in 1..(i - 1) : Reliable(Hops(req)[j])

\* No checker has kept the chain of another socket for the header.
OwnChain(req) ==
  \A n \in Call :
    req.header \in DOMAIN chains[n] => chains[n][req.header][1].ip = req.remote

\* An address told with full confidence is that of the visitor: the hop next to
\* the trusted proxies, never one further out, unless the chain of
\* another socket was kept for the same header.
AddressIsVisitor ==
  last # Nothing /\ last.ip # Nothing /\ last.ip.confidence = MaxConfidence
    /\ OwnChain(last.request)
    => IsVisitor(last.ip.ip, last.request)

\* The same of every request: req.ip is the address of its visitor ("This
\* scenario will parse the information, and so set `req.ip = "1.2.3.4"`, so you
\* now know the real ip of your visitor").
ReqIpIsVisitor ==
  last # Nothing /\ last.ip # Nothing /\ last.ip.confidence = MaxConfidence
    => IsVisitor(last.ip.ip, last.request)

\* No alert is pushed about an address of the allow list, and none about a
\* trusted proxy unless the hop behind it could not be read, chains of other
\* requests and constructors that throw half-way notwithstanding.
AlertsSpareFriends ==
  last # Nothing =>
    \A at \in DOMAIN last.alerts :
      /\ last.alerts[at].ip \notin Allowed
      /\ last.alerts[at].ip \in Trusted => last.ip.confidence = 1

\* A visit is reported once, and a checker announced once, as long as start()
\* was called once: every call of it registers all scenarios again.
ReportedOnce ==
  (\A n \in Call : result[n] # "none" => n = 1) =>
    /\ IsInjective(announced)
    /\ last # Nothing => \A a, b \in DOMAIN last.alerts : a = b

\* start() settles: neither half can keep the promise pending.
StartSettles == \A n \in Call : result[n] = "pending" ~> result[n] # "pending"
=============================================================================
