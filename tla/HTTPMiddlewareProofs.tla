-------------------------- MODULE HTTPMiddlewareProofs --------------------------
(***************************************************************************)
(* Theorems about HTTPMiddleware, for any scenarios, addresses, requests   *)
(* and bounds: what a start() that resolved has done, which address a      *)
(* request is said to come from, and what becomes of the alerts about it.  *)
(***************************************************************************)
EXTENDS HTTPMiddleware, FiniteSetTheorems, TLAPS

\* A start() resolves only when both halves are up.
BothUp == \A n \in Call : result[n] = "resolved" => bouncer[n] = "up" /\ watcher[n] = "up"

\* A call logs in when nothing is loading for it any more.
AllLoaded == \A n \in Call : watcher[n] \in {"login", "up"} => loading[n] = {}

\* Every database of the instances of a call is loaded or being loaded.
DatabasesComing ==
  \A n \in Call : watcher[n] \in {"load", "login", "up"} =>
    \A s \in ToSet(scenarios) : s.call = n /\ s.name = "maxmind" =>
      \A p \in MaxMindPaths : p \in loaded[n] \/ <<n, p>> \in loading[n]

\* The LAPI is told the checkers that are registered.
CheckersTold ==
  \A n \in Call : watcher[n] \in {"load", "login", "up"}
           /\ "x-forwarded-for" \in ToSet(ScenarioList)
    => "x-forwarded-for" \in ToSet(announced)

\* Both clients run until stop().
HalvesRun ==
  stops = 0 => \A n \in Call : /\ bouncer[n] = "up" => "bouncer" \in running
                               /\ watcher[n] = "up" => "watcher" \in running

Ready == BothUp /\ AllLoaded /\ DatabasesComing /\ CheckersTold /\ HalvesRun

IInv == TypeOK /\ Ready

-----------------------------------------------------------------------------
(* Sequences                                                               *)

LEMMA AppendedSet ==
  ASSUME NEW S, NEW s \in Seq(S), NEW t \in Seq(S)
  PROVE  /\ s \o t \in Seq(S)
         /\ \A x : x \in ToSet(s \o t) <=> x \in ToSet(s) \/ x \in ToSet(t)
<1>1. s \o t \in Seq(S) /\ Len(s \o t) = Len(s) + Len(t)
  OBVIOUS
<1>2. \A x : x \in ToSet(s) => x \in ToSet(s \o t)
  BY DEF ToSet
<1>3. \A x : x \in ToSet(t) => x \in ToSet(s \o t)
  <2> SUFFICES ASSUME NEW x \in ToSet(t) PROVE x \in ToSet(s \o t)
    OBVIOUS
  <2>1. PICK i \in DOMAIN t : t[i] = x
    BY DEF ToSet
  <2>2. Len(s) + i \in DOMAIN (s \o t) /\ (s \o t)[Len(s) + i] = x
    BY <2>1
  <2> QED
    BY <2>2 DEF ToSet
<1>4. \A x : x \in ToSet(s \o t) => x \in ToSet(s) \/ x \in ToSet(t)
  BY DEF ToSet
<1> QED
  BY <1>1, <1>2, <1>3, <1>4

LEMMA AddScenarioTells ==
  ASSUME NEW names \in Seq(Names)
  PROVE  /\ AddScenario(names) \in Seq(Names)
         /\ "x-forwarded-for" \in ToSet(names)
              => "x-forwarded-for" \in ToSet(AddScenario(names))
<1> DEFINE n == Cardinality(Checkers(names))
<1>1. IsFiniteSet(Checkers(names))
  <2>1. IsFiniteSet(1..Len(names))
    BY FS_Interval
  <2>2. Checkers(names) \subseteq 1..Len(names)
    BY DEF Checkers
  <2> QED
    BY <2>1, <2>2, FS_Subset
<1>2. n \in Nat
  BY <1>1, FS_CardinalityType
<1> HIDE DEF n
<1>3. AddScenario(names) = [i \in 1..n |-> "x-forwarded-for"]
  BY DEF AddScenario, n
<1>4. AddScenario(names) \in Seq(Names)
  BY <1>2, <1>3 DEF Names
<1>5. ASSUME "x-forwarded-for" \in ToSet(names)
      PROVE  "x-forwarded-for" \in ToSet(AddScenario(names))
  <2>1. Checkers(names) # {}
    BY <1>5 DEF ToSet, Checkers
  <2>2. n # 0
    BY <1>1, <2>1, FS_EmptySet DEF n
  <2>3. 1 \in DOMAIN AddScenario(names) /\ AddScenario(names)[1] = "x-forwarded-for"
    BY <1>2, <1>3, <2>2
  <2> QED
    BY <2>3 DEF ToSet
<1> QED
  BY <1>4, <1>5

\* What registering a list of scenarios does.
Added(n, names) ==
  /\ scenarios' = scenarios \o [i \in DOMAIN names |-> [name |-> names[i], call |-> n]]
  /\ announced' = announced \o AddScenario(names)

LEMMA AddedKeeps ==
  ASSUME TypeOK, NEW n \in Call, NEW names \in Seq(Names), Added(n, names)
  PROVE  /\ scenarios' \in Seq(Instance)
         /\ announced' \in Seq(Names)
         /\ \A s \in ToSet(scenarios') : s.call # n => s \in ToSet(scenarios)
         /\ ToSet(announced) \subseteq ToSet(announced')
         /\ "x-forwarded-for" \in ToSet(names) => "x-forwarded-for" \in ToSet(announced')
<1> DEFINE more == [i \in DOMAIN names |-> [name |-> names[i], call |-> n]]
<1>1. more \in Seq(Instance) /\ \A s \in ToSet(more) : s.call = n
  <2>1. \A i \in 1..Len(names) : [name |-> names[i], call |-> n] \in Instance
    BY DEF Instance
  <2>2. more = [i \in 1..Len(names) |-> [name |-> names[i], call |-> n]] /\ Len(names) \in Nat
    OBVIOUS
  <2> QED
    BY <2>1, <2>2 DEF ToSet
<1>2. scenarios' = scenarios \o more /\ scenarios \in Seq(Instance)
  BY DEF Added, TypeOK
<1>3. announced' = announced \o AddScenario(names) /\ announced \in Seq(Names)
  BY DEF Added, TypeOK
<1> HIDE DEF more
<1>4. scenarios' \in Seq(Instance)
  BY <1>1, <1>2, AppendedSet
<1>5. \A s : s \in ToSet(scenarios') <=> s \in ToSet(scenarios) \/ s \in ToSet(more)
  BY <1>1, <1>2, AppendedSet
<1>6. AddScenario(names) \in Seq(Names)
  BY AddScenarioTells
<1>7. announced' \in Seq(Names)
  BY <1>3, <1>6, AppendedSet
<1>8. \A x : x \in ToSet(announced') <=> x \in ToSet(announced) \/ x \in ToSet(AddScenario(names))
  BY <1>3, <1>6, AppendedSet
<1> QED
  BY <1>1, <1>4, <1>5, <1>7, <1>8, AddScenarioTells

-----------------------------------------------------------------------------
(* The steps of a call                                                     *)

LEMMA InitHolds == Init => IInv
<1> SUFFICES ASSUME Init PROVE IInv
  OBVIOUS
<1>1. TypeOK
  BY DEF Init, TypeOK
<1>2. Ready
  BY DEF Init, Ready, BothUp, AllLoaded, DatabasesComing, CheckersTold, HalvesRun
<1> QED
  BY <1>1, <1>2 DEF IInv

LEMMA SettledResolved ==
  ASSUME NEW n \in Call, NEW b, NEW w, TypeOK
  PROVE  /\ Settled(n, b, w) \in {"none", "pending", "resolved", "rejected"}
         /\ Settled(n, b, w) = "resolved" =>
              result[n] = "resolved" \/ (b = "up" /\ w = "up")
  BY DEF Settled, TypeOK

LEMMA StartKeeps == ASSUME IInv, NEW n \in Call, Start(n) PROVE IInv'
<1>1. TypeOK'
  BY DEF Start, IInv, TypeOK
<1>2. BothUp'
  BY DEF Start, IInv, Ready, TypeOK, BothUp
<1>3. AllLoaded'
  BY DEF Start, IInv, Ready, TypeOK, AllLoaded
<1>4. DatabasesComing'
  BY DEF Start, IInv, Ready, TypeOK, DatabasesComing
<1>5. CheckersTold'
  BY DEF Start, IInv, Ready, TypeOK, CheckersTold
<1>6. HalvesRun'
  BY DEF Start, IInv, Ready, TypeOK, HalvesRun
<1> QED
  BY <1>1, <1>2, <1>3, <1>4, <1>5, <1>6 DEF IInv, Ready

LEMMA BouncerStartsKeeps ==
  ASSUME IInv, NEW n \in Call, NEW ok \in BOOLEAN, BouncerStarts(n, ok) PROVE IInv'
<1>1. /\ bouncer' = [bouncer EXCEPT ![n] = IF ok THEN "up" ELSE "failed"]
      /\ result' = [result EXCEPT ![n] = Settled(n, bouncer'[n], watcher[n])]
      /\ running' = IF ok THEN running \cup {"bouncer"} ELSE running
      /\ bouncer[n] = "login"
      /\ UNCHANGED <<scenarios, announced, loaded, watcher, loading, stops, visits>>
  BY DEF BouncerStarts
<1>2. TypeOK'
  BY <1>1, SettledResolved DEF IInv, TypeOK
<1>3. BothUp'
  BY <1>1, SettledResolved DEF IInv, Ready, TypeOK, BothUp
<1>4. AllLoaded' /\ DatabasesComing' /\ CheckersTold'
  BY <1>1 DEF IInv, Ready, AllLoaded, DatabasesComing, CheckersTold
<1>5. HalvesRun'
  BY <1>1 DEF IInv, Ready, TypeOK, HalvesRun
<1> QED
  BY <1>2, <1>3, <1>4, <1>5 DEF IInv, Ready

\* The watcher half of a call fails: nothing is claimed of it any more.
LEMMA WatcherFailsKeeps ==
  ASSUME IInv, NEW n \in Call, WatcherFails(n), watcher[n] # "up",
         UNCHANGED <<bouncer, running, stops>>
  PROVE  /\ watcher' \in [Call -> {"none", "import", "load", "login", "up", "failed"}]
         /\ result' \in [Call -> {"none", "pending", "resolved", "rejected"}]
         /\ watcher'[n] = "failed"
         /\ \A m \in Call \ {n} : watcher'[m] = watcher[m]
         /\ BothUp' /\ HalvesRun'
<1>1. /\ watcher' = [watcher EXCEPT ![n] = "failed"]
      /\ result' = [result EXCEPT ![n] = Settled(n, bouncer[n], "failed")]
  BY DEF WatcherFails
<1>3. result[n] # "resolved"
  BY DEF IInv, Ready, BothUp
<1>4. BothUp'
  BY <1>1, <1>3, SettledResolved DEF IInv, Ready, TypeOK, BothUp
<1>5. HalvesRun'
  BY <1>1 DEF IInv, Ready, TypeOK, HalvesRun
<1> QED
  BY <1>1, <1>4, <1>5, SettledResolved DEF IInv, TypeOK

LEMMA AddScenariosKeeps == ASSUME IInv, NEW n \in Call, AddScenarios(n) PROVE IInv'
<1>1. /\ watcher[n] = "import"
      /\ UNCHANGED <<loaded, bouncer, running, stops, visits>>
  BY DEF AddScenarios
<1>2. CASE /\ Added(n, ScenarioList)
           /\ loading' = [loading EXCEPT ![n] =
                UNION {Loads(s.call) : s \in {t \in ToSet(scenarios') : t.name = "maxmind"}}]
           /\ watcher' = [watcher EXCEPT ![n] = "load"]
           /\ UNCHANGED result
  <2>1. /\ scenarios' \in Seq(Instance)
        /\ announced' \in Seq(Names)
        /\ \A s \in ToSet(scenarios') : s.call # n => s \in ToSet(scenarios)
        /\ ToSet(announced) \subseteq ToSet(announced')
        /\ "x-forwarded-for" \in ToSet(ScenarioList) => "x-forwarded-for" \in ToSet(announced')
    BY <1>2, AddedKeeps, HTTPAssumption DEF IInv
  <2>2. \A s \in ToSet(scenarios') : s.call \in Call
    <3> SUFFICES ASSUME NEW i \in DOMAIN scenarios' PROVE scenarios'[i].call \in Call
      BY DEF ToSet
    <3>1. scenarios'[i] \in Instance
      BY <2>1
    <3> QED
      BY <3>1 DEF Instance
  <2>3. loading'[n] = UNION {Loads(s.call) : s \in {t \in ToSet(scenarios') : t.name = "maxmind"}}
    BY <1>2 DEF IInv, TypeOK
  <2>4. loading'[n] \subseteq Call \X MaxMindPaths
    BY <2>2, <2>3 DEF Loads
  <2>5. \A s \in ToSet(scenarios') : s.call = n /\ s.name = "maxmind" =>
          \A p \in MaxMindPaths : <<n, p>> \in loading'[n]
    BY <2>3 DEF Loads
  <2>6. /\ \A m \in Call \ {n} : loading'[m] = loading[m] /\ watcher'[m] = watcher[m]
        /\ watcher'[n] = "load"
    BY <1>2 DEF IInv, TypeOK
  <2>7. TypeOK'
    BY <1>1, <1>2, <2>1, <2>4 DEF IInv, TypeOK
  <2>8. BothUp'
    BY <1>1, <1>2, <2>6 DEF IInv, Ready, BothUp
  <2>9. AllLoaded'
    BY <2>6 DEF IInv, Ready, AllLoaded
  <2>10. DatabasesComing'
    BY <1>1, <2>1, <2>5, <2>6 DEF IInv, Ready, DatabasesComing
  <2>11. CheckersTold'
    BY <2>1, <2>6 DEF IInv, Ready, CheckersTold
  <2>12. HalvesRun'
    BY <1>1, <2>6 DEF IInv, Ready, HalvesRun
  <2> QED
    BY <2>7, <2>8, <2>9, <2>10, <2>11, <2>12 DEF IInv, Ready
<1>3. CASE \E i \in DOMAIN ScenarioList :
             /\ Added(n, SubSeq(ScenarioList, 1, i - 1))
             /\ WatcherFails(n)
             /\ UNCHANGED loading
  <2>1. PICK i \in DOMAIN ScenarioList :
             /\ Added(n, SubSeq(ScenarioList, 1, i - 1))
             /\ WatcherFails(n)
             /\ UNCHANGED loading
    BY <1>3
  <2>2. SubSeq(ScenarioList, 1, i - 1) \in Seq(Names)
    BY HTTPAssumption
  <2>3. /\ scenarios' \in Seq(Instance)
        /\ announced' \in Seq(Names)
        /\ \A s \in ToSet(scenarios') : s.call # n => s \in ToSet(scenarios)
        /\ ToSet(announced) \subseteq ToSet(announced')
    BY <2>1, <2>2, AddedKeeps DEF IInv
  <2>4. /\ watcher' \in [Call -> {"none", "import", "load", "login", "up", "failed"}]
        /\ result' \in [Call -> {"none", "pending", "resolved", "rejected"}]
        /\ watcher'[n] = "failed"
        /\ \A m \in Call \ {n} : watcher'[m] = watcher[m]
        /\ BothUp' /\ HalvesRun'
    BY <1>1, <2>1, WatcherFailsKeeps
  <2>5. TypeOK'
    BY <1>1, <2>1, <2>3, <2>4 DEF IInv, TypeOK
  <2>6. AllLoaded'
    BY <2>1, <2>4 DEF IInv, Ready, AllLoaded
  <2>7. DatabasesComing'
    BY <1>1, <2>1, <2>3, <2>4 DEF IInv, Ready, DatabasesComing
  <2>8. CheckersTold'
    BY <2>3, <2>4 DEF IInv, Ready, CheckersTold
  <2> QED
    BY <2>4, <2>5, <2>6, <2>7, <2>8 DEF IInv, Ready
<1> QED
  BY <1>2, <1>3 DEF AddScenarios, Added

LEMMA DatabaseLoadsKeeps ==
  ASSUME IInv, NEW n \in Call, NEW ok \in BOOLEAN, NEW load \in loading[n],
         DatabaseLoads(n, load, ok)
  PROVE  IInv'
<1>1. load[1] \in Call /\ load[2] \in MaxMindPaths /\ load = <<load[1], load[2]>>
  BY DEF IInv, TypeOK
<1>2. /\ loading' = [loading EXCEPT ![n] = loading[n] \ {load}]
      /\ loaded' = [loaded EXCEPT ![load[1]] =
                      IF ok THEN loaded[load[1]] \cup {load[2]} ELSE loaded[load[1]]]
      /\ UNCHANGED <<scenarios, announced, bouncer, running, stops, visits>>
  BY DEF DatabaseLoads
<1>3. /\ loading' \in [Call -> SUBSET (Call \X MaxMindPaths)]
      /\ loaded' \in [Call -> SUBSET MaxMindPaths]
  BY <1>1, <1>2 DEF IInv, TypeOK
<1>4. /\ \A m \in Call : loaded[m] \subseteq loaded'[m]
      /\ \A m \in Call \ {n} : loading'[m] = loading[m]
      /\ loading'[n] = loading[n] \ {load}
      /\ ok => load[2] \in loaded'[load[1]]
  BY <1>1, <1>2 DEF IInv, TypeOK
<1>5. watcher[n] \notin {"login", "up"}
  BY DEF IInv, Ready, AllLoaded
<1>6. CASE ok
  <2>1. UNCHANGED <<watcher, result>>
    BY <1>6 DEF DatabaseLoads
  <2>2. TypeOK'
    BY <1>2, <1>3, <2>1 DEF IInv, TypeOK
  <2>3. BothUp' /\ CheckersTold' /\ HalvesRun'
    BY <1>2, <2>1 DEF IInv, Ready, BothUp, CheckersTold, HalvesRun
  <2>4. AllLoaded'
    BY <1>4, <2>1 DEF IInv, Ready, AllLoaded
  <2>5. DatabasesComing'
    <3>1. \A m \in Call, p \in MaxMindPaths :
            p \in loaded[m] \/ <<m, p>> \in loading[m]
              => p \in loaded'[m] \/ <<m, p>> \in loading'[m]
      BY <1>1, <1>4, <1>6
    <3> QED
      BY <1>2, <2>1, <3>1 DEF IInv, Ready, DatabasesComing
  <2> QED
    BY <2>2, <2>3, <2>4, <2>5 DEF IInv, Ready
<1>7. CASE ~ok
  <2>1. WatcherFails(n)
    BY <1>7 DEF DatabaseLoads
  <2>2. /\ watcher' \in [Call -> {"none", "import", "load", "login", "up", "failed"}]
        /\ result' \in [Call -> {"none", "pending", "resolved", "rejected"}]
        /\ watcher'[n] = "failed"
        /\ \A m \in Call \ {n} : watcher'[m] = watcher[m]
        /\ BothUp' /\ HalvesRun'
    BY <1>2, <1>5, <2>1, WatcherFailsKeeps
  <2>3. TypeOK'
    BY <1>2, <1>3, <2>2 DEF IInv, TypeOK
  <2>4. AllLoaded'
    BY <1>4, <2>2 DEF IInv, Ready, AllLoaded
  <2>5. DatabasesComing'
    BY <1>2, <1>4, <2>2 DEF IInv, Ready, DatabasesComing
  <2>6. CheckersTold'
    BY <1>2, <2>2 DEF IInv, Ready, CheckersTold
  <2> QED
    BY <2>2, <2>3, <2>4, <2>5, <2>6 DEF IInv, Ready
<1> QED
  BY <1>6, <1>7

LEMMA ScenariosLoadedKeeps == ASSUME IInv, NEW n \in Call, ScenariosLoaded(n) PROVE IInv'
<1>1. /\ watcher[n] = "load" /\ loading[n] = {}
      /\ watcher' = [watcher EXCEPT ![n] = "login"]
      /\ UNCHANGED <<scenarios, announced, loaded, bouncer, loading, result, running,
                     stops, visits>>
  BY DEF ScenariosLoaded
<1>2. TypeOK'
  BY <1>1 DEF IInv, TypeOK
<1>3. BothUp'
  BY <1>1 DEF IInv, Ready, TypeOK, BothUp
<1>4. AllLoaded'
  BY <1>1 DEF IInv, Ready, TypeOK, AllLoaded
<1>5. DatabasesComing'
  BY <1>1 DEF IInv, Ready, TypeOK, DatabasesComing
<1>6. CheckersTold'
  BY <1>1 DEF IInv, Ready, TypeOK, CheckersTold
<1>7. HalvesRun'
  BY <1>1 DEF IInv, Ready, TypeOK, HalvesRun
<1> QED
  BY <1>2, <1>3, <1>4, <1>5, <1>6, <1>7 DEF IInv, Ready

LEMMA WatcherLoginKeeps ==
  ASSUME IInv, NEW n \in Call, NEW ok \in BOOLEAN, WatcherLogin(n, ok) PROVE IInv'
<1>1. /\ watcher[n] = "login"
      /\ UNCHANGED <<scenarios, announced, loaded, bouncer, loading, stops, visits>>
  BY DEF WatcherLogin
<1>2. CASE ok
  <2>1. /\ watcher' = [watcher EXCEPT ![n] = "up"]
        /\ running' = running \cup {"watcher"}
        /\ result' = [result EXCEPT ![n] = Settled(n, bouncer[n], "up")]
    BY <1>2 DEF WatcherLogin
  <2>2. TypeOK'
    BY <1>1, <2>1, SettledResolved DEF IInv, TypeOK
  <2>3. BothUp'
    BY <1>1, <2>1, SettledResolved DEF IInv, Ready, TypeOK, BothUp
  <2>4. AllLoaded'
    BY <1>1, <2>1 DEF IInv, Ready, TypeOK, AllLoaded
  <2>5. DatabasesComing'
    BY <1>1, <2>1 DEF IInv, Ready, TypeOK, DatabasesComing
  <2>6. CheckersTold'
    BY <1>1, <2>1 DEF IInv, Ready, TypeOK, CheckersTold
  <2>7. HalvesRun'
    BY <1>1, <2>1 DEF IInv, Ready, TypeOK, HalvesRun
  <2> QED
    BY <2>2, <2>3, <2>4, <2>5, <2>6, <2>7 DEF IInv, Ready
<1>3. CASE ~ok
  <2>1. WatcherFails(n) /\ UNCHANGED running
    BY <1>3 DEF WatcherLogin
  <2>2. /\ watcher' \in [Call -> {"none", "import", "load", "login", "up", "failed"}]
        /\ result' \in [Call -> {"none", "pending", "resolved", "rejected"}]
        /\ watcher'[n] = "failed"
        /\ \A m \in Call \ {n} : watcher'[m] = watcher[m]
        /\ BothUp' /\ HalvesRun'
    BY <1>1, <2>1, WatcherFailsKeeps
  <2>3. TypeOK'
    BY <1>1, <2>1, <2>2 DEF IInv, TypeOK
  <2>4. AllLoaded' /\ DatabasesComing' /\ CheckersTold'
    BY <1>1, <2>2 DEF IInv, Ready, AllLoaded, DatabasesComing, CheckersTold
  <2> QED
    BY <2>2, <2>3, <2>4 DEF IInv, Ready
<1> QED
  BY <1>2, <1>3

OthersDo ==
  /\ stops' \in Nat /\ visits' \in Nat
  /\ running' \subseteq {"bouncer", "watcher"}
  /\ HalvesRun'

\* stop(), requests, and the caches: no part in any start(), but for stop().
LEMMA OthersKeep ==
  ASSUME IInv, \/ Stop
               \/ \E req \in Requests : Request(req)
               \/ \E n \in Call : \E header \in DOMAIN chains[n] : Evict(n, header)
  PROVE  IInv'
<1>1. UNCHANGED startVars
  BY DEF Stop, Request, Evict
<1>2. ASSUME Stop PROVE OthersDo
  <2>1. stops' = stops + 1 /\ running' = {} /\ UNCHANGED visits
    BY <1>2 DEF Stop
  <2>2. stops' \in Nat /\ stops' # 0 /\ visits' \in Nat
    BY <2>1 DEF IInv, TypeOK
  <2> QED
    BY <2>1, <2>2 DEF OthersDo, HalvesRun
<1>3. ASSUME ~Stop PROVE OthersDo
  <2>1. UNCHANGED <<running, stops>> /\ (visits' = visits \/ visits' = visits + 1)
    BY <1>3 DEF Request, Evict
  <2>2. stops' \in Nat /\ visits' \in Nat /\ running' \subseteq {"bouncer", "watcher"}
    BY <2>1 DEF IInv, TypeOK
  <2>3. HalvesRun'
    BY <1>1, <2>1 DEF IInv, Ready, HalvesRun, startVars
  <2> QED
    BY <2>2, <2>3 DEF OthersDo
<1>4. OthersDo
  BY <1>2, <1>3
<1>5. TypeOK'
  BY <1>1, <1>4 DEF OthersDo, IInv, TypeOK, startVars
<1>6. BothUp' /\ AllLoaded' /\ DatabasesComing' /\ CheckersTold'
  BY <1>1 DEF IInv, Ready, startVars, BothUp, AllLoaded, DatabasesComing, CheckersTold
<1> QED
  BY <1>4, <1>5, <1>6 DEF OthersDo, IInv, Ready

-----------------------------------------------------------------------------
(* The theorems                                                            *)

LEMMA IInvStep == IInv /\ [Next]_vars => IInv'
<1> SUFFICES ASSUME IInv, [Next]_vars PROVE IInv'
  OBVIOUS
<1>1. CASE UNCHANGED vars
  BY <1>1 DEF vars, startVars, IInv, TypeOK, Ready, BothUp, AllLoaded, DatabasesComing,
              CheckersTold, HalvesRun
<1>2. CASE \E n \in Call :
             \/ Start(n) \/ AddScenarios(n) \/ ScenariosLoaded(n)
             \/ \E ok \in BOOLEAN :
                  \/ BouncerStarts(n, ok)
                  \/ WatcherLogin(n, ok)
                  \/ \E load \in loading[n] : DatabaseLoads(n, load, ok)
  BY <1>2, StartKeeps, AddScenariosKeeps, ScenariosLoadedKeeps, BouncerStartsKeeps,
     WatcherLoginKeeps, DatabaseLoadsKeeps
<1>3. CASE \/ Stop
           \/ \E req \in Requests : Request(req)
           \/ \E n \in Call : \E header \in DOMAIN chains[n] : Evict(n, header)
  BY <1>3, OthersKeep
<1> QED
  BY <1>1, <1>2, <1>3 DEF Next

LEMMA IInvAlways == Spec => []IInv
  BY InitHolds, IInvStep, PTL DEF Spec

\* The fields of both halves and the calls under way keep their types.
THEOREM TypeCorrect == Spec => []TypeOK
<1>1. IInv => TypeOK
  BY DEF IInv
<1> QED
  BY <1>1, IInvAlways, PTL

\* start(): one that resolved left nothing half done, whatever other calls of it
\* failed meanwhile and however their loads are interleaved.
THEOREM StartCorrect == Spec => []StartedIsReady
<1>1. IInv => StartedIsReady
  <2> SUFFICES ASSUME IInv, NEW n \in Call, result[n] = "resolved"
               PROVE  /\ \A s \in ToSet(scenarios) :
                           s.call = n /\ s.name = "maxmind" => MaxMindPaths \subseteq loaded[n]
                      /\ "x-forwarded-for" \in ToSet(ScenarioList)
                           => "x-forwarded-for" \in ToSet(announced)
                      /\ stops = 0 => running = {"bouncer", "watcher"}
    BY DEF StartedIsReady
  <2>1. bouncer[n] = "up" /\ watcher[n] = "up"
    BY DEF IInv, Ready, BothUp
  <2>2. loading[n] = {}
    BY <2>1 DEF IInv, Ready, AllLoaded
  <2>3. \A s \in ToSet(scenarios) :
          s.call = n /\ s.name = "maxmind" => MaxMindPaths \subseteq loaded[n]
    BY <2>1, <2>2 DEF IInv, Ready, DatabasesComing
  <2>4. "x-forwarded-for" \in ToSet(ScenarioList) => "x-forwarded-for" \in ToSet(announced)
    BY <2>1 DEF IInv, Ready, CheckersTold
  <2>5. stops = 0 => running = {"bouncer", "watcher"}
    BY <2>1 DEF IInv, Ready, HalvesRun, TypeOK
  <2> QED
    BY <2>3, <2>4, <2>5
<1> QED
  BY <1>1, IInvAlways, PTL

-----------------------------------------------------------------------------
(* Numbers                                                                 *)

\* Every set of natural numbers but the empty one has a least element.
LEMMA LeastNumber ==
  ASSUME NEW T \in SUBSET Nat, T # {}
  PROVE  \E n \in T : \A m \in T : n <= m
<1> DEFINE R == StrictSubsetOrdering(Nat)
           F == FiniteSubsetsOf(Nat)
           B == {0..n : n \in T}
<1>1. IsWellFoundedOn(R, F)
  BY FS_StrictSubsetOrderingWellFounded
<1>2. B \subseteq F /\ B # {}
  <2>1. ASSUME NEW n \in T PROVE 0..n \in F
    <3>1. IsFiniteSet(0..n)
      BY FS_Interval
    <3>2. 0..n \in SUBSET Nat
      OBVIOUS
    <3> QED
      BY <3>1, <3>2 DEF FiniteSubsetsOf
  <2> QED
    BY <2>1
<1> HIDE DEF R, F, B
<1>3. PICK b \in B : \A c \in B : ~(<<c, b>> \in R)
  BY <1>1, <1>2, WFMin
<1>4. PICK n \in T : b = 0..n
  BY DEF B
<1>5. ASSUME NEW m \in T, m < n PROVE FALSE
  <2>1. 0..m \in B
    BY DEF B
  <2>2. 0..m \subseteq 0..n /\ n \in 0..n /\ n \notin 0..m
    BY <1>5
  <2>3. <<0..m, b>> \in R
    BY <1>4, <2>2 DEF R, StrictSubsetOrdering
  <2> QED
    BY <1>3, <2>1, <2>3
<1> QED
  BY <1>5

\* What holds of zero, and of each number's successor, holds of all numbers.
LEMMA NumberInduction ==
  ASSUME NEW S, 0 \in S, \A n \in Nat : n \in S => n + 1 \in S
  PROVE  Nat \subseteq S
<1> SUFFICES ASSUME Nat \ S # {} PROVE FALSE
  OBVIOUS
<1>1. PICK n \in Nat \ S : \A m \in Nat \ S : n <= m
  BY LeastNumber
<1>2. n # 0
  OBVIOUS
<1>3. n - 1 \in Nat /\ n - 1 \notin Nat \ S
  BY <1>1, <1>2
<1> QED
  BY <1>3, <1>1


-----------------------------------------------------------------------------
(* Chains of proxies                                                       *)

\* What a chain says of the hops it was made from.
Chained(chain, hops) ==
  /\ hops \in Seq(Texts) /\ Len(hops) \in Nat \ {0} /\ DOMAIN chain = 1..Len(hops)
  /\ \A i \in 1..Len(hops) :
       /\ chain[i].ip = hops[i]
       /\ chain[i].valid <=> GetAddressObject(hops[i]) # Throws
       /\ chain[i].trustedProxy <=>
            /\ GetAddressObject(hops[i]) \in Trusted
            /\ \A j \in 1..(i - 1) :
                 GetAddressObject(hops[j]) \in Trusted \cup {Throws}

HopsOf(remote, header) == <<remote>> \o Reverse(header)

LEMMA ChainOfHops ==
  ASSUME NEW remote \in Texts, NEW header \in Seq(Texts)
  PROVE  /\ Chained(ExtractIps(remote, header), HopsOf(remote, header))
         /\ HopsOf(remote, header)[1] = remote
<1> DEFINE rev == Reverse(header)
           hops == <<remote>> \o rev
           hop(t) == [ip |-> t, address |-> GetAddressObject(t)]
           all == <<hop(remote)>> \o ExtractIpsFromHeader(header)
           met(i) == \E j \in 1..(i - 1) : all[j].address \notin Trusted \cup {Throws}
           chain == ExtractIps(remote, header)
<1>1. rev \in Seq(Texts) /\ Len(rev) = Len(header) /\ DOMAIN rev = DOMAIN header
  BY DEF Reverse
<1>2. ExtractIpsFromHeader(header) = [i \in 1..Len(rev) |-> hop(rev[i])]
  BY <1>1 DEF ExtractIpsFromHeader
<1> HIDE DEF rev
<1>3. hops \in Seq(Texts) /\ Len(hops) = Len(rev) + 1 /\ hops[1] = remote
  BY <1>1
<1>4. ASSUME NEW S, NEW f \in [1..Len(rev) -> S], NEW a \in S
      PROVE  /\ f \in Seq(S) /\ Len(f) = Len(rev)
             /\ <<a>> \o f \in Seq(S) /\ Len(<<a>> \o f) = Len(rev) + 1
             /\ (<<a>> \o f)[1] = a
             /\ \A i \in 2..(Len(rev) + 1) : (<<a>> \o f)[i] = f[i - 1]
  <2>1. f \in Seq(S) /\ Len(f) = Len(rev)
    BY <1>1
  <2> QED
    BY <2>1
<1>5. /\ DOMAIN all = 1..Len(hops)
      /\ \A i \in 1..Len(hops) : all[i] = hop(hops[i])
  <2> DEFINE S == {hop(t) : t \in Texts}
             f == [i \in 1..Len(rev) |-> hop(rev[i])]
  <2>1. f \in [1..Len(rev) -> S] /\ hop(remote) \in S
    BY <1>1
  <2>2. /\ <<hop(remote)>> \o f \in Seq(S) /\ Len(<<hop(remote)>> \o f) = Len(rev) + 1
        /\ (<<hop(remote)>> \o f)[1] = hop(remote)
        /\ \A i \in 2..(Len(rev) + 1) : (<<hop(remote)>> \o f)[i] = f[i - 1]
    <3> HIDE DEF S, f, hop
    <3> QED
      BY <2>1, <1>4
  <2>3. all = <<hop(remote)>> \o f
    BY <1>2
  <2>4. \A i \in 2..(Len(rev) + 1) : f[i - 1] = hop(rev[i - 1]) /\ hops[i] = rev[i - 1]
    BY <1>1
  <2> HIDE DEF S, f, hop, all, hops
  <2>5. DOMAIN all = 1..Len(hops)
    BY <1>3, <2>2, <2>3
  <2>6. ASSUME NEW i \in 1..Len(hops) PROVE all[i] = hop(hops[i])
    <3>1. CASE i = 1
      BY <3>1, <1>3, <2>2, <2>3
    <3>2. CASE i # 1
      <4>1. i \in 2..(Len(rev) + 1)
        BY <3>2, <1>3, <1>1
      <4> QED
        BY <4>1, <2>2, <2>3, <2>4
    <3> QED
      BY <3>1, <3>2
  <2> QED
    BY <2>5, <2>6
<1>6. chain = [i \in DOMAIN all |->
                 [ip |-> all[i].ip, valid |-> all[i].address # Throws,
                  trustedProxy |-> all[i].address \in Trusted /\ ~met(i)]]
  BY DEF ExtractIps
<1>7. \A i \in 1..Len(hops) : hop(hops[i]).ip = hops[i]
                             /\ hop(hops[i]).address = GetAddressObject(hops[i])
  OBVIOUS
<1> HIDE DEF all, hops, chain, hop
<1>8. ASSUME NEW i \in 1..Len(hops)
      PROVE  /\ chain[i].ip = hops[i]
             /\ chain[i].valid <=> GetAddressObject(hops[i]) # Throws
             /\ chain[i].trustedProxy <=>
                  /\ GetAddressObject(hops[i]) \in Trusted
                  /\ \A j \in 1..(i - 1) :
                       GetAddressObject(hops[j]) \in Trusted \cup {Throws}
  <2>1. /\ all[i].ip = hops[i] /\ all[i].address = GetAddressObject(hops[i])
    BY <1>5, <1>7
  <2>2. \A j \in 1..(i - 1) : all[j].address = GetAddressObject(hops[j])
    <3>1. \A j \in 1..(i - 1) : j \in 1..Len(hops)
      BY <1>1, <1>3
    <3> QED
      BY <3>1, <1>5, <1>7
  <2>3. chain[i] = [ip |-> all[i].ip, valid |-> all[i].address # Throws,
                    trustedProxy |-> all[i].address \in Trusted /\ ~met(i)]
    <3> HIDE DEF met
    <3> QED
      BY <1>5, <1>6
  <2>4. met(i) <=> \E j \in 1..(i - 1) : GetAddressObject(hops[j]) \notin Trusted \cup {Throws}
    BY <2>2
  <2>5. /\ chain[i].ip = hops[i]
        /\ chain[i].valid = (GetAddressObject(hops[i]) # Throws)
        /\ chain[i].trustedProxy = (GetAddressObject(hops[i]) \in Trusted /\ ~met(i))
    <3> HIDE DEF met
    <3> QED
      BY <2>1, <2>3
  <2> QED
    BY <2>4, <2>5
<1>9. DOMAIN chain = 1..Len(hops)
  <2> HIDE DEF met
  <2> QED
    BY <1>5, <1>6
<1>10. hops = HopsOf(remote, header)
  BY DEF hops, rev, HopsOf
<1>11. Chained(chain, hops) /\ hops[1] = remote
  BY <1>1, <1>3, <1>8, <1>9 DEF Chained
<1> QED
  BY <1>10, <1>11 DEF chain

LEMMA AddressOfText ==
  ASSUME NEW t \in Texts, GetAddressObject(t) # Throws
  PROVE  /\ t # Garbage /\ GetAddressObject(t) = GetIpObject(t)
         /\ GetIpObject(t) \in Addresses
<1>1. t # Nothing /\ t # Garbage /\ GetAddressObject(t) = GetIpObject(t)
  BY DEF GetAddressObject, GetIpObject
<1>2. GetIpObject(t) = t.address
  BY <1>1 DEF GetIpObject
<1>3. PICK a \in Addresses : t = Plain(a) \/ t = Mapped(a)
  BY <1>1 DEF Texts
<1>4. t.address = a
  BY <1>3 DEF Plain, Mapped
<1> QED
  BY <1>1, <1>2, <1>3, <1>4

\* The hop at which a chain is no more trusted is the first such.
LEMMA UntrustedIsFirst ==
  ASSUME NEW chain, NEW n \in Nat, DOMAIN chain = 1..n, Untrusted(chain) # 0
  PROVE  /\ Untrusted(chain) \in 1..n
         /\ ~chain[Untrusted(chain)].trustedProxy
         /\ \A j \in 1..(Untrusted(chain) - 1) : chain[j].trustedProxy
<1> DEFINE found == {i \in DOMAIN chain : ~chain[i].trustedProxy}
<1>1. found # {} /\ found \in SUBSET Nat
  BY DEF Untrusted
<1>2. Untrusted(chain) = CHOOSE i \in found : \A j \in found : i <= j
  BY <1>1 DEF Untrusted
<1>3. \E i \in found : \A j \in found : i <= j
  BY <1>1, LeastNumber
<1>4. Untrusted(chain) \in found /\ \A j \in found : Untrusted(chain) <= j
  <2> HIDE DEF found
  <2> QED
    BY <1>2, <1>3
<1>5. ASSUME NEW j \in 1..(Untrusted(chain) - 1) PROVE chain[j].trustedProxy
  <2>1. j \in DOMAIN chain /\ ~(Untrusted(chain) <= j)
    BY <1>4
  <2> QED
    BY <1>4, <2>1
<1> QED
  BY <1>4, <1>5

\* What a chain tells of the visitor: a hop of the request that can be read,
\* and, if it is told with full confidence, the first that is no trusted proxy.
LEMMA IpOfChain ==
  ASSUME NEW remote \in Texts, NEW header \in Seq(Texts),
         ExtractIp(ExtractIps(remote, header)) # Nothing
  PROVE  LET e == ExtractIp(ExtractIps(remote, header))
             hops == HopsOf(remote, header)
         IN  /\ e.ip \in Texts /\ GetAddressObject(e.ip) # Throws
             /\ e.confidence \in {1, MaxConfidence}
             /\ e.confidence = MaxConfidence =>
                  \E i \in 1..Len(hops) :
                    /\ e.ip = hops[i]
                    /\ GetAddressObject(e.ip) \notin Trusted
                    /\ \A j \in 1..(i - 1) : GetAddressObject(hops[j]) \in Trusted
<1> DEFINE chain == ExtractIps(remote, header)
           e == ExtractIp(chain)
           hops == HopsOf(remote, header)
           i == Untrusted(chain)
<1> HIDE DEF chain, hops
<1>1. Chained(chain, hops)
  BY ChainOfHops DEF chain, hops
<1>2. i # 0
  BY DEF ExtractIp, chain
<1>3. /\ i \in 1..Len(hops) /\ ~chain[i].trustedProxy
      /\ \A j \in 1..(i - 1) : chain[j].trustedProxy
  BY <1>1, <1>2, UntrustedIsFirst DEF Chained
<1>4. \A j \in 1..(i - 1) : j \in 1..Len(hops) /\ GetAddressObject(hops[j]) \in Trusted
  BY <1>1, <1>3 DEF Chained
<1>5. e = IF chain[i].valid
          THEN [ip |-> chain[i].ip, confidence |-> MaxConfidence]
          ELSE IF i > 1 /\ chain[i - 1].valid /\ chain[i - 1].trustedProxy
               THEN [ip |-> chain[i - 1].ip, confidence |-> 1]
               ELSE Nothing
  BY <1>2 DEF ExtractIp
<1> HIDE DEF i
<1>6. CASE chain[i].valid
  <2>1. e.ip = hops[i] /\ e.confidence = MaxConfidence
    BY <1>1, <1>3, <1>5, <1>6 DEF Chained
  <2>2. GetAddressObject(hops[i]) # Throws /\ GetAddressObject(hops[i]) \notin Trusted
    BY <1>1, <1>3, <1>4, <1>6 DEF Chained
  <2>3. hops[i] \in Texts
    BY <1>1, <1>3 DEF Chained
  <2> HIDE DEF e
  <2>4. /\ e.ip \in Texts /\ GetAddressObject(e.ip) # Throws
        /\ e.confidence \in {1, MaxConfidence}
        /\ \E k \in 1..Len(hops) :
             /\ e.ip = hops[k]
             /\ GetAddressObject(e.ip) \notin Trusted
             /\ \A j \in 1..(k - 1) : GetAddressObject(hops[j]) \in Trusted
    BY <1>3, <1>4, <2>1, <2>2, <2>3
  <2> QED
    BY <2>4 DEF e, chain, hops
<1>7. CASE ~chain[i].valid
  <2>1. /\ i > 1 /\ chain[i - 1].valid
        /\ e.ip = chain[i - 1].ip /\ e.confidence = 1
    BY <1>5, <1>7 DEF chain
  <2>2. i - 1 \in 1..Len(hops)
    BY <1>1, <1>3, <2>1 DEF Chained
  <2>3. e.ip = hops[i - 1] /\ GetAddressObject(hops[i - 1]) # Throws /\ hops[i - 1] \in Texts
    BY <1>1, <2>1, <2>2 DEF Chained
  <2> HIDE DEF e
  <2>4. /\ e.ip \in Texts /\ GetAddressObject(e.ip) # Throws
        /\ e.confidence \in {1, MaxConfidence} /\ e.confidence # MaxConfidence
    BY <2>1, <2>3 DEF MaxConfidence
  <2> QED
    BY <2>4 DEF e, chain, hops
<1> QED
  BY <1>6, <1>7

\* A checker keeps chains that were made from some request with this header.
ChainsInv ==
  /\ chains = [n \in Call |-> chains[n]]
  /\ \A n \in Call : \A header \in DOMAIN chains[n] :
       \E remote \in Texts : chains[n][header] = ExtractIps(remote, header)

LEMMA ChainOfRequest ==
  ASSUME ChainsInv, NEW n \in Call, NEW req \in Requests, req.remote # Nothing
  PROVE  /\ req.header \in Seq(Texts)
         /\ \E remote \in Texts : ChainOf(n, req) = ExtractIps(remote, req.header)
<1>1. req.header \in Seq(Texts) /\ req.remote \in Texts
  BY RequestsAssumption
<1> QED
  BY <1>1 DEF ChainsInv, ChainOf

LEMMA Places ==
  ASSUME TypeOK
  PROVE  /\ Len(scenarios) \in Nat /\ DOMAIN scenarios = 1..Len(scenarios)
         /\ \A i \in DOMAIN scenarios :
              i \in Nat /\ scenarios[i].call \in Call /\ scenarios[i].name \in Names
<1>1. scenarios \in Seq(Instance)
  BY DEF TypeOK
<1>2. /\ Len(scenarios) \in Nat /\ DOMAIN scenarios = 1..Len(scenarios)
      /\ \A i \in DOMAIN scenarios : scenarios[i] \in Instance
  BY <1>1
<1>3. \A s \in Instance : s.call \in Call /\ s.name \in Names
  BY DEF Instance
<1> QED
  BY <1>2, <1>3

\* The address of a request is what the chain of one of its checkers tells.
LEMMA IpOfRequest ==
  ASSUME TypeOK, ChainsInv, NEW req \in Requests, req.remote # Nothing, IpOf(req) # Nothing
  PROVE  \E i \in Extractors :
           /\ scenarios[i].call \in Call
           /\ IpOf(req) = ExtractIp(ChainOf(scenarios[i].call, req))
<1> DEFINE got == [i \in Extractors |-> ExtractIp(ChainOf(scenarios[i].call, req))]
           found == {i \in Extractors : got[i] # Nothing}
           best == {i \in found : \A j \in found : got[j].confidence <= got[i].confidence}
<1>1. \A i \in Extractors : i \in Nat /\ scenarios[i].call \in Call
  BY Places DEF Extractors
<1>2. \A i \in found : got[i].confidence \in {1, 10}
  <2> SUFFICES ASSUME NEW i \in found PROVE got[i].confidence \in {1, 10}
    OBVIOUS
  <2>1. PICK n \in Call : n = scenarios[i].call
    BY <1>1
  <2>2. PICK remote \in Texts : ChainOf(n, req) = ExtractIps(remote, req.header)
    BY ChainOfRequest
  <2>3. req.header \in Seq(Texts)
    BY RequestsAssumption
  <2>4. got[i] = ExtractIp(ExtractIps(remote, req.header)) /\ got[i] # Nothing
    BY <2>1, <2>2
  <2>5. ExtractIp(ExtractIps(remote, req.header)).confidence \in {1, MaxConfidence}
    BY <2>3, <2>4, IpOfChain, Zenon
  <2> HIDE DEF got
  <2> QED
    BY <2>4, <2>5 DEF MaxConfidence
<1>3. IpOf(req) = IF found = {} THEN Nothing
                  ELSE got[CHOOSE i \in best : \A j \in best : i <= j]
  BY Zenon DEF IpOf
<1>5. \A i \in found : got[i] = ExtractIp(ChainOf(scenarios[i].call, req))
  OBVIOUS
<1>6. found \subseteq Extractors
  OBVIOUS
<1> HIDE DEF got, found
<1>4. found # {}
  <2> HIDE DEF best
  <2> QED
    BY <1>3
<1>7. best # {}
  <2>1. CASE \E i \in found : got[i].confidence = 10
    BY <1>2, <2>1
  <2>2. CASE \A i \in found : got[i].confidence # 10
    BY <1>2, <1>4, <2>2
  <2> QED
    BY <2>1, <2>2
<1>8. best \subseteq found /\ best \in SUBSET Nat
  BY <1>1, <1>6
<1> HIDE DEF best
<1>9. \E i \in best : \A j \in best : i <= j
  BY <1>7, <1>8, LeastNumber
<1>10. PICK i \in best : IpOf(req) = got[i]
  BY <1>3, <1>4, <1>9
<1> QED
  BY <1>1, <1>5, <1>6, <1>8, <1>10

-----------------------------------------------------------------------------
(* Alerts                                                                  *)

\* A checker has one alert at most, about the address it is asked about.
LEMMA AlertsAre ==
  ASSUME NEW address, NEW req, NEW at \in DOMAIN Alerts(address, req)
  PROVE  /\ \E i \in Extractors : at = <<i, 1>>
         /\ Alerts(address, req)[at] = GenerateAlert(address)
<1> DEFINE check == [i \in Extractors |->
             XForwardedForCheck(address, ChainOf(scenarios[i].call, req),
                                AlertOnNotTrustedIps)]
           all == [a \in UNION {{i} \X DOMAIN check[i] : i \in Extractors} |->
                     check[a[1]][a[2]]]
<1>1. Alerts(address, req) = all
  BY DEF Alerts
<1>2. \A i \in Extractors : check[i] \in {<<GenerateAlert(address)>>, <<>>}
  BY DEF XForwardedForCheck
<1> HIDE DEF check
<1>3. PICK i \in Extractors : at \in {i} \X DOMAIN check[i]
  BY <1>1
<1>4. check[i] = <<GenerateAlert(address)>>
  BY <1>2, <1>3
<1>5. at = <<i, 1>>
  BY <1>3, <1>4
<1>6. Alerts(address, req)[at] = check[at[1]][at[2]]
  BY <1>1
<1>7. Alerts(address, req)[at] = GenerateAlert(address)
  BY <1>4, <1>5, <1>6
<1> QED
  BY <1>5, <1>7

\* An alert about an address.
IsAlert(a, address) == "ip" \in DOMAIN a /\ a.ip = address

Unloaded(s) == s.name = "maxmind" /\ (~(MaxMindPaths \subseteq loaded[s.call]) \/ MaxMindPaths = {})

LEMMA HTTPEnrichKeeps ==
  ASSUME NEW a, NEW address, IsAlert(a, address), NEW path
  PROVE  \/ IsAlert(HTTPEnrich(a, path), address)
         \/ HTTPEnrich(a, path) = Throws /\ path = Throws
BY DEF HTTPEnrich, IsAlert

LEMMA MaxMindEnrichKeeps ==
  ASSUME NEW a, NEW address, IsAlert(a, address), NEW databases
  PROVE  \/ IsAlert(MaxMindEnrich(a, databases), address)
         \/ /\ MaxMindEnrich(a, databases) = Throws
            /\ ~(MaxMindPaths \subseteq databases) \/ MaxMindPaths = {}
<1>1. ASSUME NEW b, IsAlert(b, address)
      PROVE  IsAlert(CityEnrichAlert(b), address) /\ IsAlert(ASNEnrichAlert(b), address)
  <2>1. IsAlert(CityEnrichAlert(b), address)
    BY <1>1 DEF CityEnrichAlert, IsAlert
  <2>2. IsAlert(ASNEnrichAlert(b), address)
    BY <1>1 DEF ASNEnrichAlert, IsAlert
  <2> QED
    BY <2>1, <2>2
<1> DEFINE city == IF "city" \in MaxMindPaths THEN CityEnrichAlert(a) ELSE a
           both == IF "ASN" \in MaxMindPaths THEN ASNEnrichAlert(city) ELSE city
<1>2. IsAlert(city, address)
  BY <1>1
<1>3. IsAlert(both, address)
  <2> HIDE DEF city
  <2> QED
    BY <1>1, <1>2
<1>4. ASSUME MaxMindPaths \subseteq databases, MaxMindPaths # {}
      PROVE  \E v : MaxMindEnrich(a, databases) = [both EXCEPT !.event = v]
  BY <1>4, Zenon DEF MaxMindEnrich
<1>6. ASSUME ~(MaxMindPaths \subseteq databases) \/ MaxMindPaths = {}
      PROVE  MaxMindEnrich(a, databases) = Throws
  BY <1>6, Zenon DEF MaxMindEnrich
<1> HIDE DEF both
<1>5. \A v : IsAlert([both EXCEPT !.event = v], address)
  BY <1>3 DEF IsAlert
<1> QED
  BY <1>4, <1>5, <1>6

\* What one scenario makes of an alert.
LEMMA EnrichByKeeps ==
  ASSUME NEW a, NEW address, IsAlert(a, address), address # Nothing, NEW path, NEW s
  PROVE  \/ EnrichBy(path, a, s) = Nothing
         \/ /\ EnrichBy(path, a, s) = Throws
            /\ a = Throws \/ path = Throws \/ Unloaded(s)
         \/ /\ IsAlert(EnrichBy(path, a, s), address)
            /\ s.name = "allow-list" => address \notin Allowed
<1>1. CASE a \in {Nothing, Throws}
  <2>1. EnrichBy(path, a, s) = a
    BY <1>1, Zenon DEF EnrichBy
  <2> QED
    BY <1>1, <2>1
<1>2. CASE a \notin {Nothing, Throws}
  <2>1. CASE s.name = "allow-list"
    <3>1. EnrichBy(path, a, s) = AllowListEnrich(a)
      BY <1>2, <2>1, Zenon DEF EnrichBy
    <3> QED
      BY <3>1 DEF AllowListEnrich, IsAlert
  <2>2. CASE s.name = "http-enricher"
    <3>1. EnrichBy(path, a, s) = HTTPEnrich(a, path)
      BY <1>2, <2>2, Zenon DEF EnrichBy
    <3> QED
      BY <2>2, <3>1, HTTPEnrichKeeps
  <2>3. CASE s.name = "maxmind"
    <3>1. EnrichBy(path, a, s) = MaxMindEnrich(a, loaded[s.call])
      BY <1>2, <2>3, Zenon DEF EnrichBy
    <3> QED
      BY <2>3, <3>1, MaxMindEnrichKeeps DEF Unloaded
  <2>4. CASE s.name \notin {"allow-list", "http-enricher", "maxmind"}
    <3>1. EnrichBy(path, a, s) = a
      BY <1>2, <2>4, Zenon DEF EnrichBy
    <3> QED
      BY <2>4, <3>1
  <2> QED
    BY <2>1, <2>2, <2>3, <2>4
<1> QED
  BY <1>1, <1>2

\* An alert goes through the scenarios one after the other.
Goes(path, alert, k, f) ==
  f = [i \in 0..k |-> IF i = 0 THEN alert ELSE EnrichBy(path, f[i - 1], scenarios[i])]

LEMMA EnrichGoes ==
  ASSUME NEW path, NEW alert, NEW L \in Nat, L = Len(scenarios)
  PROVE  \E f : Goes(path, alert, L, f) /\ Enrich(alert, path) = f[L]
<1> DEFINE S == {k \in Nat : \E f : Goes(path, alert, k, f)}
<1>1. 0 \in S
  <2>1. Goes(path, alert, 0, [i \in 0..0 |-> alert])
    BY DEF Goes
  <2> QED
    BY <2>1
<1>2. ASSUME NEW k \in Nat, k \in S PROVE k + 1 \in S
  <2>1. PICK f : Goes(path, alert, k, f)
    BY <1>2
  <2> DEFINE E(i) == IF i = 0 THEN alert ELSE EnrichBy(path, f[i - 1], scenarios[i])
  <2>2. f = [i \in 0..k |-> E(i)]
    BY <2>1, Zenon DEF Goes
  <2> HIDE DEF E
  <2>3. \A i \in 0..k : f[i] = E(i)
    BY <2>2
  <2> DEFINE g == [i \in 0..(k + 1) |-> E(i)]
  <2>4. \A i \in 0..k : g[i] = f[i]
    BY <2>3
  <2>5. \A i \in 0..(k + 1) : i # 0 => i - 1 \in 0..k
    OBVIOUS
  <2> HIDE DEF g
  <2>6. \A i \in 0..(k + 1) :
          E(i) = IF i = 0 THEN alert ELSE EnrichBy(path, g[i - 1], scenarios[i])
    BY <2>4, <2>5 DEF E
  <2>7. g = [i \in 0..(k + 1) |->
               IF i = 0 THEN alert ELSE EnrichBy(path, g[i - 1], scenarios[i])]
    BY <2>6 DEF g
  <2> QED
    BY <2>7 DEF Goes
<1> HIDE DEF S
<1>3. L \in S
  BY <1>1, <1>2, NumberInduction
<1>4. \E f : Goes(path, alert, L, f)
  BY <1>3 DEF S
<1> DEFINE f == CHOOSE g : Goes(path, alert, L, g)
<1>5. Goes(path, alert, L, f)
  BY <1>4
<1>6. Enrich(alert, path) = f[L]
  BY Zenon DEF Enrich, Goes
<1> QED
  BY <1>5, <1>6

\* Who makes an enricher throw.
Blamed(address, path) ==
  \/ path = Throws
  \/ \E i \in DOMAIN scenarios : Unloaded(scenarios[i])
  \/ IsAlert(Throws, address)

\* What all scenarios make of an alert: if it survives, it is about the same
\* address, and no allow list among them has it.
LEMMA EnrichKeeps ==
  ASSUME TypeOK, NEW address, address # Nothing, NEW a, IsAlert(a, address), NEW path
  PROVE  \/ Enrich(a, path) = Nothing
         \/ Enrich(a, path) = Throws /\ Blamed(address, path)
         \/ /\ IsAlert(Enrich(a, path), address)
            /\ address \in Allowed =>
                 \A i \in DOMAIN scenarios : scenarios[i].name # "allow-list"
<1>1. Len(scenarios) \in Nat /\ DOMAIN scenarios = 1..Len(scenarios)
  BY Places
<1>2. PICK L \in Nat : L = Len(scenarios)
  BY <1>1, Zenon
<1>3. PICK f : Goes(path, a, L, f) /\ Enrich(a, path) = f[L]
  BY <1>2, EnrichGoes
<1> DEFINE E(i) == IF i = 0 THEN a ELSE EnrichBy(path, f[i - 1], scenarios[i])
<1>4. f = [i \in 0..L |-> E(i)]
  BY <1>3, Zenon DEF Goes
<1> HIDE DEF E
<1>5. \A i \in 0..L : f[i] = E(i)
  BY <1>4
<1>6. f[0] = a /\ \A i \in 1..L : f[i] = EnrichBy(path, f[i - 1], scenarios[i])
  BY <1>5 DEF E
<1> DEFINE Good(i) == \/ f[i] = Nothing
                      \/ f[i] = Throws /\ Blamed(address, path)
                      \/ /\ IsAlert(f[i], address)
                         /\ address \in Allowed =>
                              \A j \in 1..i : scenarios[j].name # "allow-list"
           S == {i \in Nat : i <= L => Good(i)}
<1>7. 0 \in S
  BY <1>6
<1>8. ASSUME NEW i \in Nat, i \in S, i + 1 <= L PROVE Good(i + 1)
  <2>1. Good(i)
    BY <1>8
  <2>2. PICK s : s = scenarios[i + 1] /\ i + 1 \in DOMAIN scenarios
    BY <1>1, <1>2, <1>8
  <2>3. PICK b : b = f[i]
    OBVIOUS
  <2>4. f[i + 1] = EnrichBy(path, b, s)
    BY <1>6, <1>8, <2>2, <2>3
  <2>5. CASE b \in {Nothing, Throws}
    <3>1. f[i + 1] = b
      BY <2>4, <2>5, Zenon DEF EnrichBy
    <3>2. CASE b = Nothing
      BY <3>1, <3>2
    <3>3. CASE b # Nothing
      <4>1. b = Throws
        BY <2>5, <3>3
      <4>2. Blamed(address, path)
        BY <2>1, <2>3, <3>3, <4>1 DEF Blamed
      <4> QED
        BY <3>1, <4>1, <4>2
    <3> QED
      BY <3>2, <3>3
  <2>6. CASE b \notin {Nothing, Throws}
    <3>1. /\ IsAlert(b, address)
          /\ address \in Allowed => \A j \in 1..i : scenarios[j].name # "allow-list"
      BY <2>1, <2>3, <2>6
    <3>2. \/ EnrichBy(path, b, s) = Nothing
          \/ /\ EnrichBy(path, b, s) = Throws
             /\ b = Throws \/ path = Throws \/ Unloaded(s)
          \/ /\ IsAlert(EnrichBy(path, b, s), address)
             /\ s.name = "allow-list" => address \notin Allowed
      BY <3>1, EnrichByKeeps
    <3>3. path = Throws \/ Unloaded(s) => Blamed(address, path)
      BY <2>2 DEF Blamed
    <3>4. \A j \in 1..(i + 1) : j \in 1..i \/ j = i + 1
      OBVIOUS
    <3> QED
      BY <2>2, <2>4, <2>6, <3>1, <3>2, <3>3, <3>4
  <2> QED
    BY <2>5, <2>6
<1>9. ASSUME NEW i \in Nat, i \in S PROVE i + 1 \in S
  <2> HIDE DEF Good
  <2> QED
    BY <1>8, <1>9
<1> HIDE DEF S
<1>10. L \in S
  BY <1>7, <1>9, NumberInduction
<1>11. Good(L)
  BY <1>10 DEF S
<1> QED
  BY <1>1, <1>2, <1>3, <1>11

-----------------------------------------------------------------------------
(* Requests                                                                *)

Told(req, what, ip, alerts) ==
  last' = [request |-> req, outcome |-> what, ip |-> ip, alerts |-> alerts]

\* What becomes of a request: nothing is known of it, an enricher throws, or
\* its alerts are pushed.
NothingKnown(req) ==
  \E what \in {"no scenario", "no socket", "no address"} : Told(req, what, Nothing, <<>>)

Known(req) == req.remote # Nothing /\ IpOf(req) # Nothing /\ Remember(req)

Answered(req) == Watched(GetIpObject(IpOf(req).ip), req)

Thrown(req) == \E at \in DOMAIN Answered(req) : Answered(req)[at] = Throws

LEMMA Outcomes ==
  ASSUME NEW req, Request(req)
  PROVE  /\ UNCHANGED startVars
         /\ \/ NothingKnown(req)
            \/ Known(req) /\ Thrown(req) /\ Told(req, "enricher", IpOf(req), <<>>)
            \/ /\ Known(req) /\ ~Thrown(req)
               /\ Told(req, "handled", IpOf(req), Pushed(Answered(req)))
         /\ \/ UNCHANGED chains
            \/ req.remote # Nothing /\ Remember(req)
<1>1. UNCHANGED startVars
  BY DEF Request
<1>2. CASE Extractors = {}
  BY <1>1, <1>2 DEF Request, Outcome, Told, NothingKnown
<1>3. CASE Extractors # {} /\ req.remote = Nothing
  BY <1>1, <1>3 DEF Request, Outcome, Told, NothingKnown
<1>4. CASE Extractors # {} /\ req.remote # Nothing
  <2>1. /\ Remember(req)
        /\ IF IpOf(req) = Nothing THEN Outcome(req, "no address", Nothing, <<>>)
           ELSE IF Thrown(req) THEN Outcome(req, "enricher", IpOf(req), <<>>)
           ELSE Outcome(req, "handled", IpOf(req), Pushed(Answered(req)))
    BY <1>4 DEF Request, Thrown, Answered
  <2>2. CASE IpOf(req) = Nothing
    BY <1>1, <1>4, <2>1, <2>2 DEF Outcome, Told, NothingKnown
  <2>3. CASE IpOf(req) # Nothing
    BY <1>1, <1>4, <2>1, <2>3 DEF Outcome, Told, Known
  <2> QED
    BY <2>2, <2>3
<1> QED
  BY <1>2, <1>3, <1>4

\* Everything but a request forgets the last one.
LEMMA OthersForget ==
  ASSUME Next
  PROVE  last' = Nothing \/ \E req \in Requests : Request(req)
<1>1. ASSUME NEW n \in Call,
             \/ Start(n) \/ AddScenarios(n) \/ ScenariosLoaded(n)
             \/ \E ok \in BOOLEAN :
                  \/ BouncerStarts(n, ok) \/ WatcherLogin(n, ok)
                  \/ \E load \in loading[n] : DatabaseLoads(n, load, ok)
             \/ \E header \in DOMAIN chains[n] : Evict(n, header)
      PROVE  last' = Nothing
  BY <1>1 DEF Start, AddScenarios, ScenariosLoaded, BouncerStarts, WatcherLogin,
              DatabaseLoads, Evict
<1>2. Stop => last' = Nothing
  BY DEF Stop
<1> QED
  BY <1>1, <1>2 DEF Next

\* Who touches the chains.
LEMMA OthersKeepChains ==
  ASSUME Next
  PROVE  \/ UNCHANGED chains
         \/ \E req \in Requests : Request(req)
         \/ \E n \in Call : \E header \in DOMAIN chains[n] : Evict(n, header)
<1>1. ASSUME NEW n \in Call,
             \/ Start(n) \/ AddScenarios(n) \/ ScenariosLoaded(n)
             \/ \E ok \in BOOLEAN :
                  \/ BouncerStarts(n, ok) \/ WatcherLogin(n, ok)
                  \/ \E load \in loading[n] : DatabaseLoads(n, load, ok)
      PROVE  UNCHANGED chains
  BY <1>1 DEF Start, AddScenarios, ScenariosLoaded, BouncerStarts, WatcherLogin,
              DatabaseLoads
<1>2. Stop => UNCHANGED chains
  BY DEF Stop
<1> QED
  BY <1>1, <1>2 DEF Next

LEMMA ChainsStep == TypeOK /\ ChainsInv /\ [Next]_vars => ChainsInv'
<1> SUFFICES ASSUME TypeOK, ChainsInv, [Next]_vars PROVE ChainsInv'
  OBVIOUS
<1>1. CASE UNCHANGED chains
  BY <1>1 DEF ChainsInv
<1>2. ASSUME NEW req \in Requests, req.remote # Nothing, Remember(req) PROVE ChainsInv'
  <2> DEFINE looked(n) == \E i \in Extractors : scenarios[i].call = n
             kept(n) == [h \in DOMAIN chains[n] \cup {req.header} |->
                           IF h = req.header THEN ChainOf(n, req) ELSE chains[n][h]]
  <2>1. chains' = [n \in Call |-> IF looked(n) THEN kept(n) ELSE chains[n]]
    BY <1>2 DEF Remember
  <2>2. ASSUME NEW n \in Call, NEW h \in DOMAIN chains'[n]
        PROVE  \E remote \in Texts : chains'[n][h] = ExtractIps(remote, h)
    <3>1. CASE looked(n)
      <4>1. chains'[n] = kept(n)
        BY <2>1, <3>1
      <4>2. CASE h = req.header
        <5>1. chains'[n][h] = ChainOf(n, req)
          BY <4>1, <4>2, <2>2
        <5> QED
          BY <4>2, <5>1, <1>2, ChainOfRequest
      <4>3. CASE h # req.header
        <5>1. h \in DOMAIN chains[n] /\ chains'[n][h] = chains[n][h]
          BY <4>1, <4>3, <2>2
        <5> QED
          BY <5>1 DEF ChainsInv
      <4> QED
        BY <4>2, <4>3
    <3>2. CASE ~looked(n)
      <4>1. chains'[n] = chains[n]
        BY <2>1, <3>2
      <4> QED
        BY <4>1, <2>2 DEF ChainsInv
    <3> QED
      BY <3>1, <3>2
  <2>3. chains' = [n \in Call |-> chains'[n]]
    <3> HIDE DEF kept, looked
    <3> QED
      BY <2>1
  <2> QED
    BY <2>2, <2>3 DEF ChainsInv
<1>3. ASSUME NEW n \in Call, NEW header \in DOMAIN chains[n], Evict(n, header)
      PROVE  ChainsInv'
  <2>1. chains' = [chains EXCEPT ![n] = [h \in DOMAIN chains[n] \ {header} |-> chains[n][h]]]
    BY <1>3 DEF Evict
  <2>2. chains = [m \in Call |-> chains[m]]
    BY DEF ChainsInv
  <2>3. chains' = [m \in Call |-> IF m = n THEN [h \in DOMAIN chains[n] \ {header} |-> chains[n][h]]
                                  ELSE chains[m]]
    BY <2>1, <2>2
  <2>4. ASSUME NEW m \in Call, NEW h \in DOMAIN chains'[m]
        PROVE  h \in DOMAIN chains[m] /\ chains'[m][h] = chains[m][h]
    BY <2>3, <2>4
  <2>5. chains' = [m \in Call |-> chains'[m]]
    BY <2>3
  <2> QED
    BY <2>4, <2>5 DEF ChainsInv
<1>4. ASSUME NEW req \in Requests, Request(req) PROVE ChainsInv'
  <2>1. UNCHANGED chains \/ (req.remote # Nothing /\ Remember(req))
    BY <1>4, Outcomes, Zenon
  <2> QED
    BY <1>1, <1>2, <2>1
<1>5. CASE UNCHANGED vars
  BY <1>1, <1>5 DEF vars
<1> QED
  BY <1>1, <1>3, <1>4, <1>5, OthersKeepChains

-----------------------------------------------------------------------------
(* The address of a request                                                *)

LEMMA TrustedIsRead ==
  ASSUME NEW t \in Texts
  PROVE  /\ GetAddressObject(t) \in Trusted => Reliable(t)
         /\ GetAddressObject(t) \notin Trusted \cup {Throws} => ~Reliable(t)
<1>1. GetAddressObject(t) # Throws =>
        t # Garbage /\ GetAddressObject(t) = GetIpObject(t)
  BY AddressOfText
<1>2. Throws \notin Trusted
  BY ScenariosAssumption
<1> QED
  BY <1>1, <1>2 DEF Reliable

\* A chain made from the request's own socket tells its visitor.
LEMMA OwnChainTells ==
  ASSUME NEW req, req.remote \in Texts, req.header \in Seq(Texts),
         ExtractIp(ExtractIps(req.remote, req.header)) # Nothing,
         ExtractIp(ExtractIps(req.remote, req.header)).confidence = MaxConfidence
  PROVE  IsVisitor(ExtractIp(ExtractIps(req.remote, req.header)).ip, req)
<1>1. PICK hops : hops = HopsOf(req.remote, req.header)
  OBVIOUS
<1>2. PICK ip : ip = ExtractIp(ExtractIps(req.remote, req.header)).ip
  OBVIOUS
<1>3. hops \in Seq(Texts) /\ Len(hops) \in Nat
  BY <1>1, ChainOfHops DEF Chained
<1>4. ip \in Texts /\ GetAddressObject(ip) # Throws
  BY <1>2, IpOfChain, Zenon
<1>5. PICK i \in 1..Len(hops) :
        /\ ip = hops[i]
        /\ GetAddressObject(ip) \notin Trusted
        /\ \A j \in 1..(i - 1) : GetAddressObject(hops[j]) \in Trusted
  BY <1>1, <1>2, IpOfChain, Zenon
<1>6. ~Reliable(ip)
  BY <1>4, <1>5, TrustedIsRead
<1>7. ASSUME NEW j \in 1..(i - 1) PROVE Reliable(hops[j])
  <2>1. hops[j] \in Texts
    BY <1>3, <1>5
  <2> QED
    BY <1>5, <2>1, TrustedIsRead
<1>8. Hops(req) = hops /\ i \in DOMAIN hops
  BY <1>1, <1>3 DEF Hops, HopsOf
<1>9. IsVisitor(ip, req)
  BY <1>5, <1>6, <1>7, <1>8 DEF IsVisitor
<1> QED
  BY <1>2, <1>9

LEMMA VisitorStep ==
  ASSUME TypeOK, ChainsInv, NEW req \in Requests, Known(req),
         (last.ip)' = IpOf(req), (last.request)' = req
  PROVE  AddressIsVisitor'
<1> SUFFICES ASSUME IpOf(req).confidence = MaxConfidence, OwnChain(req)'
             PROVE  IsVisitor(IpOf(req).ip, req)
  BY Zenon DEF AddressIsVisitor, IsVisitor, Hops
<1>1. /\ req.remote # Nothing /\ IpOf(req) # Nothing /\ Remember(req)
      /\ req.remote \in Texts /\ req.header \in Seq(Texts)
  BY RequestsAssumption DEF Known
<1>2. PICK i \in Extractors : /\ scenarios[i].call \in Call
                              /\ IpOf(req) = ExtractIp(ChainOf(scenarios[i].call, req))
  BY <1>1, IpOfRequest
<1>3. PICK n \in Call : n = scenarios[i].call
  BY <1>2
<1>4. PICK remote \in Texts : ChainOf(n, req) = ExtractIps(remote, req.header)
  BY <1>1, ChainOfRequest
<1>5. req.header \in DOMAIN chains'[n] /\ chains'[n][req.header] = ChainOf(n, req)
  <2>1. \E k \in Extractors : scenarios[k].call = n
    BY <1>2, <1>3
  <2>2. chains'[n] = [h \in DOMAIN chains[n] \cup {req.header} |->
                        IF h = req.header THEN ChainOf(n, req) ELSE chains[n][h]]
    BY <1>1, <2>1 DEF Remember
  <2> QED
    BY <2>2
<1>6. ExtractIps(remote, req.header)[1].ip = req.remote
  <2>1. chains'[n][req.header][1].ip = req.remote
    BY <1>5 DEF OwnChain
  <2> QED
    BY <1>4, <1>5, <2>1
<1>7. ExtractIps(remote, req.header)[1].ip = remote
  BY <1>1, ChainOfHops DEF Chained
<1>8. IpOf(req) = ExtractIp(ExtractIps(req.remote, req.header))
  BY <1>2, <1>3, <1>4, <1>6, <1>7
<1> QED
  BY <1>1, <1>8, OwnChainTells

LEMMA ChainsKept == Spec => []ChainsInv
<1>1. Init => ChainsInv
  BY DEF Init, ChainsInv, NoChain
<1> QED
  BY <1>1, ChainsStep, TypeCorrect, PTL DEF Spec

\* Whatever scenarios are registered, twice or by a call that failed, and whatever
\* chains were kept of other requests: an address told with full confidence is
\* the nearest hop that is no trusted proxy (extractIp, extractIps), unless
\* the chain of another socket was kept for the same header.
THEOREM AddressCorrect == Spec => []AddressIsVisitor
<1>1. Init => AddressIsVisitor
  BY DEF Init, AddressIsVisitor
<1>2. TypeOK /\ ChainsInv /\ AddressIsVisitor /\ [Next]_vars => AddressIsVisitor'
  <2> SUFFICES ASSUME TypeOK, ChainsInv, AddressIsVisitor, [Next]_vars
               PROVE  AddressIsVisitor'
    OBVIOUS
  <2>2. CASE UNCHANGED vars
    <3>1. last' = last /\ chains' = chains
      BY <2>2 DEF vars
    <3> QED
      BY <3>1 DEF AddressIsVisitor, OwnChain, IsVisitor, Hops
  <2>3. ASSUME NEW req \in Requests, Request(req) PROVE AddressIsVisitor'
    <3>1. CASE NothingKnown(req)
      <4>1. PICK what : Told(req, what, Nothing, <<>>)
        BY <3>1 DEF NothingKnown
      <4>2. (last.ip)' = Nothing
        BY <4>1 DEF Told
      <4> QED
        BY <4>2 DEF AddressIsVisitor
    <3>2. CASE Known(req) /\ \E what, alerts : Told(req, what, IpOf(req), alerts)
      <4>1. (last.ip)' = IpOf(req) /\ (last.request)' = req
        BY <3>2 DEF Told
      <4> QED
        BY <3>2, <4>1, VisitorStep
    <3> QED
      BY <2>3, <3>1, <3>2, Outcomes, Zenon
  <2>4. CASE last' = Nothing
    BY <2>4 DEF AddressIsVisitor
  <2> QED
    BY <2>2, <2>3, <2>4, OthersForget
<1> QED
  BY <1>1, <1>2, TypeCorrect, ChainsKept, PTL DEF Spec

-----------------------------------------------------------------------------
(* Registering scenarios                                                   *)

LEMMA OthersKeepScenarios ==
  ASSUME Next
  PROVE  UNCHANGED <<scenarios, announced>> \/ \E n \in Call : AddScenarios(n)
<1>1. ASSUME NEW n \in Call,
             \/ Start(n) \/ ScenariosLoaded(n)
             \/ \E ok \in BOOLEAN :
                  \/ BouncerStarts(n, ok) \/ WatcherLogin(n, ok)
                  \/ \E load \in loading[n] : DatabaseLoads(n, load, ok)
             \/ \E header \in DOMAIN chains[n] : Evict(n, header)
      PROVE  UNCHANGED <<scenarios, announced>>
  BY <1>1 DEF Start, ScenariosLoaded, BouncerStarts, WatcherLogin, DatabaseLoads, Evict,
              startVars
<1>2. ASSUME Stop \/ \E req \in Requests : Request(req)
      PROVE  UNCHANGED <<scenarios, announced>>
  BY <1>2 DEF Stop, Request, startVars
<1> QED
  BY <1>1, <1>2 DEF Next

\* A call registers the list of scenarios, or as much of it as can be made.
LEMMA Registers ==
  ASSUME NEW n \in Call, AddScenarios(n)
  PROVE  \E k \in 0..Len(ScenarioList) : Added(n, SubSeq(ScenarioList, 1, k))
<1>1. ScenarioList \in Seq(Names) /\ Len(ScenarioList) \in Nat
  BY HTTPAssumption
<1>2. SubSeq(ScenarioList, 1, Len(ScenarioList)) = ScenarioList
  BY <1>1
<1>3. ASSUME NEW i \in DOMAIN ScenarioList PROVE i - 1 \in 0..Len(ScenarioList)
  BY <1>1
<1>4. \/ Added(n, ScenarioList)
      \/ \E i \in DOMAIN ScenarioList : Added(n, SubSeq(ScenarioList, 1, i - 1))
  BY Zenon DEF AddScenarios, Added
<1>5. Len(ScenarioList) \in 0..Len(ScenarioList)
  BY <1>1
<1> QED
  BY <1>2, <1>3, <1>4, <1>5

LEMMA Concatenated ==
  ASSUME NEW S, NEW s \in Seq(S), NEW t \in Seq(S)
  PROVE  /\ DOMAIN (s \o t) = 1..(Len(s) + Len(t))
         /\ \A i \in 1..Len(s) : (s \o t)[i] = s[i]
         /\ \A i \in 1..Len(t) : (s \o t)[Len(s) + i] = t[i]
OBVIOUS

\* What lies beyond the first l of l + k places.
LEMMA Beyond ==
  ASSUME NEW l \in Nat, NEW k \in Nat, NEW i \in 1..(l + k), i > l
  PROVE  i - l \in 1..k /\ i = l + (i - l)
OBVIOUS

\* Where they go.
LEMMA AddedPlaces ==
  ASSUME TypeOK, NEW n \in Call, NEW k \in 0..Len(ScenarioList),
         Added(n, SubSeq(ScenarioList, 1, k))
  PROVE  /\ Len(scenarios) \in Nat /\ DOMAIN scenarios = 1..Len(scenarios)
         /\ DOMAIN scenarios' = 1..(Len(scenarios) + k)
         /\ \A i \in 1..Len(scenarios) : scenarios'[i] = scenarios[i]
         /\ \A i \in 1..k : /\ i \in DOMAIN ScenarioList
                            /\ scenarios'[Len(scenarios) + i].name = ScenarioList[i]
                            /\ scenarios'[Len(scenarios) + i].call = n
<1> DEFINE names == SubSeq(ScenarioList, 1, k)
           more == [i \in DOMAIN names |-> [name |-> names[i], call |-> n]]
<1>1. ScenarioList \in Seq(Names) /\ Len(ScenarioList) \in Nat
  BY HTTPAssumption
<1>2. /\ names \in Seq(Names) /\ Len(names) = k /\ k \in Nat
      /\ \A i \in 1..k : names[i] = ScenarioList[i] /\ i \in DOMAIN ScenarioList
  BY <1>1
<1>3. scenarios \in Seq(Instance) /\ scenarios' = scenarios \o more
  BY DEF TypeOK, Added
<1> HIDE DEF names
<1>4. /\ more \in Seq(Instance) /\ Len(more) = k
      /\ \A i \in 1..k : more[i].name = ScenarioList[i] /\ more[i].call = n
  <2>1. \A i \in 1..k : [name |-> names[i], call |-> n] \in Instance
    BY <1>2 DEF Instance
  <2>2. more = [i \in 1..k |-> [name |-> names[i], call |-> n]]
    BY <1>2
  <2> QED
    BY <1>2, <2>1, <2>2
<1> HIDE DEF more
<1>5. DOMAIN scenarios' = 1..(Len(scenarios) + k)
  BY <1>3, <1>4, Concatenated
<1>6. /\ \A i \in 1..Len(scenarios) : scenarios'[i] = scenarios[i]
      /\ \A i \in 1..k : scenarios'[Len(scenarios) + i] = more[i]
  BY <1>3, <1>4, Concatenated
<1> QED
  BY <1>2, <1>3, <1>4, <1>5, <1>6

-----------------------------------------------------------------------------
(* The alerts of a request                                                 *)

\* The address that is checked is one that could be read, and not that of a
\* trusted proxy if it is certain.
LEMMA AddressIsRead ==
  ASSUME TypeOK, ChainsInv, NEW req \in Requests, Known(req)
  PROVE  /\ GetIpObject(IpOf(req).ip) \in Addresses
         /\ GetIpObject(IpOf(req).ip) \in Trusted => IpOf(req).confidence = 1
<1>1. req.remote # Nothing /\ IpOf(req) # Nothing /\ req.header \in Seq(Texts)
  BY RequestsAssumption DEF Known
<1>2. PICK i \in Extractors : /\ scenarios[i].call \in Call
                              /\ IpOf(req) = ExtractIp(ChainOf(scenarios[i].call, req))
  BY <1>1, IpOfRequest
<1>3. PICK remote \in Texts :
        ChainOf(scenarios[i].call, req) = ExtractIps(remote, req.header)
  BY <1>1, <1>2, ChainOfRequest
<1>4. ExtractIp(ExtractIps(remote, req.header)) # Nothing
  BY <1>1, <1>2, <1>3
<1>5. PICK e : /\ e = ExtractIp(ExtractIps(remote, req.header))
               /\ e.ip \in Texts /\ GetAddressObject(e.ip) # Throws
               /\ e.confidence \in {1, MaxConfidence}
               /\ e.confidence = MaxConfidence => GetAddressObject(e.ip) \notin Trusted
  BY <1>1, <1>4, IpOfChain, ZenonT(40)
<1>6. IpOf(req) = e
  BY <1>2, <1>3, <1>5
<1>7. GetAddressObject(e.ip) = GetIpObject(e.ip) /\ GetIpObject(e.ip) \in Addresses
  BY <1>5, AddressOfText
<1> QED
  BY <1>5, <1>6, <1>7

\* What becomes of each alert of a request.
LEMMA AnsweredIs ==
  ASSUME TypeOK, ChainsInv, NEW req \in Requests, Known(req), NEW at \in DOMAIN Answered(req)
  PROVE  LET address == GetIpObject(IpOf(req).ip)
             alert == Answered(req)[at]
         IN  /\ \E i \in Extractors : at = <<i, 1>>
             /\ \/ alert = Nothing
                \/ alert = Throws /\ Blamed(address, req.path)
                \/ /\ IsAlert(alert, address)
                   /\ address \in Allowed =>
                        \A i \in DOMAIN scenarios : scenarios[i].name # "allow-list"
<1> DEFINE address == GetIpObject(IpOf(req).ip)
<1>1. address \in Addresses /\ address # Nothing
  BY AddressIsRead, ScenariosAssumption
<1> HIDE DEF address
<1>2. /\ DOMAIN Answered(req) = DOMAIN Alerts(address, req)
      /\ Answered(req)[at] = Enrich(Alerts(address, req)[at], req.path)
  BY DEF Answered, Watched, address
<1>3. (\E i \in Extractors : at = <<i, 1>>) /\ Alerts(address, req)[at] = GenerateAlert(address)
  BY <1>2, AlertsAre
<1>4. IsAlert(GenerateAlert(address), address)
  BY DEF IsAlert, GenerateAlert
<1>5. PICK e : e = Enrich(GenerateAlert(address), req.path)
  OBVIOUS
<1>6. \/ e = Nothing
      \/ e = Throws /\ Blamed(address, req.path)
      \/ /\ IsAlert(e, address)
         /\ address \in Allowed =>
              \A i \in DOMAIN scenarios : scenarios[i].name # "allow-list"
  BY <1>1, <1>4, <1>5, EnrichKeeps, Zenon
<1>7. Answered(req)[at] = e
  BY <1>2, <1>3, <1>5
<1> QED
  BY <1>3, <1>6, <1>7, Zenon DEF address

\* A checker is registered with an allow list, whatever fails.
ListedInv ==
  Extractors # {} => \E i \in DOMAIN scenarios : scenarios[i].name = "allow-list"

LEMMA ListedStep ==
  ASSUME \A i \in DOMAIN ScenarioList : ScenarioList[i] = "x-forwarded-for"
           => \E j \in 1..(i - 1) : ScenarioList[j] = "allow-list",
         TypeOK, ListedInv, [Next]_vars
  PROVE  ListedInv'
<1>1. CASE UNCHANGED scenarios
  BY <1>1 DEF ListedInv, Extractors
<1>2. ASSUME NEW n \in Call, AddScenarios(n), Extractors' # {}
      PROVE  \E i \in DOMAIN scenarios' : scenarios'[i].name = "allow-list"
  <2>1. PICK k \in 0..Len(ScenarioList) : Added(n, SubSeq(ScenarioList, 1, k))
    BY <1>2, Registers
  <2>2. /\ Len(scenarios) \in Nat /\ DOMAIN scenarios = 1..Len(scenarios)
        /\ DOMAIN scenarios' = 1..(Len(scenarios) + k)
        /\ \A i \in 1..Len(scenarios) : scenarios'[i] = scenarios[i]
        /\ \A i \in 1..k : /\ i \in DOMAIN ScenarioList
                           /\ scenarios'[Len(scenarios) + i].name = ScenarioList[i]
    BY <2>1, AddedPlaces
  <2>3. k \in Nat
    BY HTTPAssumption, <2>1
  <2>4. PICK i \in DOMAIN scenarios' : scenarios'[i].name = "x-forwarded-for"
    BY <1>2 DEF Extractors
  <2>5. CASE i <= Len(scenarios)
    <3>1. i \in DOMAIN scenarios /\ scenarios[i].name = "x-forwarded-for"
      BY <2>2, <2>4, <2>5
    <3>2. PICK j \in DOMAIN scenarios : scenarios[j].name = "allow-list"
      BY <3>1 DEF ListedInv, Extractors
    <3> QED
      BY <2>2, <2>3, <3>2
  <2>6. CASE i > Len(scenarios)
    <3>1. PICK m \in 1..k : i = Len(scenarios) + m
      <4>1. i - Len(scenarios) \in 1..k /\ i = Len(scenarios) + (i - Len(scenarios))
        BY <2>2, <2>3, <2>4, <2>6, Beyond
      <4> QED
        BY <4>1
    <3>2. m \in DOMAIN ScenarioList /\ ScenarioList[m] = "x-forwarded-for"
      BY <2>2, <2>4, <3>1
    <3>3. PICK j \in 1..(m - 1) : ScenarioList[j] = "allow-list"
      BY <3>2
    <3>4. j \in 1..k /\ Len(scenarios) + j \in DOMAIN scenarios'
      BY <2>2, <2>3, <3>1, <3>3
    <3> QED
      BY <2>2, <3>3, <3>4
  <2> QED
    BY <2>2, <2>3, <2>4, <2>5, <2>6
<1>3. CASE UNCHANGED vars
  BY <1>1, <1>3 DEF vars, startVars
<1> QED
  BY <1>1, <1>2, <1>3, OthersKeepScenarios DEF ListedInv

\* What the properties of a request need of the one before: nothing.
LEMMA LastIs ==
  ASSUME [Next]_vars
  PROVE  \/ UNCHANGED <<last, result, scenarios, announced, loaded>>
         \/ last' = Nothing
         \/ \E req \in Requests :
              /\ UNCHANGED startVars
              /\ \/ NothingKnown(req)
                 \/ Known(req) /\ Thrown(req) /\ Told(req, "enricher", IpOf(req), <<>>)
                 \/ /\ Known(req) /\ ~Thrown(req)
                    /\ Told(req, "handled", IpOf(req), Pushed(Answered(req)))
<1>1. CASE UNCHANGED vars
  BY <1>1 DEF vars, startVars
<1>2. ASSUME NEW req \in Requests, Request(req)
      PROVE  /\ UNCHANGED startVars
             /\ \/ NothingKnown(req)
                \/ Known(req) /\ Thrown(req) /\ Told(req, "enricher", IpOf(req), <<>>)
                \/ /\ Known(req) /\ ~Thrown(req)
                   /\ Told(req, "handled", IpOf(req), Pushed(Answered(req)))
  BY <1>2, Outcomes, Zenon
<1> QED
  BY <1>1, <1>2, OthersForget

LEMMA PushedIs ==
  ASSUME NEW enriched, NEW at \in DOMAIN Pushed(enriched)
  PROVE  at \in DOMAIN enriched /\ Pushed(enriched)[at] = enriched[at] /\ enriched[at] # Nothing
BY DEF Pushed

LEMMA SparedStep ==
  ASSUME TypeOK, ChainsInv, ListedInv, AlertsSpareFriends, [Next]_vars
  PROVE  AlertsSpareFriends'
<1>1. CASE UNCHANGED last \/ last' = Nothing
  BY <1>1 DEF AlertsSpareFriends
<1>2. ASSUME NEW req \in Requests, NEW what, NEW ip, Told(req, what, ip, <<>>)
      PROVE  AlertsSpareFriends'
  <2>1. (last.alerts)' = <<>>
    BY <1>2 DEF Told
  <2> QED
    BY <2>1 DEF AlertsSpareFriends
<1>3. ASSUME NEW req \in Requests, Known(req), ~Thrown(req),
             Told(req, "handled", IpOf(req), Pushed(Answered(req)))
      PROVE  AlertsSpareFriends'
  <2>1. (last.alerts)' = Pushed(Answered(req)) /\ (last.ip)' = IpOf(req)
    BY <1>3 DEF Told
  <2>2. ASSUME NEW at \in DOMAIN Pushed(Answered(req))
        PROVE  /\ Pushed(Answered(req))[at].ip \notin Allowed
               /\ Pushed(Answered(req))[at].ip \in Trusted => IpOf(req).confidence = 1
    <3>1. PICK alert : alert = Answered(req)[at]
      OBVIOUS
    <3>2. at \in DOMAIN Answered(req) /\ Pushed(Answered(req))[at] = alert /\ alert # Nothing
      BY <3>1, PushedIs
    <3>3. alert # Throws
      BY <1>3, <3>1, <3>2 DEF Thrown
    <3>4. PICK address : address = GetIpObject(IpOf(req).ip)
      OBVIOUS
    <3>5. /\ \E i \in Extractors : at = <<i, 1>>
          /\ alert.ip = address
          /\ address \in Allowed =>
               \A i \in DOMAIN scenarios : scenarios[i].name # "allow-list"
      BY <1>3, <3>1, <3>2, <3>3, <3>4, AnsweredIs DEF IsAlert
    <3>6. address \notin Allowed
      BY <3>5 DEF ListedInv
    <3>7. address \in Trusted => IpOf(req).confidence = 1
      BY <1>3, <3>4, AddressIsRead
    <3> QED
      BY <3>2, <3>5, <3>6, <3>7
  <2> QED
    BY <2>1, <2>2 DEF AlertsSpareFriends
<1> QED
  BY <1>1, <1>2, <1>3, LastIs DEF NothingKnown

\* Enrichers: as long as the allow list comes before the checkers in the list of
\* scenarios, as it does by default, no alert about a friend is pushed,
\* whatever is registered twice, fails half-way or was kept of other requests.
THEOREM FriendsSpared ==
  ASSUME \A i \in DOMAIN ScenarioList : ScenarioList[i] = "x-forwarded-for"
           => \E j \in 1..(i - 1) : ScenarioList[j] = "allow-list"
  PROVE  Spec => []AlertsSpareFriends
<1>1. Init => ListedInv /\ AlertsSpareFriends
  <2> SUFFICES ASSUME Init PROVE ListedInv /\ AlertsSpareFriends
    OBVIOUS
  <2>1. scenarios = <<>> /\ last = Nothing
    BY DEF Init
  <2> QED
    BY <2>1 DEF ListedInv, Extractors, AlertsSpareFriends
<1>2. TypeOK /\ ChainsInv /\ ListedInv /\ AlertsSpareFriends /\ [Next]_vars
        => ListedInv' /\ AlertsSpareFriends'
  BY ListedStep, SparedStep
<1> QED
  BY <1>1, <1>2, TypeCorrect, ChainsKept, PTL DEF Spec

-----------------------------------------------------------------------------
(* One call of start()                                                     *)

OneCall == \A n \in Call : result[n] # "none" => n = 1

\* What is under way for a call, or registered by it, was asked for.
CalledInv ==
  /\ \A n \in Call : watcher[n] # "none" \/ loading[n] # {} => result[n] # "none"
  /\ \A i \in DOMAIN scenarios : result[scenarios[i].call] # "none"

Fresh == \A n \in Call : watcher[n] \in {"none", "import"}

\* A single call registers and announces its list once.
OnceInv ==
  OneCall =>
    /\ Fresh => scenarios = <<>> /\ announced = <<>>
    /\ \A i, j \in Extractors : i = j
    /\ IsInjective(announced)

LEMMA SettledNone ==
  ASSUME NEW n \in Call, NEW b, NEW w
  PROVE  Settled(n, b, w) = "none" <=> result[n] = "none"
BY DEF Settled

\* Calls go on from where they are: what is said of a call of start() by this.
GoesOn ==
  /\ \A n \in Call : result'[n] = "none" => result[n] = "none"
  /\ \A n \in Call : watcher'[n] # "none" \/ loading'[n] # {} => result'[n] # "none"
  /\ Fresh' => Fresh

LEMMA CallsGoOn ==
  ASSUME TypeOK, CalledInv, [Next]_vars
  PROVE  GoesOn
<1> USE DEF TypeOK, CalledInv, GoesOn
<1>1. CASE UNCHANGED <<result, watcher, loading>>
  BY <1>1 DEF Fresh
<1>2. ASSUME NEW n \in Call, Start(n) PROVE GoesOn
  <2>1. /\ result[n] = "none" /\ result' = [result EXCEPT ![n] = "pending"]
        /\ watcher' = [watcher EXCEPT ![n] = "import"] /\ loading' = loading
    BY <1>2 DEF Start
  <2>2. watcher[n] = "none"
    BY <2>1
  <2> QED
    BY <2>1, <2>2 DEF Fresh
<1>3. ASSUME NEW n \in Call, NEW ok \in BOOLEAN, BouncerStarts(n, ok) PROVE GoesOn
  <2>1. /\ result' = [result EXCEPT ![n] = Settled(n, bouncer'[n], watcher[n])]
        /\ watcher' = watcher /\ loading' = loading
    BY <1>3 DEF BouncerStarts
  <2>2. \A m \in Call : result'[m] = "none" <=> result[m] = "none"
    BY <2>1, SettledNone
  <2> QED
    BY <2>1, <2>2 DEF Fresh
<1>4. ASSUME NEW n \in Call, WatcherFails(n), result[n] # "none",
             \A m \in Call : loading'[m] # {} => loading[m] # {} \/ m = n
      PROVE  GoesOn
  <2>1. /\ result' = [result EXCEPT ![n] = Settled(n, bouncer[n], "failed")]
        /\ watcher' = [watcher EXCEPT ![n] = "failed"]
    BY <1>4 DEF WatcherFails
  <2>2. \A m \in Call : result'[m] = "none" <=> result[m] = "none"
    BY <2>1, SettledNone
  <2>3. ~Fresh'
    BY <2>1 DEF Fresh
  <2> QED
    BY <1>4, <2>1, <2>2, <2>3
<1>5. ASSUME NEW n \in Call, AddScenarios(n) PROVE GoesOn
  <2>1. watcher[n] = "import" /\ result[n] # "none"
    BY <1>5 DEF AddScenarios
  <2>2. CASE WatcherFails(n) /\ UNCHANGED loading
    BY <1>4, <2>1, <2>2
  <2>3. CASE /\ watcher' = [watcher EXCEPT ![n] = "load"]
             /\ UNCHANGED result
             /\ \E new : loading' = [loading EXCEPT ![n] = new]
    BY <2>1, <2>3 DEF Fresh
  <2> QED
    BY <1>5, <2>2, <2>3, Zenon DEF AddScenarios
<1>6. ASSUME NEW n \in Call, NEW ok \in BOOLEAN, NEW load \in loading[n],
             DatabaseLoads(n, load, ok)
      PROVE  GoesOn
  <2>1. result[n] # "none" /\ loading' = [loading EXCEPT ![n] = @ \ {load}]
    BY <1>6 DEF DatabaseLoads
  <2>2. \A m \in Call : loading'[m] # {} => loading[m] # {}
    BY <2>1
  <2>3. CASE WatcherFails(n)
    BY <1>4, <2>1, <2>2, <2>3
  <2>4. CASE UNCHANGED <<watcher, result>>
    BY <2>1, <2>2, <2>4 DEF Fresh
  <2> QED
    BY <1>6, <2>3, <2>4 DEF DatabaseLoads
<1>7. ASSUME NEW n \in Call, ScenariosLoaded(n) PROVE GoesOn
  BY <1>7 DEF ScenariosLoaded, Fresh
<1>8. ASSUME NEW n \in Call, NEW ok \in BOOLEAN, WatcherLogin(n, ok) PROVE GoesOn
  <2>1. watcher[n] = "login" /\ result[n] # "none" /\ loading' = loading
    BY <1>8 DEF WatcherLogin
  <2>2. CASE WatcherFails(n)
    BY <1>4, <2>1, <2>2
  <2>3. CASE /\ watcher' = [watcher EXCEPT ![n] = "up"]
             /\ result' = [result EXCEPT ![n] = Settled(n, bouncer[n], "up")]
    <3>1. \A m \in Call : result'[m] = "none" <=> result[m] = "none"
      BY <2>3, SettledNone
    <3> QED
      BY <2>1, <2>3, <3>1 DEF Fresh
  <2> QED
    BY <1>8, <2>2, <2>3 DEF WatcherLogin
<1>9. ASSUME \/ Stop \/ UNCHANGED vars
             \/ \E req \in Requests : Request(req)
             \/ \E n \in Call : \E header \in DOMAIN chains[n] : Evict(n, header)
      PROVE  UNCHANGED <<result, watcher, loading>>
  BY <1>9 DEF Stop, Request, Evict, vars, startVars
<1> QED
  BY <1>1, <1>2, <1>3, <1>5, <1>6, <1>7, <1>8, <1>9 DEF Next

\* A list with at most one checker is announced at most once.
LEMMA AnnouncedOnce ==
  ASSUME NEW names, \A i, j \in Checkers(names) : i = j
  PROVE  AddScenario(names) = <<>> \/ AddScenario(names) = [i \in 1..1 |-> "x-forwarded-for"]
<1>1. CASE Checkers(names) = {}
  <2>1. Cardinality(Checkers(names)) = 0
    BY <1>1, FS_EmptySet
  <2>2. AddScenario(names) = [i \in 1..0 |-> "x-forwarded-for"]
    BY <2>1 DEF AddScenario
  <2> QED
    BY <2>2
<1>2. CASE Checkers(names) # {}
  <2>1. PICK c : Checkers(names) = {c}
    BY <1>2
  <2>2. Cardinality(Checkers(names)) = 1
    BY <2>1, FS_Singleton
  <2> QED
    BY <2>2 DEF AddScenario
<1> QED
  BY <1>1, <1>2

LEMMA CalledStep ==
  ASSUME TypeOK, CalledInv, [Next]_vars
  PROVE  CalledInv'
<1>1. GoesOn
  BY CallsGoOn
<1>2. \A n \in Call : watcher'[n] # "none" \/ loading'[n] # {} => result'[n] # "none"
  BY <1>1 DEF GoesOn
<1>3. CASE UNCHANGED scenarios
  <2>1. \A i \in DOMAIN scenarios : scenarios[i].call \in Call
    BY Places
  <2> QED
    BY <1>1, <1>2, <1>3, <2>1 DEF CalledInv, GoesOn
<1>4. ASSUME NEW n \in Call, AddScenarios(n) PROVE CalledInv'
  <2>1. PICK k \in 0..Len(ScenarioList) : Added(n, SubSeq(ScenarioList, 1, k))
    BY <1>4, Registers
  <2>2. /\ Len(scenarios) \in Nat /\ DOMAIN scenarios = 1..Len(scenarios)
        /\ DOMAIN scenarios' = 1..(Len(scenarios) + k)
        /\ \A i \in 1..Len(scenarios) : scenarios'[i] = scenarios[i]
        /\ \A i \in 1..k : scenarios'[Len(scenarios) + i].call = n
    BY <2>1, AddedPlaces
  <2>3. k \in Nat
    BY HTTPAssumption, <2>1
  <2>4. result[n] # "none"
    BY <1>4 DEF AddScenarios, CalledInv
  <2>5. ASSUME NEW i \in DOMAIN scenarios' PROVE result'[scenarios'[i].call] # "none"
    <3>1. CASE i <= Len(scenarios)
      <4>1. /\ i \in DOMAIN scenarios /\ scenarios'[i] = scenarios[i]
            /\ scenarios[i].call \in Call
        BY <2>2, <2>5, <3>1, Places
      <4> QED
        BY <1>1, <4>1 DEF CalledInv, GoesOn
    <3>2. CASE i > Len(scenarios)
      <4>1. i - Len(scenarios) \in 1..k /\ i = Len(scenarios) + (i - Len(scenarios))
        BY <2>2, <2>3, <2>5, <3>2, Beyond
      <4>2. scenarios'[i].call = n
        BY <2>2, <4>1
      <4> QED
        BY <1>1, <2>4, <4>2 DEF GoesOn
    <3> QED
      BY <2>2, <2>3, <2>5, <3>1, <3>2
  <2> QED
    BY <1>2, <2>5 DEF CalledInv
<1>5. CASE UNCHANGED vars
  BY <1>3, <1>5 DEF vars, startVars
<1> QED
  BY <1>3, <1>4, <1>5, OthersKeepScenarios

LEMMA OnceStep ==
  ASSUME \A i, j \in DOMAIN ScenarioList :
           ScenarioList[i] = "x-forwarded-for" /\ ScenarioList[j] = "x-forwarded-for" => i = j,
         TypeOK, CalledInv, OnceInv, [Next]_vars
  PROVE  OnceInv'
<1> SUFFICES ASSUME OneCall' PROVE OnceInv'
  BY DEF OnceInv
<1>1. GoesOn
  BY CallsGoOn
<1>2. OneCall
  BY <1>1 DEF OneCall, GoesOn
<1>3. CASE UNCHANGED <<scenarios, announced>>
  BY <1>1, <1>2, <1>3 DEF OnceInv, GoesOn, Extractors
<1>4. ASSUME NEW n \in Call, AddScenarios(n) PROVE OnceInv'
  <2>1. watcher[n] = "import" /\ watcher'[n] \notin {"none", "import"}
    BY <1>4 DEF AddScenarios, WatcherFails, TypeOK
  <2>2. n = 1
    BY <1>2, <2>1 DEF CalledInv, OneCall
  <2>3. ASSUME NEW m \in Call PROVE watcher[m] \in {"none", "import"}
    <3>1. m = n \/ result[m] = "none"
      BY <1>2, <2>2 DEF OneCall
    <3> QED
      BY <2>1, <3>1 DEF CalledInv
  <2>4. Fresh
    BY <2>3 DEF Fresh
  <2>5. scenarios = <<>> /\ announced = <<>>
    BY <1>2, <2>4 DEF OnceInv
  <2>6. PICK k \in 0..Len(ScenarioList) : Added(n, SubSeq(ScenarioList, 1, k))
    BY <1>4, Registers
  <2>7. /\ DOMAIN scenarios' = 1..(Len(scenarios) + k)
        /\ \A i \in 1..k : /\ i \in DOMAIN ScenarioList
                           /\ scenarios'[Len(scenarios) + i].name = ScenarioList[i]
    BY <2>6, AddedPlaces
  <2>8. k \in Nat /\ ScenarioList \in Seq(Names)
    BY HTTPAssumption, <2>6
  <2>9. /\ DOMAIN scenarios' = 1..k
        /\ \A i \in 1..k : i \in DOMAIN ScenarioList /\ scenarios'[i].name = ScenarioList[i]
    BY <2>5, <2>7, <2>8
  <2>10. \A i, j \in Extractors' : i = j
    BY <2>9 DEF Extractors
  <2>11. PICK names : names = SubSeq(ScenarioList, 1, k)
    OBVIOUS
  <2>12. \A i \in DOMAIN names : i \in DOMAIN ScenarioList /\ names[i] = ScenarioList[i]
    BY <2>8, <2>11, HTTPAssumption
  <2>13. \A i, j \in Checkers(names) : i = j
    BY <2>12 DEF Checkers
  <2>14. PICK a : a = AddScenario(names)
    OBVIOUS
  <2>15. announced' = <<>> \o a
    BY <2>5, <2>6, <2>11, <2>14 DEF Added
  <2>16. a = <<>> \/ a = [i \in 1..1 |-> "x-forwarded-for"]
    BY <2>13, <2>14, AnnouncedOnce
  <2>17. announced' = a
    BY <2>15, <2>16
  <2>18. IsInjective(announced')
    BY <2>16, <2>17 DEF IsInjective
  <2>19. ~Fresh'
    BY <2>1 DEF Fresh
  <2> QED
    BY <2>10, <2>18, <2>19 DEF OnceInv
<1>5. CASE UNCHANGED vars
  BY <1>3, <1>5 DEF vars, startVars
<1> QED
  BY <1>3, <1>4, <1>5, OthersKeepScenarios

LEMMA ReportedStep ==
  ASSUME TypeOK, ChainsInv, CalledInv, OnceInv, OnceInv', ReportedOnce, [Next]_vars
  PROVE  ReportedOnce'
<1> SUFFICES ASSUME OneCall' PROVE ReportedOnce'
  BY DEF ReportedOnce, OneCall
<1>1. GoesOn
  BY CallsGoOn
<1>2. OneCall
  BY <1>1 DEF OneCall, GoesOn
<1>3. IsInjective(announced')
  BY DEF OnceInv
<1>4. CASE UNCHANGED last \/ last' = Nothing
  BY <1>2, <1>3, <1>4 DEF ReportedOnce, OneCall
<1>5. ASSUME NEW req \in Requests, NEW what, NEW ip, Told(req, what, ip, <<>>)
      PROVE  ReportedOnce'
  <2>1. (last.alerts)' = <<>>
    BY <1>5 DEF Told
  <2> QED
    BY <1>3, <2>1 DEF ReportedOnce
<1>6. ASSUME NEW req \in Requests, Known(req),
             Told(req, "handled", IpOf(req), Pushed(Answered(req)))
      PROVE  ReportedOnce'
  <2>1. (last.alerts)' = Pushed(Answered(req))
    BY <1>6 DEF Told
  <2>2. ASSUME NEW at \in DOMAIN Pushed(Answered(req))
        PROVE  \E i \in Extractors : at = <<i, 1>>
    <3>1. at \in DOMAIN Answered(req)
      BY <2>2, PushedIs
    <3> QED
      BY <1>6, <3>1, AnsweredIs
  <2>3. \A i, j \in Extractors : i = j
    BY <1>2 DEF OnceInv
  <2>4. \A a, b \in DOMAIN Pushed(Answered(req)) : a = b
    BY <2>2, <2>3
  <2> QED
    BY <1>3, <2>1, <2>4 DEF ReportedOnce
<1> QED
  BY <1>4, <1>5, <1>6, LastIs DEF NothingKnown

LEMMA CalledKept == Spec => []CalledInv
<1>1. Init => CalledInv
  BY DEF Init, CalledInv
<1> QED
  BY <1>1, CalledStep, TypeCorrect, PTL DEF Spec

\* Registration: with one checker in the list of scenarios, as by default, and
\* one call of start(), however far it came, a request is reported at most once,
\* and the LAPI is told of the checker at most once.
THEOREM VisitsReportedOnce ==
  ASSUME \A i, j \in DOMAIN ScenarioList :
           ScenarioList[i] = "x-forwarded-for" /\ ScenarioList[j] = "x-forwarded-for" => i = j
  PROVE  Spec => []ReportedOnce
<1>1. Init => OnceInv /\ ReportedOnce
  <2> SUFFICES ASSUME Init PROVE OnceInv /\ ReportedOnce
    OBVIOUS
  <2>1. scenarios = <<>> /\ announced = <<>> /\ last = Nothing
    BY DEF Init
  <2> QED
    BY <2>1 DEF OnceInv, Extractors, ReportedOnce, IsInjective
<1>2. TypeOK /\ ChainsInv /\ CalledInv /\ OnceInv /\ ReportedOnce /\ [Next]_vars
        => OnceInv' /\ ReportedOnce'
  BY OnceStep, ReportedStep
<1> QED
  BY <1>1, <1>2, TypeCorrect, ChainsKept, CalledKept, PTL DEF Spec

-----------------------------------------------------------------------------
(* Requests that throw                                                     *)

\* Enrichers: a request throws only when its own path does or a database is
\* missing, and after a start() that resolved none of its databases is.
\* Throws is what an enricher gives when it throws: no alert, so nothing with an
\* address.
THEOREM ThrowsExplained ==
  ASSUME "ip" \notin DOMAIN Throws, MaxMindPaths # {}
  PROVE  Spec => ThrowsOnlyUnready
<1> DEFINE Explained ==
      last' \notin {last, Nothing} /\ last'.outcome = "enricher"
        => \/ last'.request.path = Throws
           \/ \E n \in Call : result[n] \in {"pending", "rejected"}
<1>1. ASSUME TypeOK, ChainsInv, CalledInv, StartedIsReady, [Next]_vars
      PROVE  Explained
  <2> SUFFICES ASSUME last' \notin {last, Nothing}, (last.outcome)' = "enricher"
               PROVE  \/ (last.request.path)' = Throws
                      \/ \E n \in Call : result[n] \in {"pending", "rejected"}
    OBVIOUS
  <2>1. PICK req \in Requests : Known(req) /\ Thrown(req) /\ Told(req, "enricher", IpOf(req), <<>>)
    <3>1. ASSUME NEW req, NEW what, NEW ip, NEW alerts, Told(req, what, ip, alerts)
          PROVE  what = "enricher"
      BY <3>1 DEF Told
    <3>2. ~\E req \in Requests : NothingKnown(req)
      BY <3>1 DEF NothingKnown
    <3>3. ~\E req \in Requests : Told(req, "handled", IpOf(req), Pushed(Answered(req)))
      BY <3>1
    <3> QED
      BY <1>1, <3>2, <3>3, LastIs
  <2>2. (last.request)' = req
    BY <2>1 DEF Told
  <2>3. PICK address : address = GetIpObject(IpOf(req).ip)
    OBVIOUS
  <2>4. PICK at \in DOMAIN Answered(req) : Answered(req)[at] = Throws
    BY <2>1 DEF Thrown
  <2>5. ~IsAlert(Throws, address)
    BY DEF IsAlert
  <2>6. Throws # Nothing
    BY ScenariosAssumption
  <2>7. Blamed(address, req.path)
    BY <1>1, <2>1, <2>3, <2>4, <2>5, <2>6, AnsweredIs
  <2>8. CASE req.path = Throws
    BY <2>2, <2>8
  <2>9. ASSUME NEW i \in DOMAIN scenarios, Unloaded(scenarios[i])
        PROVE  \E n \in Call : result[n] \in {"pending", "rejected"}
    <3>1. PICK n \in Call : n = scenarios[i].call
      BY <1>1, Places
    <3>2. scenarios[i].name = "maxmind" /\ ~(MaxMindPaths \subseteq loaded[n])
      BY <2>9, <3>1 DEF Unloaded
    <3>3. scenarios[i] \in ToSet(scenarios)
      BY DEF ToSet
    <3>4. result[n] # "resolved"
      BY <1>1, <3>1, <3>2, <3>3 DEF StartedIsReady
    <3>5. result[n] # "none"
      BY <1>1, <3>1 DEF CalledInv
    <3> QED
      BY <1>1, <3>4, <3>5 DEF TypeOK
  <2> QED
    BY <2>5, <2>7, <2>8, <2>9 DEF Blamed
<1>2. TypeOK /\ ChainsInv /\ CalledInv /\ StartedIsReady /\ [Next]_vars => Explained
  BY <1>1
<1>3. TypeOK /\ ChainsInv /\ CalledInv /\ StartedIsReady /\ [Next]_vars => [Explained]_vars
  BY <1>2
<1> QED
  BY <1>3, TypeCorrect, ChainsKept, CalledKept, StartCorrect, PTL DEF Spec, ThrowsOnlyUnready
=============================================================================
