-------------------------- MODULE BouncerMiddleware --------------------------
(***************************************************************************)
(* crowdsec-http-middleware/src/CrowdSecHTTPBouncerMiddleware.ts: the      *)
(* decisions a web server enforces, fed by a decision stream and, in live  *)
(* mode, by background checks of unknown addresses.                        *)
(*                                                                         *)
(* The index is the set of its decisions (IpDecisionDB shows that a lookup *)
(* is a scan over them).  The LAPI and the stream are the environment:     *)
(* any decision may be announced or withdrawn, a live check may be         *)
(* answered with any decisions on its address, late, or fail.  Bouncer     *)
(* puts the LAPI and the stream in.                                        *)
(***************************************************************************)
EXTENDS Integers, FiniteSets

CONSTANTS
  Ips,                  \* addresses of visitors
  Values,               \* values of decisions: addresses and ranges
  Types,                \* types of decisions
  BlockingTypes,        \* those a live check cares for: ban and captcha
  MaskOf,               \* [Values -> Nat \ {0}]: prefix length of a value
  Covered,              \* [Values -> SUBSET Ips]: the addresses in a value
  MinMask,              \* options.subnetLevel
  LiveEnabled,          \* options.live.enabled
  FailOpen,             \* options.live.errorBehavior = failOpen
  Watchdog,             \* options.live.watchdog
  MaxConcurrentChecks,  \* options.live.maxConcurrentChecks
  CheckId,              \* names of the live checks in flight
  MaxStarts, MaxStops,  \* bounds: calls of start() and of stop()
  MaxTime               \* bound: the clock

ASSUME MiddlewareAssumption ==
  /\ BlockingTypes \subseteq Types
  /\ MaskOf \in [Values -> Nat \ {0}]   \* the index refuses a /0 range
  /\ Covered \in [Values -> SUBSET Ips]
  /\ MinMask \in Nat
  /\ {LiveEnabled, FailOpen, Watchdog} \subseteq BOOLEAN
  /\ MaxConcurrentChecks \in Nat
  /\ {MaxStarts, MaxStops, MaxTime} \subseteq Nat

Time == 0..MaxTime

Decision == [value : Values, type : Types, endAt : Time]

Check == [id : CheckId, ip : Ips]

VARIABLES
  db,                \* decisionsDB
  decisionKeys,      \* decisionKeys
  cleanCache,        \* cleanCache: addresses whose verdict is still cached
  errorCache,        \* errorCache
  pendingChecks,     \* the keys of pendingChecks
  concurrentChecks,  \* concurrentChecks
  checks,            \* the runLiveCheck() calls in flight
  starting,          \* start() calls that await the login
  streams,           \* streams of this middleware that run
  scans,             \* setInterval()s armed
  expirationScan,    \* is a handle in expirationScan?
  starts, stops,     \* calls made
  stopped,           \* history: the last of them was stop()
  overlapped,        \* history: one of them came while start() was under way
                     \* or start() while the middleware ran
  now                \* Date.now()

index == <<db, decisionKeys>>
caches == <<cleanCache, errorCache>>
live == <<pendingChecks, concurrentChecks, checks>>
life == <<starting, streams, scans, expirationScan, starts, stops, stopped,
          overlapped>>

vars == <<index, caches, live, life, now>>

-----------------------------------------------------------------------------
(* The index                                                               *)

\* decisionKey(): two decisions are the same if their values and types are.
Key(d) == <<d.value, d.type>>

Keys(D) == {Key(d) : d \in D}

\* Mutant of Storable: off by one.
StorableStrictly(d) == Key(d) \notin decisionKeys /\ MaskOf[d.value] > MinMask

\* addDecision() stores a decision that is new, on a subnet small enough.
Storable(d) == Key(d) \notin decisionKeys /\ MaskOf[d.value] >= MinMask

Store(D) ==
  /\ db' = db \cup D
  /\ decisionKeys' = decisionKeys \cup Keys(D)

\* Mutant of RemoveDecision: the key is left behind.
RemoveDecisionKeepingKey(d) ==
  /\ db' = {e \in db : Key(e) # Key(d)}
  /\ UNCHANGED decisionKeys

\* Mutant of RemoveDecision: only the key goes.
RemoveDecisionKeepingEntry(d) ==
  /\ decisionKeys' = decisionKeys \ {Key(d)}
  /\ UNCHANGED db

\* removeDecision(): the key goes only if something left the index.
RemoveDecision(d) ==
  /\ db' = {e \in db : Key(d) \notin decisionKeys \/ Key(e) # Key(d)}
  /\ decisionKeys' = IF db' # db THEN decisionKeys \ {Key(d)} ELSE decisionKeys

\* Mutant of Expired: a decision that ends right now is kept.
ExpiredLate(d) == d.endAt < now

Expired(d) == d.endAt <= now

Banned(ip) == \E d \in db : ip \in Covered[d.value]

-----------------------------------------------------------------------------
Init ==
  /\ db = {}
  /\ decisionKeys = {}
  /\ cleanCache = {}
  /\ errorCache = {}
  /\ pendingChecks = {}
  /\ concurrentChecks = 0
  /\ checks = {}
  /\ starting = 0
  /\ streams = 0
  /\ scans = 0
  /\ expirationScan = FALSE
  /\ starts = 0
  /\ stops = 0
  /\ stopped = FALSE
  /\ overlapped = FALSE
  /\ now = 0

-----------------------------------------------------------------------------
(* start() and stop()                                                      *)

Stopped == starting = 0 /\ streams = 0 /\ scans = 0

\* start(), up to its await of the login.
Start ==
  /\ starts < MaxStarts
  /\ starts' = starts + 1
  /\ starting' = starting + 1
  /\ stopped' = FALSE
  /\ overlapped' = (overlapped \/ ~Stopped)
  /\ UNCHANGED <<index, caches, live, streams, scans, expirationScan, stops, now>>

\* The rest of start(): a stream, and an interval whose handle replaces the
\* one in the field.
LoginSucceeds ==
  /\ starting > 0
  /\ starting' = starting - 1
  /\ streams' = streams + 1
  /\ scans' = IF Watchdog THEN scans + 1 ELSE scans
  /\ expirationScan' = (expirationScan \/ Watchdog)
  /\ UNCHANGED <<index, caches, live, starts, stops, stopped, overlapped, now>>

LoginFails ==
  /\ starting > 0
  /\ starting' = starting - 1
  /\ UNCHANGED <<index, caches, live, streams, scans, expirationScan, starts,
                 stops, stopped, overlapped, now>>

\* Mutant of Stop: the interval is not cleared.
StopButScan ==
  /\ stops < MaxStops
  /\ stops' = stops + 1
  /\ stopped' = TRUE
  /\ overlapped' = (overlapped \/ starting > 0)
  /\ expirationScan' = FALSE
  /\ pendingChecks' = {}
  /\ cleanCache' = {}
  /\ errorCache' = {}
  /\ streams' = 0
  /\ UNCHANGED <<index, concurrentChecks, checks, starting, starts, scans, now>>

\* stop(): the interval in the field, the caches, the streams of the client.
Stop ==
  /\ stops < MaxStops
  /\ stops' = stops + 1
  /\ stopped' = TRUE
  /\ overlapped' = (overlapped \/ starting > 0)
  /\ scans' = IF expirationScan THEN scans - 1 ELSE scans
  /\ expirationScan' = FALSE
  /\ pendingChecks' = {}
  /\ cleanCache' = {}
  /\ errorCache' = {}
  /\ streams' = 0
  /\ UNCHANGED <<index, concurrentChecks, checks, starting, starts, now>>

-----------------------------------------------------------------------------
(* The stream's listeners, the watchdog, the caches                        *)

Added(d) ==
  /\ streams > 0
  /\ IF Storable(d) THEN Store({d}) ELSE UNCHANGED index
  /\ UNCHANGED <<caches, live, life, now>>

Deleted(d) ==
  /\ streams > 0
  /\ RemoveDecision(d)
  /\ UNCHANGED <<caches, live, life, now>>

RemoveExpiredDecisions ==
  LET removed == {d \in db : Expired(d)}
  IN  /\ scans > 0
      /\ db' = db \ removed
      /\ decisionKeys' = decisionKeys \ Keys(removed)
      /\ UNCHANGED <<caches, live, life, now>>

\* An entry of an LRU cache is out of date, or makes room.
Evict(ip) ==
  /\ \/ cleanCache' = cleanCache \ {ip} /\ UNCHANGED errorCache
     \/ errorCache' = errorCache \ {ip} /\ UNCHANGED cleanCache
  /\ UNCHANGED <<index, live, life, now>>

Tick ==
  /\ now < MaxTime
  /\ now' = now + 1
  /\ UNCHANGED <<index, caches, live, life>>

-----------------------------------------------------------------------------
(* Requests and live checks                                                *)

\* Mutant of MaySpawn: pendingChecks is not looked at.
MaySpawnAnyIp(ip) == concurrentChecks < MaxConcurrentChecks

\* spawnLiveCheck(): once per address, capped over all addresses.
MaySpawn(ip) ==
  ip \notin pendingChecks /\ concurrentChecks < MaxConcurrentChecks

FreeId == CheckId \ {c.id : c \in checks}

SpawnLiveCheck(ip) ==
  IF ~MaySpawn(ip) \/ FreeId = {}
  THEN UNCHANGED live
  ELSE /\ checks' = checks \cup {[id |-> CHOOSE i \in FreeId : TRUE, ip |-> ip]}
       /\ concurrentChecks' = concurrentChecks + 1
       /\ pendingChecks' = pendingChecks \cup {ip}

\* middleware(): the index first, then the caches, then a check in the
\* background; the request never waits.
Request(ip) ==
  /\ IF Banned(ip) \/ ~LiveEnabled \/ ip \in cleanCache
          \/ (FailOpen /\ ip \in errorCache)
     THEN UNCHANGED live
     ELSE SpawnLiveCheck(ip)
  /\ UNCHANGED <<index, caches, life, now>>

\* Mutant of Finish: the entry of the check is left behind.
FinishKeepingEntry(c) ==
  /\ checks' = checks \ {c}
  /\ concurrentChecks' = concurrentChecks - 1
  /\ UNCHANGED pendingChecks

\* cleanup(): whatever became of the check, and whether or not the entry of
\* pendingChecks is still its own.
Finish(c) ==
  /\ checks' = checks \ {c}
  /\ concurrentChecks' = concurrentChecks - 1
  /\ pendingChecks' = pendingChecks \ {c.ip}

\* The decisions of an answer that block, on subnets small enough.
Blocking(answer) ==
  {d \in answer : d.type \in BlockingTypes /\ MaskOf[d.value] >= MinMask}

\* Mutant of LiveClean: what the index holds on the address goes.
LiveCleanUnbanning(c, answer) ==
  LET lifted == {d \in db : c.ip \in Covered[d.value]}
  IN  /\ c \in checks
      /\ Blocking(answer) = {}
      /\ cleanCache' = cleanCache \cup {c.ip}
      /\ db' = db \ lifted
      /\ decisionKeys' = decisionKeys \ Keys(lifted)
      /\ Finish(c)
      /\ UNCHANGED <<errorCache, life, now>>

\* runLiveCheck() after a clean answer.
LiveClean(c, answer) ==
  /\ c \in checks
  /\ Blocking(answer) = {}
  /\ cleanCache' = cleanCache \cup {c.ip}
  /\ Finish(c)
  /\ UNCHANGED <<index, errorCache, life, now>>

\* runLiveCheck() after any other: of the decisions of one key, the one that
\* comes first in the answer is stored.
LiveBlocking(c, answer) ==
  LET fresh == {d \in Blocking(answer) : Storable(d)}
  IN  /\ c \in checks
      /\ Blocking(answer) # {}
      /\ \E added \in SUBSET fresh :
           /\ Keys(added) = Keys(fresh)
           /\ \A d, e \in added : Key(d) = Key(e) => d = e
           /\ Store(added)
      /\ cleanCache' = cleanCache \ {c.ip}
      /\ Finish(c)
      /\ UNCHANGED <<errorCache, life, now>>

\* Mutant of LiveCheckError: the slot of a failed check is not given back.
LiveCheckErrorKeepingSlot(c) ==
  /\ c \in checks
  /\ errorCache' = IF FailOpen THEN errorCache \cup {c.ip} ELSE errorCache
  /\ checks' = checks \ {c}
  /\ UNCHANGED <<index, cleanCache, pendingChecks, concurrentChecks, life, now>>

LiveCheckError(c) ==
  /\ c \in checks
  /\ errorCache' = IF FailOpen THEN errorCache \cup {c.ip} ELSE errorCache
  /\ Finish(c)
  /\ UNCHANGED <<index, cleanCache, life, now>>

-----------------------------------------------------------------------------
\* What the LAPI may know of an address: at most two decisions, of any kind.
Answers(ip) ==
  LET about == {d \in Decision : ip \in Covered[d.value]}
  IN  {{}} \cup {{d, e} : d, e \in about}

Next ==
  \/ Start
  \/ LoginSucceeds
  \/ LoginFails
  \/ Stop
  \/ RemoveExpiredDecisions
  \/ Tick
  \/ \E d \in Decision : Added(d) \/ Deleted(d)
  \/ \E ip \in Ips : Request(ip) \/ Evict(ip)
  \/ \E c \in checks :
       \/ LiveCheckError(c)
       \/ \E answer \in Answers(c.ip) : LiveClean(c, answer) \/ LiveBlocking(c, answer)

Spec == Init /\ [][Next]_vars

-----------------------------------------------------------------------------
(* Properties                                                              *)

\* Type invariant of the middleware's fields and of what is under way.
TypeOK ==
  /\ db \subseteq Decision
  /\ decisionKeys \subseteq Values \X Types
  /\ cleanCache \subseteq Ips
  /\ errorCache \subseteq Ips
  /\ pendingChecks \subseteq Ips
  /\ concurrentChecks \in Nat
  /\ checks \subseteq Check
  /\ starting \in Nat
  /\ streams \in Nat
  /\ scans \in Nat
  /\ expirationScan \in BOOLEAN
  /\ starts \in Nat
  /\ stops \in Nat
  /\ stopped \in BOOLEAN
  /\ overlapped \in BOOLEAN
  /\ now \in Time

\* The set of keys is that of the decisions in the index, each of which is
\* there once, on a subnet no bigger than subnetLevel: no announcement,
\* withdrawal, expiry or late live answer, in any order, leaves a decision that
\* cannot be withdrawn, or a key that keeps its decision out for good.  This is
\* also what makes decisionsCount the number of decisions enforced.
IndexSound ==
  /\ decisionKeys = Keys(db)
  /\ \A d, e \in db : Key(d) = Key(e) => d = e
  /\ \A d \in db : MaskOf[d.value] >= MinMask

\* Every check in flight holds one slot, which it gives back however it ends,
\* also after a stop() that forgot it; there are no more slots than the cap.
SlotsMatchChecks ==
  /\ concurrentChecks = Cardinality(checks)
  /\ concurrentChecks <= MaxConcurrentChecks

\* Live checks are deduplicated per address, until a stop() forgets the checks
\* that it leaves in flight.
OneCheckPerIp ==
  stops = 0 => \A c, e \in checks : c.ip = e.ip => c = e

\* After stop(), until start() is called again, no stream of the middleware
\* runs and none of its intervals is armed ("stop the current client, and
\* running processes"), provided that every start() was over before the next
\* call, and every run before the next start().
NothingRunsAfterStop == stopped /\ ~overlapped => streams = 0 /\ scans = 0
=============================================================================
