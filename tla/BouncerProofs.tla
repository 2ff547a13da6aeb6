----------------------------- MODULE BouncerProofs -----------------------------
(***************************************************************************)
(* Theorems about BouncerMiddleware, for any addresses, decisions, caps,   *)
(* options and number of restarts, and about Bouncer, which puts it under  *)
(* the stream and the LAPI, for any LAPI, visitors, decisions and clock:   *)
(* what the LAPI bans is enforced, and nothing else, however bans, unbans, *)
(* expiries, polls, deliveries, scans and live answers interleave.         *)
(***************************************************************************)
EXTENDS Bouncer, FiniteSetTheorems, SequenceTheorems, TLAPS

(***************************************************************************)
(* The middleware alone (BouncerMiddleware)                                *)
(***************************************************************************)

-----------------------------------------------------------------------------
(* Types and slots                                                         *)

\* TypeOK is not inductive: concurrentChecks stays natural because it counts
\* the checks in flight, scans because a handle in the field is that of an
\* interval.
SlotInv ==
  /\ TypeOK
  /\ IsFiniteSet(checks)
  /\ SlotsMatchChecks
  /\ expirationScan => scans > 0

\* A check that ends gives back the slot it held.
LEMMA FinishKeepsSlots ==
  ASSUME SlotInv, NEW c \in checks, Finish(c)
  PROVE  /\ checks' \subseteq Check
         /\ pendingChecks' \subseteq Ips
         /\ concurrentChecks' \in Nat
         /\ IsFiniteSet(checks')
         /\ SlotsMatchChecks'
<1>1. IsFiniteSet(checks \ {c}) /\ Cardinality(checks \ {c}) = Cardinality(checks) - 1
  BY FS_RemoveElement DEF SlotInv
<1>2. Cardinality(checks \ {c}) \in Nat
  BY <1>1, FS_CardinalityType
<1> QED
  BY <1>1, <1>2, MiddlewareAssumption
  DEF SlotInv, TypeOK, SlotsMatchChecks, Finish

\* A check that starts has a name of its own and takes a slot below the cap.
LEMMA SpawnKeepsSlots ==
  ASSUME SlotInv, NEW ip \in Ips, SpawnLiveCheck(ip)
  PROVE  /\ checks' \subseteq Check
         /\ pendingChecks' \subseteq Ips
         /\ concurrentChecks' \in Nat
         /\ IsFiniteSet(checks')
         /\ SlotsMatchChecks'
<1>1. CASE UNCHANGED live
  BY <1>1 DEF SlotInv, TypeOK, SlotsMatchChecks, live
<1>2. CASE ~(~MaySpawn(ip) \/ FreeId = {})
  <2> DEFINE id == CHOOSE i \in FreeId : TRUE
             new == [id |-> id, ip |-> ip]
  <2>1. id \in FreeId
    BY <1>2
  <2>2. new \in Check /\ new \notin checks
    BY <2>1 DEF FreeId, Check
  <2>3. /\ checks' = checks \cup {new}
        /\ concurrentChecks' = concurrentChecks + 1
        /\ pendingChecks' = pendingChecks \cup {ip}
    BY <1>2 DEF SpawnLiveCheck
  <2> HIDE DEF new
  <2>4. /\ IsFiniteSet(checks \cup {new})
        /\ Cardinality(checks \cup {new}) = Cardinality(checks) + 1
    BY <2>2, FS_AddElement DEF SlotInv
  <2> QED
    BY <1>2, <2>2, <2>3, <2>4, MiddlewareAssumption
    DEF SlotInv, TypeOK, SlotsMatchChecks, MaySpawn
<1> QED
  BY <1>1, <1>2 DEF SpawnLiveCheck

LEMMA SlotInvInit == Init => SlotInv
<1> SUFFICES ASSUME Init PROVE SlotInv
  OBVIOUS
<1>1. IsFiniteSet({}) /\ Cardinality({}) = 0
  BY FS_EmptySet
<1>2. 0 \in Time /\ MaxConcurrentChecks >= 0
  BY MiddlewareAssumption DEF Time
<1>3. {expirationScan, stopped, overlapped} \subseteq BOOLEAN
  BY DEF Init
<1> QED
  BY <1>1, <1>2, <1>3 DEF Init, SlotInv, TypeOK, SlotsMatchChecks

LEMMA SlotInvStep == SlotInv /\ [Next]_vars => SlotInv'
<1> SUFFICES ASSUME SlotInv, [Next]_vars PROVE SlotInv'
  OBVIOUS
<1> USE MiddlewareAssumption
<1>1. CASE Start
  <2>1. stopped' \in BOOLEAN /\ overlapped' \in BOOLEAN
    BY <1>1 DEF Start
  <2> QED
    BY <1>1, <2>1 DEF Start, SlotInv, TypeOK, SlotsMatchChecks, index, caches, live
<1>2. CASE LoginSucceeds
  BY <1>2 DEF LoginSucceeds, SlotInv, TypeOK, SlotsMatchChecks, index, caches, live
<1>3. CASE LoginFails
  BY <1>3 DEF LoginFails, SlotInv, TypeOK, SlotsMatchChecks, index, caches, live
<1>4. CASE Stop
  <2>1. /\ stopped' \in BOOLEAN /\ overlapped' \in BOOLEAN
        /\ ~expirationScan' /\ expirationScan' \in BOOLEAN
    BY <1>4 DEF Stop
  <2>2. scans' \in Nat
    BY <1>4 DEF Stop, SlotInv, TypeOK
  <2> QED
    BY <1>4, <2>1, <2>2 DEF Stop, SlotInv, TypeOK, SlotsMatchChecks, index
<1>5. CASE RemoveExpiredDecisions
  BY <1>5 DEF RemoveExpiredDecisions, SlotInv, TypeOK, SlotsMatchChecks,
              caches, live, life
<1>6. CASE Tick
  BY <1>6 DEF Tick, SlotInv, TypeOK, SlotsMatchChecks, Time, index, caches, live, life
<1>7. ASSUME NEW d \in Decision, Added(d) PROVE SlotInv'
  <2>1. Key(d) \in Values \X Types
    BY DEF Decision, Key
  <2>2. db' \subseteq Decision /\ decisionKeys' \subseteq Values \X Types
    BY <1>7, <2>1 DEF Added, Store, Keys, SlotInv, TypeOK, index
  <2> QED
    BY <1>7, <2>2 DEF Added, SlotInv, TypeOK, SlotsMatchChecks, caches, live, life
<1>8. ASSUME NEW d \in Decision, Deleted(d) PROVE SlotInv'
  BY <1>8 DEF Deleted, RemoveDecision, SlotInv, TypeOK, SlotsMatchChecks,
              caches, live, life
<1>9. ASSUME NEW ip \in Ips, Request(ip) PROVE SlotInv'
  <2>1. CASE UNCHANGED live
    BY <1>9, <2>1 DEF Request, SlotInv, TypeOK, SlotsMatchChecks,
                      index, caches, live, life
  <2>2. CASE SpawnLiveCheck(ip)
    BY <1>9, <2>2, SpawnKeepsSlots
    DEF Request, SlotInv, TypeOK, index, caches, life
  <2> QED
    BY <1>9, <2>1, <2>2 DEF Request
<1>10. ASSUME NEW ip \in Ips, Evict(ip) PROVE SlotInv'
  BY <1>10 DEF Evict, SlotInv, TypeOK, SlotsMatchChecks, index, live, life
<1>11. ASSUME NEW c \in checks, LiveCheckError(c) PROVE SlotInv'
  <2>1. c.ip \in Ips
    BY DEF SlotInv, TypeOK, Check
  <2> QED
    BY <1>11, <2>1, FinishKeepsSlots
    DEF LiveCheckError, SlotInv, TypeOK, index, life
<1>12. ASSUME NEW c \in checks, NEW answer \in Answers(c.ip), LiveClean(c, answer)
       PROVE  SlotInv'
  <2>1. c.ip \in Ips
    BY DEF SlotInv, TypeOK, Check
  <2> QED
    BY <1>12, <2>1, FinishKeepsSlots DEF LiveClean, SlotInv, TypeOK, index, life
<1>13. ASSUME NEW c \in checks, NEW answer \in Answers(c.ip), LiveBlocking(c, answer)
       PROVE  SlotInv'
  <2>1. answer \subseteq Decision
    BY DEF Answers
  <2>2. PICK stored \in SUBSET answer : Store(stored)
    BY <1>13 DEF LiveBlocking, Blocking
  <2>3. Keys(stored) \subseteq Values \X Types
    BY <2>1 DEF Keys, Key, Decision
  <2>4. db' \subseteq Decision /\ decisionKeys' \subseteq Values \X Types
    BY <2>1, <2>2, <2>3 DEF Store, SlotInv, TypeOK
  <2> QED
    BY <1>13, <2>4, FinishKeepsSlots DEF LiveBlocking, SlotInv, TypeOK, life
<1>14. CASE UNCHANGED vars
  BY <1>14 DEF vars, SlotInv, TypeOK, SlotsMatchChecks, index, caches, live, life
<1> QED
  BY <1>1, <1>2, <1>3, <1>4, <1>5, <1>6, <1>7, <1>8, <1>9, <1>10, <1>11,
     <1>12, <1>13, <1>14 DEF Next

\* The fields keep their types, in every order of announcements, withdrawals,
\* requests, late answers, expiries, starts and stops.
THEOREM TypeCorrect == Spec => []TypeOK
<1>1. SlotInv => TypeOK
  BY DEF SlotInv
<1> QED
  BY <1>1, SlotInvInit, SlotInvStep, PTL DEF Spec

\* concurrentChecks is the number of live checks in flight and never exceeds
\* maxConcurrentChecks: no slot is lost or given back twice, whatever stop()
\* forgets in between.
THEOREM SlotsCorrect == Spec => []SlotsMatchChecks
<1>1. SlotInv => SlotsMatchChecks
  BY DEF SlotInv
<1> QED
  BY <1>1, SlotInvInit, SlotInvStep, PTL DEF Spec
-----------------------------------------------------------------------------
(* The index and its keys: IndexSound is inductive as it stands.           *)

\* Storing new decisions of distinct keys keeps the index sound.
LEMMA StoreKeepsSound ==
  ASSUME IndexSound, NEW D, Store(D),
         \A d \in D : Key(d) \notin decisionKeys /\ MaskOf[d.value] >= MinMask,
         \A d, e \in D : Key(d) = Key(e) => d = e
  PROVE  IndexSound'
<1>1. decisionKeys' = Keys(db')
  BY DEF IndexSound, Store, Keys
<1>2. ASSUME NEW d \in db', NEW e \in db', Key(d) = Key(e) PROVE d = e
  <2>1. \A f \in db : Key(f) \in decisionKeys
    BY DEF IndexSound, Keys
  <2> QED
    BY <1>2, <2>1 DEF IndexSound, Store
<1>3. \A d \in db' : MaskOf[d.value] >= MinMask
  BY DEF IndexSound, Store
<1> QED
  BY <1>1, <1>2, <1>3 DEF IndexSound

\* Taking decisions out together with their keys keeps the index sound.
LEMMA DropKeepsSound ==
  ASSUME IndexSound, NEW R \in SUBSET db,
         db' = db \ R, decisionKeys' = decisionKeys \ Keys(R)
  PROVE  IndexSound'
<1>1. decisionKeys' = Keys(db')
  BY DEF IndexSound, Keys
<1> QED
  BY <1>1 DEF IndexSound

\* Taking a decision out by its key takes out all that the key stands for.
LEMMA RemoveKeepsSound ==
  ASSUME IndexSound, NEW d, RemoveDecision(d)
  PROVE  /\ IndexSound'
         /\ db' = {e \in db : Key(e) # Key(d)}
         /\ decisionKeys' = decisionKeys \ {Key(d)}
<1> DEFINE same == {e \in db : Key(e) = Key(d)}
<1>1. CASE Key(d) \notin decisionKeys
  <2>1. UNCHANGED index
    BY <1>1 DEF RemoveDecision, index
  <2>2. \A e \in db : Key(e) # Key(d)
    BY <1>1 DEF IndexSound, Keys
  <2> QED
    BY <1>1, <2>1, <2>2 DEF index, IndexSound, Keys
<1>2. CASE Key(d) \in decisionKeys
  <2>1. \E e \in db : Key(e) = Key(d)
    BY <1>2 DEF IndexSound, Keys
  <2>2. db' = db \ same /\ db' # db
    BY <1>2, <2>1 DEF RemoveDecision
  <2>3. Keys(same) = {Key(d)}
    BY <2>1 DEF Keys
  <2>4. decisionKeys' = decisionKeys \ Keys(same)
    BY <2>2, <2>3 DEF RemoveDecision
  <2> QED
    BY <2>2, <2>3, <2>4, DropKeepsSound
<1> QED
  BY <1>1, <1>2

\* A live check stores what the index does not have, whatever it was answered.
LEMMA LiveKeepsSound ==
  ASSUME IndexSound, NEW c, NEW answer, LiveBlocking(c, answer)
  PROVE  /\ IndexSound'
         /\ \E stored \in SUBSET answer : Store(stored)
<1>1. PICK stored \in SUBSET {d \in Blocking(answer) : Storable(d)} :
        /\ \A d, e \in stored : Key(d) = Key(e) => d = e
        /\ Store(stored)
  BY DEF LiveBlocking
<1>2. stored \subseteq answer
  BY DEF Blocking
<1> QED
  BY <1>1, <1>2, StoreKeepsSound DEF Storable

LEMMA IndexSoundStep == IndexSound /\ [Next]_vars => IndexSound'
<1> SUFFICES ASSUME IndexSound, [Next]_vars PROVE IndexSound'
  OBVIOUS
<1>1. CASE UNCHANGED index
  BY <1>1 DEF IndexSound, index, Keys
<1>2. CASE Start \/ LoginSucceeds \/ LoginFails \/ Stop \/ Tick \/ UNCHANGED vars
  BY <1>1, <1>2 DEF Start, LoginSucceeds, LoginFails, Stop, Tick, vars
<1>3. CASE RemoveExpiredDecisions
  BY <1>3, DropKeepsSound DEF RemoveExpiredDecisions
<1>4. ASSUME NEW d \in Decision, Added(d) PROVE IndexSound'
  BY <1>1, <1>4, StoreKeepsSound DEF Added, Storable
<1>5. ASSUME NEW d \in Decision, Deleted(d) PROVE IndexSound'
  BY <1>5, RemoveKeepsSound DEF Deleted
<1>6. ASSUME NEW ip \in Ips, Request(ip) \/ Evict(ip) PROVE IndexSound'
  BY <1>1, <1>6 DEF Request, Evict
<1>7. ASSUME NEW c \in checks, LiveCheckError(c) PROVE IndexSound'
  BY <1>1, <1>7 DEF LiveCheckError
<1>8. ASSUME NEW c \in checks, NEW answer \in Answers(c.ip),
             LiveClean(c, answer) \/ LiveBlocking(c, answer)
      PROVE  IndexSound'
  <2>1. CASE LiveClean(c, answer)
    BY <1>1, <2>1 DEF LiveClean
  <2>2. CASE LiveBlocking(c, answer)
    BY <2>2, LiveKeepsSound
  <2> QED
    BY <1>8, <2>1, <2>2
<1> QED
  BY <1>2, <1>3, <1>4, <1>5, <1>6, <1>7, <1>8 DEF Next

\* Whatever the order of announcements, withdrawals, scans and live answers,
\* the keys are those of the decisions in the index, each there once.
THEOREM IndexCorrect == Spec => []IndexSound
<1>1. Init => IndexSound
  BY DEF Init, IndexSound, Keys
<1> QED
  BY <1>1, IndexSoundStep, PTL DEF Spec

-----------------------------------------------------------------------------
(* One check per address                                                   *)

\* pendingChecks remembers every check in flight, which stop() would break.
PendingInv ==
  /\ stops \in Nat
  /\ stops = 0 => \A c \in checks : c.ip \in pendingChecks
  /\ OneCheckPerIp

LEMMA PendingInvStep ==
  ASSUME PendingInv, [Next]_vars
  PROVE  PendingInv'
<1>1. ASSUME NEW c \in checks, Finish(c), UNCHANGED stops PROVE PendingInv'
  BY <1>1 DEF Finish, PendingInv, OneCheckPerIp
<1>2. CASE UNCHANGED <<live, stops>>
  BY <1>2 DEF live, PendingInv, OneCheckPerIp
<1>3. CASE Start \/ LoginSucceeds \/ LoginFails \/ RemoveExpiredDecisions \/ Tick
             \/ UNCHANGED vars
  BY <1>2, <1>3 DEF Start, LoginSucceeds, LoginFails, RemoveExpiredDecisions,
                    Tick, vars, life
<1>4. CASE Stop
  BY <1>4 DEF Stop, PendingInv, OneCheckPerIp
<1>5. ASSUME NEW d \in Decision, Added(d) \/ Deleted(d) PROVE PendingInv'
  BY <1>2, <1>5 DEF Added, Deleted, life
<1>6. ASSUME NEW ip \in Ips, Request(ip) \/ Evict(ip) PROVE PendingInv'
  <2>1. UNCHANGED stops
    BY <1>6 DEF Request, Evict, life
  <2>2. CASE UNCHANGED live
    BY <1>2, <2>1, <2>2
  <2>3. CASE SpawnLiveCheck(ip) /\ ~(~MaySpawn(ip) \/ FreeId = {})
    <3>1. PICK new : new.ip = ip /\ checks' = checks \cup {new}
      BY <2>3 DEF SpawnLiveCheck
    <3>2. pendingChecks' = pendingChecks \cup {ip} /\ ip \notin pendingChecks
      BY <2>3 DEF SpawnLiveCheck, MaySpawn
    <3> QED
      BY <2>1, <3>1, <3>2 DEF PendingInv, OneCheckPerIp
  <2> QED
    BY <1>6, <2>2, <2>3 DEF Request, Evict, SpawnLiveCheck
<1>7. ASSUME NEW c \in checks, LiveCheckError(c) PROVE PendingInv'
  BY <1>1, <1>7 DEF LiveCheckError, life
<1>8. ASSUME NEW c \in checks, NEW answer \in Answers(c.ip),
             LiveClean(c, answer) \/ LiveBlocking(c, answer)
      PROVE  PendingInv'
  BY <1>1, <1>8 DEF LiveClean, LiveBlocking, life
<1> QED
  BY <1>3, <1>4, <1>5, <1>6, <1>7, <1>8 DEF Next

\* Live checks are deduplicated per address as long as the middleware is not
\* stopped: stop() forgets the checks that it leaves in flight.
THEOREM DedupeCorrect == Spec => []OneCheckPerIp
<1>1. Init => PendingInv
  BY DEF Init, PendingInv, OneCheckPerIp
<1>2. PendingInv /\ [Next]_vars => PendingInv'
  BY PendingInvStep
<1>3. PendingInv => OneCheckPerIp
  BY DEF PendingInv
<1> QED
  BY <1>1, <1>2, <1>3, PTL DEF Spec

-----------------------------------------------------------------------------
(* start() and stop() that take turns                                      *)

\* As long as they do, at most one start() is under way, and only when nothing
\* runs; the field holds the handle of the one interval.
TurnInv == ~overlapped =>
  /\ starting \in Nat
  /\ starting > 0 => starting = 1 /\ streams = 0 /\ scans = 0
  /\ scans = IF expirationScan THEN 1 ELSE 0
  /\ stopped => starting = 0 /\ streams = 0 /\ scans = 0

LEMMA TurnInvStep ==
  ASSUME TurnInv, [Next]_vars
  PROVE  TurnInv'
<1> SUFFICES ASSUME ~overlapped' PROVE TurnInv'
  BY DEF TurnInv
<1>0. ~overlapped
  BY DEF Next, vars, life, Start, LoginSucceeds, LoginFails, Stop,
         RemoveExpiredDecisions, Tick, Added, Deleted, Request, Evict,
         LiveCheckError, LiveClean, LiveBlocking
<1> USE <1>0
<1>1. CASE UNCHANGED life
  BY <1>1 DEF life, TurnInv
<1>2. CASE Start
  <2>1. Stopped /\ ~stopped'
    BY <1>2, Zenon DEF Start
  <2> QED
    BY <1>2, <2>1 DEF Start, Stopped, TurnInv
<1>3. CASE LoginSucceeds
  <2>1. starting = 1 /\ scans = 0 /\ ~expirationScan /\ ~stopped
    BY <1>3 DEF LoginSucceeds, TurnInv
  <2>2. starting' = 0 /\ ~stopped'
    BY <1>3, <2>1 DEF LoginSucceeds
  <2>3. scans' = IF expirationScan' THEN 1 ELSE 0
    <3>1. scans' = IF Watchdog THEN scans + 1 ELSE scans
      BY <1>3 DEF LoginSucceeds
    <3>2. expirationScan' <=> Watchdog
      BY <1>3, <2>1, Zenon DEF LoginSucceeds
    <3> QED
      BY <2>1, <3>1, <3>2
  <2> QED
    BY <2>2, <2>3 DEF TurnInv
<1>4. CASE LoginFails
  BY <1>4 DEF LoginFails, TurnInv
<1>5. CASE Stop
  <2>1. ~(starting > 0)
    BY <1>5, Zenon DEF Stop
  <2> QED
    BY <1>5, <2>1 DEF Stop, TurnInv
<1>6. CASE RemoveExpiredDecisions \/ Tick \/ UNCHANGED vars
  BY <1>1, <1>6 DEF RemoveExpiredDecisions, Tick, vars
<1>7. ASSUME NEW d \in Decision, Added(d) \/ Deleted(d) PROVE TurnInv'
  BY <1>1, <1>7 DEF Added, Deleted
<1>8. ASSUME NEW ip \in Ips, Request(ip) \/ Evict(ip) PROVE TurnInv'
  BY <1>1, <1>8 DEF Request, Evict
<1>9. ASSUME NEW c \in checks, LiveCheckError(c) PROVE TurnInv'
  BY <1>1, <1>9 DEF LiveCheckError
<1>10. ASSUME NEW c \in checks, NEW answer \in Answers(c.ip),
              LiveClean(c, answer) \/ LiveBlocking(c, answer)
       PROVE  TurnInv'
  BY <1>1, <1>10 DEF LiveClean, LiveBlocking
<1> QED
  BY <1>2, <1>3, <1>4, <1>5, <1>6, <1>7, <1>8, <1>9, <1>10 DEF Next

\* When every start() and stop() waits for the one before it, nothing of a
\* stopped middleware runs on, however often it is restarted.
THEOREM StopCorrect == Spec => []NothingRunsAfterStop
<1>1. Init => TurnInv
  BY DEF Init, TurnInv
<1>2. TurnInv /\ [Next]_vars => TurnInv'
  BY TurnInvStep
<1>3. TurnInv => NothingRunsAfterStop
  BY DEF TurnInv, NothingRunsAfterStop
<1> QED
  BY <1>1, <1>2, <1>3, PTL DEF Spec

(***************************************************************************)
(* The middleware, the stream and the LAPI (Bouncer)                       *)
(***************************************************************************)

-----------------------------------------------------------------------------
(* Invariants                                                              *)

\* Both modes: what is on its way to the index was pronounced by the LAPI, and
\* what is in force there has not reached its end.
FeedInv ==
  /\ bans \subseteq Decision
  /\ IsFiniteSet(bans)
  /\ lapi \cup news \cup gone \cup db \subseteq bans
  /\ added \in Seq(bans)
  /\ deleted \in Seq(bans)
  /\ \A c \in DOMAIN answers : answers[c] \subseteq bans
  /\ now \in Time
  /\ \A d \in lapi : d.endAt > now
  /\ IndexSound

\* The books of the LAPI and of the stream, when a value is banned again only
\* after its ban has gone and a poll has said so: a key stands for one ban at a
\* time, what is announced is in force or has a withdrawal to come, and no
\* withdrawal on its way hits what has been announced.
BooksInv ==
  /\ FeedInv
  /\ \A d, e \in lapi : Key(d) = Key(e) => d = e
  /\ Keys(lapi) \cap Keys(gone) = {}
  /\ ToSet(added) \subseteq (lapi \ news) \cup gone
  /\ Keys(lapi \ news) \cap Keys(ToSet(deleted)) = {}

\* With live checks: a ban that was delivered is in the index itself, or has
\* been overlooked.
LiveInv ==
  /\ BooksInv
  /\ \A d \in lapi :
       SmallEnough(d) /\ d \notin news /\ d \notin ToSet(added)
         => d \in db \/ d \in overlooked

\* Stream mode: without live answers nothing in the index is stray, so that
\* nothing is overlooked.
StreamInv ==
  /\ LiveInv
  /\ checks = {}
  /\ overlooked = {}
  /\ db \subseteq (lapi \ news) \cup gone \cup ToSet(deleted)

-----------------------------------------------------------------------------
(* Sequences and their elements                                            *)

\* A finite set put in some order has the same elements.
LEMMA SetToSeqElements ==
  ASSUME NEW S, IsFiniteSet(S)
  PROVE  SetToSeq(S) \in Seq(S) /\ ToSet(SetToSeq(S)) = S
<1> DEFINE n == Cardinality(S)
           f == SetToSeq(S)
<1>1. n \in Nat /\ ExistsBijection(1..n, S)
  BY FS_CardinalityType
<1>2. \E g \in [1..n -> S] : IsInjective(g)
  BY <1>1 DEF ExistsBijection, Bijection, Injection
<1>3. f \in [1..n -> S] /\ IsInjective(f)
  BY <1>2 DEF SetToSeq
<1>4. f \in Injection(1..n, S)
  BY <1>3 DEF Injection
<1>5. IsFiniteSet(1..n) /\ Cardinality(1..n) = n
  BY <1>1, FS_Interval
<1> HIDE DEF f, n
<1>6. f \in Surjection(1..n, S)
  BY <1>4, <1>5, FS_Injection DEF n
<1>7. \A x \in S : \E i \in 1..n : f[i] = x
  BY <1>6 DEF Surjection
<1>8. f \in Seq(S)
  BY <1>1, <1>3, SeqDef
<1>9. ToSet(f) = S
  BY <1>3, <1>7 DEF ToSet
<1> QED
  BY <1>8, <1>9 DEF f

LEMMA ConcatElements ==
  ASSUME NEW S, NEW s \in Seq(S), NEW t \in Seq(S)
  PROVE  s \o t \in Seq(S) /\ ToSet(s \o t) = ToSet(s) \cup ToSet(t)
<1>1. s \o t \in Seq(S)
  BY ConcatProperties
<1>2. Range(s \o t) = Range(s) \cup Range(t)
  BY RangeConcatenation
<1> QED
  BY <1>1, <1>2 DEF ToSet, Range

LEMMA TailElements ==
  ASSUME NEW S, NEW s \in Seq(S), s # <<>>
  PROVE  /\ Head(s) \in S
         /\ Tail(s) \in Seq(S)
         /\ ToSet(s) = {Head(s)} \cup ToSet(Tail(s))
<1>1. /\ Head(s) \in S /\ Tail(s) \in Seq(S)
      /\ Len(Tail(s)) = Len(s) - 1
      /\ \A i \in 1..Len(Tail(s)) : Tail(s)[i] = s[i + 1]
  BY HeadTailProperties
<1>2. DOMAIN s = 1..Len(s) /\ Len(s) \in Nat /\ Len(s) # 0
  BY LenProperties, EmptySeq
<1>3. DOMAIN Tail(s) = 1..Len(Tail(s))
  BY <1>1, LenProperties
<1>4. Head(s) = s[1]
  OBVIOUS
<1>5. ASSUME NEW i \in DOMAIN s PROVE s[i] \in {Head(s)} \cup ToSet(Tail(s))
  <2>1. CASE i = 1
    BY <2>1, <1>4
  <2>2. CASE i # 1
    <3>1. i - 1 \in 1..Len(Tail(s)) /\ Tail(s)[i - 1] = s[i]
      BY <1>1, <1>2, <2>2
    <3> QED
      BY <3>1, <1>3 DEF ToSet
  <2> QED
    BY <2>1, <2>2
<1>6. ASSUME NEW i \in DOMAIN Tail(s) PROVE Tail(s)[i] \in ToSet(s)
  <2>1. i + 1 \in DOMAIN s /\ Tail(s)[i] = s[i + 1]
    BY <1>1, <1>2, <1>3
  <2> QED
    BY <2>1 DEF ToSet
<1>7. Head(s) \in ToSet(s)
  BY <1>2, <1>4 DEF ToSet
<1> QED
  BY <1>1, <1>5, <1>6, <1>7 DEF ToSet

\* The elements of a sequence over S are in S.
LEMMA ElementsOf ==
  ASSUME NEW S, NEW s \in Seq(S)
  PROVE  ToSet(s) \subseteq S
BY RangeOfSeq DEF ToSet, Range

-----------------------------------------------------------------------------
(* Both modes                                                              *)

LEMMA FeedInvInit == BouncerInit => FeedInv
<1> SUFFICES ASSUME BouncerInit PROVE FeedInv
  OBVIOUS
<1>1. IsFiniteSet({}) /\ <<>> \in Seq({})
  BY FS_EmptySet
<1>2. 0 \in Time
  BY MiddlewareAssumption DEF Time
<1>3. IndexSound
  BY DEF BouncerInit, Init, IndexSound, Keys
<1>4. \A c \in DOMAIN answers : answers[c] \subseteq bans
  BY DEF BouncerInit
<1> QED
  BY <1>1, <1>2, <1>3, <1>4 DEF BouncerInit, Init, FeedInv

\* What a poll puts into the stream.
LEMMA PollDelivers ==
  ASSUME FeedInv, Poll
  PROVE  /\ added' \in Seq(bans) /\ deleted' \in Seq(bans)
         /\ ToSet(added') = ToSet(added) \cup (news \cap lapi)
         /\ ToSet(deleted') =
              ToSet(deleted) \cup {d \in gone : Key(d) \notin Keys(lapi)}
<1> DEFINE A == news \cap lapi
           D == {d \in gone : Key(d) \notin Keys(lapi)}
<1>1. A \in SUBSET bans /\ D \in SUBSET bans
  BY DEF FeedInv
<1>2. IsFiniteSet(A) /\ IsFiniteSet(D)
  BY <1>1, FS_Subset DEF FeedInv
<1>3. /\ SetToSeq(A) \in Seq(bans) /\ ToSet(SetToSeq(A)) = A
      /\ SetToSeq(D) \in Seq(bans) /\ ToSet(SetToSeq(D)) = D
  BY <1>1, <1>2, SetToSeqElements, SeqMonotonic
<1>4. added' = added \o SetToSeq(A) /\ deleted' = deleted \o SetToSeq(D)
  BY DEF Poll
<1> HIDE DEF A, D
<1>5. added \in Seq(bans) /\ deleted \in Seq(bans)
  BY DEF FeedInv
<1>6. /\ added' \in Seq(bans) /\ ToSet(added') = ToSet(added) \cup A
      /\ deleted' \in Seq(bans) /\ ToSet(deleted') = ToSet(deleted) \cup D
  BY <1>3, <1>4, <1>5, ConcatElements
<1> QED
  BY <1>6 DEF A, D

\* The index after a step: what is announced or answered comes in, what is
\* withdrawn or has reached its end goes.
LEMMA IndexChanges ==
  ASSUME FeedInv, BouncerNext \/ UNCHANGED bouncerVars
  PROVE  /\ IndexSound'
         /\ \/ UNCHANGED index
            \/ DeliverAdded /\ db' = db \cup {Head(added)}
            \/ /\ DeliverDeleted
               /\ db' = {e \in db : Key(e) # Key(Head(deleted))}
            \/ RemoveExpiredDecisions /\ db' = {e \in db : ~Expired(e)}
            \/ \E c \in checks : /\ LiveAnswered(c)
                               /\ \E stored \in SUBSET answers[c] : db' = db \cup stored
<1>0. IndexSound
  BY DEF FeedInv
<1>1. CASE UNCHANGED index
  BY <1>0, <1>1 DEF IndexSound, index, Keys
<1>2. CASE BouncerStart \/ Clock \/ Poll \/ UNCHANGED bouncerVars
             \/ (\E d \in Decision : LapiBans(d) \/ LapiUnbans(d))
             \/ (\E ip \in Ips : Visit(ip))
             \/ (\E c \in checks : LapiAnswers(c) \/ LiveFailed(c))
  BY <1>1, <1>2 DEF BouncerStart, Start, LoginSucceeds, Clock, Tick, Poll,
       bouncerVars, vars, LapiBans, LapiUnbans, Visit, Request, LapiAnswers,
       LiveFailed, LiveCheckError
<1>3. CASE DeliverAdded
  <2>1. CASE Storable(Head(added))
    BY <1>0, <1>3, <2>1, StoreKeepsSound DEF DeliverAdded, Added, Storable, Store
  <2>2. CASE ~Storable(Head(added))
    BY <1>1, <1>3, <2>2 DEF DeliverAdded, Added
  <2> QED
    BY <2>1, <2>2
<1>4. CASE DeliverDeleted
  BY <1>0, <1>4, RemoveKeepsSound DEF DeliverDeleted, Deleted
<1>5. CASE Upkeep
  <2>1. CASE \E ip \in Ips : Evict(ip)
    BY <1>1, <2>1 DEF Evict
  <2>2. CASE RemoveExpiredDecisions
    <3>1. IndexSound'
      BY <1>0, <2>2, DropKeepsSound DEF RemoveExpiredDecisions
    <3> QED
      BY <2>2, <3>1 DEF RemoveExpiredDecisions
  <2> QED
    BY <1>5, <2>1, <2>2 DEF Upkeep
<1>6. ASSUME NEW c \in checks, LiveAnswered(c)
      PROVE  /\ IndexSound'
             /\ \/ UNCHANGED index
                \/ \E stored \in SUBSET answers[c] : db' = db \cup stored
  <2>1. CASE LiveClean(c, answers[c])
    BY <1>1, <2>1 DEF LiveClean
  <2>2. CASE LiveBlocking(c, answers[c])
    BY <1>0, <2>2, LiveKeepsSound DEF Store
  <2> QED
    BY <1>6, <2>1, <2>2 DEF LiveAnswered
<1> QED
  BY <1>2, <1>3, <1>4, <1>5, <1>6 DEF BouncerNext

\* Only the LAPI pronounces bans, only a live check carries answers, and a ban is
\* overlooked when it is delivered, until a live check finds it.
LEMMA Quiet ==
  ASSUME BouncerNext \/ UNCHANGED bouncerVars
  PROVE  /\ \/ \E d \in Decision : LapiBans(d)
            \/ UNCHANGED bans
         /\ \/ \E c \in checks : LapiAnswers(c) \/ LiveAnswered(c) \/ LiveFailed(c)
            \/ UNCHANGED answers
         /\ \/ (\E d \in Decision : LapiBans(d) \/ LapiUnbans(d)) \/ Clock \/ Poll
            \/ UNCHANGED lapiVars
         /\ Poll \/ DeliverAdded \/ DeliverDeleted \/ UNCHANGED feedVars
         /\ Clock \/ UNCHANGED now
         /\ \/ DeliverAdded
            \/ (\E c \in checks : LiveAnswered(c)) /\ overlooked' = overlooked \ db'
            \/ UNCHANGED overlooked
BY DEF BouncerNext, BouncerStart, Start, LoginSucceeds, LapiBans, LapiUnbans,
       Clock, Poll, DeliverAdded, Added, DeliverDeleted, Deleted, Visit, Request,
       LapiAnswers, LiveAnswered, LiveClean, LiveBlocking, LiveFailed,
       LiveCheckError, Upkeep, RemoveExpiredDecisions, Evict, bouncerVars, vars,
       lapiVars, feedVars, checkVars

LEMMA FeedInvStep ==
  ASSUME FeedInv, BouncerNext \/ UNCHANGED bouncerVars
  PROVE  FeedInv'
<1>1. IndexSound'
  BY IndexChanges
<1>2. /\ bans' \subseteq Decision /\ IsFiniteSet(bans')
      /\ bans \subseteq bans'
  <2>1. CASE UNCHANGED bans
    BY <2>1 DEF FeedInv
  <2>2. CASE \E d \in Decision : LapiBans(d)
    BY <2>2, FS_AddElement DEF FeedInv, LapiBans
  <2> QED
    BY <2>1, <2>2, Quiet
<1>3. /\ lapi' \cup news' \cup gone' \subseteq bans'
      /\ now' \in Time
      /\ \A d \in lapi' : d.endAt > now'
  <2>1. CASE Clock
    BY <2>1, MiddlewareAssumption DEF FeedInv, Clock, Tick, Time
  <2>2. CASE UNCHANGED now
    <3>1. CASE \E d \in Decision : LapiBans(d)
      BY <2>2, <3>1 DEF FeedInv, LapiBans
    <3>2. CASE \E d \in Decision : LapiUnbans(d)
      BY <2>2, <3>2 DEF FeedInv, LapiUnbans
    <3>3. CASE Poll
      BY <2>2, <3>3 DEF FeedInv, Poll
    <3>4. CASE UNCHANGED lapiVars
      BY <2>2, <3>4 DEF FeedInv, lapiVars
    <3> QED
      BY <2>1, <3>1, <3>2, <3>3, <3>4, Quiet
  <2> QED
    BY <2>1, <2>2, Quiet
<1>4. added' \in Seq(bans') /\ deleted' \in Seq(bans')
  <2>1. added' \in Seq(bans) /\ deleted' \in Seq(bans)
    <3>1. CASE Poll
      BY <3>1, PollDelivers
    <3>2. CASE DeliverAdded
      BY <3>2, TailElements DEF FeedInv, DeliverAdded
    <3>3. CASE DeliverDeleted
      BY <3>3, TailElements DEF FeedInv, DeliverDeleted
    <3>4. CASE UNCHANGED feedVars
      BY <3>4 DEF FeedInv, feedVars
    <3> QED
      BY <3>1, <3>2, <3>3, <3>4, Quiet
  <2> QED
    BY <1>2, <2>1, SeqMonotonic
<1>5. \A c \in DOMAIN answers' : answers'[c] \subseteq bans'
  <2>1. CASE UNCHANGED answers
    BY <1>2, <2>1 DEF FeedInv
  <2>2. CASE \E c \in checks : LapiAnswers(c)
    BY <1>2, <2>2 DEF FeedInv, LapiAnswers, BansOn
  <2>3. CASE \E c \in checks : LiveAnswered(c) \/ LiveFailed(c)
    BY <1>2, <2>3 DEF FeedInv, LiveAnswered, LiveFailed
  <2> QED
    BY <2>1, <2>2, <2>3, Quiet
<1>6. db' \subseteq bans'
  <2>1. CASE DeliverAdded /\ db' = db \cup {Head(added)}
    BY <1>2, <2>1, TailElements DEF FeedInv, DeliverAdded
  <2>2. CASE \E c \in checks : /\ LiveAnswered(c)
                              /\ \E stored \in SUBSET answers[c] : db' = db \cup stored
    BY <1>2, <2>2 DEF FeedInv, LiveAnswered
  <2> QED
    BY <1>2, <2>1, <2>2, IndexChanges DEF FeedInv, index
<1> QED
  BY <1>1, <1>2, <1>3, <1>4, <1>5, <1>6 DEF FeedInv

\* A decision leaves the backlog for the listener.
LEMMA LeavesWithDelivery ==
  ASSUME FeedInv, BouncerNext \/ UNCHANGED bouncerVars, NEW d,
         d \in news \cup ToSet(added), d \in lapi', d \notin news' \cup ToSet(added')
  PROVE  DeliverAdded /\ d = Head(added)
<1>1. d \in ToSet(added) /\ DeliverAdded
  <2>1. CASE Poll
    BY <2>1, PollDelivers DEF Poll
  <2>2. CASE ~Poll
    BY <2>2, Quiet DEF LapiBans, LapiUnbans, Clock, lapiVars, DeliverAdded,
                       DeliverDeleted, feedVars
  <2> QED
    BY <2>1, <2>2
<1> QED
  BY <1>1, TailElements DEF FeedInv, DeliverAdded

LEMMA BooksStep ==
  ASSUME Rebans # "renewal", DrainedBeforePoll, BooksInv,
         BouncerNext \/ UNCHANGED bouncerVars
  PROVE  /\ \A d, e \in lapi' : Key(d) = Key(e) => d = e
         /\ Keys(lapi') \cap Keys(gone') = {}
         /\ ToSet(added') \subseteq (lapi' \ news') \cup gone'
         /\ Keys(lapi' \ news') \cap Keys(ToSet(deleted')) = {}
<1>0. FeedInv /\ ToSet(added) \subseteq bans
  BY ElementsOf DEF BooksInv, FeedInv
<1>1. CASE Poll
  <2>1. added = <<>> /\ deleted = <<>>
    BY <1>1 DEF Poll
  <2>2. ToSet(added) = {} /\ ToSet(deleted) = {}
    BY <2>1 DEF ToSet
  <2>3. /\ ToSet(added') = news \cap lapi
        /\ ToSet(deleted') = {d \in gone : Key(d) \notin Keys(lapi)}
    BY <1>0, <1>1, <2>2, PollDelivers
  <2>4. lapi' = lapi /\ news' = {} /\ gone' = {}
    BY <1>1 DEF Poll
  <2> QED
    BY <1>1, <2>3, <2>4 DEF BooksInv, Keys
<1>2. CASE UNCHANGED lapiVars
  <2>1. CASE ToSet(added') \subseteq ToSet(added) /\ ToSet(deleted') \subseteq ToSet(deleted)
    <3>1. Keys(ToSet(deleted')) \subseteq Keys(ToSet(deleted))
      BY <2>1 DEF Keys
    <3>2. lapi' = lapi /\ news' = news /\ gone' = gone
      BY <1>2 DEF lapiVars
    <3> QED
      BY <2>1, <3>1, <3>2 DEF BooksInv
  <2>2. CASE DeliverAdded
    BY <1>0, <2>1, <2>2, TailElements DEF FeedInv, DeliverAdded
  <2>3. CASE DeliverDeleted
    BY <1>0, <2>1, <2>3, TailElements DEF FeedInv, DeliverDeleted
  <2>4. CASE UNCHANGED feedVars
    BY <2>1, <2>4 DEF feedVars
  <2> QED
    BY <1>1, <2>2, <2>3, <2>4, Quiet
<1>3. ASSUME NEW d \in Decision, LapiBans(d)
      PROVE  /\ \A b, e \in lapi' : Key(b) = Key(e) => b = e
             /\ Keys(lapi') \cap Keys(gone') = {}
             /\ lapi' \ news' = lapi \ news
             /\ gone' = gone
             /\ UNCHANGED feedVars
  <2>1. Key(d) \notin Keys(lapi \cup gone)
    BY <1>0, <1>3, BouncerAssumption DEF LapiBans, FeedInv, Keys
  <2>2. lapi' = lapi \cup {d} /\ news' = news \cup {d} /\ d \notin lapi /\ gone' = gone
    BY <1>0, <1>3 DEF LapiBans, FeedInv
  <2>3. UNCHANGED feedVars
    BY <1>3 DEF LapiBans
  <2> QED
    BY <2>1, <2>2, <2>3 DEF BooksInv, Keys
<1>4. CASE (\E d \in Decision : LapiUnbans(d)) \/ Clock
  <2>1. /\ lapi' \subseteq lapi /\ gone' = gone \cup (lapi \ lapi')
        /\ news' = news /\ UNCHANGED feedVars
    BY <1>4 DEF LapiUnbans, Clock
  <2>2. Keys(lapi') \cap Keys(gone') = {}
    <3>1. \A e \in lapi', f \in lapi \ lapi' : Key(e) # Key(f)
      BY <2>1 DEF BooksInv
    <3> QED
      BY <2>1, <3>1 DEF BooksInv, Keys
  <2>3. /\ ToSet(added') \subseteq (lapi' \ news') \cup gone'
        /\ Keys(lapi' \ news') \cap Keys(ToSet(deleted')) = {}
    BY <2>1 DEF BooksInv, feedVars, Keys
  <2>4. \A d, e \in lapi' : Key(d) = Key(e) => d = e
    BY <2>1 DEF BooksInv
  <2> QED
    BY <2>2, <2>3, <2>4
<1>5. CASE \E d \in Decision : LapiBans(d)
  BY <1>3, <1>5 DEF BooksInv, feedVars
<1> QED
  BY <1>1, <1>2, <1>4, <1>5, Quiet

-----------------------------------------------------------------------------
(* With live checks                                                        *)

\* A ban that is delivered comes into the index, is there, or is overlooked.
LEMMA DeliveredOrOverlooked ==
  ASSUME BooksInv, DeliverAdded, NEW d, d = Head(added), d \in lapi, d \notin news,
         SmallEnough(d)
  PROVE  d \in db' \/ d \in overlooked'
<1>1. CASE Key(d) \notin decisionKeys
  BY <1>1 DEF DeliverAdded, Added, Storable, Store, SmallEnough
<1>2. ASSUME NEW e \in db, Key(e) = Key(d), e # d PROVE Stray(e)
  <2>1. e \notin lapi /\ e \notin gone
    BY <1>2 DEF BooksInv, Keys
  <2>2. e \notin ToSet(deleted)
    BY <1>2 DEF BooksInv, Keys
  <2> QED
    BY <2>1, <2>2 DEF Stray
<1>3. CASE Key(d) \in decisionKeys
  <2>1. PICK e \in db : Key(e) = Key(d)
    BY <1>3 DEF BooksInv, FeedInv, IndexSound, Keys
  <2>2. CASE e = d
    BY <1>3, <2>1, <2>2 DEF DeliverAdded, Added, Storable, index
  <2>3. CASE e # d
    BY <1>2, <2>1, <2>3 DEF DeliverAdded
  <2> QED
    BY <2>2, <2>3
<1> QED
  BY <1>1, <1>3

\* Nothing takes a ban in force out of the index once it was announced.
LEMMA AnnouncedStays ==
  ASSUME BooksInv, BouncerNext \/ UNCHANGED bouncerVars, NEW d \in lapi,
         d \notin news, d \in db
  PROVE  d \in db'
<1>1. ~Expired(d)
  BY DEF BooksInv, FeedInv, Expired, Decision, Time
<1>2. ASSUME DeliverDeleted PROVE Key(d) # Key(Head(deleted))
  <2>1. Head(deleted) \in ToSet(deleted)
    BY <1>2, TailElements DEF BooksInv, FeedInv, DeliverDeleted
  <2> QED
    BY <2>1 DEF BooksInv, Keys
<1> QED
  BY <1>1, <1>2, IndexChanges DEF BooksInv, index

LEMMA LiveInvStep ==
  ASSUME Rebans # "renewal", DrainedBeforePoll, LiveInv,
         BouncerNext \/ UNCHANGED bouncerVars
  PROVE  LiveInv'
<1>0. FeedInv /\ BooksInv
  BY DEF LiveInv, BooksInv
<1>1. BooksInv'
  BY <1>0, FeedInvStep, BooksStep DEF BooksInv
<1>2. ASSUME NEW d \in lapi', SmallEnough(d), d \notin news', d \notin ToSet(added')
      PROVE  d \in db' \/ d \in overlooked'
  <2>1. CASE d \in lapi /\ d \notin news \cup ToSet(added)
    <3>1. CASE d \in db
      BY <1>0, <2>1, <3>1, AnnouncedStays
    <3>2. CASE d \in overlooked
      BY <3>2, Quiet DEF DeliverAdded
    <3> QED
      BY <1>2, <2>1, <3>1, <3>2 DEF LiveInv
  <2>2. CASE d \in news \cup ToSet(added)
    <3>1. DeliverAdded /\ d = Head(added)
      BY <1>0, <1>2, <2>2, LeavesWithDelivery
    <3>2. d \in lapi /\ d \notin news
      BY <1>2, <3>1 DEF DeliverAdded, lapiVars
    <3> QED
      BY <1>0, <1>2, <3>1, <3>2, DeliveredOrOverlooked
  <2>3. CASE d \notin lapi
    BY <1>2, <2>3, Quiet DEF LapiBans, LapiUnbans, Clock, Poll, lapiVars
  <2> QED
    BY <2>1, <2>2, <2>3
<1> QED
  BY <1>1, <1>2 DEF LiveInv, SmallEnough

LEMMA LiveInvInit == BouncerInit => LiveInv
<1> SUFFICES ASSUME BouncerInit PROVE LiveInv
  OBVIOUS
<1>1. ToSet(added) = {} /\ ToSet(deleted) = {}
  BY DEF BouncerInit, ToSet
<1> QED
  BY <1>1, FeedInvInit DEF BouncerInit, Init, BooksInv, LiveInv, Keys

\* With live checks, and polls that wait for the stream, only one thing hides a
\* ban that was delivered and is in force: an older ban of its value and type,
\* lifted and withdrawn, that a live answer brought back before the delivery; and
\* only until a live check finds the ban itself.  Values may be banned again.
THEOREM LiveBansEnforced ==
  ASSUME Rebans # "renewal", DrainedBeforePoll
  PROVE  BouncerSpec => []HiddenByLateAnswersOnly
<1>1. BouncerInit => LiveInv
  BY LiveInvInit
<1>2. LiveInv /\ [BouncerNext]_bouncerVars => LiveInv'
  BY LiveInvStep
<1>3. LiveInv => HiddenByLateAnswersOnly
  BY DEF LiveInv, BooksInv, FeedInv, IndexSound, HiddenByLateAnswersOnly, Enforced, Keys
<1> QED
  BY <1>1, <1>2, <1>3, PTL DEF BouncerSpec

-----------------------------------------------------------------------------
(* Stream mode                                                             *)

LEMMA StreamInvStep ==
  ASSUME Rebans # "renewal", DrainedBeforePoll, ~LiveEnabled, StreamInv,
         BouncerNext \/ UNCHANGED bouncerVars
  PROVE  StreamInv'
<1>0. FeedInv /\ BooksInv /\ LiveInv'
  BY LiveInvStep DEF StreamInv, LiveInv, BooksInv
<1>1. checks' = {}
  BY DEF StreamInv, BouncerNext, BouncerStart, Start, LoginSucceeds, LapiBans,
         LapiUnbans, Clock, Tick, Poll, DeliverAdded, Added, DeliverDeleted,
         Deleted, Visit, Request, Upkeep, RemoveExpiredDecisions, Evict,
         bouncerVars, vars, live
<1>2. overlooked' = {}
  <2>1. \A d \in db : ~Stray(d)
    BY DEF StreamInv, Stray
  <2>2. CASE DeliverAdded
    BY <2>1, <2>2 DEF DeliverAdded, StreamInv
  <2> QED
    BY <2>2, Quiet DEF StreamInv
<1>3. db \subseteq (lapi' \ news') \cup gone' \cup ToSet(deleted) \/ Poll
  <2>1. CASE UNCHANGED lapiVars
    BY <2>1 DEF StreamInv, lapiVars
  <2>2. CASE \E d \in Decision : LapiBans(d)
    BY <1>0, <2>2 DEF StreamInv, FeedInv, LapiBans
  <2>3. CASE (\E d \in Decision : LapiUnbans(d)) \/ Clock
    BY <2>3 DEF StreamInv, LapiUnbans, Clock
  <2> QED
    BY <2>1, <2>2, <2>3, Quiet
<1>4. db' \subseteq (lapi' \ news') \cup gone' \cup ToSet(deleted')
  <2>1. CASE Poll
    <3>1. UNCHANGED db
      BY <2>1 DEF Poll, vars, index
    <3>2. ToSet(deleted') = ToSet(deleted) \cup gone
      BY <1>0, <2>1, PollDelivers DEF BooksInv, Keys
    <3> QED
      BY <2>1, <3>1, <3>2 DEF StreamInv, Poll
  <2>2. CASE DeliverDeleted
    <3>1. db' = {e \in db : Key(e) # Key(Head(deleted))}
      BY <1>0, <2>2, RemoveKeepsSound DEF DeliverDeleted, Deleted, FeedInv
    <3>2. ToSet(deleted) = {Head(deleted)} \cup ToSet(deleted')
      BY <1>0, <2>2, TailElements DEF FeedInv, DeliverDeleted
    <3> QED
      BY <1>3, <2>1, <3>1, <3>2
  <2>3. CASE DeliverAdded /\ db' = db \cup {Head(added)}
    <3>1. Head(added) \in ToSet(added) /\ UNCHANGED <<lapi, news, gone, deleted>>
      BY <1>0, <2>3, TailElements DEF FeedInv, DeliverAdded, lapiVars
    <3> QED
      BY <1>0, <1>3, <2>1, <2>3, <3>1 DEF BooksInv
  <2>4. CASE db' \subseteq db
    BY <1>3, <2>1, <2>2, <2>4, Quiet DEF DeliverAdded, feedVars
  <2> QED
    BY <1>0, <2>2, <2>3, <2>4, IndexChanges DEF StreamInv, index
<1> QED
  BY <1>0, <1>1, <1>2, <1>4 DEF StreamInv

LEMMA StreamInvInit == BouncerInit => StreamInv
BY LiveInvInit DEF BouncerInit, Init, StreamInv

\* In stream mode, with polls that wait for the stream, a ban that has been
\* delivered is enforced as long as it is in force, also when the value is
\* banned again after a ban has gone, whose withdrawal and expiry come late.
THEOREM StreamBansEnforced ==
  ASSUME Rebans # "renewal", DrainedBeforePoll, ~LiveEnabled
  PROVE  BouncerSpec => []BansEnforced
<1>1. BouncerInit => StreamInv
  BY StreamInvInit
<1>2. StreamInv /\ [BouncerNext]_bouncerVars => StreamInv'
  BY StreamInvStep
<1>3. StreamInv => BansEnforced
  BY DEF StreamInv, LiveInv, BooksInv, FeedInv, IndexSound, BansEnforced, Enforced, Keys
<1> QED
  BY <1>1, <1>2, <1>3, PTL DEF BouncerSpec

\* And nothing else is enforced: what is in the index is banned, has reached its
\* end, or its withdrawal is on its way.
THEOREM StreamNoStaleBan ==
  ASSUME Rebans # "renewal", DrainedBeforePoll, ~LiveEnabled
  PROVE  BouncerSpec => []NoStaleBan
<1>1. BouncerInit => StreamInv
  BY StreamInvInit
<1>2. StreamInv /\ [BouncerNext]_bouncerVars => StreamInv'
  BY StreamInvStep
<1>3. StreamInv => NoStaleBan
  BY DEF StreamInv, NoStaleBan, Keys
<1> QED
  BY <1>1, <1>2, <1>3, PTL DEF BouncerSpec
=============================================================================
