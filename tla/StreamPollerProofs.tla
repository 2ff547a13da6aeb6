-------------------------- MODULE StreamPollerProofs --------------------------
(***************************************************************************)
(* Theorems about StreamPoller: for any number of streams, their types and *)
(* what a paused stream may not do; for the only stream of a client, that  *)
(* its poll loop does not die.                                             *)
(***************************************************************************)
EXTENDS StreamPoller, TLAPS

-----------------------------------------------------------------------------
\* What the two steps at either end of getStreamLoop do to the counters.
LEMMA RequestTypes ==
  ASSUME TypeOK, NEW s \in Streams, NEW ask \in Ask, Request(s, ask)
  PROVE  /\ handle' \in Streams \cup {NoTimer}
         /\ requests' \in [Streams -> [Ask -> Nat]]
BY DEF TypeOK, Request

LEMMA AnsweredTypes ==
  ASSUME TypeOK, NEW s \in Streams, NEW ask \in Ask, Answered(s, ask)
  PROVE  requests' \in [Streams -> [Ask -> Nat]]
BY DEF TypeOK, Answered

LEMMA RearmTypes ==
  ASSUME TypeOK, NEW s \in Streams, Rearm(s)
  PROVE  /\ handle' \in Streams \cup {NoTimer}
         /\ leaked' \in [Streams -> Nat]
BY DEF TypeOK, Rearm

LEMMA TypeStep == TypeOK /\ [Next]_vars => TypeOK'
<1> SUFFICES ASSUME TypeOK, [Next]_vars PROVE TypeOK'
  OBVIOUS
<1>1. CASE Stop
  BY <1>1 DEF Stop, TypeOK
<1>2. ASSUME NEW s \in Streams, GetStream(s) PROVE TypeOK'
  BY <1>2 DEF GetStream, TypeOK
<1>3. ASSUME NEW s \in Streams, Resume(s) PROVE TypeOK'
  <2>1. (IF first[s] THEN "startup" ELSE "update") \in Ask
    BY DEF Ask
  <2> QED
    BY <1>3, <2>1, RequestTypes DEF Resume, TypeOK
<1>4. ASSUME NEW s \in Streams, Pause(s) \/ Close(s) PROVE TypeOK'
  BY <1>4 DEF Pause, Close, TypeOK
<1>5. ASSUME NEW s \in Streams, TimerFires(s) PROVE TypeOK'
  BY <1>5, RequestTypes DEF TimerFires, TypeOK, Ask
<1>6. ASSUME NEW s \in Streams, LeakedTimerFires(s) PROVE TypeOK'
  BY <1>6, RequestTypes DEF LeakedTimerFires, TypeOK, Ask
<1>7. ASSUME NEW s \in Streams, NEW ask \in Ask, Answer(s, ask) \/ Fail(s, ask)
      PROVE  TypeOK'
  BY <1>7, AnsweredTypes, RearmTypes DEF Answer, Fail, TypeOK
<1>8. CASE UNCHANGED vars
  BY <1>8 DEF vars, TypeOK
<1> QED
  BY <1>1, <1>2, <1>3, <1>4, <1>5, <1>6, <1>7, <1>8 DEF Next

\* The client's fields keep their types, and no timer or request is counted
\* off that was not under way.
THEOREM TypeCorrect == Spec => []TypeOK
<1>1. Init => TypeOK
  BY DEF Init, TypeOK
<1> QED
  BY <1>1, TypeStep, PTL DEF Spec
-----------------------------------------------------------------------------
\* The same two steps, in numbers of requests and timers.
LEMMA RequestCounts ==
  ASSUME TypeOK, NEW s \in Streams, NEW ask \in Ask, Request(s, ask)
  PROVE  /\ InFlight(s)' = InFlight(s) + 1
         /\ \A t \in Streams \ {s} : InFlight(t)' = InFlight(t)
BY DEF TypeOK, Request, InFlight, Ask

LEMMA AnsweredCounts ==
  ASSUME TypeOK, NEW s \in Streams, NEW ask \in Ask, Answered(s, ask)
  PROVE  /\ InFlight(s)' = InFlight(s) - 1
         /\ \A t \in Streams \ {s} : InFlight(t)' = InFlight(t)
BY DEF TypeOK, Answered, InFlight, Ask

LEMMA RearmCounts ==
  ASSUME TypeOK, NEW s \in Streams, Rearm(s)
  PROVE  /\ Timers(s)' = IF paused[s] THEN Timers(s) ELSE Timers(s) + 1
         /\ \A t \in Streams \ {s} : Timers(t)' = Timers(t)
<1>1. CASE paused[s]
  BY <1>1 DEF Rearm, Timers
<1>2. CASE ~paused[s]
  <2>1. handle' = s /\ leaked' = IF handle = NoTimer THEN leaked
                                 ELSE [leaked EXCEPT ![handle] = @ + 1]
    BY <1>2 DEF Rearm
  <2> QED
    BY <1>2, <2>1, PollerAssumption DEF TypeOK, Timers
<1> QED
  BY <1>1, <1>2

LEMMA CountTypes ==
  ASSUME TypeOK, NEW s \in Streams
  PROVE  Timers(s) \in Nat /\ InFlight(s) \in Nat /\ Loops(s) \in Nat
BY DEF TypeOK, Timers, InFlight, Loops, Ask

LEMMA CountTypesNext ==
  ASSUME TypeOK', NEW s \in Streams
  PROVE  Timers(s)' \in Nat /\ InFlight(s)' \in Nat /\ Loops(s)' \in Nat
BY DEF TypeOK, Timers, InFlight, Loops, Ask

\* A timer in the field that is cleared, fires or stays is one timer fewer of
\* its stream, or none.
LEMMA HandleGoes ==
  ASSUME TypeOK, UNCHANGED leaked, handle' \in {handle, NoTimer}, NEW s \in Streams
  PROVE  /\ Timers(s)' <= Timers(s)
         /\ handle' # handle /\ handle = s => Timers(s)' = Timers(s) - 1
         /\ handle # s => Timers(s)' = Timers(s)
BY PollerAssumption DEF TypeOK, Timers

-----------------------------------------------------------------------------
(* A paused stream                                                         *)

NoNewLoop(s) == Timers(s)' <= Timers(s) /\ Loops(s)' <= Loops(s)

LEMMA PausedStep ==
  ASSUME TypeOK, [Next]_vars, NEW s \in Streams, paused[s], paused'[s]
  PROVE  NoNewLoop(s)
<1>0. /\ Timers(s) \in Nat /\ InFlight(s) \in Nat
      /\ Timers(s)' \in Nat /\ InFlight(s)' \in Nat
  BY CountTypes, CountTypesNext, TypeStep
<1> USE <1>0 DEF NoNewLoop, Loops
<1>1. ASSUME UNCHANGED <<leaked, requests>>, handle' \in {handle, NoTimer}
      PROVE  NoNewLoop(s)
  BY <1>1, HandleGoes DEF InFlight
<1>2. CASE Stop \/ UNCHANGED vars
  BY <1>1, <1>2 DEF Stop, vars
<1>3. ASSUME NEW t \in Streams, GetStream(t) \/ Pause(t) \/ Close(t)
      PROVE  NoNewLoop(s)
  BY <1>1, <1>3 DEF GetStream, Pause, Close
<1>4. ASSUME NEW t \in Streams, Resume(t) PROVE NoNewLoop(s)
  <2>1. t # s
    BY <1>4 DEF Resume, TypeOK
  <2>2. PICK ask \in Ask : Request(t, ask)
    BY <1>4 DEF Resume, Ask
  <2>3. UNCHANGED leaked /\ handle' = NoTimer
    BY <1>4, <2>2 DEF Resume, Request
  <2> QED
    BY <2>1, <2>2, <2>3, RequestCounts, HandleGoes
<1>5. ASSUME NEW t \in Streams, TimerFires(t) PROVE NoNewLoop(s)
  <2>1. /\ Request(t, "update") /\ "update" \in Ask
        /\ UNCHANGED leaked /\ handle = t /\ handle' = NoTimer /\ handle' # handle
    BY <1>5, PollerAssumption DEF TimerFires, Request, Ask
  <2>2. CASE t = s
    BY <2>1, <2>2, RequestCounts, HandleGoes
  <2>3. CASE t # s
    BY <2>1, <2>3, RequestCounts, HandleGoes
  <2> QED
    BY <2>2, <2>3
<1>6. ASSUME NEW t \in Streams, LeakedTimerFires(t) PROVE NoNewLoop(s)
  <2>1. /\ Request(t, "update") /\ "update" \in Ask
        /\ leaked[t] > 0 /\ leaked' = [leaked EXCEPT ![t] = @ - 1]
        /\ handle' = NoTimer
    BY <1>6 DEF LeakedTimerFires, Request, Ask
  <2>2. /\ Timers(s)' <= Timers(s)
        /\ t = s => Timers(s)' <= Timers(s) - 1
    BY <2>1, PollerAssumption DEF TypeOK, Timers
  <2>3. InFlight(s)' = IF t = s THEN InFlight(s) + 1 ELSE InFlight(s)
    BY <2>1, RequestCounts
  <2> QED
    BY <2>2, <2>3
<1>7. ASSUME NEW t \in Streams, NEW ask \in Ask, Answer(t, ask) \/ Fail(t, ask)
      PROVE  NoNewLoop(s)
  <2>1. Answered(t, ask) /\ Rearm(t)
    BY <1>7 DEF Answer, Fail
  <2>2. Timers(s)' = Timers(s)
    BY <2>1, RearmCounts
  <2>3. InFlight(s)' <= InFlight(s)
    BY <2>1, AnsweredCounts
  <2> QED
    BY <2>2, <2>3
<1> QED
  BY <1>2, <1>3, <1>4, <1>5, <1>6, <1>7 DEF Next

\* Nothing arms a timer of a stream that stays paused, or starts a poll loop of
\* it, however many streams share the field.
THEOREM PausedStaysQuiet == Spec => NothingArmedWhilePaused
<1>1. TypeOK /\ [Next]_vars =>
        [\A s \in Streams :
           paused[s] /\ paused'[s]
             => Timers(s)' <= Timers(s) /\ Loops(s)' <= Loops(s)]_vars
  BY PausedStep DEF NoNewLoop
<1> QED
  BY <1>1, TypeCorrect, PTL DEF Spec, NothingArmedWhilePaused
-----------------------------------------------------------------------------
(* The poll loop of the only stream of a client                            *)

\* A stream that getStream() has not returned has no part in anything.
AliveInv ==
  /\ TypeOK
  /\ \A t \in Streams \ created : paused[t] /\ Loops(t) = 0
  /\ LoneStreamKeepsPolling

\* Nobody polls on behalf of a stream that is not there.
LEMMA UncreatedStep ==
  ASSUME AliveInv, [Next]_vars, NEW t \in Streams \ created'
  PROVE  t \notin created /\ paused'[t] /\ Loops(t)' = 0
<1>1. t \notin created /\ paused[t] /\ Loops(t) = 0
  <2>1. created \subseteq created'
    BY DEF Next, vars, Stop, GetStream, Resume, Pause, Close, TimerFires,
           LeakedTimerFires, Answer, Fail
  <2> QED
    BY <2>1 DEF AliveInv
<1>2. paused'[t]
  BY <1>1 DEF AliveInv, TypeOK, Next, vars, Stop, GetStream, Resume, Pause, Close,
              TimerFires, LeakedTimerFires, Answer, Fail
<1>3. Loops(t)' <= 0
  BY <1>1, <1>2, PausedStep DEF AliveInv, NoNewLoop
<1>4. Loops(t)' \in Nat
  BY CountTypesNext, TypeStep DEF AliveInv
<1> QED
  BY <1>1, <1>2, <1>3, <1>4

LEMMA AliveStep ==
  ASSUME AliveInv, [Next]_vars, NEW s \in Streams, created' = {s}
  PROVE  paused'[s] \/ Loops(s)' > 0
<1> DEFINE Alive == paused'[s] \/ Loops(s)' > 0
<1>0. /\ Timers(s) \in Nat /\ InFlight(s) \in Nat
      /\ Timers(s)' \in Nat /\ InFlight(s)' \in Nat
  BY CountTypes, CountTypesNext, TypeStep DEF AliveInv
<1>1. paused[s] \/ Loops(s) > 0
  BY DEF AliveInv, LoneStreamKeepsPolling, Next, vars, Stop, GetStream, Resume,
         Pause, Close, TimerFires, LeakedTimerFires, Answer, Fail
<1>2. \A t \in Streams \ {s} : /\ t \notin created
                               /\ paused[t] /\ Timers(t) = 0 /\ InFlight(t) = 0
  <2>1. TAKE t \in Streams \ {s}
  <2>2. t \notin created /\ paused[t] /\ Loops(t) = 0
    BY UncreatedStep DEF AliveInv
  <2> QED
    BY <2>2, CountTypes DEF AliveInv, Loops
<1>3. ASSUME UNCHANGED <<paused, handle, leaked, requests>> PROVE Alive
  BY <1>1, <1>3 DEF Loops, Timers, InFlight
<1>4. CASE Stop
  <2>1. CASE runningStreams = {}
    BY <1>0, <1>1, <1>4, <2>1 DEF Stop, AliveInv, TypeOK, Loops, Timers, InFlight
  <2>2. CASE runningStreams # {}
    <3>1. s \in runningStreams
      BY <1>4, <2>2 DEF Stop, AliveInv, TypeOK
    <3> QED
      BY <1>4, <3>1 DEF Stop
  <2> QED
    BY <2>1, <2>2
<1>5. ASSUME NEW t \in Streams, GetStream(t) \/ UNCHANGED vars PROVE Alive
  BY <1>3, <1>5 DEF GetStream, vars
<1>6. ASSUME NEW t \in Streams, Pause(t) \/ Close(t) PROVE Alive
  <2>1. t = s
    BY <1>2, <1>6 DEF Pause, Close
  <2> QED
    BY <1>6, <2>1 DEF Pause, Close, AliveInv, TypeOK
<1>7. ASSUME NEW ask \in Ask, Request(s, ask) PROVE Alive
  BY <1>0, <1>7, RequestCounts DEF Loops, AliveInv
<1>8. ASSUME NEW t \in Streams, Resume(t) \/ TimerFires(t) \/ LeakedTimerFires(t)
      PROVE  Alive
  <2>1. t = s
    <3>1. t \in created \/ Timers(t) > 0
      BY <1>8, PollerAssumption
      DEF Resume, TimerFires, LeakedTimerFires, AliveInv, TypeOK, Timers
    <3> QED
      BY <1>2, <3>1
  <2> QED
    BY <1>7, <1>8, <2>1 DEF Resume, TimerFires, LeakedTimerFires, Ask
<1>9. ASSUME NEW t \in Streams, NEW ask \in Ask, Answer(t, ask) \/ Fail(t, ask)
      PROVE  Alive
  <2>1. Answered(t, ask) /\ Rearm(t) /\ UNCHANGED paused
    BY <1>9 DEF Answer, Fail
  <2>2. t = s
    <3>1. InFlight(t) > 0
      BY <2>1 DEF Answered, InFlight, AliveInv, TypeOK, Ask
    <3> QED
      BY <1>2, <3>1
  <2>3. CASE paused[s]
    BY <2>1, <2>3
  <2>4. CASE ~paused[s]
    BY <1>0, <2>1, <2>2, <2>4, RearmCounts DEF Loops, AliveInv
  <2> QED
    BY <2>3, <2>4
<1>10. CASE UNCHANGED vars
  BY <1>3, <1>10 DEF vars
<1> QED
  BY <1>4, <1>5, <1>6, <1>8, <1>9, <1>10 DEF Next

\* A stream that is the only one of its client and not paused never stops
\* polling, whatever fails and however pause, resume, close and stop are
\* interleaved.
THEOREM LoneStreamCorrect == Spec => []LoneStreamKeepsPolling
<1>1. Init => AliveInv
  BY PollerAssumption
  DEF Init, AliveInv, TypeOK, LoneStreamKeepsPolling, Loops, Timers, InFlight, Ask
<1>2. AliveInv /\ [Next]_vars => AliveInv'
  BY AliveStep, UncreatedStep, TypeStep DEF AliveInv, LoneStreamKeepsPolling
<1>3. AliveInv => LoneStreamKeepsPolling
  BY DEF AliveInv
<1> QED
  BY <1>1, <1>2, <1>3, PTL DEF Spec
=============================================================================
