---------------------------- MODULE StreamPoller ----------------------------
(***************************************************************************)
(* crowdsec-client/src/Decisions/DecisionsBouncer.ts: the poll loops that  *)
(* feed the decision streams of one client.                                *)
(*                                                                         *)
(* Resuming a stream starts a poll loop: a request, then a timer, then the *)
(* next request...  All the streams of a client share the one field that   *)
(* remembers a timer, getStreamTimeout.  "handle" is that field, as long   *)
(* as the timer in it is armed; a timer that is armed but was overwritten  *)
(* in the field is counted in "leaked": nothing can clear it any more.     *)
(* The streams themselves are DecisionsStream; only "paused" is kept here. *)
(***************************************************************************)
EXTENDS Integers, FiniteSets

CONSTANTS
  Streams,     \* the streams that getStream() may return
  NoTimer,     \* no timer, or one that has fired or was cleared
  MaxLoops     \* bound: poll loops of one stream under way at once

ASSUME PollerAssumption ==
  /\ NoTimer \notin Streams
  /\ MaxLoops \in Nat \ {0}

Ask == {"startup", "update"}   \* ?startup=true and ?startup=false

VARIABLES
  created,         \* the streams getStream() has returned
  runningStreams,  \* runningStreams
  paused,          \* [Streams -> BOOLEAN]
  first,           \* [Streams -> BOOLEAN]: the closure variable of getStream
  handle,          \* the stream whose timer is in getStreamTimeout
  leaked,          \* [Streams -> Nat]: armed timers that the field forgot
  requests         \* [Streams -> [Ask -> Nat]]: GET .../stream in flight

vars == <<created, runningStreams, paused, first, handle, leaked, requests>>

Timers(s) == leaked[s] + (IF handle = s THEN 1 ELSE 0)

InFlight(s) == requests[s]["startup"] + requests[s]["update"]

\* The poll loops of a stream: each is waiting for an answer or for a timer.
Loops(s) == Timers(s) + InFlight(s)

Init ==
  /\ created = {}
  /\ runningStreams = {}
  /\ paused = [s \in Streams |-> TRUE]
  /\ first = [s \in Streams |-> TRUE]
  /\ handle = NoTimer
  /\ leaked = [s \in Streams |-> 0]
  /\ requests = [s \in Streams |-> [a \in Ask |-> 0]]

-----------------------------------------------------------------------------
\* getStream(), without a callback; with one it also resumes the stream.
GetStream(s) ==
  /\ s \notin created
  /\ created' = created \cup {s}
  /\ runningStreams' = runningStreams \cup {s}
  /\ UNCHANGED <<paused, first, handle, leaked, requests>>

\* The start of getStreamLoop: whatever timer is in the field is cleared.
Request(s, ask) ==
  /\ handle' = NoTimer
  /\ requests' = [requests EXCEPT ![s][ask] = @ + 1]

Resume(s) ==
  /\ s \in created
  /\ Loops(s) < MaxLoops
  /\ paused' = [paused EXCEPT ![s] = FALSE]
  /\ Request(s, IF first[s] THEN "startup" ELSE "update")
  /\ first' = [first EXCEPT ![s] = FALSE]
  /\ UNCHANGED <<created, runningStreams, leaked>>

Pause(s) ==
  /\ s \in created
  /\ paused' = [paused EXCEPT ![s] = TRUE]
  /\ handle' = NoTimer
  /\ UNCHANGED <<created, runningStreams, first, leaked, requests>>

\* close(): the 'close' listener was registered with once().
Close(s) ==
  /\ s \in created
  /\ paused' = [paused EXCEPT ![s] = TRUE]
  /\ handle' = IF s \in runningStreams THEN NoTimer ELSE handle
  /\ runningStreams' = runningStreams \ {s}
  /\ UNCHANGED <<created, first, leaked, requests>>

Stop ==
  /\ paused' = [s \in Streams |-> paused[s] \/ s \in runningStreams]
  /\ handle' = IF runningStreams # {} THEN NoTimer ELSE handle
  /\ runningStreams' = {}
  /\ UNCHANGED <<created, first, leaked, requests>>

-----------------------------------------------------------------------------
\* Mutant of Rearm: the stream is not asked whether it is paused.
RearmAlways(s) ==
  /\ handle' = s
  /\ leaked' = IF handle = NoTimer THEN leaked
               ELSE [leaked EXCEPT ![handle] = @ + 1]

\* The end of getStreamLoop: the next turn, unless the stream is paused.  The
\* field forgets the timer it held.
Rearm(s) ==
  IF paused[s]
  THEN UNCHANGED <<handle, leaked>>
  ELSE /\ handle' = s
       /\ leaked' = IF handle = NoTimer THEN leaked
                    ELSE [leaked EXCEPT ![handle] = @ + 1]

Answered(s, ask) ==
  /\ requests[s][ask] > 0
  /\ requests' = [requests EXCEPT ![s][ask] = @ - 1]

\* The LAPI answers: the decisions are pushed, also to a paused stream.
Answer(s, ask) ==
  /\ Answered(s, ask)
  /\ Rearm(s)
  /\ UNCHANGED <<created, runningStreams, paused, first>>

\* Mutant of Fail: an error ends the loop.
FailForGood(s, ask) ==
  /\ Answered(s, ask)
  /\ UNCHANGED <<created, runningStreams, paused, first, handle, leaked>>

\* No answer, or an error: 'error' is emitted on the stream, whose listeners
\* are taken not to throw, and the loop goes on.
Fail(s, ask) ==
  /\ Answered(s, ask)
  /\ Rearm(s)
  /\ UNCHANGED <<created, runningStreams, paused, first>>

\* The timer in the field fires.
TimerFires(s) ==
  /\ handle = s
  /\ Request(s, "update")
  /\ UNCHANGED <<created, runningStreams, paused, first, leaked>>

\* A forgotten timer fires, and the loop it starts clears the timer in the
\* field, whosever it is.
LeakedTimerFires(s) ==
  /\ leaked[s] > 0
  /\ leaked' = [leaked EXCEPT ![s] = @ - 1]
  /\ Request(s, "update")
  /\ UNCHANGED <<created, runningStreams, paused, first>>

-----------------------------------------------------------------------------
Next ==
  \/ Stop
  \/ \E s \in Streams :
       \/ GetStream(s)
       \/ Resume(s)
       \/ Pause(s)
       \/ Close(s)
       \/ TimerFires(s)
       \/ LeakedTimerFires(s)
       \/ \E ask \in Ask : Answer(s, ask) \/ Fail(s, ask)

Spec == Init /\ [][Next]_vars

\* Timers fire, and axios gives up on a request after its timeout.
Fairness ==
  \A s \in Streams :
    /\ WF_vars(TimerFires(s))
    /\ WF_vars(LeakedTimerFires(s))
    /\ \A ask \in Ask : WF_vars(Answer(s, ask) \/ Fail(s, ask))

FairSpec == Spec /\ Fairness

-----------------------------------------------------------------------------
(* Properties                                                              *)

\* Type invariant of the client's fields and of what is under way.
TypeOK ==
  /\ created \subseteq Streams
  /\ runningStreams \subseteq created
  /\ paused \in [Streams -> BOOLEAN]
  /\ first \in [Streams -> BOOLEAN]
  /\ handle \in Streams \cup {NoTimer}
  /\ leaked \in [Streams -> Nat]
  /\ requests \in [Streams -> [Ask -> Nat]]

\* The only stream of a client, as the HTTP middleware uses it, keeps polling
\* unless it is paused: a request or a timer of its own is under way, whatever
\* fails and however pause, resume, close and stop are interleaved.  Nothing
\* restarts a poll loop that has died, and of two streams one may die.
LoneStreamKeepsPolling ==
  \A s \in Streams : created = {s} => paused[s] \/ Loops(s) > 0

\* While a stream stays paused or closed no timer of it is set and no poll loop
\* of it is born, by no other stream's doing either: what is under way can only
\* come to an end.
NothingArmedWhilePaused ==
  [][\A s \in Streams :
       paused[s] /\ paused'[s]
         => Timers(s)' <= Timers(s) /\ Loops(s)' <= Loops(s)]_vars

\* A stream that stays paused or closed falls silent, the timers that the
\* field forgot included: such a timer polls once more and then gives up.
PausedFallsSilent ==
  \A s \in Streams : paused[s] ~> (Loops(s) = 0 \/ ~paused[s])
=============================================================================
