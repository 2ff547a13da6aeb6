--------------------------- MODULE DecisionsStream ---------------------------
(***************************************************************************)
(* crowdsec-client/src/Decisions/DecisionsStream.ts: the queue between the *)
(* polls of the LAPI and the 'added' / 'deleted' listeners.                *)
(*                                                                         *)
(* push() starts two parse loops and, unless one is running, a drain loop; *)
(* a drain loop runs one drain per kind of decision.  All of them are      *)
(* nonBlockingLoop()s: asynchronous functions of one JavaScript thread     *)
(* that walk an array which the others change under them and give the      *)
(* thread back after every index that is a multiple of BreakCounter.       *)
(* "thread" is the stack of drains that run synchronously now; everything  *)
(* else runs when it is empty, except what a listener calls from inside an *)
(* emission ("listener").  Promise continuations (Settle, LoopDone,        *)
(* LoopFailed) run before the event loop wakes a drain or a parse loop.    *)
(***************************************************************************)
EXTENDS Integers, Sequences, SequencesExt, FiniteSets

CONSTANTS
  BreakCounter,   \* indices between two awaits of nonBlockingLoop (100)
  MaxDecisions,   \* bound: raw decisions received of each kind
  MaxReceived,    \* bound: raw decisions received of both kinds together
  MaxThrows,      \* bound: times a user's listener throws
  MaxMalformed    \* bound: raw decisions whose duration does not parse

ASSUME StreamAssumption ==
  /\ BreakCounter \in Nat \ {0}
  /\ MaxDecisions \in Nat
  /\ MaxReceived \in Nat
  /\ MaxThrows \in Nat
  /\ MaxMalformed \in Nat

Kind == {"added", "deleted"}

Empty == 0                    \* an undefined slot of a decisions array
Decisions == 1..MaxDecisions  \* the raw decisions of a kind, as they arrive

\* A throw leaves one orphan drain behind and a loop has two drains; the two
\* more are there to see a second loop, were one ever to start.
DrainId == 1..(4 + MaxThrows)

VARIABLES
  paused,     \* _paused
  looping,    \* looping
  queue,      \* [Kind -> Seq]: this.decisions, Empty where emitted
  parsers,    \* the parse loops that have not reached the end of their list
  drains,     \* [DrainId -> drain]: the emitDecisions() calls under way
  thread,     \* stack of the drains that run synchronously
  listener,   \* a listener called by the last emission may still be running
  sent,       \* [Kind -> Nat]: raw decisions received
  accepted,   \* history: [Kind -> Seq], the decisions queued, in order
  delivered,  \* history: [Kind -> Seq], the decisions emitted, in order
  thrown,     \* times a listener threw
  malformed   \* raw decisions that did not parse

vars == <<paused, looping, queue, parsers, drains, thread, listener, sent,
          accepted, delivered, thrown, malformed>>

histories == <<sent, accepted, malformed>>

\* What a drain has no hand in.
rest == <<paused, looping, parsers, histories>>

Idle == [phase |-> "idle", kind |-> "added", at |-> 0, stop |-> FALSE,
         orphan |-> FALSE]

Drain == [phase : {"idle", "running", "waiting", "ended", "failed"},
          kind : Kind, at : Nat, stop : BOOLEAN, orphan : BOOLEAN]

Parser == [kind : Kind, first : Decisions, next : Decisions, last : Decisions]

\* What an array still holds, in order.
PendingOf(slots) ==
  LET first[n \in 0..Len(slots)] ==   \* of the first n slots
        IF n = 0 THEN <<>>
        ELSE IF slots[n] = Empty THEN first[n - 1] ELSE Append(first[n - 1], slots[n])
  IN  first[Len(slots)]

Pending(k) == PendingOf(queue[k])

-----------------------------------------------------------------------------
(* nonBlockingLoop                                                         *)

AwaitsAt(i) == i % BreakCounter = 0

\* The last index handled before the thread is given back, starting at i.
ChunkEnd(i, last) ==
  LET stop == i + ((-i) % BreakCounter)
  IN  IF stop > last THEN last ELSE stop

\* Mutant of Cleanup: a drain that ends is taken to have emitted everything.
CleanupAll(slots) == <<>>

\* The forEach that is meant to remove the empty slots: it visits the indices
\* of the array as it was, and looks at the slot counted from the end of the
\* array as it is.
Visit(array, index) ==
  LET i == Len(array) - index   \* zero-based, as in the code
  IN  IF index \in 1..(Len(array) - 1) /\ array[i + 1] = Empty
      THEN RemoveAt(array, i + 1)
      ELSE array

Cleanup(slots) ==
  LET visited[n \in 0..Len(slots)] ==   \* after n visits
        IF n = 0 THEN slots ELSE Visit(visited[n - 1], n - 1)
  IN  visited[Len(slots)]

\* Every promise continuation that is due has run.
NoMicrotask ==
  /\ thread = <<>>
  /\ \A d \in DrainId : drains[d].phase \in {"idle", "waiting"}
  /\ looping => \E d \in DrainId : drains[d].phase # "idle" /\ ~drains[d].orphan

-----------------------------------------------------------------------------
Init ==
  /\ paused = TRUE
  /\ looping = FALSE
  /\ queue = [k \in Kind |-> <<>>]
  /\ parsers = {}
  /\ drains = [d \in DrainId |-> Idle]
  /\ thread = <<>>
  /\ listener = FALSE
  /\ sent = [k \in Kind |-> 0]
  /\ accepted = [k \in Kind |-> <<>>]
  /\ delivered = [k \in Kind |-> <<>>]
  /\ thrown = 0
  /\ malformed = 0

\* User code runs: between two tasks, or called by an emission.
UserCode == thread = <<>> \/ listener

MayLoop(isPaused) == ~looping /\ ~isPaused

\* loop(): returns at once if a loop runs or the stream is paused; otherwise
\* the drain of the deleted decisions starts, then that of the added ones.
Loop(isPaused) ==
  IF ~MayLoop(isPaused)
  THEN UNCHANGED <<looping, drains, thread>>
  ELSE LET free == {d \in DrainId : drains[d].phase = "idle"}
           first == CHOOSE d \in free : \A e \in free : d <= e
           second == CHOOSE d \in free \ {first} :
                       \A e \in free \ {first} : d <= e
           Start(k) == [Idle EXCEPT !.phase = "running", !.kind = k]
       IN  /\ looping' = TRUE
           /\ drains' = [drains EXCEPT ![first] = Start("deleted"),
                                       ![second] = Start("added")]
           /\ thread' = <<first, second>> \o thread

\* push(): the first decision of each list is parsed before the first await
\* of its parse loop; a decision that does not parse ends its list.
Push(size, bad) ==
  LET first(k) == sent[k] + 1
      ok == {k \in Kind : size[k] > 0 /\ k \notin bad}
      parsed == [k \in Kind |-> IF k \in ok THEN <<first(k)>> ELSE <<>>]
  IN  /\ UserCode
      /\ \A k \in Kind : sent[k] + size[k] <= MaxDecisions
      /\ sent["added"] + sent["deleted"] + size["added"] + size["deleted"]
           <= MaxReceived
      /\ \A k \in bad : size[k] > 0
      /\ malformed + Cardinality(bad) <= MaxMalformed
      /\ sent' = [k \in Kind |-> sent[k] + size[k]]
      /\ queue' = [k \in Kind |-> queue[k] \o parsed[k]]
      /\ accepted' = [k \in Kind |-> accepted[k] \o parsed[k]]
      /\ parsers' = parsers \cup
           {[kind |-> k, first |-> first(k), next |-> first(k) + 1,
             last |-> sent[k] + size[k]] : k \in {c \in ok : size[c] > 1}}
      /\ malformed' = malformed + Cardinality(bad)
      /\ Loop(paused)
      /\ listener' = FALSE
      /\ UNCHANGED <<paused, delivered, thrown>>

\* A parse loop runs to its next await; "good" decisions parse, then either
\* the chunk is done or the next decision of the list throws.
ParseChunk(p, good) ==
  LET end == p.first + ChunkEnd(p.next - p.first, p.last - p.first)
      parsed == [n \in 1..good |-> p.next + n - 1]
      done == p.next + good = end + 1
  IN  /\ NoMicrotask
      /\ p.next + good <= end + 1
      /\ done \/ malformed < MaxMalformed
      /\ malformed' = IF done THEN malformed ELSE malformed + 1
      /\ queue' = [queue EXCEPT ![p.kind] = @ \o parsed]
      /\ accepted' = [accepted EXCEPT ![p.kind] = @ \o parsed]
      /\ parsers' = (parsers \ {p}) \cup
           (IF done /\ end < p.last THEN {[p EXCEPT !.next = end + 1]} ELSE {})
      /\ UNCHANGED <<paused, looping, drains, thread, listener, sent,
                     delivered, thrown>>

-----------------------------------------------------------------------------
(* emitDecisions: the drain on top of the stack handles its next index.    *)

Running(d) == thread # <<>> /\ Head(thread) = d

\* The index is handled: give the thread back where the loop awaits.
Advance(d, stop) ==
  LET at == drains[d].at
      awaits == AwaitsAt(at)
      next == IF awaits THEN "waiting" ELSE IF stop THEN "ended" ELSE "running"
  IN  /\ drains' = [drains EXCEPT ![d].at = at + 1, ![d].stop = stop,
                                  ![d].phase = next]
      /\ thread' = IF next = "running" THEN thread ELSE Tail(thread)

InReach(d) == ~drains[d].stop /\ drains[d].at < Len(queue[drains[d].kind])

Slot(d) == queue[drains[d].kind][drains[d].at + 1]

ReachEnd(d) ==
  /\ Running(d) /\ ~InReach(d)
  /\ drains' = [drains EXCEPT ![d].phase = "ended"]
  /\ thread' = Tail(thread)
  /\ listener' = FALSE
  /\ UNCHANGED <<queue, delivered, thrown, rest>>

StopPaused(d) ==
  /\ Running(d) /\ InReach(d) /\ paused
  /\ Advance(d, TRUE)
  /\ listener' = FALSE
  /\ UNCHANGED <<queue, delivered, thrown, rest>>

AtEmpty(d) == Running(d) /\ InReach(d) /\ ~paused /\ Slot(d) = Empty

\* Mutant of SkipEmpty: the drain takes an empty slot for the end.
SkipEmptyStops(d) ==
  /\ AtEmpty(d)
  /\ Advance(d, TRUE)
  /\ listener' = FALSE
  /\ UNCHANGED <<queue, delivered, thrown, rest>>

SkipEmpty(d) ==
  /\ AtEmpty(d)
  /\ Advance(d, FALSE)
  /\ listener' = FALSE
  /\ UNCHANGED <<queue, delivered, thrown, rest>>

AtDecision(d) == Running(d) /\ InReach(d) /\ ~paused /\ Slot(d) # Empty

\* emit() calls the listener, which may push, pause or resume; the slot is
\* emptied when it returns, and no drain looks at it before: one that the
\* listener starts gives the thread back at index 0, which d has left behind.
Emit(d) ==
  LET k == drains[d].kind
  IN  /\ AtDecision(d)
      /\ delivered' = [delivered EXCEPT ![k] = Append(@, Slot(d))]
      /\ queue' = [queue EXCEPT ![k][drains[d].at + 1] = Empty]
      /\ Advance(d, FALSE)
      /\ listener' = TRUE
      /\ UNCHANGED <<thrown, rest>>

\* Mutant of EmitThrows: the slot is emptied all the same.
EmitThrowsDropping(d) ==
  /\ AtDecision(d)
  /\ thrown < MaxThrows
  /\ thrown' = thrown + 1
  /\ queue' = [queue EXCEPT ![drains[d].kind][drains[d].at + 1] = Empty]
  /\ drains' = [drains EXCEPT ![d].phase = "failed"]
  /\ thread' = Tail(thread)
  /\ listener' = FALSE
  /\ UNCHANGED <<delivered, rest>>

\* The listener throws: the slot keeps its decision, the drain rejects.
EmitThrows(d) ==
  /\ AtDecision(d)
  /\ thrown < MaxThrows
  /\ thrown' = thrown + 1
  /\ drains' = [drains EXCEPT ![d].phase = "failed"]
  /\ thread' = Tail(thread)
  /\ listener' = FALSE
  /\ UNCHANGED <<queue, delivered, rest>>

\* setImmediate: a drain gets the thread back.
Wake(d) ==
  /\ NoMicrotask
  /\ drains[d].phase = "waiting"
  /\ drains' = [drains EXCEPT ![d].phase = "running"]
  /\ thread' = <<d>>
  /\ listener' = FALSE
  /\ UNCHANGED <<queue, delivered, thrown, rest>>

\* The end of emitDecisions: the array is cleaned up, the promise resolves.
Settle(d) ==
  /\ thread = <<>>
  /\ drains[d].phase = "ended"
  /\ queue' = [queue EXCEPT ![drains[d].kind] = Cleanup(@)]
  /\ drains' = [drains EXCEPT ![d] = Idle]
  /\ UNCHANGED <<thread, listener, delivered, thrown, rest>>

\* Both promises of Promise.all have resolved.
LoopDone ==
  /\ thread = <<>>
  /\ looping
  /\ \A d \in DrainId : drains[d].phase = "idle" \/ drains[d].orphan
  /\ looping' = FALSE
  /\ UNCHANGED <<paused, queue, parsers, drains, thread, listener, delivered,
                 thrown, histories>>

\* Mutant of LoopFailed: the rejection of a drain is never passed on.
LoopFailedUnheard(d) ==
  /\ thread = <<>>
  /\ drains[d].phase = "failed"
  /\ UNCHANGED vars

\* Promise.all rejects with its first rejection, while the other drain goes
\* on with nobody waiting for it; an orphan's own rejection has no effect.
LoopFailed(d) ==
  /\ thread = <<>>
  /\ drains[d].phase = "failed"
  /\ IF drains[d].orphan
     THEN /\ drains' = [drains EXCEPT ![d] = Idle]
          /\ UNCHANGED looping
     ELSE /\ drains' = [e \in DrainId |->
                          IF e = d THEN Idle
                          ELSE IF drains[e].phase = "idle" THEN Idle
                          ELSE [drains[e] EXCEPT !.orphan = TRUE]]
          /\ looping' = FALSE
  /\ UNCHANGED <<paused, queue, parsers, thread, listener, delivered, thrown,
                 histories>>

-----------------------------------------------------------------------------
(* The user's side.                                                        *)

Pause ==
  /\ UserCode
  /\ paused' = TRUE
  /\ UNCHANGED <<looping, queue, parsers, drains, thread, listener, delivered,
                 thrown, histories>>

\* close() differs from pause() in the event it emits (StreamPoller).
Close == Pause

Resume ==
  /\ UserCode
  /\ paused' = FALSE
  /\ Loop(FALSE)
  /\ listener' = FALSE
  /\ UNCHANGED <<queue, parsers, delivered, thrown, histories>>

-----------------------------------------------------------------------------
Sizes == [Kind -> 0..MaxDecisions]

NoDecision == [k \in Kind |-> 0]

Next ==
  \/ \E size \in Sizes, bad \in SUBSET Kind : Push(size, bad)
  \/ \E p \in parsers : \E good \in 0..MaxDecisions : ParseChunk(p, good)
  \/ \E d \in DrainId :
       \/ ReachEnd(d)
       \/ StopPaused(d)
       \/ SkipEmpty(d)
       \/ Emit(d)
       \/ EmitThrows(d)
       \/ Wake(d)
       \/ Settle(d)
       \/ LoopFailed(d)
  \/ LoopDone
  \/ Pause
  \/ Close
  \/ Resume

Spec == Init /\ [][Next]_vars

\* The event loop runs what is due, and the poller pushes an answer, be it
\* empty, every interval.
DrainStep(d) ==
  ReachEnd(d) \/ StopPaused(d) \/ SkipEmpty(d) \/ Emit(d) \/ Settle(d)
    \/ LoopFailed(d)

Fairness ==
  /\ \A d \in DrainId : WF_vars(DrainStep(d)) /\ WF_vars(Wake(d))
  /\ WF_vars(LoopDone)
  /\ WF_vars(\E p \in parsers : \E good \in 0..MaxDecisions : ParseChunk(p, good))
  /\ WF_vars(Push(NoDecision, {}))

FairSpec == Spec /\ Fairness

-----------------------------------------------------------------------------
(* Properties                                                              *)

\* Type invariant of the stream's fields and of the loops under way.
TypeOK ==
  /\ paused \in BOOLEAN
  /\ looping \in BOOLEAN
  /\ DOMAIN queue = Kind
  /\ parsers \subseteq Parser
  /\ drains \in [DrainId -> Drain]
  /\ listener \in BOOLEAN
  /\ sent \in [Kind -> 0..MaxDecisions]
  /\ thrown \in 0..MaxThrows
  /\ malformed \in 0..MaxMalformed

\* Whatever the drains, the parse loops, the clean-ups and the listeners that
\* call back or throw do to the two arrays, a decision that was queued is
\* either still in its array, once, or was delivered, once.
NeverLostNorRepeated ==
  \A k \in Kind :
    LET all == delivered[k] \o Pending(k)
    IN  /\ Len(all) = Len(accepted[k])
        /\ ToSet(all) = ToSet(accepted[k])

\* As long as no listener has thrown, there are never two drains on one array:
\* "looping" is an effective lock although loop() awaits while it holds it.
OneDrainPerArray ==
  thrown = 0 => \A d, e \in DrainId :
    /\ drains[d].phase # "idle"
    /\ drains[e].phase # "idle"
    /\ drains[d].kind = drains[e].kind
    => d = e

\* A loop that started gives "looping" back, also when a drain rejects or the
\* stream is paused under it: the stream cannot be locked out of its queue.
LoopEnds == looping ~> ~looping

\* A queued decision is delivered, unless the stream is paused meanwhile: a
\* push or a resume that finds a loop running does not start one, so this
\* rests on the next poll, which comes every interval, to drain what is left.
EveryDecisionDelivered ==
  \A k \in Kind : \A n \in Decisions :
    n \in ToSet(Pending(k)) ~> (n \notin ToSet(Pending(k)) \/ paused)

\* As long as no listener throws, the stream is an ordered feed per kind.
Feed == INSTANCE DecisionsFeed WITH
          backlog <- [k \in Kind |-> Pending(k)],
          flowing <- ~paused,
          broken <- thrown > 0

ImplementsFeed == Feed!FeedSpec
=============================================================================
