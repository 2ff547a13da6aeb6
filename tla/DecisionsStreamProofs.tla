------------------------- MODULE DecisionsStreamProofs -------------------------
(***************************************************************************)
(* Theorems about DecisionsStream, for any chunk length and any bounds:    *)
(* the lock "looping" keeps the drains of an array apart.                  *)
(***************************************************************************)
EXTENDS DecisionsStream, FiniteSetTheorems, SequenceTheorems, TLAPS

\* The drains on the stack are running, each once.
StackInv ==
  /\ thread \in Seq(DrainId)
  /\ \A i \in 1..Len(thread) : drains[thread[i]].phase = "running"
  /\ \A i, j \in 1..Len(thread) : thread[i] = thread[j] => i = j

\* The lock is held as long as a drain is under way, and no drain is left to
\* itself.
LockInv ==
  /\ \A d \in DrainId : drains[d].phase # "failed" /\ ~drains[d].orphan
  /\ ~looping => \A d \in DrainId : drains[d].phase = "idle"

OneDrain ==
  \A d, e \in DrainId :
    /\ drains[d].phase # "idle"
    /\ drains[e].phase # "idle"
    /\ drains[d].kind = drains[e].kind
    => d = e

\* All of this holds until a listener throws.
Orderly == StackInv /\ LockInv /\ OneDrain

IInv == TypeOK /\ (thrown = 0 => Orderly)

-----------------------------------------------------------------------------
(* The steps of one drain                                                  *)

LEMMA TailKeeps ==
  ASSUME NEW S, NEW s \in Seq(S), s # <<>>
  PROVE  /\ Tail(s) \in Seq(S)
         /\ Len(Tail(s)) = Len(s) - 1
         /\ Head(s) = s[1]
         /\ \A i \in 1..Len(Tail(s)) : i + 1 \in 1..Len(s) /\ Tail(s)[i] = s[i + 1]
  OBVIOUS

\* A drain takes a step of its own: no drain is born, none changes its array.
DrainGoesOn(d) ==
  /\ drains' \in [DrainId -> Drain]
  /\ \A e \in DrainId \ {d} : drains'[e] = drains[e]
  /\ drains'[d].kind = drains[d].kind
  /\ drains'[d].orphan = drains[d].orphan
  /\ drains'[d].phase # "failed"

\* It leaves the stack unless it is still running, or gets the thread back.
StackGoesOn(d) ==
  \/ Running(d) /\ drains'[d].phase = "running" /\ thread' = thread
  \/ Running(d) /\ thread' = Tail(thread)
  \/ drains'[d].phase = "running" /\ thread' = <<d>> /\ thread = <<>>

LEMMA GoesOnKeeps ==
  ASSUME TypeOK, Orderly, NEW d \in DrainId, DrainGoesOn(d), StackGoesOn(d),
         drains[d].phase # "idle", UNCHANGED looping
  PROVE  Orderly'
<1>1. \A e \in DrainId : /\ drains'[e].phase # "idle" => drains[e].phase # "idle"
                         /\ drains'[e].kind = drains[e].kind
                         /\ drains'[e].orphan = drains[e].orphan
                         /\ drains'[e].phase = "failed" => drains[e].phase = "failed"
  BY DEF DrainGoesOn
<1>2. LockInv'
  BY <1>1 DEF Orderly, LockInv
<1>3. OneDrain'
  BY <1>1 DEF Orderly, OneDrain
<1>4. StackInv'
  <2>1. CASE Running(d) /\ drains'[d].phase = "running" /\ thread' = thread
    <3>1. \A i \in 1..Len(thread) : thread[i] \in DrainId
      BY DEF Orderly, StackInv
    <3> QED
      BY <2>1, <3>1 DEF Orderly, StackInv, DrainGoesOn
  <2>2. CASE Running(d) /\ thread' = Tail(thread)
    <3>1. thread # <<>> /\ Head(thread) = d /\ thread \in Seq(DrainId)
      BY <2>2 DEF Running, Orderly, StackInv
    <3>2. /\ thread' \in Seq(DrainId)
          /\ d = thread[1]
          /\ Len(thread') = Len(thread) - 1
          /\ \A i \in 1..Len(thread') : i + 1 \in 1..Len(thread) /\ thread'[i] = thread[i + 1]
      BY <2>2, <3>1, TailKeeps
    <3>3. 1 \in 1..Len(thread)
      BY <3>1
    <3>4. \A i \in 1..Len(thread') : thread'[i] # d /\ thread'[i] \in DrainId
      BY <3>1, <3>2, <3>3 DEF Orderly, StackInv
    <3>5. \A i \in 1..Len(thread') : drains'[thread'[i]].phase = "running"
      BY <3>2, <3>4 DEF Orderly, StackInv, DrainGoesOn
    <3>6. \A i, j \in 1..Len(thread') : thread'[i] = thread'[j] => i = j
      BY <3>2 DEF Orderly, StackInv
    <3> QED
      BY <3>2, <3>5, <3>6 DEF StackInv
  <2>3. CASE drains'[d].phase = "running" /\ thread' = <<d>> /\ thread = <<>>
    BY <2>3 DEF StackInv
  <2> QED
    BY <2>1, <2>2, <2>3 DEF StackGoesOn
<1> QED
  BY <1>2, <1>3, <1>4 DEF Orderly

\* On the stack a drain is not idle.
LEMMA RunningIsRunning ==
  ASSUME Orderly, NEW d \in DrainId, Running(d)
  PROVE  drains[d].phase = "running"
<1>1. thread # <<>> /\ Head(thread) = d /\ thread \in Seq(DrainId)
  BY DEF Running, Orderly, StackInv
<1>2. 1 \in 1..Len(thread) /\ thread[1] = d
  BY <1>1
<1> QED
  BY <1>2 DEF Orderly, StackInv

\* What handling an index does to the drain.
LEMMA AdvanceGoesOn ==
  ASSUME TypeOK, NEW d \in DrainId, NEW stop \in BOOLEAN, Running(d),
         Advance(d, stop)
  PROVE  DrainGoesOn(d) /\ StackGoesOn(d)
<1>1. drains[d] \in Drain /\ drains[d].at + 1 \in Nat
  BY DEF TypeOK, Drain
<1>2. PICK next \in {"waiting", "ended", "running"} :
        /\ drains' = [drains EXCEPT ![d].at = drains[d].at + 1, ![d].stop = stop,
                                    ![d].phase = next]
        /\ thread' = IF next = "running" THEN thread ELSE Tail(thread)
  BY DEF Advance
<1>3. drains'[d] = [drains[d] EXCEPT !.at = drains[d].at + 1, !.stop = stop,
                                     !.phase = next]
  BY <1>2 DEF TypeOK
<1>4. /\ drains'[d] \in Drain
      /\ drains'[d].phase = next
      /\ drains'[d].kind = drains[d].kind
      /\ drains'[d].orphan = drains[d].orphan
  BY <1>1, <1>3 DEF Drain
<1>5. DOMAIN drains' = DrainId /\ \A e \in DrainId \ {d} : drains'[e] = drains[e]
  BY <1>2 DEF TypeOK
<1>6. drains' = [e \in DrainId |-> drains'[e]]
  BY <1>2 DEF TypeOK
<1>7. drains' \in [DrainId -> Drain]
  BY <1>4, <1>5, <1>6 DEF TypeOK
<1> QED
  BY <1>2, <1>4, <1>5, <1>7 DEF DrainGoesOn, StackGoesOn

\* The steps of a drain inside its array.
Walk(d) == ReachEnd(d) \/ StopPaused(d) \/ SkipEmpty(d) \/ Emit(d) \/ Wake(d)

LEMMA WalkGoesOn ==
  ASSUME TypeOK, NEW d \in DrainId, Walk(d)
  PROVE  /\ DrainGoesOn(d) /\ StackGoesOn(d)
         /\ Running(d) \/ drains[d].phase = "waiting"
<1>1. drains[d] \in Drain
  BY DEF TypeOK
<1>2. CASE ReachEnd(d) \/ Wake(d)
  <2>1. PICK next \in {"ended", "running"} : drains' = [drains EXCEPT ![d].phase = next]
    BY <1>2 DEF ReachEnd, Wake
  <2>2. drains' \in [DrainId -> Drain]
    BY <2>1, <1>1 DEF TypeOK, Drain
  <2>3. DrainGoesOn(d)
    BY <2>1, <2>2, <1>1 DEF DrainGoesOn, TypeOK, Drain
  <2>4. StackGoesOn(d) /\ (Running(d) \/ drains[d].phase = "waiting")
    BY <1>1, <1>2 DEF StackGoesOn, ReachEnd, Wake, NoMicrotask, TypeOK, Drain
  <2> QED
    BY <2>3, <2>4
<1>3. CASE StopPaused(d) \/ SkipEmpty(d) \/ Emit(d)
  BY <1>3, AdvanceGoesOn DEF StopPaused, SkipEmpty, AtEmpty, Emit, AtDecision
<1> QED
  BY <1>2, <1>3 DEF Walk

-----------------------------------------------------------------------------
(* A loop starts                                                           *)

LEMMA LoopTyped ==
  ASSUME TypeOK, NEW isPaused \in BOOLEAN, Loop(isPaused)
  PROVE  looping' \in BOOLEAN /\ drains' \in [DrainId -> Drain]
<1>1. CASE MayLoop(isPaused)
  <2>1. PICK a, b : drains' =
          [drains EXCEPT ![a] = [Idle EXCEPT !.phase = "running", !.kind = "deleted"],
                         ![b] = [Idle EXCEPT !.phase = "running", !.kind = "added"]]
    BY <1>1 DEF Loop
  <2>2. \A k \in Kind : [Idle EXCEPT !.phase = "running", !.kind = k] \in Drain
    BY DEF Idle, Drain, Kind
  <2> QED
    BY <1>1, <2>1, <2>2 DEF Loop, TypeOK, Kind
<1> QED
  BY <1>1 DEF Loop, TypeOK

\* The lock is free: no drain is under way, and the loop starts the first two.
LEMMA LoopOrderly ==
  ASSUME TypeOK, Orderly, NEW isPaused \in BOOLEAN, Loop(isPaused)
  PROVE  Orderly'
<1>1. CASE ~MayLoop(isPaused)
  BY <1>1 DEF Loop, Orderly, StackInv, LockInv, OneDrain
<1>2. CASE MayLoop(isPaused)
  <2> DEFINE Start(k) == [Idle EXCEPT !.phase = "running", !.kind = k]
  <2>1. {1, 2} \subseteq DrainId /\ DrainId \subseteq Nat \ {0}
    BY StreamAssumption DEF DrainId
  <2>2. ~looping /\ \A d \in DrainId : drains[d].phase = "idle" /\ ~drains[d].orphan
    BY <1>2 DEF MayLoop, Orderly, LockInv
  <2>3. {d \in DrainId : drains[d].phase = "idle"} = DrainId
    BY <2>2
  <2>4. (CHOOSE d \in DrainId : \A e \in DrainId : d <= e) = 1
    BY <2>1 DEF DrainId
  <2>5. (CHOOSE d \in DrainId \ {1} : \A e \in DrainId \ {1} : d <= e) = 2
    BY <2>1 DEF DrainId
  <2>6. /\ looping' = TRUE
        /\ drains' = [drains EXCEPT ![1] = Start("deleted"), ![2] = Start("added")]
        /\ thread' = <<1, 2>> \o thread
    BY <1>2, <2>3, <2>4, <2>5 DEF Loop
  <2>7. thread = <<>>
    <3>1. SUFFICES ASSUME thread # <<>> PROVE FALSE
      OBVIOUS
    <3>2. thread \in Seq(DrainId) /\ 1 \in 1..Len(thread)
      BY <3>1 DEF Orderly, StackInv
    <3>3. thread[1] \in DrainId /\ drains[thread[1]].phase = "running"
      BY <3>2 DEF Orderly, StackInv
    <3> QED
      BY <2>2, <3>3
  <2>8. thread' = <<1, 2>>
    BY <2>6, <2>7
  <2>9. /\ drains'[1] = Start("deleted") /\ drains'[2] = Start("added")
        /\ \A d \in DrainId \ {1, 2} : drains'[d] = drains[d]
    BY <2>1, <2>6 DEF TypeOK
  <2>10. /\ Start("deleted").phase = "running" /\ Start("added").phase = "running"
         /\ Start("deleted").kind = "deleted" /\ Start("added").kind = "added"
         /\ ~Start("deleted").orphan /\ ~Start("added").orphan
    BY DEF Idle
  <2> HIDE DEF Start
  <2>11. StackInv'
    BY <2>1, <2>8, <2>9, <2>10 DEF StackInv
  <2>12. LockInv'
    BY <2>2, <2>6, <2>9, <2>10 DEF LockInv
  <2>13. OneDrain'
    BY <2>2, <2>9, <2>10 DEF OneDrain
  <2> QED
    BY <2>11, <2>12, <2>13 DEF Orderly
<1> QED
  BY <1>1, <1>2

-----------------------------------------------------------------------------
(* The types                                                               *)

LEMMA KindFinite == IsFiniteSet(Kind) /\ \A bad \in SUBSET Kind : Cardinality(bad) \in Nat
<1>1. IsFiniteSet(Kind)
  <2>1. Kind = {"added"} \cup {"deleted"}
    BY DEF Kind
  <2>2. IsFiniteSet({"added"}) /\ IsFiniteSet({"deleted"})
    BY FS_Singleton
  <2> QED
    BY <2>1, <2>2, FS_Union
<1> QED
  BY <1>1, FS_Subset, FS_CardinalityType

LEMMA PushTyped ==
  ASSUME TypeOK, NEW size \in Sizes, NEW bad \in SUBSET Kind, Push(size, bad)
  PROVE  TypeOK'
<1>1. looping' \in BOOLEAN /\ drains' \in [DrainId -> Drain]
  BY LoopTyped DEF Push, TypeOK
<1>2. sent' \in [Kind -> 0..MaxDecisions]
  <2>1. sent' = [k \in Kind |-> sent[k] + size[k]]
        /\ \A k \in Kind : sent[k] + size[k] <= MaxDecisions
    BY DEF Push
  <2>2. MaxDecisions \in Nat /\ \A k \in Kind : sent[k] \in Nat /\ size[k] \in Nat
    BY StreamAssumption DEF TypeOK, Sizes
  <2>3. \A k \in Kind : sent[k] + size[k] \in 0..MaxDecisions
    BY <2>1, <2>2
  <2> QED
    BY <2>1, <2>3
<1>3. malformed' \in 0..MaxMalformed
  <2>1. Cardinality(bad) \in Nat
    BY KindFinite
  <2>2. malformed + Cardinality(bad) <= MaxMalformed
        /\ malformed' = malformed + Cardinality(bad)
    BY DEF Push
  <2> QED
    BY <2>1, <2>2, StreamAssumption DEF TypeOK
<1>4. ASSUME NEW k \in Kind, size[k] > 1
      PROVE  [kind |-> k, first |-> sent[k] + 1, next |-> sent[k] + 2,
              last |-> sent[k] + size[k]] \in Parser
  <2>1. sent[k] \in Nat /\ size[k] \in Nat /\ MaxDecisions \in Nat
    BY StreamAssumption DEF TypeOK, Sizes
  <2>2. sent[k] + size[k] <= MaxDecisions
    BY DEF Push
  <2>3. {sent[k] + 1, sent[k] + 2, sent[k] + size[k]} \subseteq Decisions
    BY <1>4, <2>1, <2>2 DEF Decisions
  <2> QED
    BY <2>3 DEF Parser
<1>5. parsers' \subseteq Parser
  <2> DEFINE started == {[kind |-> k, first |-> sent[k] + 1, next |-> sent[k] + 1 + 1,
                          last |-> sent[k] + size[k]] :
                           k \in {c \in {b \in Kind : size[b] > 0 /\ b \notin bad} :
                                    size[c] > 1}}
  <2>1. parsers' = parsers \cup started
    BY DEF Push
  <2>2. \A k \in Kind : sent[k] + 1 + 1 = sent[k] + 2
    BY DEF TypeOK
  <2>3. started \subseteq Parser
    BY <1>4, <2>2
  <2> QED
    BY <2>1, <2>3 DEF TypeOK
<1> QED
  BY <1>1, <1>2, <1>3, <1>5 DEF TypeOK, Push

LEMMA ChunkEndBound ==
  ASSUME NEW i \in Int, NEW last \in Int
  PROVE  ChunkEnd(i, last) = last \/ (ChunkEnd(i, last) \in Int /\ ChunkEnd(i, last) >= i)
<1>1. BreakCounter \in Nat \ {0}
  BY StreamAssumption
<1>2. (-i) % BreakCounter \in 0..(BreakCounter - 1)
  BY <1>1
<1> QED
  BY <1>1, <1>2 DEF ChunkEnd

LEMMA ParseTyped ==
  ASSUME TypeOK, NEW p \in parsers, NEW good \in 0..MaxDecisions, ParseChunk(p, good)
  PROVE  TypeOK'
<1>1. p \in Parser
  BY DEF TypeOK
<1> DEFINE end == p.first + ChunkEnd(p.next - p.first, p.last - p.first)
<1>2. end = p.last \/ (end \in Int /\ end >= p.next)
  BY <1>1, ChunkEndBound DEF Parser, Decisions
<1>3. end < p.last => [p EXCEPT !.next = end + 1] \in Parser
  BY <1>1, <1>2, StreamAssumption DEF Parser, Decisions
<1>4. parsers' \subseteq Parser
  <2>1. parsers' \subseteq parsers \cup (IF end < p.last THEN {[p EXCEPT !.next = end + 1]} ELSE {})
    BY DEF ParseChunk
  <2> HIDE DEF end
  <2> QED
    BY <1>3, <2>1 DEF TypeOK
<1>5. malformed' \in 0..MaxMalformed
  BY StreamAssumption DEF ParseChunk, TypeOK
<1>6. DOMAIN queue' = Kind
  BY DEF ParseChunk, TypeOK
<1> QED
  BY <1>4, <1>5, <1>6 DEF ParseChunk, TypeOK

-----------------------------------------------------------------------------
(* The invariant                                                           *)

LEMMA InitHolds == Init => IInv
<1> SUFFICES ASSUME Init PROVE IInv
  OBVIOUS
<1>1. Idle \in Drain /\ Idle.phase = "idle" /\ ~Idle.orphan
  BY DEF Idle, Drain, Kind
<1>2. TypeOK
  <2>1. paused \in BOOLEAN /\ looping \in BOOLEAN /\ listener \in BOOLEAN
    BY Zenon DEF Init
  <2>2. DOMAIN queue = Kind /\ parsers \subseteq Parser
    BY DEF Init
  <2>3. drains \in [DrainId -> Drain] /\ sent \in [Kind -> 0..MaxDecisions]
    BY <1>1, StreamAssumption DEF Init
  <2>4. thrown \in 0..MaxThrows /\ malformed \in 0..MaxMalformed
    BY StreamAssumption DEF Init
  <2> QED
    BY <2>1, <2>2, <2>3, <2>4 DEF TypeOK
<1>3. Orderly
  BY <1>1 DEF Init, Orderly, StackInv, LockInv, OneDrain
<1> QED
  BY <1>2, <1>3 DEF IInv

\* User code and parse loops.
LEMMA OthersKeep ==
  ASSUME IInv,
         \/ \E size \in Sizes, bad \in SUBSET Kind : Push(size, bad)
         \/ \E p \in parsers : \E good \in 0..MaxDecisions : ParseChunk(p, good)
         \/ Pause \/ Close \/ Resume
  PROVE  IInv'
<1>1. CASE \E size \in Sizes, bad \in SUBSET Kind : Push(size, bad)
  <2>1. TypeOK'
    BY <1>1, PushTyped DEF IInv
  <2>2. UNCHANGED thrown /\ Loop(paused) /\ paused \in BOOLEAN
    BY <1>1 DEF Push, IInv, TypeOK
  <2> QED
    BY <2>1, <2>2, LoopOrderly DEF IInv
<1>2. CASE \E p \in parsers : \E good \in 0..MaxDecisions : ParseChunk(p, good)
  <2>1. TypeOK'
    BY <1>2, ParseTyped DEF IInv
  <2>2. UNCHANGED <<thrown, looping, drains, thread>>
    BY <1>2 DEF ParseChunk
  <2> QED
    BY <2>1, <2>2 DEF IInv, Orderly, StackInv, LockInv, OneDrain
<1>3. CASE Pause \/ Close
  <2>1. paused' = TRUE /\ UNCHANGED <<looping, queue, parsers, drains, thread, listener,
                                    thrown, sent, malformed>>
    BY <1>3 DEF Pause, Close, histories
  <2>2. TypeOK'
    BY <2>1 DEF IInv, TypeOK
  <2>3. Orderly => Orderly'
    BY <2>1 DEF Orderly, StackInv, LockInv, OneDrain
  <2> QED
    BY <2>1, <2>2, <2>3 DEF IInv
<1>4. CASE Resume
  <2>1. UNCHANGED thrown /\ Loop(FALSE)
    BY <1>4 DEF Resume
  <2>2. TypeOK'
    BY <1>4, <2>1, LoopTyped DEF Resume, histories, IInv, TypeOK
  <2> QED
    BY <2>1, <2>2, LoopOrderly DEF IInv
<1> QED
  BY <1>1, <1>2, <1>3, <1>4

LEMMA DrainsKeep ==
  ASSUME IInv, NEW d \in DrainId, Walk(d) \/ EmitThrows(d) \/ Settle(d) \/ LoopFailed(d)
  PROVE  IInv'
<1>1. CASE Walk(d)
  <2>1. DrainGoesOn(d) /\ StackGoesOn(d) /\ (Running(d) \/ drains[d].phase = "waiting")
    BY <1>1, WalkGoesOn DEF IInv
  <2>2. UNCHANGED <<thrown, rest>> /\ DOMAIN queue' = DOMAIN queue /\ listener' \in BOOLEAN
    BY <1>1 DEF Walk, ReachEnd, StopPaused, SkipEmpty, Emit, Wake
  <2>3. TypeOK'
    BY <2>1, <2>2 DEF IInv, TypeOK, DrainGoesOn, rest, histories
  <2>4. thrown = 0 => drains[d].phase # "idle"
    BY <2>1, RunningIsRunning DEF IInv
  <2>5. thrown = 0 => Orderly'
    BY <2>1, <2>2, <2>4, GoesOnKeeps DEF IInv, rest
  <2> QED
    BY <2>2, <2>3, <2>5 DEF IInv
<1>2. CASE EmitThrows(d)
  <2>1. thrown' \in 0..MaxThrows /\ thrown' # 0
    BY <1>2, StreamAssumption DEF EmitThrows, IInv, TypeOK
  <2>2. drains' \in [DrainId -> Drain]
    <3>1. drains' = [drains EXCEPT ![d].phase = "failed"]
      BY <1>2 DEF EmitThrows
    <3>2. drains \in [DrainId -> Drain]
      BY DEF IInv, TypeOK
    <3> QED
      BY <3>1, <3>2 DEF Drain
  <2>3. TypeOK'
    BY <1>2, <2>1, <2>2 DEF EmitThrows, IInv, TypeOK, rest, histories
  <2> QED
    BY <2>1, <2>3 DEF IInv
<1>3. CASE Settle(d)
  <2>1. Idle \in Drain /\ Idle.phase = "idle" /\ ~Idle.orphan
    BY DEF Idle, Drain, Kind
  <2>2. /\ drains' = [drains EXCEPT ![d] = Idle]
        /\ UNCHANGED <<thread, listener, thrown, rest>> /\ DOMAIN queue' = DOMAIN queue
        /\ thread = <<>> /\ drains[d].phase = "ended"
    BY <1>3 DEF Settle
  <2>3. TypeOK'
    BY <2>1, <2>2 DEF IInv, TypeOK, rest, histories
  <2>4. /\ drains'[d] = Idle
        /\ \A e \in DrainId \ {d} : drains'[e] = drains[e]
    BY <2>2 DEF IInv, TypeOK
  <2>5. Orderly => Orderly'
    <3>1. StackInv'
      BY <2>2 DEF StackInv
    <3>2. LockInv => LockInv'
      BY <2>1, <2>2, <2>4 DEF LockInv, rest
    <3>3. OneDrain => OneDrain'
      BY <2>1, <2>4 DEF OneDrain
    <3> QED
      BY <3>1, <3>2, <3>3 DEF Orderly
  <2> QED
    BY <2>2, <2>3, <2>5 DEF IInv
<1>4. CASE LoopFailed(d)
  <2>1. thrown # 0 /\ UNCHANGED thrown
    BY <1>4 DEF LoopFailed, IInv, Orderly, LockInv
  <2>2. drains' \in [DrainId -> Drain]
    <3>1. Idle \in Drain
      BY DEF Idle, Drain, Kind
    <3>2. \A e \in DrainId : [drains[e] EXCEPT !.orphan = TRUE] \in Drain
      BY DEF IInv, TypeOK, Drain
    <3> QED
      BY <1>4, <3>1, <3>2 DEF LoopFailed, IInv, TypeOK
  <2>3. TypeOK'
    BY <1>4, <2>2 DEF LoopFailed, IInv, TypeOK, histories
  <2> QED
    BY <2>1, <2>3 DEF IInv
<1> QED
  BY <1>1, <1>2, <1>3, <1>4

LEMMA LoopDoneKeeps == ASSUME IInv, LoopDone PROVE IInv'
<1>1. TypeOK'
  BY DEF LoopDone, IInv, TypeOK, histories
<1>2. UNCHANGED <<thrown, drains, thread>>
  BY DEF LoopDone
<1>3. Orderly => Orderly'
  BY <1>2 DEF LoopDone, Orderly, StackInv, LockInv, OneDrain
<1> QED
  BY <1>1, <1>2, <1>3 DEF IInv

LEMMA IInvStep == IInv /\ [Next]_vars => IInv'
<1> SUFFICES ASSUME IInv, [Next]_vars PROVE IInv'
  OBVIOUS
<1>1. CASE UNCHANGED vars
  BY <1>1 DEF vars, histories, IInv, TypeOK, Orderly, StackInv, LockInv, OneDrain
<1>2. CASE Next
  <2>1. CASE \E d \in DrainId : Walk(d) \/ EmitThrows(d) \/ Settle(d) \/ LoopFailed(d)
    BY <2>1, DrainsKeep
  <2>2. CASE LoopDone
    BY <2>2, LoopDoneKeeps
  <2>3. CASE \/ \E size \in Sizes, bad \in SUBSET Kind : Push(size, bad)
             \/ \E p \in parsers : \E good \in 0..MaxDecisions : ParseChunk(p, good)
             \/ Pause \/ Close \/ Resume
    BY <2>3, OthersKeep
  <2> QED
    BY <1>2, <2>1, <2>2, <2>3 DEF Next, Walk
<1> QED
  BY <1>1, <1>2

LEMMA IInvAlways == Spec => []IInv
  BY InitHolds, IInvStep, PTL DEF Spec

-----------------------------------------------------------------------------
(* The theorems                                                            *)

\* The stream's fields and the loops under way keep their types.
THEOREM TypeCorrect == Spec => []TypeOK
<1>1. IInv => TypeOK
  BY DEF IInv
<1> QED
  BY <1>1, IInvAlways, PTL

\* "looping" is an effective lock although loop() awaits while it holds it: for
\* any chunk length no two drains walk one array, until a listener throws.
THEOREM LockCorrect == Spec => []OneDrainPerArray
<1>1. IInv => OneDrainPerArray
  BY DEF IInv, Orderly, OneDrain, OneDrainPerArray
<1> QED
  BY <1>1, IInvAlways, PTL
-----------------------------------------------------------------------------
(* Numbers, sequences and recursive functions                              *)

\* Every set of natural numbers but the empty one has a least element.
LEMMA LeastNumber ==
  ASSUME NEW T \in SUBSET Nat, T # {}
  PROVE  \E n \in T : \A m \in T : n <= m
<1> DEFINE R == StrictSubsetOrdering(Nat)
           F == FiniteSubsetsOf(Nat)
           B == {0..n : n \in T}
<1>1. IsWellFoundedOn(R, F)
  BY FS_StrictSubsetOrderingWellFounded
<1>2. B \subseteq F /\ B # {}
  <2>1. ASSUME NEW n \in T PROVE 0..n \in F
    <3>1. IsFiniteSet(0..n)
      BY FS_Interval
    <3>2. 0..n \in SUBSET Nat
      OBVIOUS
    <3> QED
      BY <3>1, <3>2 DEF FiniteSubsetsOf
  <2> QED
    BY <2>1
<1> HIDE DEF R, F, B
<1>3. PICK b \in B : \A c \in B : ~(<<c, b>> \in R)
  BY <1>1, <1>2, WFMin
<1>4. PICK n \in T : b = 0..n
  BY DEF B
<1>5. ASSUME NEW m \in T, m < n PROVE FALSE
  <2>1. 0..m \in B
    BY DEF B
  <2>2. 0..m \subseteq 0..n /\ n \in 0..n /\ n \notin 0..m
    BY <1>5
  <2>3. <<0..m, b>> \in R
    BY <1>4, <2>2 DEF R, StrictSubsetOrdering
  <2> QED
    BY <1>3, <2>1, <2>3
<1> QED
  BY <1>5

\* What holds of zero, and of each number's successor, holds of all numbers.
LEMMA NumberInduction ==
  ASSUME NEW S, 0 \in S, \A n \in Nat : n \in S => n + 1 \in S
  PROVE  Nat \subseteq S
<1> SUFFICES ASSUME Nat \ S # {} PROVE FALSE
  OBVIOUS
<1>1. PICK n \in Nat \ S : \A m \in Nat \ S : n <= m
  BY LeastNumber
<1>2. n # 0
  OBVIOUS
<1>3. n - 1 \in Nat /\ n - 1 \notin Nat \ S
  BY <1>1, <1>2
<1> QED
  BY <1>3, <1>1

\* What holds of the empty sequence, and of what is appended to one of which it
\* holds, holds of all sequences.
LEMMA SequenceInduction ==
  ASSUME NEW D, NEW T, <<>> \in T,
         \A s \in Seq(D) : \A x \in D : s \in T => Append(s, x) \in T
  PROVE  Seq(D) \subseteq T
<1> DEFINE S == {n \in Nat : \A s \in Seq(D) : Len(s) = n => s \in T}
<1>1. 0 \in S
  OBVIOUS
<1>2. ASSUME NEW n \in Nat, n \in S PROVE n + 1 \in S
  <2>1. ASSUME NEW s \in Seq(D), Len(s) = n + 1 PROVE s \in T
    <3> DEFINE front == SubSeq(s, 1, n)
    <3>1. front \in Seq(D) /\ Len(front) = n /\ s[n + 1] \in D
      BY <2>1
    <3>2. Append(front, s[n + 1]) = s
      BY <2>1
    <3> HIDE DEF front
    <3> QED
      BY <1>2, <3>1, <3>2
  <2> QED
    BY <2>1
<1> HIDE DEF S
<1>3. Nat \subseteq S
  BY <1>1, <1>2, NumberInduction
<1> QED
  BY <1>3 DEF S

\* A function of the first numbers may be defined by recursion.
LEMMA RecursionExists ==
  ASSUME NEW D, NEW b \in D, NEW L \in Nat, NEW F \in [1..L -> [D -> D]]
  PROVE  \E f \in [0..L -> D] :
           f = [n \in 0..L |-> IF n = 0 THEN b ELSE F[n][f[n - 1]]]
<1> DEFINE Good(k, f) == f[0] = b /\ \A n \in 1..k : f[n] = F[n][f[n - 1]]
           S == {k \in Nat : k <= L => \E f \in [0..k -> D] : Good(k, f)}
<1>1. 0 \in S
  <2>1. [n \in 0..0 |-> b] \in [0..0 -> D] /\ Good(0, [n \in 0..0 |-> b])
    OBVIOUS
  <2> QED
    BY <2>1
<1>2. ASSUME NEW k \in Nat, k \in S, k + 1 <= L
      PROVE  \E f \in [0..(k + 1) -> D] : Good(k + 1, f)
  <2>1. PICK f \in [0..k -> D] : Good(k, f)
    BY <1>2
  <2> DEFINE g == [n \in 0..(k + 1) |-> IF n = k + 1 THEN F[k + 1][f[k]] ELSE f[n]]
  <2>2. f[k] \in D /\ F[k + 1][f[k]] \in D
    <3>1. k \in 0..k /\ k + 1 \in 1..L
      BY <1>2
    <3> QED
      BY <3>1
  <2>3. g \in [0..(k + 1) -> D]
    BY <2>2
  <2>4. \A n \in 0..k : g[n] = f[n]
    OBVIOUS
  <2>5. g[k + 1] = F[k + 1][f[k]]
    OBVIOUS
  <2> HIDE DEF g
  <2>6. ASSUME NEW n \in 1..(k + 1) PROVE g[n] = F[n][g[n - 1]]
    <3>1. CASE n = k + 1
      BY <2>4, <2>5, <3>1
    <3>2. CASE n # k + 1
      <4>1. n \in 1..k /\ n \in 0..k /\ n - 1 \in 0..k
        BY <3>2
      <4> QED
        BY <2>1, <2>4, <4>1
    <3> QED
      BY <3>1, <3>2
  <2>7. g[0] = b
    BY <2>1, <2>4
  <2> QED
    BY <2>3, <2>6, <2>7
<1> HIDE DEF Good
<1>3. ASSUME NEW k \in Nat, k \in S PROVE k + 1 \in S
  BY <1>2, <1>3
<1> HIDE DEF S
<1>4. L \in S
  BY <1>1, <1>3, NumberInduction
<1>5. PICK f \in [0..L -> D] : Good(L, f)
  BY <1>4 DEF S
<1>6. f = [n \in 0..L |-> IF n = 0 THEN b ELSE F[n][f[n - 1]]]
  BY <1>5 DEF Good
<1> QED
  BY <1>6

-----------------------------------------------------------------------------
(* What an array still holds                                               *)

Slots == Seq(Nat)

\* What the first slots of an array hold.
Firsts(slots, f) ==
  f = [n \in 0..Len(slots) |->
         IF n = 0 THEN <<>>
         ELSE IF slots[n] = Empty THEN f[n - 1] ELSE Append(f[n - 1], slots[n])]

LEMMA FirstsSteps ==
  ASSUME NEW slots \in Slots, NEW f, Firsts(slots, f)
  PROVE  /\ f[0] = <<>>
         /\ \A n \in 1..Len(slots) :
              f[n] = IF slots[n] = Empty THEN f[n - 1] ELSE Append(f[n - 1], slots[n])
<1> DEFINE E(n) == IF n = 0 THEN <<>>
                   ELSE IF slots[n] = Empty THEN f[n - 1] ELSE Append(f[n - 1], slots[n])
<1>1. Len(slots) \in Nat
  BY DEF Slots
<1>2. f = [n \in 0..Len(slots) |-> E(n)]
  BY Zenon DEF Firsts
<1>3. E(0) = <<>>
  OBVIOUS
<1>4. \A n \in 1..Len(slots) :
        E(n) = IF slots[n] = Empty THEN f[n - 1] ELSE Append(f[n - 1], slots[n])
  OBVIOUS
<1> HIDE DEF E
<1>5. \A n \in 0..Len(slots) : f[n] = E(n)
  BY <1>2
<1>6. f[0] = <<>>
  BY <1>1, <1>3, <1>5
<1>7. \A n \in 1..Len(slots) : f[n] = E(n)
  BY <1>1, <1>5
<1> QED
  BY <1>4, <1>6, <1>7, Zenon

LEMMA FirstsExist ==
  ASSUME NEW slots \in Slots
  PROVE  \E f \in [0..Len(slots) -> Slots] : Firsts(slots, f)
<1> DEFINE L == Len(slots)
           F == [n \in 1..L |-> [d \in Slots |->
                   IF slots[n] = Empty THEN d ELSE Append(d, slots[n])]]
<1>1. L \in Nat /\ <<>> \in Slots
  BY DEF Slots
<1>2. \A n \in 1..L : \A d \in Slots :
        (IF slots[n] = Empty THEN d ELSE Append(d, slots[n])) \in Slots
  BY DEF Slots
<1>3. F \in [1..L -> [Slots -> Slots]]
  BY <1>2
<1>4. PICK f \in [0..L -> Slots] :
        f = [n \in 0..L |-> IF n = 0 THEN <<>> ELSE F[n][f[n - 1]]]
  <2> HIDE DEF F, L
  <2> QED
    BY <1>1, <1>3, RecursionExists
<1> DEFINE E(n) == IF n = 0 THEN <<>> ELSE F[n][f[n - 1]]
           G(n) == IF n = 0 THEN <<>>
                   ELSE IF slots[n] = Empty THEN f[n - 1] ELSE Append(f[n - 1], slots[n])
<1>5. \A n \in 0..L : E(n) = G(n)
  BY <1>1
<1>6. f = [n \in 0..L |-> E(n)]
  BY <1>4
<1> HIDE DEF E, G
<1>7. f = [n \in 0..L |-> G(n)]
  BY <1>5, <1>6
<1>8. Firsts(slots, f)
  BY <1>7, Zenon DEF Firsts, G
<1> QED
  BY <1>8

LEMMA FirstsAgree ==
  ASSUME NEW slots \in Slots, NEW f, NEW g, Firsts(slots, f), Firsts(slots, g)
  PROVE  f[Len(slots)] = g[Len(slots)]
<1> DEFINE L == Len(slots)
           S == {n \in Nat : n <= L => f[n] = g[n]}
<1>1. L \in Nat
  BY DEF Slots
<1>2. /\ f[0] = <<>> /\ \A n \in 1..L : f[n] = IF slots[n] = Empty THEN f[n - 1]
                                              ELSE Append(f[n - 1], slots[n])
      /\ g[0] = <<>> /\ \A n \in 1..L : g[n] = IF slots[n] = Empty THEN g[n - 1]
                                              ELSE Append(g[n - 1], slots[n])
  BY FirstsSteps
<1>3. 0 \in S
  BY <1>2
<1>4. ASSUME NEW n \in Nat, n \in S PROVE n + 1 \in S
  <2>1. CASE n + 1 <= L
    <3>1. n + 1 \in 1..L /\ (n + 1) - 1 = n /\ f[n] = g[n]
      BY <1>1, <1>4, <2>1
    <3> QED
      BY <1>2, <3>1
  <2>2. CASE ~(n + 1 <= L)
    BY <2>2
  <2> QED
    BY <2>1, <2>2
<1> HIDE DEF S
<1>5. L \in S
  BY <1>1, <1>3, <1>4, NumberInduction
<1> QED
  BY <1>1, <1>5 DEF S

LEMMA PendingIsFirsts ==
  ASSUME NEW slots \in Slots
  PROVE  /\ PendingOf(slots) \in Slots
         /\ \A f : Firsts(slots, f) => PendingOf(slots) = f[Len(slots)]
<1> DEFINE g == CHOOSE f : Firsts(slots, f)
<1>1. PICK f \in [0..Len(slots) -> Slots] : Firsts(slots, f)
  BY FirstsExist
<1>2. Firsts(slots, g)
  BY <1>1, Zenon
<1>3. PendingOf(slots) = g[Len(slots)]
  BY Zenon DEF PendingOf, Firsts
<1> HIDE DEF g
<1>4. \A h : Firsts(slots, h) => h[Len(slots)] = g[Len(slots)]
  BY <1>2, FirstsAgree
<1>5. Len(slots) \in 0..Len(slots)
  BY DEF Slots
<1> QED
  BY <1>1, <1>3, <1>4, <1>5

\* An array grows by a slot at a time.
LEMMA PendingGrows ==
  /\ PendingOf(<<>>) = <<>>
  /\ \A slots \in Slots : \A x \in Nat :
       PendingOf(Append(slots, x)) =
         IF x = Empty THEN PendingOf(slots) ELSE Append(PendingOf(slots), x)
<1>1. PendingOf(<<>>) = <<>>
  <2>1. <<>> \in Slots /\ Len(<<>>) = 0
    BY DEF Slots
  <2>2. PICK f : Firsts(<<>>, f)
    BY <2>1, FirstsExist
  <2>3. f[0] = <<>> /\ PendingOf(<<>>) = f[0]
    BY <2>1, <2>2, FirstsSteps, PendingIsFirsts
  <2> QED
    BY <2>3
<1>2. ASSUME NEW slots \in Slots, NEW x \in Nat
      PROVE  PendingOf(Append(slots, x)) =
               IF x = Empty THEN PendingOf(slots) ELSE Append(PendingOf(slots), x)
  <2> DEFINE L == Len(slots)
  <2>1. PICK t : t = Append(slots, x)
    OBVIOUS
  <2>2. /\ L \in Nat /\ t \in Slots /\ Len(t) = L + 1 /\ t[L + 1] = x
        /\ \A n \in 1..L : t[n] = slots[n]
    BY <2>1 DEF Slots
  <2>3. PICK f : Firsts(t, f)
    BY <2>2, FirstsExist
  <2>4. /\ f[0] = <<>>
        /\ \A n \in 1..(L + 1) :
             f[n] = IF t[n] = Empty THEN f[n - 1] ELSE Append(f[n - 1], t[n])
    BY <2>2, <2>3, FirstsSteps
  <2> DEFINE g == [n \in 0..L |-> f[n]]
             G(n) == IF n = 0 THEN <<>>
                     ELSE IF slots[n] = Empty THEN g[n - 1] ELSE Append(g[n - 1], slots[n])
  <2>5. ASSUME NEW n \in 0..L PROVE f[n] = G(n)
    <3>1. CASE n = 0
      BY <2>4, <3>1
    <3>2. CASE n # 0
      <4>1. n \in 1..(L + 1) /\ n \in 1..L /\ n - 1 \in 0..L
        BY <2>2, <3>2
      <4>2. t[n] = slots[n] /\ g[n - 1] = f[n - 1]
        BY <2>2, <4>1
      <4> QED
        BY <2>4, <3>2, <4>1, <4>2
    <3> QED
      BY <3>1, <3>2
  <2>6. L \in 0..L /\ g[L] = f[L]
    BY <2>2
  <2>7. g = [n \in 0..L |-> G(n)]
    <3> HIDE DEF G
    <3> QED
      BY <2>5
  <2>8. Firsts(slots, g)
    <3>1. \A h : h = [n \in 0..L |-> IF n = 0 THEN <<>>
                       ELSE IF slots[n] = Empty THEN h[n - 1] ELSE Append(h[n - 1], slots[n])]
                 => Firsts(slots, h)
      BY Zenon DEF Firsts
    <3> QED
      BY <2>7, <3>1, Zenon
  <2> HIDE DEF g
  <2>9. PendingOf(slots) = f[L] /\ PendingOf(t) = f[L + 1]
    BY <2>2, <2>3, <2>6, <2>8, PendingIsFirsts
  <2>10. f[L + 1] = IF x = Empty THEN f[L] ELSE Append(f[L], x)
    <3>1. L + 1 \in 1..(L + 1) /\ (L + 1) - 1 = L
      BY <2>2
    <3> QED
      BY <2>2, <2>4, <3>1
  <2> QED
    BY <2>1, <2>9, <2>10
<1> QED
  BY <1>1, <1>2

LEMMA AppendToConcat ==
  ASSUME NEW s \in Slots, NEW t \in Slots, NEW x \in Nat
  PROVE  s \o Append(t, x) = Append(s \o t, x)
<1> USE DEF Slots
<1>1. <<x>> \in Seq(Nat) /\ s \o t \in Seq(Nat)
  OBVIOUS
<1>2. Append(t, x) = t \o <<x>> /\ Append(s \o t, x) = (s \o t) \o <<x>>
  BY <1>1, AppendIsConcat
<1>3. (s \o t) \o <<x>> = s \o (t \o <<x>>)
  BY <1>1, ConcatAssociative
<1> QED
  BY <1>2, <1>3

\* It holds decisions, and what its parts hold.
LEMMA PendingIsDecisions ==
  ASSUME NEW slots \in Slots
  PROVE  PendingOf(slots) \in Seq(Nat \ {0})
<1> DEFINE T == {s \in Slots : PendingOf(s) \in Seq(Nat \ {0})}
<1>1. <<>> \in T
  <2>1. <<>> \in Slots /\ <<>> \in Seq(Nat \ {0})
    BY DEF Slots
  <2>2. PendingOf(<<>>) = <<>>
    BY PendingGrows
  <2> QED
    BY <2>1, <2>2
<1>2. ASSUME NEW s \in Seq(Nat), NEW x \in Nat, s \in T PROVE Append(s, x) \in T
  <2>1. Append(s, x) \in Slots /\ s \in Slots
    BY DEF Slots
  <2>2. PICK a \in Seq(Nat \ {0}) : a = PendingOf(s)
    BY <1>2
  <2>3. PendingOf(Append(s, x)) = IF x = 0 THEN a ELSE Append(a, x)
    BY <2>1, <2>2, PendingGrows DEF Empty
  <2>4. x # 0 => Append(a, x) \in Seq(Nat \ {0})
    OBVIOUS
  <2> QED
    BY <2>1, <2>2, <2>3, <2>4
<1> HIDE DEF T
<1>3. Seq(Nat) \subseteq T
  BY <1>1, <1>2, SequenceInduction
<1> QED
  BY <1>3 DEF T, Slots

LEMMA PendingOfParts ==
  ASSUME NEW s \in Slots, NEW t \in Slots
  PROVE  PendingOf(s \o t) = PendingOf(s) \o PendingOf(t)
<1> DEFINE T == {u \in Slots : PendingOf(s \o u) = PendingOf(s) \o PendingOf(u)}
<1>1. <<>> \in T
  <2>1. PICK a \in Seq(Nat) : a = PendingOf(s)
    BY PendingIsFirsts DEF Slots
  <2>2. s \o <<>> = s /\ a \o <<>> = a /\ <<>> \in Slots
    BY DEF Slots
  <2>3. PendingOf(<<>>) = <<>>
    BY PendingGrows
  <2> QED
    BY <2>1, <2>2, <2>3
<1>2. ASSUME NEW u \in Seq(Nat), NEW x \in Nat, u \in T PROVE Append(u, x) \in T
  <2>1. /\ s \in Seq(Nat) /\ s \o u \in Slots /\ u \in Slots /\ Append(u, x) \in Slots
    BY DEF Slots
  <2>2. PICK a, b : a = PendingOf(s) /\ b = PendingOf(u)
    OBVIOUS
  <2>3. a \in Seq(Nat) /\ b \in Seq(Nat) /\ PendingOf(s \o u) = a \o b
    BY <1>2, <2>1, <2>2, PendingIsFirsts DEF Slots
  <2>4. /\ PendingOf(Append(u, x)) = IF x = Empty THEN b ELSE Append(b, x)
        /\ PendingOf(Append(s \o u, x)) = IF x = Empty THEN a \o b ELSE Append(a \o b, x)
    BY <2>1, <2>2, <2>3, PendingGrows
  <2>5. a \o Append(b, x) = Append(a \o b, x)
    <3>1. a \in Slots /\ b \in Slots
      BY <2>3 DEF Slots
    <3> QED
      BY <3>1, AppendToConcat
  <2>6. s \o Append(u, x) = Append(s \o u, x)
    BY <2>1, AppendToConcat
  <2> QED
    BY <2>1, <2>2, <2>4, <2>5, <2>6
<1> HIDE DEF T
<1>3. Seq(Nat) \subseteq T
  BY <1>1, <1>2, SequenceInduction
<1> QED
  BY <1>3 DEF T, Slots

LEMMA Sides ==
  ASSUME NEW s \in Slots, NEW i \in 1..Len(s)
  PROVE  /\ SubSeq(s, 1, i - 1) \in Seq(Nat) /\ Len(SubSeq(s, 1, i - 1)) = i - 1
         /\ \A n \in 1..(i - 1) : SubSeq(s, 1, i - 1)[n] = s[n]
         /\ SubSeq(s, i + 1, Len(s)) \in Seq(Nat)
         /\ Len(SubSeq(s, i + 1, Len(s))) = Len(s) - i
         /\ \A n \in 1..(Len(s) - i) : SubSeq(s, i + 1, Len(s))[n] = s[n + i]
<1>1. PICK a, b, L : /\ a = SubSeq(s, 1, i - 1) /\ b = SubSeq(s, i + 1, L)
                     /\ L = Len(s)
  OBVIOUS
<1>2. s \in Seq(Nat) /\ Len(s) = L /\ L \in Nat /\ i \in 1..L
  BY <1>1 DEF Slots
<1>3. /\ a \in Seq(Nat) /\ Len(a) = i - 1 /\ \A n \in 1..(i - 1) : a[n] = s[n]
  BY <1>1, <1>2
<1>4. /\ b \in Seq(Nat)
      /\ Len(b) = IF i + 1 <= L THEN L - (i + 1) + 1 ELSE 0
      /\ \A n \in 1..(L - (i + 1) + 1) : b[n] = s[(i + 1) + n - 1]
  <2>1. i + 1 \in Int /\ L \in Int /\ \A n \in (i + 1)..L : n \in 1..L
    BY <1>2
  <2>2. \A n \in 1..L : s[n] \in Nat
    BY <1>2, ElementOfSeq
  <2> QED
    BY <1>1, <2>1, <2>2, SubSeqProperties
<1>5. Len(b) = L - i
  BY <1>2, <1>4
<1>6. \A n \in 1..(L - i) : b[n] = s[n + i]
  BY <1>2, <1>4
<1> QED
  BY <1>1, <1>3, <1>4, <1>5, <1>6

\* An array around one of its slots.
LEMMA SplitAt ==
  ASSUME NEW s \in Slots, NEW i \in 1..Len(s)
  PROVE  /\ SubSeq(s, 1, i - 1) \in Slots /\ SubSeq(s, i + 1, Len(s)) \in Slots
         /\ s[i] \in Nat
         /\ s = (SubSeq(s, 1, i - 1) \o <<s[i]>>) \o SubSeq(s, i + 1, Len(s))
<1>1. PICK a, b, L : /\ a = SubSeq(s, 1, i - 1) /\ b = SubSeq(s, i + 1, Len(s))
                     /\ L = Len(s)
  OBVIOUS
<1>2. s \in Seq(Nat) /\ L \in Nat /\ i \in 1..L
  BY <1>1 DEF Slots
<1>3. /\ a \in Seq(Nat) /\ Len(a) = i - 1 /\ \A n \in 1..(i - 1) : a[n] = s[n]
  BY <1>1, <1>2, Sides
<1>4. /\ b \in Seq(Nat) /\ Len(b) = L - i
      /\ \A n \in 1..(L - i) : b[n] = s[n + i]
  BY <1>1, <1>2, Sides
<1>5. PICK c : c = <<s[i]>>
  OBVIOUS
<1>6. s[i] \in Nat /\ c \in Seq(Nat) /\ Len(c) = 1 /\ c[1] = s[i]
  BY <1>2, <1>5
<1>7. PICK d : d = a \o c
  OBVIOUS
<1>8. /\ d \in Seq(Nat) /\ Len(d) = i
      /\ \A n \in 1..i : d[n] = s[n]
  <2>1. /\ d \in Seq(Nat) /\ Len(d) = Len(a) + Len(c)
        /\ \A n \in 1..(Len(a) + Len(c)) :
             d[n] = IF n <= Len(a) THEN a[n] ELSE c[n - Len(a)]
    BY <1>3, <1>6, <1>7, ConcatProperties
  <2>2. Len(a) + Len(c) = i
    BY <1>2, <1>3, <1>6
  <2>3. ASSUME NEW n \in 1..i PROVE d[n] = s[n]
    <3>1. CASE n <= i - 1
      <4>1. n \in 1..(i - 1) /\ n \in 1..(Len(a) + Len(c)) /\ n <= Len(a)
        BY <1>2, <1>3, <2>2, <3>1
      <4>2. d[n] = a[n]
        BY <2>1, <4>1
      <4> QED
        BY <1>3, <4>1, <4>2
    <3>2. CASE n = i
      <4>1. n \in 1..(Len(a) + Len(c)) /\ ~(n <= Len(a)) /\ n - Len(a) = 1
        BY <1>2, <1>3, <2>2, <3>2
      <4>2. d[n] = c[n - Len(a)]
        BY <2>1, <4>1
      <4> QED
        BY <1>6, <3>2, <4>1, <4>2
    <3> QED
      BY <1>2, <3>1, <3>2
  <2> QED
    BY <2>1, <2>2, <2>3
<1>9. /\ d \o b \in Seq(Nat) /\ Len(d \o b) = L
      /\ \A n \in 1..L : (d \o b)[n] = s[n]
  <2>1. PICK e : e = d \o b
    OBVIOUS
  <2>2. /\ e \in Seq(Nat) /\ Len(e) = Len(d) + Len(b)
        /\ \A n \in 1..(Len(d) + Len(b)) :
             e[n] = IF n <= Len(d) THEN d[n] ELSE b[n - Len(d)]
    <3>1. d \in Seq(Nat) /\ b \in Seq(Nat)
      BY <1>4, <1>8
    <3> QED
      BY <2>1, <3>1, ConcatProperties
  <2>3. Len(d) + Len(b) = L
    BY <1>2, <1>4, <1>8
  <2>4. ASSUME NEW n \in 1..L PROVE e[n] = s[n]
    <3>1. CASE n <= i
      BY <1>2, <1>8, <2>2, <2>3, <3>1
    <3>2. CASE n > i
      <4>1. /\ n - i \in 1..(L - i) /\ (n - i) + i = n
            /\ n \in 1..(Len(d) + Len(b)) /\ ~(n <= Len(d)) /\ Len(d) = i
        BY <1>2, <1>8, <2>3, <3>2
      <4>2. e[n] = b[n - i]
        BY <2>2, <4>1
      <4>3. b[n - i] = s[(n - i) + i]
        BY <1>4, <4>1
      <4> QED
        BY <4>1, <4>2, <4>3
    <3> QED
      BY <1>2, <3>1, <3>2
  <2> QED
    BY <2>1, <2>2, <2>3, <2>4
<1>10. d \o b = s
  BY <1>1, <1>2, <1>9, SeqEqual
<1> QED
  BY <1>1, <1>3, <1>4, <1>5, <1>6, <1>7, <1>10 DEF Slots

LEMMA PendingOfOne ==
  ASSUME NEW x \in Nat
  PROVE  <<x>> \in Slots /\ PendingOf(<<x>>) = IF x = Empty THEN <<>> ELSE <<x>>
<1>1. <<>> \in Slots /\ Append(<<>>, x) = <<x>> /\ <<x>> \in Slots
  BY DEF Slots
<1>2. PendingOf(<<>>) = <<>>
  BY PendingGrows
<1>3. PICK e : e = <<>>
  OBVIOUS
<1>4. e \in Slots
  BY <1>1, <1>3
<1>5. PendingOf(Append(e, x)) = IF x = Empty THEN PendingOf(e) ELSE Append(PendingOf(e), x)
  BY <1>4, PendingGrows
<1> QED
  BY <1>1, <1>2, <1>3, <1>5

\* What an array holds before, at and after one of its slots.
LEMMA PendingAround ==
  ASSUME NEW s \in Slots, NEW i \in 1..Len(s)
  PROVE  /\ PendingOf(SubSeq(s, 1, i - 1)) \in Slots
         /\ PendingOf(SubSeq(s, i + 1, Len(s))) \in Slots
         /\ PendingOf(s) = (PendingOf(SubSeq(s, 1, i - 1))
                              \o (IF s[i] = Empty THEN <<>> ELSE <<s[i]>>))
                           \o PendingOf(SubSeq(s, i + 1, Len(s)))
<1>1. PICK a, b, c : /\ a = SubSeq(s, 1, i - 1) /\ b = SubSeq(s, i + 1, Len(s))
                     /\ c = <<s[i]>>
  OBVIOUS
<1>2. a \in Slots /\ b \in Slots /\ s[i] \in Nat /\ s = (a \o c) \o b
  BY <1>1, SplitAt
<1>3. c \in Slots /\ PendingOf(c) = IF s[i] = Empty THEN <<>> ELSE <<s[i]>>
  BY <1>1, <1>2, PendingOfOne
<1>4. a \o c \in Slots
  BY <1>2, <1>3 DEF Slots
<1>5. PendingOf((a \o c) \o b) = PendingOf(a \o c) \o PendingOf(b)
  BY <1>2, <1>4, PendingOfParts
<1>6. PendingOf(a \o c) = PendingOf(a) \o PendingOf(c)
  BY <1>2, <1>3, PendingOfParts
<1>7. PendingOf(a) \in Slots /\ PendingOf(b) \in Slots
  BY <1>2, PendingIsFirsts
<1>8. PICK w : w = IF s[i] = Empty THEN <<>> ELSE <<s[i]>>
  OBVIOUS
<1>9. PendingOf(s) = (PendingOf(a) \o w) \o PendingOf(b)
  BY <1>2, <1>3, <1>5, <1>6, <1>8
<1> QED
  BY <1>1, <1>7, <1>8, <1>9, Zenon

\* An empty slot may be removed.
LEMMA RemoveKeeps ==
  ASSUME NEW s \in Slots, NEW i \in 1..Len(s), s[i] = Empty
  PROVE  RemoveAt(s, i) \in Slots /\ PendingOf(RemoveAt(s, i)) = PendingOf(s)
<1>1. PICK a, b : a = SubSeq(s, 1, i - 1) /\ b = SubSeq(s, i + 1, Len(s))
  OBVIOUS
<1>2. a \in Slots /\ b \in Slots
  BY <1>1, SplitAt
<1>3. PICK p, q : p = PendingOf(a) /\ q = PendingOf(b)
  OBVIOUS
<1>4. p \in Slots /\ q \in Slots /\ PendingOf(s) = (p \o <<>>) \o q
  BY <1>1, <1>3, PendingAround
<1>5. p \o <<>> = p
  BY <1>4 DEF Slots
<1>6. PendingOf(a \o b) = p \o q
  BY <1>2, <1>3, PendingOfParts
<1>7. a \o b \in Slots
  BY <1>2 DEF Slots
<1> QED
  BY <1>1, <1>4, <1>5, <1>6, <1>7 DEF RemoveAt

\* Emptying a slot takes its decision out, and nothing else.
LEMMA EmptiedHolds ==
  ASSUME NEW s \in Slots, NEW i \in 1..Len(s)
  PROVE  /\ [s EXCEPT ![i] = Empty] \in Slots
         /\ PendingOf([s EXCEPT ![i] = Empty]) =
              PendingOf(SubSeq(s, 1, i - 1)) \o PendingOf(SubSeq(s, i + 1, Len(s)))
<1>1. PICK t : t = [s EXCEPT ![i] = Empty]
  OBVIOUS
<1>2. /\ t \in Slots /\ Len(t) = Len(s) /\ t[i] = Empty
      /\ \A n \in 1..Len(s) : n # i => t[n] = s[n]
  BY <1>1 DEF Slots, Empty
<1>3. PICK a, b, c, d, L :
         /\ a = SubSeq(s, 1, i - 1) /\ b = SubSeq(s, i + 1, Len(s))
         /\ c = SubSeq(t, 1, i - 1) /\ d = SubSeq(t, i + 1, Len(t))
         /\ L = Len(s)
  OBVIOUS
<1>4. s \in Seq(Nat) /\ t \in Seq(Nat) /\ L \in Nat /\ i \in 1..L /\ Len(t) = L
  BY <1>2, <1>3 DEF Slots
<1>5. /\ a \in Seq(Nat) /\ Len(a) = i - 1 /\ \A n \in 1..(i - 1) : a[n] = s[n]
      /\ b \in Seq(Nat) /\ Len(b) = L - i /\ \A n \in 1..(L - i) : b[n] = s[n + i]
  BY <1>3, Sides
<1>6. /\ c \in Seq(Nat) /\ Len(c) = i - 1 /\ \A n \in 1..(i - 1) : c[n] = t[n]
      /\ d \in Seq(Nat) /\ Len(d) = L - i /\ \A n \in 1..(L - i) : d[n] = t[n + i]
  <2>1. i \in 1..Len(t)
    BY <1>4
  <2>2. /\ c \in Seq(Nat) /\ Len(c) = i - 1 /\ \A n \in 1..(i - 1) : c[n] = t[n]
        /\ d \in Seq(Nat) /\ Len(d) = Len(t) - i
        /\ \A n \in 1..(Len(t) - i) : d[n] = t[n + i]
    BY <1>2, <1>3, <2>1, Sides
  <2> QED
    BY <1>4, <2>2
<1>7. \A n \in 1..L : n # i => t[n] = s[n]
  BY <1>2, <1>3
<1>8. a = c
  <2>1. \A n \in 1..(i - 1) : n \in 1..L /\ n # i
    BY <1>4
  <2>2. \A n \in 1..Len(a) : a[n] = c[n]
    BY <1>5, <1>6, <1>7, <2>1
  <2> QED
    BY <1>5, <1>6, <2>2, SeqEqual
<1>9. b = d
  <2>1. \A n \in 1..(L - i) : n + i \in 1..L /\ n + i # i
    BY <1>4
  <2>2. \A n \in 1..Len(b) : b[n] = d[n]
    BY <1>5, <1>6, <1>7, <2>1
  <2> QED
    BY <1>5, <1>6, <2>2, SeqEqual
<1>10. PICK p, q : p = PendingOf(a) /\ q = PendingOf(b)
  OBVIOUS
<1>11. p \in Slots /\ q \in Slots /\ PendingOf(t) = (p \o <<>>) \o q
  <2>1. i \in 1..Len(t)
    BY <1>4
  <2>2. /\ PendingOf(c) \in Slots /\ PendingOf(d) \in Slots
        /\ PendingOf(t) = (PendingOf(c) \o (IF t[i] = Empty THEN <<>> ELSE <<t[i]>>))
                            \o PendingOf(d)
    BY <1>2, <1>3, <2>1, PendingAround
  <2> QED
    BY <1>2, <1>8, <1>9, <1>10, <2>2
<1>12. p \o <<>> = p
  BY <1>11 DEF Slots
<1> QED
  BY <1>1, <1>2, <1>3, <1>10, <1>11, <1>12

-----------------------------------------------------------------------------
(* The clean-up                                                            *)

LEMMA VisitKeeps ==
  ASSUME NEW s \in Slots, NEW n \in Nat
  PROVE  Visit(s, n) \in Slots /\ PendingOf(Visit(s, n)) = PendingOf(s)
<1> DEFINE i == Len(s) - n
<1>1. Len(s) \in Nat
  BY DEF Slots
<1>2. CASE n \in 1..(Len(s) - 1) /\ s[i + 1] = Empty
  <2>1. Visit(s, n) = RemoveAt(s, i + 1)
    BY <1>2 DEF Visit
  <2>2. i + 1 \in 1..Len(s)
    BY <1>1, <1>2
  <2> HIDE DEF i
  <2> QED
    BY <1>2, <2>1, <2>2, RemoveKeeps
<1>3. CASE ~(n \in 1..(Len(s) - 1) /\ s[i + 1] = Empty)
  BY <1>3 DEF Visit
<1> QED
  BY <1>2, <1>3

\* The array after each visit of the clean-up.
Visits(slots, f) ==
  f = [n \in 0..Len(slots) |-> IF n = 0 THEN slots ELSE Visit(f[n - 1], n - 1)]

LEMMA VisitsExist ==
  ASSUME NEW slots \in Slots
  PROVE  \E f : Visits(slots, f)
<1> DEFINE L == Len(slots)
           F == [n \in 1..L |-> [d \in Slots |-> Visit(d, n - 1)]]
<1>1. L \in Nat
  BY DEF Slots
<1>2. \A n \in 1..L : \A d \in Slots : Visit(d, n - 1) \in Slots
  <2>1. \A n \in 1..L : n - 1 \in Nat
    BY <1>1
  <2> QED
    BY <2>1, VisitKeeps
<1>3. F \in [1..L -> [Slots -> Slots]]
  BY <1>2
<1>4. PICK f \in [0..L -> Slots] :
        f = [n \in 0..L |-> IF n = 0 THEN slots ELSE F[n][f[n - 1]]]
  <2> HIDE DEF F, L
  <2>1. PICK b \in Slots : b = slots
    OBVIOUS
  <2>2. \E f \in [0..L -> Slots] :
          f = [n \in 0..L |-> IF n = 0 THEN b ELSE F[n][f[n - 1]]]
    BY <1>1, <1>3, RecursionExists
  <2> QED
    BY <2>1, <2>2
<1> DEFINE E(n) == IF n = 0 THEN slots ELSE F[n][f[n - 1]]
           G(n) == IF n = 0 THEN slots ELSE Visit(f[n - 1], n - 1)
<1>5. \A n \in 0..L : E(n) = G(n)
  BY <1>1
<1>6. f = [n \in 0..L |-> E(n)]
  BY <1>4
<1> HIDE DEF E, G
<1>7. f = [n \in 0..L |-> G(n)]
  BY <1>5, <1>6
<1>8. Visits(slots, f)
  BY <1>7, Zenon DEF Visits, G
<1> QED
  BY <1>8

\* The clean-up, which looks at the wrong slots of a changing array, removes no
\* decision from it all the same.
LEMMA CleanupKeeps ==
  ASSUME NEW slots \in Slots
  PROVE  Cleanup(slots) \in Slots /\ PendingOf(Cleanup(slots)) = PendingOf(slots)
<1> DEFINE f == CHOOSE g : Visits(slots, g)
           L == Len(slots)
<1>1. Visits(slots, f)
  BY VisitsExist, Zenon
<1>2. Cleanup(slots) = f[L]
  BY Zenon DEF Cleanup, Visits
<1> HIDE DEF f
<1> DEFINE E(n) == IF n = 0 THEN slots ELSE Visit(f[n - 1], n - 1)
<1>3. L \in Nat
  BY DEF Slots
<1>4. f = [n \in 0..L |-> E(n)]
  BY <1>1, Zenon DEF Visits
<1>5. E(0) = slots /\ \A n \in 1..L : E(n) = Visit(f[n - 1], n - 1)
  OBVIOUS
<1> HIDE DEF E
<1>6. \A n \in 0..L : f[n] = E(n)
  BY <1>4
<1>7. f[0] = slots /\ \A n \in 1..L : f[n] = Visit(f[n - 1], n - 1)
  BY <1>3, <1>5, <1>6
<1> HIDE DEF L
<1> DEFINE S == {n \in Nat : n <= L => f[n] \in Slots /\ PendingOf(f[n]) = PendingOf(slots)}
<1>8. 0 \in S
  BY <1>7
<1>9. ASSUME NEW n \in Nat, n \in S PROVE n + 1 \in S
  <2>1. CASE n + 1 <= L
    <3>1. n + 1 \in 1..L /\ (n + 1) - 1 = n /\ f[n] \in Slots
          /\ PendingOf(f[n]) = PendingOf(slots)
      BY <1>3, <1>9, <2>1
    <3>2. f[n + 1] = Visit(f[n], n)
      BY <1>7, <3>1
    <3> QED
      BY <3>1, <3>2, VisitKeeps
  <2> QED
    BY <2>1
<1> HIDE DEF S
<1>10. L \in S
  BY <1>3, <1>8, <1>9, NumberInduction
<1> QED
  BY <1>2, <1>3, <1>10 DEF S

-----------------------------------------------------------------------------
(* What an array holds is what was queued and not delivered                *)

\* An array without an empty slot holds all it has.
LEMMA PendingOfDecisions ==
  ASSUME NEW w \in Seq(Nat \ {0})
  PROVE  w \in Slots /\ PendingOf(w) = w
<1> DEFINE T == {s \in Slots : PendingOf(s) = s}
<1>1. <<>> \in T
  BY PendingGrows DEF Slots
<1>2. ASSUME NEW s \in Seq(Nat \ {0}), NEW x \in Nat \ {0}, s \in T
      PROVE  Append(s, x) \in T
  <2>1. Append(s, x) \in Slots /\ x # Empty
    BY DEF Slots, Empty
  <2>2. PendingOf(Append(s, x)) = Append(PendingOf(s), x)
    BY <1>2, <2>1, PendingGrows
  <2> QED
    BY <1>2, <2>1, <2>2
<1> HIDE DEF T
<1>3. Seq(Nat \ {0}) \subseteq T
  BY <1>1, <1>2, SequenceInduction
<1> QED
  BY <1>3 DEF T

Same(u, v) == Len(u) = Len(v) /\ ToSet(u) = ToSet(v)

LEMMA ToSetConcat ==
  ASSUME NEW u \in Slots, NEW v \in Slots
  PROVE  /\ u \o v \in Slots /\ Len(u \o v) = Len(u) + Len(v)
         /\ ToSet(u \o v) = ToSet(u) \cup ToSet(v)
<1>1. PICK w, m, n : w = u \o v /\ m = Len(u) /\ n = Len(v)
  OBVIOUS
<1>2. /\ w \in Slots /\ m \in Nat /\ n \in Nat /\ Len(w) = m + n
      /\ DOMAIN u = 1..m /\ DOMAIN v = 1..n /\ DOMAIN w = 1..(m + n)
  BY <1>1 DEF Slots
<1>3. \A i \in 1..(m + n) : w[i] = IF i <= m THEN u[i] ELSE v[i - m]
  BY <1>1, <1>2 DEF Slots
<1>4. ToSet(w) \subseteq ToSet(u) \cup ToSet(v)
  <2>1. ASSUME NEW i \in 1..(m + n) PROVE w[i] \in ToSet(u) \cup ToSet(v)
    <3>1. CASE i <= m
      <4>1. i \in 1..m
        BY <1>2, <3>1
      <4> QED
        BY <1>2, <1>3, <3>1, <4>1 DEF ToSet
    <3>2. CASE ~(i <= m)
      <4>1. i - m \in 1..n
        BY <1>2, <3>2
      <4> QED
        BY <1>2, <1>3, <3>2, <4>1 DEF ToSet
    <3> QED
      BY <3>1, <3>2
  <2> QED
    BY <1>2, <2>1 DEF ToSet
<1>5. ToSet(u) \subseteq ToSet(w)
  <2>1. ASSUME NEW i \in 1..m PROVE u[i] \in ToSet(w)
    <3>1. i \in 1..(m + n) /\ i <= m
      BY <1>2
    <3> QED
      BY <1>2, <1>3, <3>1 DEF ToSet
  <2> QED
    BY <1>2, <2>1 DEF ToSet
<1>6. ToSet(v) \subseteq ToSet(w)
  <2>1. ASSUME NEW i \in 1..n PROVE v[i] \in ToSet(w)
    <3>1. i + m \in 1..(m + n) /\ ~(i + m <= m) /\ (i + m) - m = i
      BY <1>2
    <3>2. w[i + m] = v[i]
      BY <1>3, <3>1
    <3> QED
      BY <1>2, <3>1, <3>2 DEF ToSet
  <2> QED
    BY <1>2, <2>1 DEF ToSet
<1> QED
  BY <1>1, <1>2, <1>4, <1>5, <1>6

\* The histories and the arrays of the stream.
HeldTyped ==
  /\ queue \in [Kind -> Slots]
  /\ delivered \in [Kind -> Slots]
  /\ accepted \in [Kind -> Slots]

HeldInv == HeldTyped /\ NeverLostNorRepeated

\* What is queued is queued at the end.
LEMMA ReceivedIsHeld ==
  ASSUME NEW q \in Slots, NEW d \in Slots, NEW a \in Slots, NEW w \in Seq(Nat \ {0}),
         Same(d \o PendingOf(q), a)
  PROVE  /\ q \o w \in Slots /\ a \o w \in Slots
         /\ PendingOf(q \o w) = PendingOf(q) \o w
         /\ Same(d \o PendingOf(q \o w), a \o w)
<1>1. w \in Slots /\ PendingOf(w) = w
  BY PendingOfDecisions
<1>2. PICK p \in Slots : p = PendingOf(q)
  BY PendingIsFirsts
<1>3. PendingOf(q \o w) = p \o w
  <2>1. PendingOf(q \o w) = PendingOf(q) \o PendingOf(w)
    BY <1>1, PendingOfParts
  <2> QED
    BY <1>1, <1>2, <2>1
<1>4. q \o w \in Slots /\ a \o w \in Slots
  BY <1>1, ToSetConcat
<1>5. Len(a \o w) = Len(a) + Len(w) /\ ToSet(a \o w) = ToSet(a) \cup ToSet(w)
  BY <1>1, ToSetConcat
<1>6. /\ p \o w \in Slots /\ Len(p \o w) = Len(p) + Len(w)
      /\ ToSet(p \o w) = ToSet(p) \cup ToSet(w)
  BY <1>1, <1>2, ToSetConcat
<1>7. Len(d \o p) = Len(d) + Len(p) /\ ToSet(d \o p) = ToSet(d) \cup ToSet(p)
  BY <1>2, ToSetConcat
<1>8. PICK r \in Slots : r = p \o w
  BY <1>6
<1>9. Len(d \o r) = Len(d) + Len(r) /\ ToSet(d \o r) = ToSet(d) \cup ToSet(r)
  BY <1>8, ToSetConcat
<1>10. Len(d) \in Nat /\ Len(p) \in Nat /\ Len(w) \in Nat /\ Len(a) \in Nat
  BY <1>1, <1>2 DEF Slots
<1>11. Len(d \o r) = Len(a \o w)
  BY <1>2, <1>5, <1>6, <1>7, <1>8, <1>9, <1>10 DEF Same
<1>12. ToSet(d \o r) = ToSet(a \o w)
  BY <1>2, <1>5, <1>6, <1>7, <1>8, <1>9 DEF Same
<1> QED
  BY <1>2, <1>3, <1>4, <1>8, <1>11, <1>12 DEF Same

\* What is emitted goes from the array to the listener.
LEMMA EmittedIsDelivered ==
  ASSUME NEW q \in Slots, NEW d \in Slots, NEW a \in Slots, NEW i \in 1..Len(q),
         q[i] # Empty, Same(d \o PendingOf(q), a)
  PROVE  Same(Append(d, q[i]) \o PendingOf([q EXCEPT ![i] = Empty]), a)
<1>1. PICK l, r, x, e, p :
        /\ l = PendingOf(SubSeq(q, 1, i - 1)) /\ r = PendingOf(SubSeq(q, i + 1, Len(q)))
        /\ x = <<q[i]>> /\ e = PendingOf([q EXCEPT ![i] = Empty]) /\ p = PendingOf(q)
  OBVIOUS
<1>2. /\ l \in Slots /\ r \in Slots
      /\ p = (l \o (IF q[i] = Empty THEN <<>> ELSE x)) \o r
  BY <1>1, PendingAround
<1>3. p = (l \o x) \o r
  BY <1>2
<1>4. e = l \o r
  BY <1>1, EmptiedHolds
<1>5. q[i] \in Nat /\ x \in Slots /\ Len(x) = 1
  BY <1>1, SplitAt DEF Slots
<1>6. Append(d, q[i]) = d \o x
  BY <1>1, <1>5, AppendIsConcat DEF Slots
<1>7. PICK lx, lr, dx : lx = l \o x /\ lr = l \o r /\ dx = d \o x
  OBVIOUS
<1>8. /\ lx \in Slots /\ Len(lx) = Len(l) + Len(x) /\ ToSet(lx) = ToSet(l) \cup ToSet(x)
      /\ lr \in Slots /\ Len(lr) = Len(l) + Len(r) /\ ToSet(lr) = ToSet(l) \cup ToSet(r)
      /\ dx \in Slots /\ Len(dx) = Len(d) + Len(x) /\ ToSet(dx) = ToSet(d) \cup ToSet(x)
  BY <1>2, <1>5, <1>7, ToSetConcat
<1>9. /\ p \in Slots /\ Len(p) = Len(lx) + Len(r) /\ ToSet(p) = ToSet(lx) \cup ToSet(r)
  BY <1>2, <1>3, <1>7, <1>8, ToSetConcat
<1>10. /\ Len(d \o p) = Len(d) + Len(p) /\ ToSet(d \o p) = ToSet(d) \cup ToSet(p)
       /\ Len(dx \o lr) = Len(dx) + Len(lr) /\ ToSet(dx \o lr) = ToSet(dx) \cup ToSet(lr)
  BY <1>8, <1>9, ToSetConcat
<1>11. Len(d) \in Nat /\ Len(l) \in Nat /\ Len(r) \in Nat
  BY <1>2 DEF Slots
<1>12. Len(dx \o lr) = Len(d \o p)
  BY <1>5, <1>8, <1>9, <1>10, <1>11
<1>13. ToSet(dx \o lr) = ToSet(d \o p)
  BY <1>8, <1>9, <1>10
<1> QED
  BY <1>1, <1>4, <1>6, <1>7, <1>12, <1>13 DEF Same

\* A step that queues decisions, of one kind or both.
Queues(w) ==
  /\ w \in [Kind -> Seq(Nat \ {0})]
  /\ queue' = [k \in Kind |-> queue[k] \o w[k]]
  /\ accepted' = [k \in Kind |-> accepted[k] \o w[k]]
  /\ UNCHANGED delivered

LEMMA QueuesKeeps ==
  ASSUME HeldInv, NEW w, Queues(w)
  PROVE  /\ HeldInv'
         /\ \A k \in Kind : Pending(k)' = Pending(k) \o w[k]
<1>1. ASSUME NEW k \in Kind
      PROVE  /\ queue'[k] \in Slots /\ accepted'[k] \in Slots
             /\ PendingOf(queue'[k]) = PendingOf(queue[k]) \o w[k]
             /\ Same(delivered[k] \o PendingOf(queue'[k]), accepted'[k])
  <2>1. PICK q, a, d, v : q = queue[k] /\ a = accepted[k] /\ d = delivered[k] /\ v = w[k]
    OBVIOUS
  <2>2. q \in Slots /\ a \in Slots /\ d \in Slots /\ v \in Seq(Nat \ {0})
    BY <2>1 DEF HeldInv, HeldTyped, Queues
  <2>3. Same(d \o PendingOf(q), a)
    BY <2>1 DEF HeldInv, NeverLostNorRepeated, Same, Pending
  <2>4. queue'[k] = q \o v /\ accepted'[k] = a \o v
    BY <2>1 DEF Queues
  <2>5. /\ q \o v \in Slots /\ a \o v \in Slots
        /\ PendingOf(q \o v) = PendingOf(q) \o v
        /\ Same(d \o PendingOf(q \o v), a \o v)
    BY <2>2, <2>3, ReceivedIsHeld
  <2> QED
    BY <2>1, <2>4, <2>5
<1>2. HeldTyped'
  BY <1>1 DEF HeldInv, HeldTyped, Queues
<1>3. NeverLostNorRepeated'
  <2>1. delivered' = delivered
    BY DEF Queues
  <2>2. \A k \in Kind : Same(delivered'[k] \o PendingOf(queue'[k]), accepted'[k])
    BY <1>1, <2>1
  <2> QED
    BY <2>2 DEF NeverLostNorRepeated, Same, Pending
<1>4. \A k \in Kind : Pending(k)' = Pending(k) \o w[k]
  BY <1>1 DEF Pending
<1> QED
  BY <1>2, <1>3, <1>4 DEF HeldInv

LEMMA PushQueues ==
  ASSUME IInv, HeldInv, NEW size \in Sizes, NEW bad \in SUBSET Kind, Push(size, bad)
  PROVE  \E w : Queues(w)
<1> DEFINE ok == {k \in Kind : size[k] > 0 /\ k \notin bad}
           w == [k \in Kind |-> IF k \in ok THEN <<sent[k] + 1>> ELSE <<>>]
<1>1. \A k \in Kind : sent[k] + 1 \in Nat \ {0}
  BY StreamAssumption DEF IInv, TypeOK
<1>2. w \in [Kind -> Seq(Nat \ {0})]
  <2>1. ASSUME NEW k \in Kind PROVE <<sent[k] + 1>> \in Seq(Nat \ {0})
    <3>1. PICK x \in Nat \ {0} : x = sent[k] + 1
      BY <1>1
    <3> QED
      BY <3>1
  <2>2. <<>> \in Seq(Nat \ {0})
    OBVIOUS
  <2> HIDE DEF ok
  <2> QED
    BY <2>1, <2>2
<1>3. /\ queue' = [k \in Kind |-> queue[k] \o w[k]]
      /\ accepted' = [k \in Kind |-> accepted[k] \o w[k]]
      /\ UNCHANGED delivered
  BY DEF Push
<1> HIDE DEF w
<1> QED
  BY <1>2, <1>3 DEF Queues

LEMMA ParseQueues ==
  ASSUME IInv, HeldInv, NEW p \in parsers, NEW good \in 0..MaxDecisions, ParseChunk(p, good)
  PROVE  \E w : Queues(w)
<1> DEFINE parsed == [n \in 1..good |-> p.next + n - 1]
           w == [k \in Kind |-> IF k = p.kind THEN parsed ELSE <<>>]
<1>1. p.next \in Nat \ {0} /\ p.kind \in Kind /\ good \in Nat
  BY StreamAssumption DEF IInv, TypeOK, Parser, Decisions
<1>2. parsed \in Seq(Nat \ {0})
  <2>1. \A n \in 1..good : p.next + n - 1 \in Nat \ {0}
    BY <1>1
  <2> QED
    BY <1>1, <2>1, IsASeq
<1>3. /\ queue' = [queue EXCEPT ![p.kind] = @ \o parsed]
      /\ accepted' = [accepted EXCEPT ![p.kind] = @ \o parsed]
      /\ UNCHANGED delivered
  BY DEF ParseChunk
<1> HIDE DEF parsed
<1>4. w \in [Kind -> Seq(Nat \ {0})]
  BY <1>2
<1>5. \A k \in Kind : queue[k] \o <<>> = queue[k] /\ accepted[k] \o <<>> = accepted[k]
  <2>1. \A s \in Slots : s \o <<>> = s
    BY DEF Slots
  <2> QED
    BY <2>1 DEF HeldInv, HeldTyped
<1>6. queue' = [k \in Kind |-> queue[k] \o w[k]]
  <2>1. queue' = [k \in Kind |-> IF k = p.kind THEN queue[k] \o parsed ELSE queue[k]]
    BY <1>1, <1>3 DEF HeldInv, HeldTyped
  <2> QED
    BY <1>5, <2>1
<1>7. accepted' = [k \in Kind |-> accepted[k] \o w[k]]
  <2>1. accepted' = [k \in Kind |-> IF k = p.kind THEN accepted[k] \o parsed ELSE accepted[k]]
    BY <1>1, <1>3 DEF HeldInv, HeldTyped
  <2> QED
    BY <1>5, <2>1
<1> HIDE DEF w
<1> QED
  BY <1>3, <1>4, <1>6, <1>7 DEF Queues

\* Where an emission takes place.
LEMMA EmitSlot ==
  ASSUME IInv, HeldInv, NEW d \in DrainId, InReach(d)
  PROVE  /\ drains[d].kind \in Kind /\ drains[d].at \in Nat
         /\ drains[d].at + 1 \in 1..Len(queue[drains[d].kind])
<1>1. drains[d].kind \in Kind /\ drains[d].at \in Nat
  BY DEF IInv, TypeOK, Drain
<1>2. queue[drains[d].kind] \in Slots
  BY <1>1 DEF HeldInv, HeldTyped
<1>3. PICK n, i : n = Len(queue[drains[d].kind]) /\ i = drains[d].at
  OBVIOUS
<1>4. n \in Nat /\ i \in Nat /\ i < n
  BY <1>1, <1>2, <1>3 DEF InReach, Slots
<1> QED
  BY <1>1, <1>3, <1>4

LEMMA EmitKeeps ==
  ASSUME IInv, HeldInv, NEW d \in DrainId, Emit(d)
  PROVE  HeldInv'
<1>1. PICK k, i, q, x :
        /\ k = drains[d].kind /\ i = drains[d].at + 1 /\ q = queue[k] /\ x = q[i]
  OBVIOUS
<1>2. InReach(d) /\ Slot(d) # Empty
  BY DEF Emit, AtDecision
<1>3. k \in Kind /\ i \in 1..Len(q) /\ q \in Slots /\ x # Empty
  BY <1>1, <1>2, EmitSlot DEF Slot, HeldInv, HeldTyped
<1>4. x \in Nat
  BY <1>1, <1>3, SplitAt
<1>5. PICK r : r = [q EXCEPT ![i] = Empty]
  OBVIOUS
<1>6. r \in Slots
  BY <1>3, <1>5, EmptiedHolds
<1>7. delivered' = [delivered EXCEPT ![k] = Append(@, x)]
  BY <1>1 DEF Emit, Slot
<1>8. queue' = [queue EXCEPT ![k] = r]
  <2>1. queue' = [queue EXCEPT ![k][i] = Empty]
    BY <1>1 DEF Emit
  <2> QED
    BY <1>1, <1>5, <2>1
<1>9. accepted' = accepted
  BY DEF Emit, rest, histories
<1>10. HeldTyped'
  <2>1. Append(delivered[k], x) \in Slots
    BY <1>3, <1>4 DEF HeldInv, HeldTyped, Slots
  <2> QED
    BY <1>6, <1>7, <1>8, <1>9, <2>1 DEF HeldInv, HeldTyped
<1>11. ASSUME NEW c \in Kind
       PROVE  Same(delivered'[c] \o PendingOf(queue'[c]), accepted'[c])
  <2>1. Same(delivered[c] \o PendingOf(queue[c]), accepted[c])
    BY DEF HeldInv, NeverLostNorRepeated, Same, Pending
  <2>2. CASE c = k
    <3>1. PICK dl, a : dl = delivered[k] /\ a = accepted[k]
      OBVIOUS
    <3>2. dl \in Slots /\ a \in Slots /\ Same(dl \o PendingOf(q), a)
      BY <1>1, <1>3, <2>1, <2>2, <3>1 DEF HeldInv, HeldTyped
    <3>3. Same(Append(dl, x) \o PendingOf(r), a)
      BY <1>1, <1>3, <1>5, <3>2, EmittedIsDelivered
    <3>4. delivered'[k] = Append(dl, x) /\ queue'[k] = r
      BY <1>3, <1>7, <1>8, <3>1 DEF HeldInv, HeldTyped
    <3> QED
      BY <1>9, <2>2, <3>1, <3>3, <3>4
  <2>3. CASE c # k
    <3>1. delivered'[c] = delivered[c] /\ queue'[c] = queue[c]
      BY <1>7, <1>8, <2>3 DEF HeldInv, HeldTyped
    <3> QED
      BY <1>9, <2>1, <3>1
  <2> QED
    BY <2>2, <2>3
<1> QED
  BY <1>10, <1>11 DEF HeldInv, NeverLostNorRepeated, Same, Pending

LEMMA SettleKeeps ==
  ASSUME IInv, HeldInv, NEW d \in DrainId, Settle(d)
  PROVE  HeldInv' /\ \A k \in Kind : Pending(k)' = Pending(k)
<1>1. PICK k : k = drains[d].kind
  OBVIOUS
<1>2. /\ queue' = [queue EXCEPT ![k] = Cleanup(queue[k])]
      /\ UNCHANGED <<delivered, accepted>>
  BY <1>1 DEF Settle, rest, histories
<1>3. k \in Kind /\ queue[k] \in Slots
  BY <1>1 DEF HeldInv, HeldTyped, IInv, TypeOK, Drain
<1>4. Cleanup(queue[k]) \in Slots /\ PendingOf(Cleanup(queue[k])) = PendingOf(queue[k])
  BY <1>3, CleanupKeeps
<1>5. HeldTyped'
  BY <1>2, <1>4 DEF HeldInv, HeldTyped
<1>6. \A c \in Kind : PendingOf(queue'[c]) = PendingOf(queue[c])
  BY <1>2, <1>4 DEF HeldInv, HeldTyped
<1> QED
  BY <1>2, <1>5, <1>6 DEF HeldInv, NeverLostNorRepeated, Pending

LEMMA HeldInit == Init => HeldInv
<1> SUFFICES ASSUME Init PROVE HeldInv
  OBVIOUS
<1>1. <<>> \in Slots /\ <<>> \o <<>> = <<>>
  BY DEF Slots
<1>2. HeldTyped
  BY <1>1 DEF Init, HeldTyped
<1>3. \A k \in Kind : delivered[k] = <<>> /\ queue[k] = <<>> /\ accepted[k] = <<>>
  BY DEF Init
<1>4. \A k \in Kind : delivered[k] \o PendingOf(queue[k]) = accepted[k]
  BY <1>1, <1>3, PendingGrows
<1> QED
  BY <1>2, <1>4 DEF HeldInv, NeverLostNorRepeated, Pending

LEMMA HeldStep == IInv /\ HeldInv /\ [Next]_vars => HeldInv'
<1> SUFFICES ASSUME IInv, HeldInv, [Next]_vars PROVE HeldInv'
  OBVIOUS
<1>1. CASE UNCHANGED <<queue, delivered, accepted>>
  BY <1>1 DEF HeldInv, HeldTyped, NeverLostNorRepeated, Pending
<1>2. CASE Next /\ ~UNCHANGED <<queue, delivered, accepted>>
  <2>1. CASE \E d \in DrainId : Emit(d)
    BY <2>1, EmitKeeps
  <2>2. CASE \E d \in DrainId : Settle(d)
    BY <2>2, SettleKeeps
  <2>3. CASE \E size \in Sizes, bad \in SUBSET Kind : Push(size, bad)
    BY <2>3, PushQueues, QueuesKeeps
  <2>4. CASE \E p \in parsers : \E good \in 0..MaxDecisions : ParseChunk(p, good)
    BY <2>4, ParseQueues, QueuesKeeps
  <2> QED
    BY <1>2, <2>1, <2>2, <2>3, <2>4
       DEF Next, ReachEnd, StopPaused, SkipEmpty, EmitThrows, Wake, LoopFailed, LoopDone,
           Pause, Close, Resume, rest, histories
<1>3. CASE UNCHANGED vars
  BY <1>1, <1>3 DEF vars, histories
<1> QED
  BY <1>1, <1>2, <1>3

\* For any chunk length, any lists and whatever the listeners do: a decision
\* that was queued is still in its array, once, or was delivered, once.
THEOREM QueueKeepsDecisions == Spec => []NeverLostNorRepeated
<1>1. HeldInv => NeverLostNorRepeated
  BY DEF HeldInv
<1> QED
  BY <1>1, HeldInit, HeldStep, IInvAlways, PTL DEF Spec

-----------------------------------------------------------------------------
(* A drain leaves only empty slots behind                                  *)

Behind(d) ==
  LET q == queue[drains[d].kind]
  IN  /\ drains[d].at <= Len(q)
      /\ \A i \in 1..drains[d].at : q[i] = Empty

AtWork(d) == drains[d].phase \in {"running", "waiting"} /\ ~drains[d].stop

\* What keeps the decisions in order: all that a drain at work has behind it
\* has been delivered.  It ends with the first listener that throws.
OrderInv == thrown = 0 => \A d \in DrainId : AtWork(d) => Behind(d)

\* Other drains at work have an array of their own, which nobody else changes.
LEMMA OthersStayBehind ==
  ASSUME IInv, OrderInv, thrown = 0, NEW d \in DrainId, drains[d].phase # "idle",
         \A e \in DrainId \ {d} : drains'[e] = drains[e],
         \A k \in Kind \ {drains[d].kind} : queue'[k] = queue[k],
         NEW e \in DrainId \ {d}, AtWork(e)'
  PROVE  Behind(e)'
<1>1. drains'[e] = drains[e] /\ AtWork(e) /\ Behind(e)
  BY DEF OrderInv, AtWork
<1>2. drains[e].phase # "idle" /\ drains[e].kind \in Kind
  BY <1>1 DEF AtWork, IInv, TypeOK, Drain
<1>3. drains[e].kind # drains[d].kind
  BY <1>2 DEF IInv, Orderly, OneDrain
<1>4. queue'[drains[e].kind] = queue[drains[e].kind]
  BY <1>2, <1>3
<1> QED
  BY <1>1, <1>4 DEF Behind

LEMMA BehindGrows ==
  ASSUME NEW q \in Slots, NEW w \in Slots, NEW n \in Nat, n <= Len(q),
         \A i \in 1..n : q[i] = Empty
  PROVE  n <= Len(q \o w) /\ \A i \in 1..n : (q \o w)[i] = Empty
<1>1. PICK r : r = q \o w
  OBVIOUS
<1>2. Len(q) \in Nat /\ Len(w) \in Nat /\ Len(r) = Len(q) + Len(w)
  BY <1>1 DEF Slots
<1>3. \A i \in 1..Len(q) : r[i] = q[i]
  BY <1>1 DEF Slots
<1>4. n <= Len(r)
  BY <1>2
<1>5. \A i \in 1..n : i \in 1..Len(q)
  BY <1>2
<1> QED
  BY <1>1, <1>3, <1>4, <1>5

\* A loop that starts leaves the other drains where they are.
LEMMA LoopStarts ==
  ASSUME TypeOK, NEW isPaused, Loop(isPaused), NEW d \in DrainId
  PROVE  drains'[d] = drains[d] \/ (drains'[d].at = 0 /\ drains'[d].kind \in Kind)
<1>1. CASE MayLoop(isPaused)
  <2>1. PICK a, b : drains' =
          [drains EXCEPT ![a] = [Idle EXCEPT !.phase = "running", !.kind = "deleted"],
                         ![b] = [Idle EXCEPT !.phase = "running", !.kind = "added"]]
    BY <1>1 DEF Loop
  <2>2. \A k \in Kind : LET s == [Idle EXCEPT !.phase = "running", !.kind = k]
                        IN  s.at = 0 /\ s.kind = k
    BY DEF Idle
  <2> QED
    BY <2>1, <2>2 DEF TypeOK, Kind
<1> QED
  BY <1>1 DEF Loop

\* New decisions are queued in front of every drain.
LEMMA QueuesOrder ==
  ASSUME IInv, HeldInv, OrderInv, thrown = 0, NEW w, Queues(w),
         \A d \in DrainId :
           drains'[d] = drains[d] \/ (drains'[d].at = 0 /\ drains'[d].kind \in Kind),
         NEW d \in DrainId, AtWork(d)'
  PROVE  Behind(d)'
<1>1. CASE drains'[d] = drains[d]
  <2>1. AtWork(d) /\ Behind(d)
    BY <1>1 DEF AtWork, OrderInv
  <2>2. PICK k, n, q, v :
          k = drains[d].kind /\ n = drains[d].at /\ q = queue[k] /\ v = w[k]
    OBVIOUS
  <2>3. k \in Kind /\ n \in Nat
    BY <2>2 DEF IInv, TypeOK, Drain
  <2>4. q \in Slots /\ v \in Seq(Nat \ {0})
    BY <2>2, <2>3 DEF HeldInv, HeldTyped, Queues
  <2>5. v \in Slots
    BY <2>4, PendingOfDecisions
  <2>6. n <= Len(q) /\ \A i \in 1..n : q[i] = Empty
    BY <2>1, <2>2 DEF Behind
  <2>7. n <= Len(q \o v) /\ \A i \in 1..n : (q \o v)[i] = Empty
    BY <2>3, <2>4, <2>5, <2>6, BehindGrows
  <2>8. queue'[k] = q \o v
    BY <2>2, <2>3 DEF Queues
  <2> QED
    BY <1>1, <2>2, <2>7, <2>8 DEF Behind
<1>2. CASE drains'[d].at = 0 /\ drains'[d].kind \in Kind
  <2>1. queue'[drains'[d].kind] \in Slots
    BY <1>2, QueuesKeeps DEF HeldInv, HeldTyped
  <2>2. 0 <= Len(queue'[drains'[d].kind])
    BY <2>1 DEF Slots
  <2> QED
    BY <1>2, <2>2 DEF Behind
<1> QED
  BY <1>1, <1>2

\* A drain goes past a slot that is empty, or that it empties.
LEMMA AdvanceOrder ==
  ASSUME IInv, HeldInv, OrderInv, thrown = 0, NEW d \in DrainId, Running(d), InReach(d),
         Advance(d, FALSE), NEW q, q = queue'[drains[d].kind], Len(q) = Len(queue[drains[d].kind]),
         q[drains[d].at + 1] = Empty,
         \A i \in 1..drains[d].at : q[i] = queue[drains[d].kind][i]
  PROVE  Behind(d)'
<1>1. PICK k, n, r : k = drains[d].kind /\ n = drains[d].at /\ r = queue[k]
  OBVIOUS
<1>2. k \in Kind /\ n \in Nat /\ n + 1 \in 1..Len(r) /\ Len(r) \in Nat
  BY <1>1, EmitSlot DEF HeldInv, HeldTyped, Slots
<1>3. AtWork(d)
  BY RunningIsRunning DEF IInv, AtWork, InReach
<1>4. \A i \in 1..n : r[i] = Empty
  BY <1>1, <1>3 DEF OrderInv, Behind
<1>5. drains'[d].at = n + 1 /\ drains'[d].kind = k
  BY <1>1 DEF Advance, IInv, TypeOK, Drain
<1>6. \A i \in 1..(n + 1) : q[i] = Empty
  <2>1. \A i \in 1..(n + 1) : i = n + 1 \/ i \in 1..n
    BY <1>2
  <2> QED
    BY <1>1, <1>4, <2>1
<1> QED
  BY <1>1, <1>2, <1>5, <1>6 DEF Behind

\* What a drain does to the other drains, and to the other arrays.
LEMMA AdvanceOwn ==
  ASSUME TypeOK, NEW d \in DrainId, NEW stop, Advance(d, stop)
  PROVE  /\ \A e \in DrainId \ {d} : drains'[e] = drains[e]
         /\ drains'[d].stop = stop
<1>1. PICK next : drains' = [drains EXCEPT ![d].at = drains[d].at + 1, ![d].stop = stop,
                                           ![d].phase = next]
  BY DEF Advance
<1>2. drains[d] \in Drain
  BY DEF TypeOK
<1> QED
  BY <1>1, <1>2 DEF TypeOK, Drain

LEMMA WalkOrder ==
  ASSUME IInv, HeldInv, OrderInv, thrown = 0, NEW d \in DrainId, Walk(d) \/ Settle(d),
         NEW e \in DrainId, AtWork(e)'
  PROVE  Behind(e)'
<1>1. drains[d] \in Drain /\ drains[d].kind \in Kind
  BY DEF IInv, TypeOK, Drain
<1>2. Running(d) => drains[d].phase = "running"
  BY RunningIsRunning DEF IInv
<1>3. CASE ReachEnd(d) \/ Wake(d)
  <2>1. UNCHANGED queue
    BY <1>3 DEF ReachEnd, Wake
  <2>2. PICK next : /\ drains' = [drains EXCEPT ![d].phase = next]
                    /\ next = "running" => Wake(d)
                    /\ next \in {"ended", "running"}
    BY <1>3 DEF ReachEnd, Wake
  <2>3. /\ \A c \in DrainId \ {d} : drains'[c] = drains[c]
        /\ drains'[d].phase = next /\ drains'[d].stop = drains[d].stop
        /\ drains'[d].kind = drains[d].kind /\ drains'[d].at = drains[d].at
    BY <1>1, <2>2 DEF IInv, TypeOK, Drain
  <2>4. AtWork(e)
    BY <2>2, <2>3 DEF AtWork, Wake
  <2>5. Behind(e)
    BY <2>4 DEF OrderInv
  <2>6. drains'[e].kind = drains[e].kind /\ drains'[e].at = drains[e].at
    BY <2>3
  <2> QED
    BY <2>1, <2>5, <2>6 DEF Behind
<1>4. CASE StopPaused(d) \/ SkipEmpty(d) \/ Emit(d)
  <2>1. Running(d) /\ InReach(d) /\ \E stop \in BOOLEAN : Advance(d, stop)
    BY <1>4 DEF StopPaused, SkipEmpty, AtEmpty, Emit, AtDecision
  <2>2. \A c \in DrainId \ {d} : drains'[c] = drains[c]
    BY <2>1, AdvanceOwn DEF IInv
  <2>3. \A k \in Kind \ {drains[d].kind} : queue'[k] = queue[k]
    BY <1>4 DEF StopPaused, SkipEmpty, Emit, IInv, TypeOK
  <2>4. CASE e # d
    BY <1>2, <2>1, <2>2, <2>3, <2>4, OthersStayBehind
  <2>5. CASE e = d
    <3>1. CASE StopPaused(d)
      BY <2>5, <3>1, AdvanceOwn DEF StopPaused, AtWork, IInv
    <3>2. CASE SkipEmpty(d)
      <4>1. UNCHANGED queue /\ Slot(d) = Empty /\ Advance(d, FALSE)
        BY <3>2 DEF SkipEmpty, AtEmpty
      <4> QED
        BY <2>1, <2>5, <4>1, AdvanceOrder DEF Slot
    <3>3. CASE Emit(d)
      <4>1. PICK k, i, r : k = drains[d].kind /\ i = drains[d].at + 1 /\ r = queue[k]
        OBVIOUS
      <4>2. k \in Kind /\ i \in 1..Len(r) /\ i - 1 = drains[d].at /\ r \in Slots
        BY <2>1, <4>1, EmitSlot DEF HeldInv, HeldTyped
      <4>3. PICK q : q = [r EXCEPT ![i] = Empty]
        OBVIOUS
      <4>4. queue'[k] = q
        BY <3>3, <4>1, <4>2, <4>3 DEF Emit, HeldInv, HeldTyped
      <4>5. /\ Len(q) = Len(r) /\ q[i] = Empty
            /\ \A n \in 1..Len(r) : n # i => q[n] = r[n]
        BY <4>2, <4>3 DEF Slots, Empty
      <4>6. \A n \in 1..(i - 1) : n \in 1..Len(r) /\ n # i
        BY <4>2 DEF Slots
      <4>7. \A n \in 1..drains[d].at : q[n] = r[n]
        BY <4>2, <4>5, <4>6
      <4>8. Advance(d, FALSE)
        BY <3>3 DEF Emit
      <4>9. Behind(d)'
        BY <2>1, <4>1, <4>4, <4>5, <4>7, <4>8, AdvanceOrder
      <4> QED
        BY <2>5, <4>9
    <3> QED
      BY <1>4, <3>1, <3>2, <3>3
  <2> QED
    BY <2>4, <2>5
<1>5. CASE Settle(d)
  <2>1. /\ drains[d].phase = "ended" /\ drains' = [drains EXCEPT ![d] = Idle]
        /\ \A k \in Kind \ {drains[d].kind} : queue'[k] = queue[k]
    BY <1>5 DEF Settle, IInv, TypeOK
  <2>2. drains'[d] = Idle /\ \A c \in DrainId \ {d} : drains'[c] = drains[c]
    BY <2>1 DEF IInv, TypeOK
  <2>3. e # d
    BY <2>2 DEF AtWork, Idle
  <2> QED
    BY <2>1, <2>2, <2>3, OthersStayBehind
<1> QED
  BY <1>3, <1>4, <1>5 DEF Walk

LEMMA OrderInit == Init => OrderInv
  BY DEF Init, OrderInv, AtWork, Idle

LEMMA OrderStep == IInv /\ HeldInv /\ OrderInv /\ [Next]_vars => OrderInv'
<1> SUFFICES ASSUME IInv, HeldInv, OrderInv, [Next]_vars, thrown' = 0,
                    NEW d \in DrainId, AtWork(d)'
             PROVE  Behind(d)'
  BY DEF OrderInv
<1>1. CASE UNCHANGED <<drains, queue, thrown>>
  BY <1>1 DEF OrderInv, AtWork, Behind
<1>2. CASE Next /\ ~UNCHANGED <<drains, queue, thrown>>
  <2>1. CASE \E e \in DrainId : Walk(e) \/ Settle(e)
    <3>1. thrown = 0
      BY <2>1 DEF Walk, ReachEnd, StopPaused, SkipEmpty, Emit, Wake, Settle
    <3> QED
      BY <2>1, <3>1, WalkOrder
  <2>2. CASE \E e \in DrainId : EmitThrows(e)
    BY <2>2 DEF EmitThrows, IInv, TypeOK
  <2>3. CASE \E e \in DrainId : LoopFailed(e)
    BY <2>3 DEF LoopFailed, IInv, Orderly, LockInv
  <2>4. CASE \E size \in Sizes, bad \in SUBSET Kind : Push(size, bad)
    <3>1. thrown = 0 /\ \E isPaused : Loop(isPaused)
      BY <2>4 DEF Push
    <3>2. \E w : Queues(w)
      BY <2>4, PushQueues
    <3> QED
      BY <3>1, <3>2, LoopStarts, QueuesOrder DEF IInv
  <2>5. CASE \E p \in parsers : \E good \in 0..MaxDecisions : ParseChunk(p, good)
    <3>1. thrown = 0 /\ UNCHANGED drains
      BY <2>5 DEF ParseChunk
    <3>2. \E w : Queues(w)
      BY <2>5, ParseQueues
    <3> QED
      BY <3>1, <3>2, QueuesOrder
  <2>6. CASE Resume
    <3>1. thrown = 0 /\ Loop(FALSE) /\ UNCHANGED queue
      BY <2>6 DEF Resume
    <3>2. drains'[d] = drains[d] \/ (drains'[d].at = 0 /\ drains'[d].kind \in Kind)
      BY <3>1, LoopStarts DEF IInv
    <3>3. CASE drains'[d] = drains[d]
      BY <3>1, <3>3 DEF OrderInv, AtWork, Behind
    <3>4. CASE drains'[d].at = 0 /\ drains'[d].kind \in Kind
      <4>1. queue[drains'[d].kind] \in Slots
        BY <3>4 DEF HeldInv, HeldTyped
      <4>2. 0 <= Len(queue[drains'[d].kind])
        BY <4>1 DEF Slots
      <4> QED
        BY <3>1, <3>4, <4>2 DEF Behind
    <3> QED
      BY <3>2, <3>3, <3>4
  <2> QED
    BY <1>2, <2>1, <2>2, <2>3, <2>4, <2>5, <2>6 DEF Next, Walk, LoopDone, Pause, Close
<1>3. CASE UNCHANGED vars
  BY <1>1, <1>3 DEF vars
<1> QED
  BY <1>1, <1>2, <1>3

-----------------------------------------------------------------------------
(* The stream is an ordered feed                                           *)

LEMMA PrefixOfConcat ==
  ASSUME NEW s \in Slots, NEW t \in Slots
  PROVE  IsPrefix(s, s \o t)
<1>1. PICK r, n : r = s \o t /\ n = Len(s)
  OBVIOUS
<1>2. r \in Slots /\ n \in Nat /\ n <= Len(r) /\ Len(t) \in Nat /\ Len(r) = n + Len(t)
  BY <1>1 DEF Slots
<1>3. \A i \in 1..n : r[i] = s[i]
  BY <1>1 DEF Slots
<1>4. PICK a, b : a = SubSeq(s, 1, n) /\ b = SubSeq(r, 1, n)
  OBVIOUS
<1>5. a \in Seq(Nat) /\ Len(a) = n /\ \A i \in 1..n : a[i] = s[i]
  BY <1>1, <1>2, <1>4 DEF Slots
<1>6. b \in Seq(Nat) /\ Len(b) = n /\ \A i \in 1..n : b[i] = r[i]
  <2>1. \A i \in 1..n : i \in 1..Len(r)
    BY <1>2
  <2>2. \A i \in 1..n : r[i] \in Nat
    BY <1>2, <2>1, ElementOfSeq DEF Slots
  <2>3. /\ b \in Seq(Nat) /\ Len(b) = IF 1 <= n THEN n - 1 + 1 ELSE 0
        /\ \A i \in 1..(n - 1 + 1) : b[i] = r[1 + i - 1]
    BY <1>2, <1>4, <2>2, SubSeqProperties
  <2> QED
    BY <1>2, <2>3
<1>7. a = b
  BY <1>3, <1>5, <1>6, SeqEqual
<1> QED
  BY <1>1, <1>2, <1>4, <1>7 DEF IsPrefix

\* Slots that are all empty hold nothing.
LEMMA PendingOfEmpties ==
  ASSUME NEW s \in Slots, \A i \in 1..Len(s) : s[i] = Empty
  PROVE  PendingOf(s) = <<>>
<1> DEFINE T == {u \in Slots : PendingOf(u) = <<>>}
<1>1. <<>> \in T
  BY PendingGrows DEF Slots
<1>2. ASSUME NEW u \in Seq({Empty}), NEW x \in {Empty}, u \in T PROVE Append(u, x) \in T
  <2>1. Append(u, x) \in Slots /\ u \in Slots /\ x \in Nat
    BY <1>2 DEF Slots, Empty
  <2>2. PendingOf(Append(u, x)) = PendingOf(u)
    BY <2>1, PendingGrows
  <2> QED
    BY <1>2, <2>1, <2>2
<1> HIDE DEF T
<1>3. Seq({Empty}) \subseteq T
  BY <1>1, <1>2, SequenceInduction
<1>4. s \in Seq({Empty})
  BY DEF Slots
<1> QED
  BY <1>3, <1>4 DEF T

\* A drain that emits takes the first decision its array holds.
LEMMA EmitsFirst ==
  ASSUME IInv, HeldInv, OrderInv, thrown = 0, NEW d \in DrainId, Emit(d),
         NEW k, k = drains[d].kind
  PROVE  /\ k \in Kind /\ Pending(k) # <<>>
         /\ delivered' = [delivered EXCEPT ![k] = Append(delivered[k], Head(Pending(k)))]
         /\ Pending(k)' = Tail(Pending(k))
         /\ \A c \in Kind \ {k} : Pending(c)' = Pending(c)
<1>1. Running(d) /\ InReach(d) /\ Slot(d) # Empty
  BY DEF Emit, AtDecision
<1>2. PICK n, i, q, x : n = drains[d].at /\ i = n + 1 /\ q = queue[k] /\ x = q[i]
  OBVIOUS
<1>3. k \in Kind /\ n \in Nat /\ i \in 1..Len(q) /\ q \in Slots /\ x # Empty
  BY <1>1, <1>2, EmitSlot DEF Slot, HeldInv, HeldTyped
<1>4. PICK a, b : a = SubSeq(q, 1, i - 1) /\ b = SubSeq(q, i + 1, Len(q))
  OBVIOUS
<1>5. Behind(d)
  BY <1>1, RunningIsRunning DEF IInv, OrderInv, AtWork, InReach
<1>6. PendingOf(a) = <<>>
  <2>1. i - 1 = n
    BY <1>2, <1>3
  <2>2. \A j \in 1..n : q[j] = Empty
    BY <1>2, <1>5 DEF Behind
  <2>3. a \in Slots /\ Len(a) = n /\ \A j \in 1..n : a[j] = q[j]
    <3>1. /\ a \in Seq(Nat) /\ Len(a) = i - 1 /\ \A j \in 1..(i - 1) : a[j] = q[j]
      BY <1>3, <1>4, Sides
    <3> QED
      BY <2>1, <3>1 DEF Slots
  <2>4. \A j \in 1..Len(a) : a[j] = Empty
    BY <2>2, <2>3
  <2> QED
    BY <2>3, <2>4, PendingOfEmpties
<1>7. PICK r : r = PendingOf(b)
  OBVIOUS
<1>8. r \in Slots /\ x \in Nat
  BY <1>2, <1>3, <1>4, <1>7, SplitAt, PendingIsFirsts
<1>9. PendingOf(q) = <<x>> \o r
  <2>1. PendingOf(q) = (PendingOf(a) \o (IF q[i] = Empty THEN <<>> ELSE <<q[i]>>)) \o PendingOf(b)
    BY <1>3, <1>4, PendingAround
  <2>2. <<>> \o <<x>> = <<x>>
    BY <1>8
  <2> QED
    BY <1>2, <1>3, <1>6, <1>7, <2>1, <2>2
<1>10. PICK p : p = PendingOf(q)
  OBVIOUS
<1>11. p # <<>> /\ Head(p) = x /\ Tail(p) = r
  <2>1. p \in Seq(Nat) /\ Len(p) = 1 + Len(r) /\ p[1] = x
        /\ \A j \in 1..Len(r) : p[j + 1] = r[j]
    BY <1>8, <1>9, <1>10 DEF Slots
  <2>2. r \in Seq(Nat) /\ Len(r) \in Nat
    BY <1>8 DEF Slots
  <2>3. p # <<>> /\ Head(p) = x
    BY <2>1, <2>2
  <2>4. PICK t : t = Tail(p)
    OBVIOUS
  <2>5. t \in Seq(Nat) /\ Len(t) = Len(r) /\ \A j \in 1..Len(t) : t[j] = p[j + 1]
    BY <2>1, <2>2, <2>3, <2>4, TailKeeps
  <2>6. t = r
    BY <2>1, <2>2, <2>5, SeqEqual
  <2> QED
    BY <2>3, <2>4, <2>6
<1>12. PICK e : e = [q EXCEPT ![i] = Empty]
  OBVIOUS
<1>13. PendingOf(e) = r
  <2>1. PendingOf(e) = PendingOf(a) \o PendingOf(b)
    BY <1>3, <1>4, <1>12, EmptiedHolds
  <2>2. <<>> \o r = r
    BY <1>8 DEF Slots
  <2> QED
    BY <1>6, <1>7, <2>1, <2>2
<1>14. queue' = [queue EXCEPT ![k] = e]
  <2>1. queue' = [queue EXCEPT ![k][i] = Empty]
    BY <1>2 DEF Emit
  <2> QED
    BY <1>2, <1>12, <2>1
<1>15. delivered' = [delivered EXCEPT ![k] = Append(delivered[k], x)]
  BY <1>2 DEF Emit, Slot
<1>16. queue'[k] = e /\ \A c \in Kind \ {k} : queue'[c] = queue[c]
  BY <1>3, <1>14 DEF HeldInv, HeldTyped
<1>17. Pending(k) = p /\ Pending(k)' = r /\ \A c \in Kind \ {k} : Pending(c)' = Pending(c)
  BY <1>2, <1>10, <1>13, <1>16 DEF Pending
<1> QED
  BY <1>3, <1>11, <1>15, <1>17

\* A step that neither queues nor delivers switches the feed, or does nothing.
LEMMA QuietSwitches ==
  ASSUME thrown' = 0, UNCHANGED delivered, \A k \in Kind : Pending(k)' = Pending(k)
  PROVE  Feed!FeedNext
<1>1. [k \in Kind |-> Pending(k)]' = [k \in Kind |-> Pending(k)]
  OBVIOUS
<1>2. (~paused)' \in BOOLEAN
  BY Zenon
<1>3. Feed!Switch
  BY <1>1, <1>2 DEF Feed!Switch
<1>4. (thrown > 0)' = FALSE
  OBVIOUS
<1> QED
  BY <1>3, <1>4 DEF Feed!FeedNext

LEMMA QueuesReceive ==
  ASSUME HeldInv, thrown' = 0, UNCHANGED paused, NEW w, Queues(w)
  PROVE  Feed!FeedNext
<1>1. \A k \in Kind : IsPrefix(Pending(k), Pending(k)')
  <2>1. ASSUME NEW k \in Kind PROVE IsPrefix(Pending(k), Pending(k)')
    <3>1. Pending(k)' = Pending(k) \o w[k]
      BY QueuesKeeps
    <3>2. Pending(k) \in Slots
      BY PendingIsFirsts DEF HeldInv, HeldTyped, Pending
    <3>3. w[k] \in Slots
      BY PendingOfDecisions DEF Queues
    <3>4. IsPrefix(Pending(k), Pending(k) \o w[k])
      BY <3>2, <3>3, PrefixOfConcat
    <3> QED
      BY <3>1, <3>4
  <2> QED
    BY <2>1
<1>2. \A k \in Kind :
        Feed!IsPrefix([c \in Kind |-> Pending(c)][k], [c \in Kind |-> Pending(c)]'[k])
  <2>1. \A s, t : IsPrefix(s, t) => Feed!IsPrefix(s, t)
    BY Zenon DEF IsPrefix, Feed!IsPrefix
  <2>2. \A k \in Kind : Feed!IsPrefix(Pending(k), Pending(k)')
    BY <1>1, <2>1
  <2> QED
    BY <2>2
<1>3. DOMAIN [c \in Kind |-> Pending(c)]' = Kind
  OBVIOUS
<1>4. UNCHANGED <<delivered, ~paused>>
  BY DEF Queues
<1>5. Feed!Receive
  BY <1>2, <1>3, <1>4, Zenon DEF Feed!Receive
<1>6. (thrown > 0)' = FALSE
  OBVIOUS
<1> QED
  BY <1>5, <1>6 DEF Feed!FeedNext

LEMMA EmitDelivers ==
  ASSUME IInv, HeldInv, OrderInv, thrown = 0, NEW d \in DrainId, Emit(d)
  PROVE  Feed!FeedNext
<1>1. PICK k : k = drains[d].kind
  OBVIOUS
<1>2. /\ k \in Kind /\ Pending(k) # <<>>
      /\ delivered' = [delivered EXCEPT ![k] = Append(delivered[k], Head(Pending(k)))]
      /\ Pending(k)' = Tail(Pending(k))
      /\ \A c \in Kind \ {k} : Pending(c)' = Pending(c)
  BY <1>1, EmitsFirst
<1> DEFINE b == [c \in Kind |-> Pending(c)]
<1>3. b[k] = Pending(k)
  BY <1>2
<1>4. b' = [b EXCEPT ![k] = Tail(b[k])]
  BY <1>2
<1>5. ~paused /\ UNCHANGED paused /\ UNCHANGED thrown
  BY DEF Emit, AtDecision, rest
<1>6. Feed!Deliver(k)
  BY <1>2, <1>3, <1>4, <1>5 DEF Feed!Deliver
<1>7. (thrown > 0)' = FALSE
  BY <1>5
<1> QED
  BY <1>2, <1>6, <1>7 DEF Feed!FeedNext

LEMMA FeedInitHolds == Init => Feed!FeedInit
<1> SUFFICES ASSUME Init PROVE Feed!FeedInit
  OBVIOUS
<1>1. \A k \in Kind : Pending(k) = <<>>
  BY PendingGrows DEF Init, Pending
<1>2. [k \in Kind |-> Pending(k)] = [k \in Kind |-> <<>>]
  BY <1>1
<1>3. (~paused) = FALSE /\ (thrown > 0) = FALSE
  BY DEF Init
<1> QED
  BY <1>2, <1>3 DEF Init, Feed!FeedInit

LEMMA FeedStep ==
  IInv /\ HeldInv /\ OrderInv /\ [Next]_vars => [Feed!FeedNext]_Feed!feedVars
<1> SUFFICES ASSUME IInv, HeldInv, OrderInv, [Next]_vars
             PROVE  [Feed!FeedNext]_Feed!feedVars
  OBVIOUS
<1>1. thrown \in Nat /\ thrown' \in Nat
  BY IInvStep, StreamAssumption DEF IInv, TypeOK
<1>2. CASE thrown' # 0
  <2>1. (thrown > 0)' = TRUE
    BY <1>1, <1>2
  <2> QED
    BY <2>1 DEF Feed!FeedNext, Feed!Break
<1>3. CASE thrown' = 0 /\ UNCHANGED <<queue, delivered>>
  BY <1>3, QuietSwitches DEF Pending
<1>4. CASE thrown' = 0 /\ ~UNCHANGED <<queue, delivered>>
  <2>1. CASE \E d \in DrainId : Emit(d)
    <3>1. thrown = 0
      BY <1>4, <2>1 DEF Emit
    <3> QED
      BY <2>1, <3>1, EmitDelivers
  <2>2. CASE \E d \in DrainId : Settle(d)
    <3>1. UNCHANGED delivered /\ \A k \in Kind : Pending(k)' = Pending(k)
      BY <2>2, SettleKeeps DEF Settle
    <3> QED
      BY <1>4, <3>1, QuietSwitches
  <2>3. CASE \E size \in Sizes, bad \in SUBSET Kind : Push(size, bad)
    <3>1. UNCHANGED paused /\ \E w : Queues(w)
      BY <2>3, PushQueues DEF Push
    <3> QED
      BY <1>4, <3>1, QueuesReceive
  <2>4. CASE \E p \in parsers : \E good \in 0..MaxDecisions : ParseChunk(p, good)
    <3>1. UNCHANGED paused /\ \E w : Queues(w)
      BY <2>4, ParseQueues DEF ParseChunk
    <3> QED
      BY <1>4, <3>1, QueuesReceive
  <2> QED
    BY <1>4, <2>1, <2>2, <2>3, <2>4
       DEF Next, ReachEnd, StopPaused, SkipEmpty, EmitThrows, Wake, LoopFailed, LoopDone,
           Pause, Close, Resume, rest, histories, vars
<1> QED
  BY <1>2, <1>3, <1>4

\* For any chunk length and any lists, and as long as no listener throws, the
\* stream is an ordered feed of each kind: what is received is delivered in
\* the order it came, once, and only while the stream is not paused.
THEOREM StreamIsFeed == Spec => ImplementsFeed
<1> DEFINE I == IInv /\ HeldInv /\ OrderInv
<1>1. Init => I
  BY InitHolds, HeldInit, OrderInit
<1>2. I /\ [Next]_vars => I'
  BY IInvStep, HeldStep, OrderStep
<1>3. I /\ [Next]_vars => [Feed!FeedNext]_Feed!feedVars
  BY FeedStep
<1> HIDE DEF I
<1> QED
  BY <1>1, <1>2, <1>3, FeedInitHolds, PTL DEF Spec, ImplementsFeed, Feed!FeedSpec
=============================================================================
