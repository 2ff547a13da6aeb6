--------------------------- MODULE McpProcessProofs ---------------------------
(***************************************************************************)
(* Theorems about McpProcess, for any set of requests and any of its       *)
(* configurations.                                                         *)
(***************************************************************************)
EXTENDS McpProcess, TLAPS

\* No request is taken before the transport is up, and a client that left has
\* been noticed: its request is neither in its body nor answered.
RequestsInOrder ==
  /\ startup # "up" => \A r \in Req : phase[r] = "none"
  /\ \A r \in gone : phase[r] \in {"login", "tool", "over"}

\* What concerns requests and logins alone.
Sane == TypeOK /\ WaitersHaveALogin /\ RequestsInOrder

IInv == Sane /\ GracefulExit /\ ContextsFollowResponses

-----------------------------------------------------------------------------
(* The initial states                                                      *)

LEMMA InitHolds == Init => IInv
<1> SUFFICES ASSUME Init PROVE IInv
  OBVIOUS
<1>1. TypeOK
  <2>1. stopping \in BOOLEAN
    BY DEF Init
  <2> QED
    BY <2>1, ProcessAssumption DEF Init, TypeOK
<1>2. WaitersHaveALogin
  BY DEF Init, WaitersHaveALogin, Waiting
<1>3. RequestsInOrder
  BY DEF Init, RequestsInOrder
<1>4. GracefulExit
  BY DEF Init, GracefulExit
<1>5. ContextsFollowResponses
  BY DEF Init, ContextsFollowResponses, Owner
<1> QED
  BY <1>1, <1>2, <1>3, <1>4, <1>5 DEF IInv, Sane

-----------------------------------------------------------------------------
(* The steps of the process: main(), signals, the end                      *)

\* What a step of the process leaves alone.
ProcessStep ==
  \/ \E ok \in BOOLEAN : CreateContext(ok) \/ Listen(ok)
  \/ \E s \in Signals : Signal(s)
  \/ Closed

LEMMA ProcessFrame ==
  ProcessStep => /\ UNCHANGED <<mode, session, logins, requestVars>>
                 /\ exit = "no"
  BY DEF ProcessStep, CreateContext, Listen, Signal, Closed

LEMMA ProcessContext ==
  ASSUME TypeOK, ProcessStep
  PROVE  \/ context' = context
         \/ context' = [context EXCEPT ![Shared] = "open"] /\ context'[Shared] = "open"
         \/ /\ exit' = "0"
            /\ context' = [context EXCEPT ![Shared] = IF @ = "open" THEN "stopped" ELSE @]
<1> USE DEF TypeOK, Owner
<1>1. ASSUME NEW ok \in BOOLEAN, CreateContext(ok) \/ Listen(ok)
      PROVE  \/ context' = context
             \/ context' = [context EXCEPT ![Shared] = "open"] /\ context'[Shared] = "open"
  BY <1>1 DEF CreateContext, Listen
<1>2. ASSUME NEW s \in Signals, Signal(s)
      PROVE  \/ context' = context
             \/ /\ exit' = "0"
                /\ context' = [context EXCEPT ![Shared] = IF @ = "open" THEN "stopped" ELSE @]
  BY <1>2 DEF Signal, Shutdown, ExitNow
<1>3. CASE Closed
  BY <1>3 DEF Closed, ExitNow
<1> QED
  BY <1>1, <1>2, <1>3 DEF ProcessStep

LEMMA ProcessSane == IInv /\ ProcessStep => Sane'
<1> SUFFICES ASSUME IInv, ProcessStep PROVE Sane'
  OBVIOUS
<1> USE DEF IInv, Sane
<1>0. UNCHANGED <<mode, session, logins, phase, status, gone>>
  BY ProcessFrame DEF requestVars
<1>1. WaitersHaveALogin'
  BY <1>0 DEF WaitersHaveALogin, Waiting, OwnerOf
<1>2. context' \in [Owner -> {"none", "open", "stopped"}]
  BY ProcessContext DEF TypeOK, Owner
<1>3. /\ startup' \in {"context", "listen", "up"}
      /\ handlers' \subseteq Signals
      /\ exit' \in {"no", "0", "1", "killed"}
  BY DEF TypeOK, ProcessStep, CreateContext, Listen, Signal, Shutdown, Closed, ExitNow
<1>4. stopping' \in BOOLEAN
  BY ZenonT(40) DEF TypeOK, ProcessStep, CreateContext, Listen, Signal, Shutdown, Closed
<1>5. startup' = startup \/ startup # "up"
  BY DEF ProcessStep, CreateContext, Listen, Signal, Closed
<1>6. RequestsInOrder'
  BY <1>0, <1>5 DEF RequestsInOrder
<1> QED
  BY <1>0, <1>1, <1>2, <1>3, <1>4, <1>6 DEF TypeOK

LEMMA ProcessGraceful == IInv /\ ProcessStep => GracefulExit'
<1> SUFFICES ASSUME IInv, ProcessStep, exit' = "0", Http', NEW r \in Req
             PROVE  r \in gone' \/ phase'[r] \in {"none", "over"}
  BY DEF GracefulExit
<1> USE DEF IInv, Sane
<1>0. UNCHANGED <<mode, phase, gone>> /\ exit = "no" /\ Http
  BY ProcessFrame DEF requestVars, Http
<1>1. CASE Closed
  BY <1>0, <1>1 DEF Closed, Drained
<1>2. CASE \E s \in Signals : Signal(s)
  <2>1. startup # "up"
    BY <1>0, <1>2 DEF Signal, Shutdown, ExitNow
  <2> QED
    BY <1>0, <2>1 DEF RequestsInOrder
<1>3. CASE \E ok \in BOOLEAN : CreateContext(ok) \/ Listen(ok)
  BY <1>0, <1>3 DEF CreateContext, Listen
<1> QED
  BY <1>1, <1>2, <1>3 DEF ProcessStep

LEMMA ProcessContexts == IInv /\ ProcessStep => ContextsFollowResponses'
<1> SUFFICES ASSUME IInv, ProcessStep PROVE ContextsFollowResponses'
  OBVIOUS
<1> USE ProcessAssumption DEF IInv, Sane
<1>0. UNCHANGED <<mode, phase, gone>> /\ exit = "no"
  BY ProcessFrame DEF requestVars
<1>1. context[Shared] # "stopped"
  BY <1>0 DEF ContextsFollowResponses
<1>2. \A r \in Req : context'[r] = context[r]
  BY ProcessContext DEF TypeOK, Owner
<1>3. context'[Shared] = "stopped" => exit' = "0"
  BY <1>1, ProcessContext DEF TypeOK, Owner
<1> QED
  BY <1>0, <1>2, <1>3 DEF ContextsFollowResponses

-----------------------------------------------------------------------------
(* The steps of requests                                                   *)

\* What a request does on its own, and the answers to logins.
RequestStep(r) ==
  \/ Arrive(r) \/ ArriveStdio(r) \/ BodyRefused(r) \/ SetupRefused(r)
  \/ BodyEnds(r) \/ ToolEnds(r) \/ Sent(r) \/ Leave(r)

LEMMA RequestFrame ==
  ASSUME NEW r \in Req, RequestStep(r)
  PROVE  UNCHANGED processVars /\ exit = "no"
  BY DEF RequestStep, Arrive, ArriveStdio, BodyRefused, SetupRefused, BodyEnds,
         ToolEnds, Sent, Leave

\* Only the phase of the request moves.
LEMMA RequestPhase ==
  ASSUME TypeOK, RequestsInOrder, NEW r \in Req, RequestStep(r)
  PROVE  /\ phase' \in [Req -> {"none", "body", "login", "tool", "answered", "over"}]
         /\ \A q \in Req \ {r} : phase'[q] = phase[q]
         /\ gone' \subseteq Req /\ gone' \ {r} = gone \ {r}
         /\ r \in gone' => phase'[r] \in {"login", "tool", "over"}
         /\ startup = "up"
<1> USE DEF TypeOK, RequestsInOrder
<1>1. CASE Arrive(r) \/ BodyRefused(r) \/ SetupRefused(r)
  BY <1>1 DEF Arrive, BodyRefused, SetupRefused, GoTo, Answer
<1>2. CASE ArriveStdio(r) \/ BodyEnds(r)
  BY <1>2 DEF ArriveStdio, BodyEnds, Handle, EnsureReady, GoTo, Answer
<1>3. CASE ToolEnds(r) \/ Sent(r)
  BY <1>3 DEF ToolEnds, Sent, Ended, GoTo
<1>4. CASE Leave(r)
  BY <1>4 DEF Leave, Busy
<1> QED
  BY <1>1, <1>2, <1>3, <1>4 DEF RequestStep

\* A session and its logins move in ensureReady() only.
LEMMA EnsureReadyStep ==
  ASSUME TypeOK, WaitersHaveALogin, NEW r \in Req, EnsureReady(r), UNCHANGED mode
  PROVE  /\ session' \in [Owner -> {"none", "pending", "resolved"}]
         /\ logins' \in [Owner -> 0..1]
         /\ WaitersHaveALogin'
<1> USE DEF TypeOK
<1>0. OwnerOf(r) \in Owner /\ \A q \in Req : OwnerOf(q) \in Owner /\ OwnerOf(q)' = OwnerOf(q)
  BY DEF OwnerOf, Owner
<1>1. \A o \in Owner : logins[o] = IF session[o] = "pending" THEN 1 ELSE 0
  BY DEF WaitersHaveALogin
<1>2. session' \in [Owner -> {"none", "pending", "resolved"}]
  BY <1>0 DEF EnsureReady
<1>3. logins' \in [Owner -> 0..1]
  BY <1>0, <1>1 DEF EnsureReady
<1>4. \A o \in Owner : logins'[o] = IF session'[o] = "pending" THEN 1 ELSE 0
  BY <1>0, <1>1 DEF EnsureReady
<1>5. ASSUME NEW o \in Owner, NEW q \in Req, phase'[q] = "login", OwnerOf(q)' = o
      PROVE  logins'[o] = 1
  <2>1. CASE q = r
    BY <1>0, <1>1, <1>5, <2>1 DEF EnsureReady, GoTo
  <2>2. CASE q # r
    <3>1. phase[q] = "login" /\ OwnerOf(q) = o
      BY <1>0, <1>5, <2>2 DEF EnsureReady, GoTo
    <3>2. logins[o] = 1 /\ session[o] = "pending"
      BY <1>1, <3>1 DEF WaitersHaveALogin, Waiting
    <3> QED
      BY <1>0, <3>2 DEF EnsureReady
  <2> QED
    BY <2>1, <2>2
<1> QED
  BY <1>2, <1>3, <1>4, <1>5 DEF WaitersHaveALogin, Waiting

LEMMA RequestLogins ==
  ASSUME TypeOK, WaitersHaveALogin, NEW r \in Req, RequestStep(r)
  PROVE  /\ session' \in [Owner -> {"none", "pending", "resolved"}]
         /\ logins' \in [Owner -> 0..1]
         /\ WaitersHaveALogin'
<1>0. UNCHANGED mode
  BY RequestFrame DEF processVars
<1>1. CASE EnsureReady(r)
  BY <1>0, <1>1, EnsureReadyStep
<1>2. CASE UNCHANGED <<session, logins>> /\ \A q \in Req : phase'[q] = "login" => phase[q] = "login"
  BY <1>0, <1>2 DEF TypeOK, WaitersHaveALogin, Waiting, OwnerOf
<1>3. CASE ~EnsureReady(r)
  <2>1. UNCHANGED <<session, logins>>
    BY <1>3 DEF RequestStep, Arrive, ArriveStdio, BodyRefused, SetupRefused, BodyEnds,
                ToolEnds, Sent, Leave, Handle
  <2>2. \A q \in Req : phase'[q] = "login" => phase[q] = "login"
    BY <1>3 DEF TypeOK, RequestStep, Arrive, ArriveStdio, BodyRefused, SetupRefused,
                BodyEnds, ToolEnds, Sent, Leave, Handle, GoTo, Answer, Ended
  <2> QED
    BY <1>2, <2>1, <2>2
<1> QED
  BY <1>1, <1>3

\* Only the context of the request moves, in passthrough mode.
LEMMA RequestContext ==
  ASSUME TypeOK, RequestsInOrder, ContextsFollowResponses, NEW r \in Req, RequestStep(r)
  PROVE  /\ context' \in [Owner -> {"none", "open", "stopped"}]
         /\ \A o \in Owner \ {r} : context'[o] = context[o]
         /\ mode = "passthrough" =>
              /\ r \in gone' \/ phase'[r] = "over" => context'[r] # "open"
              /\ phase'[r] \in {"login", "tool"} /\ r \notin gone' => context'[r] = "open"
<1> USE DEF TypeOK, RequestsInOrder, ContextsFollowResponses, Owner
<1>1. CASE Arrive(r) \/ BodyRefused(r) \/ SetupRefused(r)
  BY <1>1 DEF Arrive, BodyRefused, SetupRefused, GoTo, Answer
<1>2. CASE ArriveStdio(r)
  BY <1>2 DEF ArriveStdio, Http
<1>3. CASE BodyEnds(r)
  BY <1>3 DEF BodyEnds, Handle, EnsureReady, GoTo, Answer
<1>4. CASE ToolEnds(r)
  BY <1>4 DEF ToolEnds, Ended
<1>5. CASE Sent(r)
  BY <1>5 DEF Sent, Cleanup, GoTo
<1>6. CASE Leave(r)
  BY <1>6 DEF Leave, Cleanup
<1> QED
  BY <1>1, <1>2, <1>3, <1>4, <1>5, <1>6 DEF RequestStep

LEMMA RequestStatus ==
  ASSUME TypeOK, NEW r \in Req, RequestStep(r)
  PROVE  status' \in [Req -> {0, 200, 400, 401, 404, 405, 413, 500}]
<1> USE DEF TypeOK
<1>1. CASE Arrive(r) \/ BodyRefused(r) \/ SetupRefused(r)
  BY <1>1 DEF Arrive, BodyRefused, SetupRefused, GoTo, Answer
<1>2. CASE ArriveStdio(r) \/ BodyEnds(r)
  BY <1>2 DEF ArriveStdio, BodyEnds, Handle, EnsureReady, GoTo, Answer
<1>3. CASE ToolEnds(r) \/ Sent(r) \/ Leave(r)
  BY <1>3 DEF ToolEnds, Sent, Leave, GoTo
<1> QED
  BY <1>1, <1>2, <1>3 DEF RequestStep

LEMMA RequestKeeps ==
  ASSUME IInv, NEW r \in Req, RequestStep(r)
  PROVE  IInv'
<1> USE DEF IInv, Sane
<1>0. UNCHANGED <<mode, startup, handlers, stopping, exit>> /\ exit = "no"
  BY RequestFrame DEF processVars
<1>1. TypeOK'
  BY <1>0, RequestPhase, RequestLogins, RequestContext, RequestStatus DEF TypeOK
<1>2. WaitersHaveALogin'
  BY RequestLogins
<1>3. RequestsInOrder'
  BY <1>0, RequestPhase DEF RequestsInOrder
<1>4. GracefulExit'
  BY <1>0 DEF GracefulExit
<1>5. ContextsFollowResponses'
  <2>1. ASSUME mode = "passthrough", NEW q \in Req
        PROVE  /\ q \in gone' \/ phase'[q] = "over" => context'[q] # "open"
               /\ phase'[q] \in {"login", "tool"} /\ q \notin gone' => context'[q] = "open"
    <3>1. CASE q = r
      BY <2>1, <3>1, RequestContext
    <3>2. CASE q # r
      <4>1. phase'[q] = phase[q] /\ (q \in gone' <=> q \in gone)
        BY <3>2, RequestPhase
      <4>2. context'[q] = context[q]
        BY <3>2, RequestContext DEF Owner
      <4> QED
        BY <2>1, <4>1, <4>2 DEF ContextsFollowResponses
    <3> QED
      BY <3>1, <3>2
  <2>2. context'[Shared] = context[Shared]
    BY RequestContext, ProcessAssumption DEF Owner
  <2> QED
    BY <1>0, <2>1, <2>2 DEF ContextsFollowResponses
<1> QED
  BY <1>1, <1>2, <1>3, <1>4, <1>5

LEMMA LoginKeeps ==
  ASSUME IInv, NEW o \in Owner, NEW ok \in BOOLEAN, LoginEnds(o, ok)
  PROVE  IInv'
<1> USE DEF IInv, Sane
<1>0. UNCHANGED <<mode, startup, handlers, stopping, exit, gone, context>> /\ exit = "no"
  BY DEF LoginEnds, processVars
<1>1. \A r \in Req : \/ phase'[r] = phase[r]
                     \/ phase[r] = "login" /\ phase'[r] = "tool"
                     \/ phase[r] = "login" /\ phase'[r] = "over" /\ r \in gone
                     \/ phase[r] = "login" /\ phase'[r] = "answered" /\ r \notin gone
  BY DEF LoginEnds, Waiting, Ended
<1>2. \A p \in Owner : logins[p] = IF session[p] = "pending" THEN 1 ELSE 0
  BY DEF WaitersHaveALogin
<1>3. TypeOK'
  <2>1. /\ session' \in [Owner -> {"none", "pending", "resolved"}]
        /\ logins' \in [Owner -> 0..1]
    BY <1>2 DEF LoginEnds, TypeOK
  <2>2. phase' \in [Req -> {"none", "body", "login", "tool", "answered", "over"}]
    BY DEF LoginEnds, TypeOK, Ended
  <2>3. status' \in [Req -> {0, 200, 400, 401, 404, 405, 413, 500}]
    BY DEF LoginEnds, TypeOK
  <2> QED
    BY <1>0, <2>1, <2>2, <2>3 DEF TypeOK
<1>4. WaitersHaveALogin'
  <2>1. \A p \in Owner : logins'[p] = IF session'[p] = "pending" THEN 1 ELSE 0
    BY <1>2 DEF LoginEnds, TypeOK
  <2>2. ASSUME NEW p \in Owner, NEW q \in Req, phase'[q] = "login", OwnerOf(q)' = p
        PROVE  logins'[p] = 1
    <3>1. phase[q] = "login" /\ OwnerOf(q) = p
      BY <1>0, <1>1, <2>2 DEF OwnerOf
    <3>2. p # o
      BY <2>2, <3>1 DEF LoginEnds, Waiting, Ended
    <3>3. logins[p] = 1
      BY <3>1 DEF WaitersHaveALogin, Waiting
    <3> QED
      BY <3>2, <3>3 DEF LoginEnds, TypeOK
  <2> QED
    BY <2>1, <2>2 DEF WaitersHaveALogin, Waiting
<1>5. RequestsInOrder'
  BY <1>0, <1>1 DEF RequestsInOrder, TypeOK
<1>6. GracefulExit'
  BY <1>0 DEF GracefulExit
<1>7. ContextsFollowResponses'
  BY <1>0, <1>1 DEF ContextsFollowResponses
<1> QED
  BY <1>3, <1>4, <1>5, <1>6, <1>7

-----------------------------------------------------------------------------
(* The theorems                                                            *)

LEMMA IInvStep == IInv /\ [Next]_vars => IInv'
<1> SUFFICES ASSUME IInv, [Next]_vars PROVE IInv'
  OBVIOUS
<1>1. CASE ProcessStep
  BY <1>1, ProcessSane, ProcessGraceful, ProcessContexts DEF IInv
<1>2. CASE \E r \in Req : RequestStep(r)
  BY <1>2, RequestKeeps
<1>3. CASE \E o \in Owner, ok \in BOOLEAN : LoginEnds(o, ok)
  BY <1>3, LoginKeeps
<1>4. CASE UNCHANGED vars
  BY <1>4 DEF vars, processVars, requestVars, IInv, Sane, TypeOK, WaitersHaveALogin,
              Waiting, OwnerOf, RequestsInOrder, GracefulExit, Http,
              ContextsFollowResponses
<1> QED
  BY <1>1, <1>2, <1>3, <1>4 DEF Next, ProcessStep, RequestStep, RequestTimeout

LEMMA IInvAlways == Spec => []IInv
  BY InitHolds, IInvStep, PTL DEF Spec

\* The state of the process, its contexts and its requests keeps its types.
THEOREM TypeCorrect == Spec => []TypeOK
<1>1. IInv => TypeOK
  BY DEF IInv, Sane
<1> QED
  BY <1>1, IInvAlways, PTL

\* ensureReady(): whoever waits for a login waits for one that is on its way.
THEOREM LoginsCorrect == Spec => []WaitersHaveALogin
<1>1. IInv => WaitersHaveALogin
  BY DEF IInv, Sane
<1> QED
  BY <1>1, IInvAlways, PTL

\* shutdown(): a process that ends of its own accord has answered every request
\* whose client stayed.
THEOREM ExitCorrect == Spec => []GracefulExit
<1>1. IInv => GracefulExit
  BY DEF IInv
<1> QED
  BY <1>1, IInvAlways, PTL

\* cleanup() of a passthrough request: its context is open exactly as long as
\* its response is.
THEOREM ContextsCorrect == Spec => []ContextsFollowResponses
<1>1. IInv => ContextsFollowResponses
  BY DEF IInv
<1> QED
  BY <1>1, IInvAlways, PTL
=============================================================================
