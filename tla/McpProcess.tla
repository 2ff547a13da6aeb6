------------------------------ MODULE McpProcess ------------------------------
(***************************************************************************)
(* crowdsec-mcp as a process: src/index.ts starts a transport and shuts it *)
(* down on a signal, transports/http.ts takes requests, client.ts makes    *)
(* the contexts whose ensureReady() shares one login between calls.        *)
(*                                                                         *)
(* In mode "stdio" and "shared" one context serves all requests; in mode   *)
(* "passthrough" every HTTP request brings credentials and gets a context  *)
(* of its own, which is stopped when its response closes.  Everything that *)
(* runs between two events of the event loop is one step: a rejected login *)
(* reaches all its waiters, and the end of a body sets up the server and   *)
(* the close listener, before anything else happens.                       *)
(***************************************************************************)
EXTENDS Integers, FiniteSets

CONSTANTS
  Req,            \* the requests
  Shared,         \* the context of the process, where there is one
  Modes,          \* the configurations: "stdio", "shared", "passthrough"
  ServiceToken    \* does the HTTP transport ask for a bearer token?

ASSUME ProcessAssumption ==
  /\ Shared \notin Req
  /\ Modes \subseteq {"stdio", "shared", "passthrough"}
  /\ ServiceToken \in BOOLEAN

Owner == Req \cup {Shared}
Signals == {"SIGINT", "SIGTERM"}

VARIABLES
  mode,       \* config.transport and config.passthrough
  startup,    \* main(): "context", "listen", "up"
  handlers,   \* the signals whose once() listener is still there
  stopping,   \* shutdown() was called
  exit,       \* "no", or how the process ended
  context,    \* [Owner -> "none", "open", "stopped"]
  session,    \* [Owner -> loginPromise: "none", "pending", "resolved"]
  logins,     \* [Owner -> Nat]: logins the LAPI has not answered
  phase,      \* [Req -> how far its handling is]
  status,     \* [Req -> the status of its response, 0 if there is none]
  gone        \* the requests whose client left

processVars == <<mode, startup, handlers, stopping, exit>>
requestVars == <<phase, status, gone>>
vars == <<processVars, requestVars, context, session, logins>>

Http == mode # "stdio"

OwnerOf(r) == IF mode = "passthrough" THEN r ELSE Shared

\* The handling of a request is under way, its client there or not.
Busy(r) == phase[r] \in {"body", "login", "tool"}

Init ==
  /\ mode \in Modes
  /\ startup = IF mode = "passthrough" THEN "listen" ELSE "context"
  /\ handlers = Signals
  /\ stopping = FALSE
  /\ exit = "no"
  /\ context = [o \in Owner |-> "none"]
  /\ session = [o \in Owner |-> "none"]
  /\ logins = [o \in Owner |-> 0]
  /\ phase = [r \in Req |-> "none"]
  /\ status = [r \in Req |-> 0]
  /\ gone = {}

-----------------------------------------------------------------------------
(* main()                                                                  *)

\* createContext(), whose TLS files may not be readable, then selectTools(),
\* which may not know a tool that is asked for.
CreateContext(ok) ==
  /\ exit = "no" /\ startup = "context"
  /\ IF ok
     THEN /\ startup' = IF Http THEN "listen" ELSE "up"
          /\ context' = [context EXCEPT ![Shared] = "open"]
          /\ UNCHANGED exit
     ELSE exit' = "1" /\ UNCHANGED <<startup, context>>
  /\ UNCHANGED <<mode, handlers, stopping, session, logins, requestVars>>

Listen(ok) ==
  /\ exit = "no" /\ startup = "listen"
  /\ IF ok THEN startup' = "up" /\ UNCHANGED exit
           ELSE exit' = "1" /\ UNCHANGED startup
  /\ UNCHANGED <<mode, handlers, stopping, context, session, logins, requestVars>>

\* Mutant of ExitNow: process.exit() is left out.
ExitNowForgotten ==
  /\ context' = [context EXCEPT ![Shared] = IF @ = "open" THEN "stopped" ELSE @]
  /\ UNCHANGED exit

\* context?.stop() and process.exit(0).
ExitNow ==
  /\ exit' = "0"
  /\ context' = [context EXCEPT ![Shared] = IF @ = "open" THEN "stopped" ELSE @]

\* Mutant of Shutdown: "stopping" is not looked at.  The second close() of a
\* server calls back at once, with ERR_SERVER_NOT_RUNNING.
ShutdownAgain ==
  /\ stopping' = TRUE
  /\ IF Http /\ startup = "up" /\ ~stopping
     THEN UNCHANGED <<exit, context>>
     ELSE ExitNow

\* shutdown(): close() waits for the connections of a server that listens.
Shutdown ==
  /\ stopping' = TRUE
  /\ IF stopping \/ (Http /\ startup = "up")
     THEN UNCHANGED <<exit, context>>
     ELSE ExitNow

\* A signal whose listener is gone has its default effect.
Signal(s) ==
  /\ exit = "no"
  /\ handlers' = handlers \ {s}
  /\ IF s \in handlers
     THEN Shutdown
     ELSE exit' = "killed" /\ UNCHANGED <<stopping, context>>
  /\ UNCHANGED <<mode, startup, session, logins, requestVars>>

\* No connection is left: those of clients that are there are idle.
Drained == \A r \in Req : r \in gone \/ phase[r] \in {"none", "over"}

\* The callback of close().
Closed ==
  /\ exit = "no" /\ stopping /\ Http /\ startup = "up"
  /\ Drained
  /\ ExitNow
  /\ UNCHANGED <<mode, startup, handlers, stopping, session, logins, requestVars>>

-----------------------------------------------------------------------------
(* A request                                                               *)

Answer(r, code) ==
  /\ phase' = [phase EXCEPT ![r] = "answered"]
  /\ status' = [status EXCEPT ![r] = code]
  /\ UNCHANGED gone

GoTo(r, where) ==
  /\ phase' = [phase EXCEPT ![r] = where]
  /\ UNCHANGED <<status, gone>>

\* A tool is called: ensureReady() of the context.
EnsureReady(r) ==
  LET o == OwnerOf(r)
  IN  /\ session' = [session EXCEPT ![o] = IF @ = "none" THEN "pending" ELSE @]
      /\ logins' = [logins EXCEPT ![o] = IF session[o] = "none" THEN @ + 1 ELSE @]
      /\ GoTo(r, IF session[o] = "resolved" THEN "tool" ELSE "login")

\* A message is handled: it calls a tool or is answered by the server alone.
Handle(r) ==
  \/ EnsureReady(r)
  \/ Answer(r, 200) /\ UNCHANGED <<session, logins>>

\* handleRequest(): the service token, the path, the method; while the server
\* listens, and on connections that are kept alive after that.
Arrive(r) ==
  /\ exit = "no" /\ Http /\ startup = "up"
  /\ phase[r] = "none"
  /\ \/ GoTo(r, "body")
     \/ ServiceToken /\ Answer(r, 401)
     \/ \E code \in {404, 405} : Answer(r, code)
  /\ UNCHANGED <<processVars, context, session, logins>>

\* The same over stdio.
ArriveStdio(r) ==
  /\ exit = "no" /\ ~Http /\ startup = "up"
  /\ phase[r] = "none"
  /\ Handle(r)
  /\ UNCHANGED <<processVars, context>>

\* readBody() and readJsonBody() reject: too large, not JSON, unreadable.
BodyRefused(r) ==
  /\ exit = "no" /\ phase[r] = "body"
  /\ \E code \in {413, 400, 500} : Answer(r, code)
  /\ UNCHANGED <<processVars, context, session, logins>>

\* createRequestServer() throws: resolvePassthroughAuth() on both or none of
\* the two credentials, or selectTools().
SetupRefused(r) ==
  /\ exit = "no" /\ phase[r] = "body" /\ mode = "passthrough"
  /\ \E code \in {400, 401, 500} : Answer(r, code)
  /\ UNCHANGED <<processVars, context, session, logins>>

\* The body is whole: its server is set up and handles the message.  When
\* connect() or handleRequest() throws, the response is a 500.
BodyEnds(r) ==
  /\ exit = "no" /\ phase[r] = "body"
  /\ context' = IF mode = "passthrough" THEN [context EXCEPT ![r] = "open"]
                ELSE context
  /\ \/ Handle(r)
     \/ Answer(r, 500) /\ UNCHANGED <<session, logins>>
  /\ UNCHANGED processVars

\* Those who wait for a login.
Waiting(o) == {r \in Req : phase[r] = "login" /\ OwnerOf(r) = o}

\* The answer of a call whose client may be gone: nobody gets it then.
Ended(r) == IF r \in gone THEN "over" ELSE "answered"

\* Mutant of LoginEnds: loginPromise is kept when it was rejected.
LoginEndsKept(o, ok) ==
  /\ exit = "no" /\ logins[o] > 0
  /\ logins' = [logins EXCEPT ![o] = @ - 1]
  /\ session' = [session EXCEPT ![o] = IF ok THEN "resolved" ELSE @]
  /\ phase' = [r \in Req |-> IF r \notin Waiting(o) THEN phase[r]
                             ELSE IF ok THEN "tool" ELSE Ended(r)]
  /\ status' = [r \in Req |-> IF r \in Waiting(o) \ gone /\ ~ok THEN 200
                              ELSE status[r]]
  /\ UNCHANGED <<processVars, gone, context>>

\* The LAPI answers a login: all who wait go on, or get an error result, and
\* the promise of a login that failed is forgotten.
LoginEnds(o, ok) ==
  /\ exit = "no" /\ logins[o] > 0
  /\ logins' = [logins EXCEPT ![o] = @ - 1]
  /\ session' = [session EXCEPT ![o] = IF ok THEN "resolved" ELSE "none"]
  /\ phase' = [r \in Req |-> IF r \notin Waiting(o) THEN phase[r]
                             ELSE IF ok THEN "tool" ELSE Ended(r)]
  /\ status' = [r \in Req |-> IF r \in Waiting(o) \ gone /\ ~ok THEN 200
                              ELSE status[r]]
  /\ UNCHANGED <<processVars, gone, context>>

\* A tool handler returns or throws: a result or an error result.
ToolEnds(r) ==
  /\ exit = "no" /\ phase[r] = "tool"
  /\ phase' = [phase EXCEPT ![r] = Ended(r)]
  /\ status' = IF r \in gone THEN status ELSE [status EXCEPT ![r] = 200]
  /\ UNCHANGED <<processVars, gone, context, session, logins>>

\* Mutant of Cleanup: nothing is stopped.
CleanupForgotten(r) == context

\* The close listener of a response: cleanup() of a passthrough request.
Cleanup(r) ==
  IF mode = "passthrough" /\ context[r] = "open"
  THEN [context EXCEPT ![r] = "stopped"] ELSE context

\* The response is sent.
Sent(r) ==
  /\ exit = "no" /\ phase[r] = "answered"
  /\ GoTo(r, "over")
  /\ context' = Cleanup(r)
  /\ UNCHANGED <<processVars, session, logins>>

\* The client closes its connection.  An unfinished body is given up; a call
\* under way is not: it goes on with nobody to answer.
Leave(r) ==
  /\ exit = "no" /\ Http
  /\ Busy(r) \/ phase[r] = "answered"
  /\ r \notin gone
  /\ gone' = gone \cup {r}
  /\ phase' = [phase EXCEPT ![r] = IF @ \in {"login", "tool"} THEN @ ELSE "over"]
  /\ context' = Cleanup(r)
  /\ UNCHANGED <<processVars, status, session, logins>>

\* requestTimeout, which is no longer watched when the server closes.
RequestTimeout(r) ==
  /\ ~stopping /\ phase[r] = "body" /\ Leave(r)

-----------------------------------------------------------------------------
Next ==
  \/ \E ok \in BOOLEAN : CreateContext(ok) \/ Listen(ok)
  \/ \E s \in Signals : Signal(s)
  \/ Closed
  \/ \E r \in Req :
       \/ Arrive(r)
       \/ ArriveStdio(r)
       \/ BodyRefused(r)
       \/ SetupRefused(r)
       \/ BodyEnds(r)
       \/ ToolEnds(r)
       \/ Sent(r)
       \/ Leave(r)
       \/ RequestTimeout(r)
  \/ \E o \in Owner, ok \in BOOLEAN : LoginEnds(o, ok)

Spec == Init /\ [][Next]_vars

\* The LAPI answers, or the client's timeout does, responses are sent, idle
\* connections are closed (keepAliveTimeout) and slow bodies cut off while the
\* server listens.
Fairness ==
  /\ WF_vars(\E ok \in BOOLEAN : CreateContext(ok))
  /\ WF_vars(\E ok \in BOOLEAN : Listen(ok))
  /\ WF_vars(Closed)
  /\ \A r \in Req :
       WF_vars(ToolEnds(r)) /\ WF_vars(Sent(r)) /\ WF_vars(RequestTimeout(r))
  /\ \A o \in Owner : WF_vars(\E ok \in BOOLEAN : LoginEnds(o, ok))

FairSpec == Spec /\ Fairness

-----------------------------------------------------------------------------
(* Properties                                                              *)

\* Type invariant of the process and its requests.
TypeOK ==
  /\ mode \in {"stdio", "shared", "passthrough"}
  /\ startup \in {"context", "listen", "up"}
  /\ handlers \subseteq Signals
  /\ stopping \in BOOLEAN
  /\ exit \in {"no", "0", "1", "killed"}
  /\ context \in [Owner -> {"none", "open", "stopped"}]
  /\ session \in [Owner -> {"none", "pending", "resolved"}]
  /\ logins \in [Owner -> 0..1]
  /\ phase \in [Req -> {"none", "body", "login", "tool", "answered", "over"}]
  /\ status \in [Req -> {0, 200, 400, 401, 404, 405, 413, 500}]
  /\ gone \subseteq Req

\* ensureReady() shares logins and survives their failures: whoever waits for a
\* login waits for one that is on its way, whatever failed before, and a
\* context that has one on its way is one that nobody logged in yet.
WaitersHaveALogin ==
  \A o \in Owner :
    /\ logins[o] = IF session[o] = "pending" THEN 1 ELSE 0
    /\ Waiting(o) # {} => logins[o] = 1

\* A process that shuts down of its own accord in HTTP mode has answered every
\* request it took whose client stayed, also when a second signal, of the
\* other kind, comes while it waits for them.
GracefulExit ==
  exit = "0" /\ Http => \A r \in Req : r \in gone \/ phase[r] \in {"none", "over"}

\* The context of a passthrough request is open exactly as long as its response
\* is: it is stopped however the request ends, and not before; the context of
\* the process is stopped by its exit only.
ContextsFollowResponses ==
  /\ mode = "passthrough" => \A r \in Req :
       /\ r \in gone \/ phase[r] = "over" => context[r] # "open"
       /\ phase[r] \in {"login", "tool"} /\ r \notin gone => context[r] = "open"
  /\ context[Shared] = "stopped" => exit = "0"

\* Every request that is taken comes to an end while the server listens: no
\* failure of a login or a tool, and no client that leaves, leaves it hanging.
RequestsEnd ==
  \A r \in Req : Busy(r) ~> (~Busy(r) \/ stopping \/ exit # "no")

\* A shutdown ends, unless a client keeps a request open whose body it does not
\* finish: close() waits for that client, and its time limit is gone.
ShutdownEnds ==
  stopping ~> (exit # "no" \/ \E r \in Req : phase[r] = "body")
=============================================================================
