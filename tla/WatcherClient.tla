---------------------------- MODULE WatcherClient ----------------------------
(***************************************************************************)
(* crowdsec-client/src/Clients/WatcherClient.ts: the token of a machine,   *)
(* its renewal, and the heartbeats.                                        *)
(*                                                                         *)
(* Time goes by in ticks that are longer than an HTTP request (which axios *)
(* gives up on after its timeout, 2 s) and shorter than the five minutes   *)
(* by which a renewal is early: a Tick waits for the token requests in     *)
(* flight and for the renewals that are due.  Heartbeats are not timed.    *)
(* Renewal timers have names; autoRenewTimeout holds the last one set, and *)
(* clearing it does nothing if it has fired.                               *)
(***************************************************************************)
EXTENDS Integers, FiniteSets

CONSTANTS
  AutoRenew,     \* auth.autoRenew, or TLS authentication
  Heartbeat,     \* options.heartbeat
  Life,          \* validity of a token, in ticks (1 h)
  RenewBefore,   \* renewTimeBeforeEnd, in ticks (5 min)
  Timer,         \* names of the renewal timers
  NoTimer,       \* autoRenewTimeout is undefined
  MaxLogins, MaxStops, MaxFailures  \* bounds

ASSUME WatcherAssumption ==
  /\ {AutoRenew, Heartbeat} \subseteq BOOLEAN
  /\ Life \in Nat /\ RenewBefore \in 1..(Life - 1)
  /\ NoTimer \notin Timer
  /\ {MaxLogins, MaxStops, MaxFailures} \subseteq Nat

Off == -1                      \* a timer that is not armed

Caller == {"user", "renewal"}  \* who called _login()

VARIABLES
  token,            \* remaining validity of the Authorization header, or 0
  timers,           \* [Timer -> remaining ticks, or Off]
  autoRenewTimeout, \* autoRenewTimeout
  posts,            \* [Caller -> Nat]: POST /v1/watchers/login in flight
  heads,            \* testConnection() calls in flight
  beating,          \* heartbeats in flight
  beats,            \* heartbeat timers armed
  loggedIn,         \* history: a login() has resolved
  stopped,          \* history: stop() was called since the last login()
  overlapped,       \* history: login() was called while a token was on its way
  logins, stops, failures

renewal == <<token, timers, autoRenewTimeout, posts>>
heart == <<beating, beats>>

vars == <<renewal, heads, heart, loggedIn, stopped, overlapped, logins, stops,
          failures>>

-----------------------------------------------------------------------------
Init ==
  /\ token = 0
  /\ timers = [t \in Timer |-> Off]
  /\ autoRenewTimeout = NoTimer
  /\ posts = [c \in Caller |-> 0]
  /\ heads = 0
  /\ beating = 0
  /\ beats = 0
  /\ loggedIn = FALSE
  /\ stopped = FALSE
  /\ overlapped = FALSE
  /\ logins = 0
  /\ stops = 0
  /\ failures = 0

Armed == {t \in Timer : timers[t] # Off}

InFlight == posts["user"] + posts["renewal"]

\* clearTimeout(this.autoRenewTimeout), on the timers as they are otherwise.
Cleared(ts) == [t \in Timer |-> IF t = autoRenewTimeout THEN Off ELSE ts[t]]

\* Mutant of Renew: the timer in the field is left armed.
RenewKeeping(caller, ts) ==
  /\ timers' = ts
  /\ posts' = [posts EXCEPT ![caller] = @ + 1]
  /\ UNCHANGED <<token, autoRenewTimeout>>

\* _login(), up to its await.
Renew(caller, ts) ==
  /\ timers' = Cleared(ts)
  /\ posts' = [posts EXCEPT ![caller] = @ + 1]
  /\ UNCHANGED <<token, autoRenewTimeout>>

Login ==
  /\ logins < MaxLogins
  /\ logins' = logins + 1
  /\ stopped' = FALSE
  /\ overlapped' = (overlapped \/ InFlight > 0)
  /\ Renew("user", timers)
  /\ UNCHANGED <<heads, heart, loggedIn, stops, failures>>

\* Mutant of RenewIn: at the end of the token.
RenewInLate(life) == life

\* renewInTime
RenewIn(life) == life - RenewBefore

\* The rest of _login(); login() goes on to test the connection.
LoginAnswered(caller) ==
  /\ posts[caller] > 0
  /\ posts' = [posts EXCEPT ![caller] = @ - 1]
  /\ token' = Life
  /\ IF AutoRenew
     THEN \E t \in Timer \ Armed :
            /\ timers' = [timers EXCEPT ![t] = RenewIn(Life)]
            /\ autoRenewTimeout' = t
     ELSE UNCHANGED <<timers, autoRenewTimeout>>
  /\ heads' = IF caller = "user" THEN heads + 1 ELSE heads
  /\ UNCHANGED <<heart, loggedIn, stopped, overlapped, logins, stops, failures>>

\* No answer, an error, or an answer without a token: login() rejects, and a
\* renewal is only logged.
LoginFails(caller) ==
  /\ posts[caller] > 0
  /\ failures < MaxFailures
  /\ failures' = failures + 1
  /\ posts' = [posts EXCEPT ![caller] = @ - 1]
  /\ UNCHANGED <<token, timers, autoRenewTimeout, heads, heart, loggedIn,
                 stopped, overlapped, logins, stops>>

\* The connection is fine: the first heartbeat is sent, login() resolves.
ConnectionTested ==
  /\ heads > 0
  /\ heads' = heads - 1
  /\ beating' = IF Heartbeat THEN beating + 1 ELSE beating
  /\ loggedIn' = TRUE
  /\ UNCHANGED <<renewal, beats, stopped, overlapped, logins, stops, failures>>

ConnectionFails ==
  /\ heads > 0
  /\ failures < MaxFailures
  /\ failures' = failures + 1
  /\ heads' = heads - 1
  /\ UNCHANGED <<renewal, heart, loggedIn, stopped, overlapped, logins, stops>>

RenewalDue(t) ==
  /\ timers[t] = 0
  /\ Renew("renewal", [timers EXCEPT ![t] = Off])
  /\ UNCHANGED <<heads, heart, loggedIn, stopped, overlapped, logins, stops, failures>>

\* Mutant of HeartbeatOver: an error ends the loop.
HeartbeatOverOnError ==
  /\ beating > 0
  /\ beating' = beating - 1
  /\ beats' \in {beats, beats + 1}
  /\ UNCHANGED <<renewal, heads, loggedIn, stopped, overlapped, logins, stops, failures>>

\* Whatever became of a heartbeat, the next one is planned.
HeartbeatOver ==
  /\ beating > 0
  /\ beating' = beating - 1
  /\ beats' = beats + 1
  /\ UNCHANGED <<renewal, heads, loggedIn, stopped, overlapped, logins, stops, failures>>

\* heartbeatLoop() clears heartbeatTimeout, which is never set.
HeartbeatDue ==
  /\ beats > 0
  /\ beats' = beats - 1
  /\ beating' = beating + 1
  /\ UNCHANGED <<renewal, heads, loggedIn, stopped, overlapped, logins, stops, failures>>

\* stop() clears both fields, of which heartbeatTimeout is never set.
Stop ==
  /\ stops < MaxStops
  /\ stops' = stops + 1
  /\ stopped' = TRUE
  /\ timers' = Cleared(timers)
  /\ UNCHANGED <<token, autoRenewTimeout, posts, heads, heart, loggedIn,
                 overlapped, logins, failures>>

Tick ==
  /\ InFlight = 0
  /\ \A t \in Timer : timers[t] # 0
  /\ timers' = [t \in Timer |-> IF t \in Armed THEN timers[t] - 1 ELSE Off]
  /\ token' = IF token > 0 THEN token - 1 ELSE 0
  /\ UNCHANGED <<autoRenewTimeout, posts, heads, heart, loggedIn, stopped,
                 overlapped, logins, stops, failures>>

-----------------------------------------------------------------------------
Next ==
  \/ Login
  \/ Stop
  \/ \E c \in Caller : LoginAnswered(c) \/ LoginFails(c)
  \/ ConnectionTested
  \/ ConnectionFails
  \/ \E t \in Timer : RenewalDue(t)
  \/ HeartbeatOver
  \/ HeartbeatDue
  \/ Tick

Spec == Init /\ [][Next]_vars

\* Requests end one way or the other, timers fire, time passes.
Fairness ==
  /\ \A c \in Caller : WF_vars(LoginAnswered(c) \/ LoginFails(c))
  /\ WF_vars(ConnectionTested \/ ConnectionFails)
  /\ \A t \in Timer : WF_vars(RenewalDue(t))
  /\ WF_vars(HeartbeatOver)
  /\ WF_vars(HeartbeatDue)
  /\ WF_vars(Tick)

FairSpec == Spec /\ Fairness

-----------------------------------------------------------------------------
(* Properties                                                              *)

\* Type invariant of the client's fields and of what is under way.
TypeOK ==
  /\ token \in 0..Life
  /\ timers \in [Timer -> 0..Life \cup {Off}]
  /\ autoRenewTimeout \in Timer \cup {NoTimer}
  /\ posts \in [Caller -> Nat]
  /\ heads \in Nat
  /\ beating \in Nat
  /\ beats \in Nat
  /\ loggedIn \in BOOLEAN
  /\ stopped \in BOOLEAN
  /\ overlapped \in BOOLEAN
  /\ logins \in Nat
  /\ stops \in Nat
  /\ failures \in Nat

\* As long as the LAPI answers and the client is not stopped, a machine that
\* has logged in never works with a token that has expired, however its own
\* logins and the renewals overtake each other.
TokenFresh == loggedIn /\ AutoRenew /\ failures = 0 /\ stops = 0 => token > 0

\* As long as every login() waits for the token on its way, the client has one
\* renewal under way at most, a timer or a request: logins, renewals, failures
\* and stops do not pile renewals up.
OneRenewal == overlapped \/ Cardinality(Armed) + InFlight <= 1

\* Once logged in, heartbeats keep coming, also when the LAPI fails to answer.
HeartbeatsKeepComing ==
  Heartbeat => (loggedIn ~> beating > 0) /\ (loggedIn ~> beats > 0)
=============================================================================
