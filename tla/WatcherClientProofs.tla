------------------------- MODULE WatcherClientProofs -------------------------
(***************************************************************************)
(* Theorems about WatcherClient, for any token life, number of logins and  *)
(* number of timers.                                                       *)
(***************************************************************************)
EXTENDS WatcherClient, FiniteSetTheorems, TLAPS

LEMMA TypeStep == TypeOK /\ [Next]_vars => TypeOK'
<1> SUFFICES ASSUME TypeOK, [Next]_vars PROVE TypeOK'
  OBVIOUS
<1> USE WatcherAssumption DEF TypeOK, Off, renewal, heart
<1>0. "user" \in Caller /\ "renewal" \in Caller
  BY DEF Caller
<1>1. ASSUME NEW c \in Caller, NEW ts \in [Timer -> 0..Life \cup {Off}], Renew(c, ts)
      PROVE  /\ timers' \in [Timer -> 0..Life \cup {Off}]
             /\ posts' \in [Caller -> Nat]
  BY <1>1 DEF Renew, Cleared
<1>2. CASE Login
  <2>1. stopped' \in BOOLEAN /\ overlapped' \in BOOLEAN
    BY <1>2 DEF Login
  <2>2. logins' \in Nat
    BY <1>2 DEF Login
  <2>3. timers' \in [Timer -> 0..Life \cup {Off}] /\ posts' \in [Caller -> Nat]
    BY <1>0, <1>1, <1>2 DEF Login
  <2> QED
    BY <1>2, <2>1, <2>2, <2>3 DEF Login, Renew
<1>3. CASE Stop
  <2>1. stopped' \in BOOLEAN
    BY <1>3 DEF Stop
  <2> QED
    BY <1>3, <2>1 DEF Stop, Cleared
<1>4. ASSUME NEW c \in Caller, LoginAnswered(c) PROVE TypeOK'
  <2>1. posts' \in [Caller -> Nat]
    BY <1>4 DEF LoginAnswered
  <2>2. RenewIn(Life) \in 0..Life
    BY DEF RenewIn
  <2>3. timers' \in [Timer -> 0..Life \cup {Off}] /\ autoRenewTimeout' \in Timer \cup {NoTimer}
    BY <1>4, <2>2 DEF LoginAnswered
  <2> QED
    BY <1>4, <2>1, <2>3 DEF LoginAnswered
<1>5. ASSUME NEW c \in Caller, LoginFails(c) PROVE TypeOK'
  BY <1>5 DEF LoginFails
<1>6. CASE ConnectionTested
  <2>1. loggedIn' \in BOOLEAN
    BY <1>6 DEF ConnectionTested
  <2> QED
    BY <1>6, <2>1 DEF ConnectionTested
<1>7. CASE ConnectionFails
  BY <1>7 DEF ConnectionFails
<1>8. ASSUME NEW t \in Timer, RenewalDue(t) PROVE TypeOK'
  BY <1>0, <1>1, <1>8 DEF RenewalDue, Renew
<1>9. CASE HeartbeatOver \/ HeartbeatDue
  BY <1>9 DEF HeartbeatOver, HeartbeatDue
<1>10. CASE Tick
  BY <1>10 DEF Tick, Armed
<1>11. CASE UNCHANGED vars
  BY <1>11 DEF vars
<1> QED
  BY <1>2, <1>3, <1>4, <1>5, <1>6, <1>7, <1>8, <1>9, <1>10, <1>11 DEF Next

LEMMA TypeInit == Init => TypeOK
<1> SUFFICES ASSUME Init PROVE TypeOK
  OBVIOUS
<1>1. {loggedIn, stopped, overlapped} \subseteq BOOLEAN
  BY DEF Init
<1> QED
  BY <1>1, WatcherAssumption DEF Init, TypeOK, Off

\* The client's fields keep their types.
THEOREM TypeCorrect == Spec => []TypeOK
  BY TypeInit, TypeStep, PTL DEF Spec

-----------------------------------------------------------------------------
(* While neither a failure nor a stop() has interfered, every renewal timer *)
(* goes off RenewBefore ahead of the token's end, and a token that is valid *)
(* has a renewal ahead of it: a timer or a request.                         *)

Undisturbed == AutoRenew /\ failures = 0 /\ stops = 0

RenewalAhead ==
  /\ \A t \in Armed : timers[t] + RenewBefore <= token
  /\ token > 0 => Armed # {} \/ InFlight > 0
  /\ loggedIn \/ heads > 0 => token > 0

FreshInv == TypeOK /\ (Undisturbed => RenewalAhead)

LEMMA FreshStep == FreshInv /\ [Next]_vars => FreshInv'
<1> SUFFICES ASSUME FreshInv, [Next]_vars, Undisturbed' PROVE RenewalAhead'
  BY TypeStep DEF FreshInv
<1> USE DEF TypeOK, FreshInv, Undisturbed, Off, renewal, heart
<1>0. "user" \in Caller /\ "renewal" \in Caller
  BY DEF Caller
<1>1. RenewalAhead
  <2>1. failures' \in {failures, failures + 1} /\ stops' \in {stops, stops + 1}
    BY DEF Next, vars, Login, Stop, LoginAnswered, LoginFails, ConnectionTested,
           ConnectionFails, RenewalDue, HeartbeatOver, HeartbeatDue, Tick
  <2>2. failures = 0 /\ stops = 0
    BY <2>1
  <2> QED
    BY <2>2
<1>2. ASSUME NEW c \in Caller, Renew(c, timers) \/ (\E t \in Timer : Renew(c, [timers EXCEPT ![t] = Off])),
             UNCHANGED <<heads, loggedIn>>
      PROVE  RenewalAhead'
  <2>1. InFlight' > 0
    <3>1. posts' = [posts EXCEPT ![c] = posts[c] + 1]
      BY <1>2 DEF Renew
    <3>2. posts["user"] \in Nat /\ posts["renewal"] \in Nat
      BY <1>0
    <3>3. c = "user" \/ c = "renewal"
      BY DEF Caller
    <3> QED
      BY <1>0, <3>1, <3>2, <3>3 DEF InFlight
  <2>2. \A t \in Armed' : t \in Armed /\ timers'[t] = timers[t]
    BY <1>2 DEF Renew, Cleared, Armed
  <2> QED
    BY <1>1, <1>2, <2>1, <2>2 DEF Renew, RenewalAhead
<1>3. CASE Login
  BY <1>0, <1>2, <1>3 DEF Login
<1>4. CASE Stop
  BY <1>4 DEF Stop
<1>5. ASSUME NEW c \in Caller, LoginAnswered(c) PROVE RenewalAhead'
  <2>1. PICK t \in Timer \ Armed : timers' = [timers EXCEPT ![t] = RenewIn(Life)]
    BY <1>5 DEF LoginAnswered
  <2>2. timers' [t] = Life - RenewBefore /\ t \in Armed'
    BY <2>1, WatcherAssumption DEF RenewIn, Armed
  <2>3. \A u \in Armed' : u = t \/ (u \in Armed /\ timers'[u] = timers[u])
    BY <2>1 DEF Armed
  <2>4. token' = Life
    BY <1>5 DEF LoginAnswered
  <2>5. \A u \in Armed' : timers'[u] + RenewBefore <= token'
    BY <1>1, <2>2, <2>3, <2>4, WatcherAssumption DEF RenewalAhead, Armed
  <2> QED
    BY <2>2, <2>4, <2>5, WatcherAssumption DEF RenewalAhead
<1>6. ASSUME NEW c \in Caller, LoginFails(c) PROVE RenewalAhead'
  BY <1>6 DEF LoginFails
<1>7. CASE ConnectionTested
  BY <1>1, <1>7 DEF ConnectionTested, RenewalAhead, Armed, InFlight
<1>8. CASE ConnectionFails
  BY <1>8 DEF ConnectionFails
<1>9. ASSUME NEW t \in Timer, RenewalDue(t) PROVE RenewalAhead'
  BY <1>0, <1>2, <1>9 DEF RenewalDue
<1>10. CASE HeartbeatOver \/ HeartbeatDue
  BY <1>1, <1>10 DEF HeartbeatOver, HeartbeatDue, RenewalAhead, Armed, InFlight
<1>11. CASE Tick
  <2>1. Armed' = Armed /\ \A t \in Armed : timers[t] > 0 /\ timers'[t] = timers[t] - 1
    BY <1>11 DEF Tick, Armed
  <2>2. ASSUME token > 0 PROVE token' > 0
    <3>1. PICK t \in Armed : timers[t] > 0 /\ timers[t] + RenewBefore <= token
      BY <1>1, <1>11, <2>1, <2>2 DEF RenewalAhead, Tick, InFlight
    <3> QED
      BY <1>11, <3>1, WatcherAssumption DEF Tick, Armed
  <2>3. token' > 0 => Armed' # {}
    BY <1>1, <1>11, <2>1 DEF RenewalAhead, Tick
  <2>4. \A t \in Armed' : timers'[t] + RenewBefore <= token'
    BY <1>1, <1>11, <2>1, WatcherAssumption DEF RenewalAhead, Tick, Armed
  <2>5. loggedIn' \/ heads' > 0 => token' > 0
    BY <1>1, <1>11, <2>2 DEF RenewalAhead, Tick
  <2> QED
    BY <2>3, <2>4, <2>5 DEF RenewalAhead
<1>12. CASE UNCHANGED vars
  BY <1>1, <1>12 DEF vars, RenewalAhead, Armed, InFlight
<1> QED
  BY <1>3, <1>4, <1>5, <1>6, <1>7, <1>8, <1>9, <1>10, <1>11, <1>12 DEF Next

\* As long as the LAPI answers and the client is not stopped, a machine that
\* has logged in always has a valid token, for any life of the tokens and any
\* number of logins that overlap.
THEOREM TokenFreshCorrect == Spec => []TokenFresh
<1>1. Init => FreshInv
  <2>1. Init => RenewalAhead
    BY DEF Init, RenewalAhead, Armed
  <2> QED
    BY <2>1, TypeInit DEF FreshInv
<1>2. FreshInv => TokenFresh
  BY DEF FreshInv, Undisturbed, RenewalAhead, TokenFresh
<1> QED
  BY <1>1, <1>2, FreshStep, PTL DEF Spec

-----------------------------------------------------------------------------
(* Without overlapping logins, a renewal is a request under way, or the     *)
(* timer in the field, the only one armed.                                  *)

RenewalInv ==
  /\ TypeOK
  /\ overlapped \/ \/ Armed = {} /\ InFlight <= 1
                   \/ Armed = {autoRenewTimeout} /\ InFlight = 0

LEMMA RenewalStep == RenewalInv /\ [Next]_vars => RenewalInv'
<1> SUFFICES ASSUME RenewalInv, [Next]_vars, ~overlapped'
             PROVE  \/ Armed' = {} /\ InFlight' <= 1
                    \/ Armed' = {autoRenewTimeout'} /\ InFlight' = 0
  BY TypeStep DEF RenewalInv
<1> USE DEF TypeOK, RenewalInv, Off, renewal, heart
<1>00. ~overlapped
  BY Zenon DEF Next, vars, Login, Stop, LoginAnswered, LoginFails, ConnectionTested,
         ConnectionFails, RenewalDue, HeartbeatOver, HeartbeatDue, Tick
<1> USE <1>00
<1>0. /\ "user" \in Caller /\ "renewal" \in Caller
      /\ \A t \in Armed : t = autoRenewTimeout
  BY DEF Caller
<1>1. ASSUME NEW c \in Caller, NEW ts, Renew(c, ts), InFlight = 0,
             \A t \in Timer : ts[t] \in {timers[t], Off}
      PROVE  Armed' = {} /\ InFlight' <= 1
  <2>1. Armed' = {}
    BY <1>0, <1>1 DEF Renew, Cleared, Armed
  <2>2. InFlight' <= 1
    BY <1>0, <1>1 DEF Renew, InFlight, Caller
  <2> QED
    BY <2>1, <2>2
<1>2. CASE Login
  <2>1. ~(InFlight > 0)
    BY <1>2, Zenon DEF Login
  <2>2. InFlight = 0
    BY <1>0, <2>1 DEF InFlight
  <2> QED
    BY <1>0, <1>1, <1>2, <2>2 DEF Login
<1>3. CASE Stop
  <2>1. Armed' = {} /\ InFlight' = InFlight
    BY <1>0, <1>3 DEF Stop, Cleared, Armed, InFlight
  <2> QED
    BY <2>1
<1>4. ASSUME NEW c \in Caller, LoginAnswered(c)
      PROVE  \/ Armed' = {} /\ InFlight' <= 1
             \/ Armed' = {autoRenewTimeout'} /\ InFlight' = 0
  <2>1. InFlight > 0 /\ InFlight' = InFlight - 1
    BY <1>4, <1>0 DEF LoginAnswered, InFlight, Caller
  <2>2. Armed = {} /\ InFlight' = 0
    <3>1. InFlight \in Nat
      BY <1>0 DEF InFlight
    <3>2. Armed = {} /\ InFlight <= 1
      BY <2>1, <3>1
    <3> QED
      BY <2>1, <3>1, <3>2
  <2>3. CASE AutoRenew
    <3>1. PICK t \in Timer : /\ timers' = [timers EXCEPT ![t] = RenewIn(Life)]
                             /\ autoRenewTimeout' = t
      BY <1>4, <2>3 DEF LoginAnswered
    <3>2. Armed' = {t}
      BY <2>2, <3>1, WatcherAssumption DEF Armed, RenewIn
    <3> QED
      BY <2>2, <3>1, <3>2
  <2>4. CASE ~AutoRenew
    BY <1>4, <2>2, <2>4 DEF LoginAnswered, Armed
  <2> QED
    BY <2>3, <2>4
<1>5. ASSUME NEW c \in Caller, LoginFails(c) PROVE Armed' = {} /\ InFlight' <= 1
  <2>1. InFlight > 0 /\ InFlight' = InFlight - 1
    BY <1>5, <1>0 DEF LoginFails, InFlight, Caller
  <2>2. InFlight \in Nat
    BY <1>0 DEF InFlight
  <2>3. Armed = {} /\ InFlight <= 1
    BY <2>1, <2>2
  <2>4. Armed' = Armed
    BY <1>5 DEF LoginFails, Armed
  <2> QED
    BY <2>1, <2>2, <2>3, <2>4
<1>6. ASSUME NEW t \in Timer, RenewalDue(t) PROVE Armed' = {} /\ InFlight' <= 1
  <2>1. InFlight = 0
    BY <1>6 DEF RenewalDue, Armed
  <2>2. PICK ts : ts = [timers EXCEPT ![t] = Off]
    OBVIOUS
  <2>3. Renew("renewal", ts)
    BY <1>6, <2>2 DEF RenewalDue
  <2>4. \A u \in Timer : ts[u] \in {timers[u], Off}
    BY <2>2
  <2> QED
    BY <1>0, <1>1, <2>1, <2>3, <2>4
<1>7. CASE Tick
  BY <1>7 DEF Tick, Armed, InFlight
<1>8. CASE ConnectionTested \/ ConnectionFails \/ HeartbeatOver \/ HeartbeatDue
           \/ UNCHANGED vars
  BY <1>8 DEF ConnectionTested, ConnectionFails, HeartbeatOver, HeartbeatDue,
              vars, Armed, InFlight
<1> QED
  BY <1>2, <1>3, <1>4, <1>5, <1>6, <1>7, <1>8 DEF Next

\* As long as no login() is called while a token is on its way, the client never
\* has more than one renewal under way.
THEOREM OneRenewalCorrect == Spec => []OneRenewal
<1>1. Init => RenewalInv
  BY TypeInit DEF Init, RenewalInv, Armed, InFlight, Caller
<1>2. RenewalInv => OneRenewal
  <2> SUFFICES ASSUME RenewalInv, ~overlapped PROVE OneRenewal
    BY DEF OneRenewal
  <2>1. CASE Armed = {} /\ InFlight <= 1
    <3>1. Cardinality(Armed) = 0
      BY <2>1, FS_EmptySet
    <3>2. InFlight \in Nat
      BY DEF RenewalInv, TypeOK, InFlight, Caller
    <3> QED
      BY <2>1, <3>1, <3>2 DEF OneRenewal
  <2>2. CASE Armed = {autoRenewTimeout} /\ InFlight = 0
    <3>1. Cardinality(Armed) = 1
      BY <2>2, FS_Singleton
    <3> QED
      BY <2>2, <3>1 DEF OneRenewal
  <2> QED
    BY <2>1, <2>2 DEF RenewalInv
<1>3. RenewalInv /\ [Next]_vars => RenewalInv'
  BY RenewalStep
<1> QED
  BY <1>1, <1>2, <1>3, PTL DEF Spec
=============================================================================
