------------------------------- MODULE Bouncer -------------------------------
(***************************************************************************)
(* A started middleware (BouncerMiddleware) between the LAPI, which bans   *)
(* and unbans, and the visitors: polls collect what changed, the stream    *)
(* (a DecisionsFeed, which DecisionsStream implements) delivers it later,  *)
(* one feed per kind and the two in any order, while live checks carry the *)
(* LAPI's answers past the stream.                                         *)
(***************************************************************************)
EXTENDS BouncerMiddleware, Sequences, SequencesExt

CONSTANTS
  Rebans,             \* when may a value be banned again: once a poll has
                      \* "withdrawn" it, or before, as a "renewal"
  DrainedBeforePoll,  \* is the stream drained when the next poll is due?
  MaxBans             \* bound: bans the LAPI pronounces

ASSUME BouncerAssumption ==
  /\ Rebans \in {"withdrawn", "renewal"}
  /\ DrainedBeforePoll \in BOOLEAN
  /\ MaxBans \in Nat

VARIABLES
  lapi,     \* the decisions in force at the LAPI
  news,     \* those pronounced since the last poll
  gone,     \* those that ended since the last poll
  added,    \* backlog of the stream: Seq of decisions
  deleted,  \* backlog of the stream: Seq of decisions
  answers,  \* [checks answered -> SUBSET Decision]: on their way back
  bans,     \* the decisions ever pronounced
  overlooked  \* history: the decisions that were announced while a stray one
              \* had their key, and that no live check has found since

lapiVars == <<lapi, news, gone, bans>>
feedVars == <<added, deleted>>
checkVars == <<answers, overlooked>>

bouncerVars == <<vars, lapiVars, feedVars, checkVars>>

-----------------------------------------------------------------------------
BouncerInit ==
  /\ Init
  /\ lapi = {}
  /\ news = {}
  /\ gone = {}
  /\ added = <<>>
  /\ deleted = <<>>
  /\ answers = <<>>
  /\ bans = {}
  /\ overlooked = {}

\* start() has run once, before anything else happens.
BouncerStart ==
  /\ streams = 0
  /\ Start \/ LoginSucceeds
  /\ UNCHANGED <<lapiVars, feedVars, checkVars>>

Started == streams > 0

-----------------------------------------------------------------------------
(* The LAPI                                                                *)

LapiBans(d) ==
  /\ Started
  /\ d.endAt > now
  /\ d \notin bans
  /\ Cardinality(bans) < MaxBans
  /\ Rebans = "withdrawn" => Key(d) \notin Keys(lapi \cup gone)
  /\ lapi' = lapi \cup {d}
  /\ news' = news \cup {d}
  /\ bans' = bans \cup {d}
  /\ UNCHANGED <<vars, gone, feedVars, checkVars>>

BansOn(decisions, ip) == {d \in decisions : ip \in Covered[d.value]}

LapiUnbans(d) ==
  /\ d \in lapi
  /\ lapi' = lapi \ {d}
  /\ gone' = gone \cup {d}
  /\ UNCHANGED <<vars, news, bans, feedVars, checkVars>>

Clock ==
  /\ Started
  /\ Tick
  /\ lapi' = {d \in lapi : d.endAt > now'}
  /\ gone' = gone \cup (lapi \ lapi')
  /\ UNCHANGED <<news, bans, feedVars, checkVars>>

LapiAnswers(c) ==
  /\ c \notin DOMAIN answers
  /\ answers' = [b \in DOMAIN answers \cup {c} |->
                   IF b = c THEN BansOn(lapi, c.ip) ELSE answers[b]]
  /\ UNCHANGED <<vars, lapiVars, feedVars, overlooked>>

-----------------------------------------------------------------------------
(* The stream                                                              *)

\* One poll: the LAPI lists what is new and still in force, and what ended
\* and has no successor.
Poll ==
  /\ Started
  /\ DrainedBeforePoll => added = <<>> /\ deleted = <<>>
  /\ added' = added \o SetToSeq(news \cap lapi)
  /\ deleted' = deleted \o SetToSeq({d \in gone : Key(d) \notin Keys(lapi)})
  /\ news' = {}
  /\ gone' = {}
  /\ UNCHANGED <<vars, lapi, bans, checkVars>>

\* A decision that the LAPI has lifted and whose withdrawal has passed: only a
\* live answer that came after it can have put it into the index.
Stray(d) == d \in db /\ d \notin lapi \cup gone \cup ToSet(deleted)

DeliverAdded ==
  /\ added # <<>>
  /\ Added(Head(added))
  /\ added' = Tail(added)
  /\ overlooked' = IF \E d \in db : Stray(d) /\ Key(d) = Key(Head(added))
                   THEN overlooked \cup {Head(added)} ELSE overlooked
  /\ UNCHANGED <<deleted, lapiVars, answers>>

DeliverDeleted ==
  /\ deleted # <<>>
  /\ Deleted(Head(deleted))
  /\ deleted' = Tail(deleted)
  /\ UNCHANGED <<added, lapiVars, checkVars>>

-----------------------------------------------------------------------------
(* The middleware                                                          *)

Visit(ip) ==
  /\ Started
  /\ Request(ip)
  /\ UNCHANGED <<lapiVars, feedVars, checkVars>>

LiveAnswered(c) ==
  /\ c \in DOMAIN answers
  /\ LiveClean(c, answers[c]) \/ LiveBlocking(c, answers[c])
  /\ answers' = [b \in DOMAIN answers \ {c} |-> answers[b]]
  /\ overlooked' = overlooked \ db'
  /\ UNCHANGED <<lapiVars, feedVars>>

LiveFailed(c) ==
  /\ LiveCheckError(c)
  /\ answers' = [b \in DOMAIN answers \ {c} |-> answers[b]]
  /\ UNCHANGED <<lapiVars, feedVars, overlooked>>

Upkeep ==
  /\ RemoveExpiredDecisions \/ \E ip \in Ips : Evict(ip)
  /\ UNCHANGED <<lapiVars, feedVars, checkVars>>

BouncerNext ==
  \/ BouncerStart
  \/ \E d \in Decision : LapiBans(d) \/ LapiUnbans(d)
  \/ Clock
  \/ Poll
  \/ DeliverAdded
  \/ DeliverDeleted
  \/ \E ip \in Ips : Visit(ip)
  \/ \E c \in checks : LapiAnswers(c) \/ LiveAnswered(c) \/ LiveFailed(c)
  \/ Upkeep

BouncerSpec == BouncerInit /\ [][BouncerNext]_bouncerVars

\* Polls are answered and the stream delivers (DecisionsStream).
StreamFairness ==
  WF_bouncerVars(Poll) /\ WF_bouncerVars(DeliverAdded)
    /\ WF_bouncerVars(DeliverDeleted)

BouncerStreamSpec == BouncerSpec /\ StreamFairness

\* The interval fires.
ScanFairness ==
  WF_bouncerVars(RemoveExpiredDecisions /\ UNCHANGED <<lapiVars, feedVars, checkVars>>)

\* Visitors come back, cached verdicts on them run out, and not every check on
\* an address fails.
VisitFairness ==
  \A ip \in Ips :
    /\ WF_bouncerVars(Visit(ip))
    /\ WF_bouncerVars(Evict(ip) /\ UNCHANGED <<lapiVars, feedVars, checkVars>>)
    /\ SF_bouncerVars(\E c \in checks : c.ip = ip /\ LapiAnswers(c))
    /\ SF_bouncerVars(\E c \in checks : c.ip = ip /\ LiveAnswered(c))

BouncerLiveSpec == BouncerSpec /\ ScanFairness /\ VisitFairness

-----------------------------------------------------------------------------
(* Properties                                                              *)

Enforced(d) == Key(d) \in decisionKeys

SmallEnough(d) == MaskOf[d.value] >= MinMask

\* A ban in force at the LAPI whose announcement has been delivered is
\* enforced, whatever was delivered, expired or learnt from a live check since.
BansEnforced ==
  \A d \in lapi :
    SmallEnough(d) /\ d \notin news /\ d \notin ToSet(added) => Enforced(d)

\* The same with live checks: a ban is hidden only by an older one of its value
\* and type that a late answer had brought back when it was announced, since
\* addDecision() ignores what it finds the key of.  Once a check finds the ban
\* itself, it is enforced for good.
HiddenByLateAnswersOnly ==
  \A d \in lapi :
    SmallEnough(d) /\ d \notin news /\ d \notin ToSet(added)
      => Enforced(d) \/ d \in overlooked

\* Nothing is enforced that the LAPI no longer bans, except what has reached
\* its end or whose withdrawal is on its way.
NoStaleBan ==
  \A d \in db :
    \/ Key(d) \in Keys(lapi)
    \/ Expired(d)
    \/ Key(d) \in Keys(gone) \cup Keys(ToSet(deleted))

\* A ban is enforced sooner or later, unless the LAPI lifts it first.
BanReachesIndex ==
  \A d \in Decision :
    d \in lapi /\ SmallEnough(d) ~> (Enforced(d) \/ d \notin lapi)

\* The promise of live checks, whatever the stream does or does not deliver, and
\* although late answers may hide a ban from it: who keeps coming is stopped.
BannedVisitorStopped ==
  \A ip \in Ips, d \in Decision :
    d \in lapi /\ Blocking({d}) # {} /\ ip \in Covered[d.value]
      ~> (Banned(ip) \/ d \notin lapi)

\* What is enforced although the LAPI has lifted the ban, say by a live answer
\* that crossed the withdrawal, is let go in the end, as time passes.
StaleBanGoes ==
  WF_bouncerVars(Clock) =>
    \A d \in Decision :
      d \in db /\ Key(d) \notin Keys(lapi) ~> (d \notin db \/ Key(d) \in Keys(lapi))
=============================================================================
