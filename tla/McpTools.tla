------------------------------- MODULE McpTools -------------------------------
(***************************************************************************)
(* The tools of crowdsec-mcp (src/tools/decisions.ts, alerts.ts and        *)
(* allowlists.ts, with the checks of utils.ts) at work on one LAPI: which  *)
(* calls are refused, which requests the others make, one at a time or in  *)
(* parallel, and what they report.  Several calls run at once, decisions   *)
(* expire and allowlists change meanwhile, and any request may fail.       *)
(*                                                                         *)
(* The server is configured (McpConfig) and then serves.  An input is a    *)
(* record of all fields that the schemas know, None where one is absent or *)
(* empty; values are taken in their normal form (trimmed, upper case).     *)
(* An alert holds decisions on its own scope and value that differ in      *)
(* type; the LAPI's searches answer with whole alerts.                     *)
(***************************************************************************)
EXTENDS McpConfig, Durations

CONSTANTS
  Ips, Ranges, Countries,  \* the values that are valid for a scope
  Inside,                  \* pairs of a value and a range that contains it
  Calls,                   \* calls of tools
  Inputs,                  \* [Calls -> the inputs it may have]
  Options,                 \* the settings the process may be started with
  FirstAlerts,             \* the alerts at the start
  FirstAllowed,            \* the allowlisted values at the start
  MaxBan,                  \* maxBanDurationSeconds, in tenths
  MaxAlerts,               \* bound: alerts
  MaxChanges               \* bound: expirations, changes of the allowlists

DecisionTypes == {"ban", "captcha", "throttle"}

ASSUME ToolsAssumption ==
  /\ Inside \subseteq (Ips \cup Ranges) \X Ranges
  /\ {MaxBan, MaxAlerts, MaxChanges} \subseteq Nat

\* The LAPI numbers its alerts.
ASSUME AlertsAssumption ==
  /\ IsFiniteSet(FirstAlerts)
  /\ \A a \in FirstAlerts :
       a.id \in 1..Cardinality(FirstAlerts) /\ a.types \subseteq DecisionTypes
  /\ \A a, b \in FirstAlerts : a.id = b.id => a = b

\* A limit is a natural number; a ban lasts some seconds, or what a text says.
ASSUME InputsAssumption ==
  \A c \in Calls : \A in \in Inputs[c] :
    /\ in.limit \in Nat \cup {None}
    /\ in.tool = "ban_ip" =>
         \/ in.seconds # None /\ in.seconds \in Int
         \/ in.seconds = None /\ in.duration \in Seq([tenths : Nat, unit : Units \cup {"?"}])

\* A flag of the command line is given or not, one of the environment says yes,
\* no, nothing or what does not parse.
ASSUME OptionsAssumption ==
  /\ None \notin BOOLEAN /\ None # "http"
  /\ \A s \in Options :
       /\ {s.cli.passthrough, s.cli.write, s.cli.readonly, s.cli.enableAlertDelete,
           s.cli.withoutToken} \subseteq BOOLEAN
       /\ {s.env.passthrough, s.env.readonly, s.env.enableAlertDelete,
           s.env.withoutToken} \subseteq {None, Junk} \cup BOOLEAN

VARIABLES
  setup,     \* the settings, until the server is configured
  mode,      \* ctx.mode
  served,    \* the tools the context offers
  told,      \* the tools its instructions and prompts name
  limit,     \* config.maxResults
  alerts,    \* all alerts there have been
  live,      \* the ids of those that are there
  active,    \* the decisions in force: [alert, type]
  allowed,   \* the allowlisted values
  changes,   \* decisions that expired, changes of the allowlists
  call       \* [Calls -> the state of the call]

lapi == <<alerts, live, active, allowed, changes>>
server == <<setup, mode, served, told, limit>>
vars == <<server, lapi, call>>

Scopes == {"Ip", "Range", "Country"}

AlertOf(id) == CHOOSE a \in alerts : a.id = id

\* Ids of alerts and of decisions; the latter have a type.
IdOf(a) == [alert |-> a.id, type |-> None]

\* All that an alert ever decided, in force or not.
DecisionsOf(a) == {[alert |-> a.id, type |-> t] : t \in a.types}

NoCall == [input |-> None, plan |-> None, phase |-> "none", found |-> {},
           todo |-> {}, removed |-> {}, alert |-> None,
           clear |-> FALSE, report |-> None]

Init ==
  /\ setup \in Options
  /\ mode = None
  /\ served = {}
  /\ told = [available |-> {}, call |-> {}]
  /\ limit = 0
  /\ alerts = FirstAlerts
  /\ live = {a.id : a \in FirstAlerts}
  /\ active = UNION {DecisionsOf(a) : a \in FirstAlerts}
  /\ allowed = FirstAllowed
  /\ changes = 0
  /\ call = [c \in Calls |-> NoCall]

\* main(): the configuration is loaded and the tools are chosen; in passthrough
\* mode the credentials of a request say what mode its context is in.
Serve ==
  /\ setup # None
  /\ LET config == LoadConfig(setup.cli, setup.env)
     IN  /\ config # Refused
         /\ mode' \in IF config.passthrough THEN {"bouncer", "watcher"} ELSE {config.auth}
         /\ SelectTools(config, mode') # Refused
         /\ served' = SelectTools(config, mode')
         /\ told' = Guide(config, mode')
         /\ limit' = config.maxResults
  /\ setup' = None
  /\ UNCHANGED <<lapi, call>>

-----------------------------------------------------------------------------
(* What a call may ask for                                                 *)

IsCidr(v) == v \in Ranges
IsIp(v) == v \in Ips

\* assertValidScopeValue(): the value fits a scope that is known.
ScopeValueOk(scope, v) ==
  \/ scope = "Ip" /\ IsIp(v)
  \/ scope = "Range" /\ IsCidr(v)
  \/ scope = "Country" /\ v \in Countries

TypeValid(in) == in.type = None \/ in.type \in DecisionTypes

\* isValidTimeFilter()
TimeValid(in) == in.since = None \/ ParseDuration(in.since) # Invalid

\* parsePositiveId()
IdValid(in) == in.id # Junk

FilterFields == {"ip", "range", "scope", "value", "type", "scenario", "origin",
                 "since", "active"}

HasFilter(in) == \E f \in FilterFields : in[f] # None

HasNarrowTarget(in) ==
  in.ip # None \/ in.range # None \/ (in.scope # None /\ in.value # None)

\* What list_decisions, list_alerts and delete_alerts ask of their filters.
FiltersValid(in) ==
  /\ in.ip = None \/ IsIp(in.ip) \/ IsCidr(in.ip)
  /\ in.range = None \/ IsCidr(in.range)
  /\ in.scope = None \/ (in.scope \in Scopes
                          /\ (in.value = None \/ ScopeValueOk(in.scope, in.value)))
  /\ TypeValid(in) /\ TimeValid(in)

\* What unban_ip asks: validateUnbanTargets() and the two checks after it.
UnbanTargetsValid(in) ==
  /\ ~(in.ip # None /\ in.range # None)
  /\ ~((in.scope # None \/ in.value # None) /\ (in.ip # None \/ in.range # None))
  /\ (in.scope = None) = (in.value = None)
  /\ in.ip = None \/ IsIp(in.ip)
  /\ in.range = None \/ IsCidr(in.range)

\* A query of the LAPI; "within" says that values inside its address match,
\* otherwise those around it do.
Query(in) ==
  [address |-> IF in.range # None THEN in.range ELSE in.ip,
   scope |-> in.scope, value |-> in.value, type |-> in.type,
   scenario |-> in.scenario, origin |-> in.origin, active |-> in.active,
   within |-> FALSE]

Everything == [address |-> None, scope |-> None, value |-> None, type |-> None,
               scenario |-> None, origin |-> None, active |-> TRUE, within |-> TRUE]

Search(q) == [how |-> "search", query |-> q]
Direct(q) == [how |-> "direct", query |-> q]
ById(id) == [how |-> "id", id |-> id]

\* Mutant of Confirmed: a type counts as a narrow target.
ConfirmedByType(in) == HasNarrowTarget(in) \/ in.type # None \/ in.confirm

\* A deletion without a narrow target is confirmed.
Confirmed(in) == HasNarrowTarget(in) \/ in.confirm

\* What "all" asks: to be alone, and confirmed.
AllAlone(in) == in.confirm /\ in.id = None /\ ~HasFilter(in)

\* searchActiveDecisionIds(): what is inside a range is searched for, and
\* deleted one by one.
UnbanByRange(in, range) ==
  Search([Everything EXCEPT !.address = range, !.type = in.type, !.scenario = in.scenario])

UnbanByQuery(in) == IF HasFilter(in) THEN Direct(Query(in)) ELSE Refused

UnbanByScopeValue(in) ==
  IF ~ScopeValueOk(in.scope, in.value) THEN Refused
  ELSE CASE in.scope = "Ip" ->
              Direct([Query(in) EXCEPT !.address = in.value, !.scope = None,
                                       !.value = None])
         [] in.scope = "Range" -> UnbanByRange(in, in.value)
         [] OTHER -> Direct(Query(in))

\* What unban_ip asks of its filters: a type or a scenario alone is confirmed.
UnbanValid(in) ==
  /\ ~in.all /\ in.id = None
  /\ UnbanTargetsValid(in)
  /\ TypeValid(in)
  /\ HasNarrowTarget(in) \/ ~HasFilter(in) \/ Confirmed(in)

\* unban_ip: everything, one decision, or those that match.
UnbanPlan(in) ==
  CASE in.all /\ AllAlone(in) -> Search(Everything)
    [] ~in.all /\ in.id # None /\ ~HasFilter(in) /\ IdValid(in) -> ById(in.id)
    [] UnbanValid(in) /\ in.scope # None -> UnbanByScopeValue(in)
    [] UnbanValid(in) /\ in.scope = None /\ in.range # None -> UnbanByRange(in, in.range)
    [] UnbanValid(in) /\ in.scope = None /\ in.range = None -> UnbanByQuery(in)
    [] OTHER -> Refused

\* assertDeleteTargets(), with the scope that needs its value.
DeleteTargetsValid(in) ==
  /\ ~(in.scope # None /\ (in.ip # None \/ in.range # None))
  /\ ~(in.ip # None /\ in.range # None)
  /\ in.scope # None => in.value # None

\* normalizeDeleteInput()
DeleteValid(in) ==
  /\ FiltersValid(in)
  /\ in.all => AllAlone(in)
  /\ DeleteTargetsValid(in)
  /\ IF in.id # None THEN ~HasFilter(in) /\ IdValid(in)
     ELSE Confirmed(in) /\ (in.all \/ HasFilter(in))

\* The LAPI matches a range, or a type, in a search only.
NeedsSearch(in) == in.range # None \/ IsCidr(in.ip) \/ in.type # None

\* delete_alerts
DeletePlan(in) ==
  CASE DeleteValid(in) /\ in.id # None -> ById(in.id)
    [] DeleteValid(in) /\ in.all -> Direct([Everything EXCEPT !.active = None])
    [] DeleteValid(in) /\ in.id = None /\ ~in.all ->
         IF NeedsSearch(in) THEN Search([Query(in) EXCEPT !.within = TRUE])
         ELSE Direct(Query(in))
    [] OTHER -> Refused

\* resolveBanTarget()
BanScope(in) ==
  IF in.ip # None THEN "Ip" ELSE IF in.range # None THEN "Range" ELSE in.scope

BanValue(in) ==
  IF in.ip # None THEN in.ip ELSE IF in.range # None THEN in.range ELSE in.value

\* A duration is a number of seconds or a text.
BanTotal(in) == IF in.seconds # None THEN in.seconds ELSE ParseDuration(in.duration)

\* validateBanTarget() and what the target, the type and the duration must be.
BanValid(in) ==
  /\ UnbanTargetsValid(in) /\ HasNarrowTarget(in)
  /\ ScopeValueOk(BanScope(in), BanValue(in))
  /\ in.type \in DecisionTypes
  /\ BanTotal(in) # Invalid /\ BanTotal(in) > 0

\* Which bans ask whether the value is allowlisted.
AsksFirst(in) == ~in.force /\ BanScope(in) \in {"Ip", "Range"}

\* ban_ip
BanPlan(in) ==
  IF ~BanValid(in) THEN Refused
  ELSE [how |-> IF AsksFirst(in) THEN "check" ELSE "push",
        scope |-> BanScope(in), value |-> BanValue(in), type |-> in.type,
        total |-> BanTotal(in), wire |-> ToGoDuration(BanTotal(in)), force |-> in.force]

\* list_decisions and list_alerts
ListPlan(in) ==
  IF ~FiltersValid(in) THEN Refused
  ELSE [how |-> "list",
        query |-> [Query(in) EXCEPT !.within = TRUE,
                   !.active = IF in.tool = "list_decisions" THEN TRUE ELSE @]]

\* The other tools that read are one request each: get_decision and get_alert,
\* check_allowlist, and those that take anything.
ReadPlan(in) ==
  LET valid == CASE in.tool \in {"get_decision", "get_alert"} ->
                      in.id # None /\ IdValid(in)
                 [] in.tool = "check_allowlist" -> IsIp(in.value) \/ IsCidr(in.value)
                 [] OTHER -> TRUE
  IN  IF valid THEN [how |-> "read"] ELSE Refused

Plan(in) ==
  CASE in.tool = "ban_ip" -> BanPlan(in)
    [] in.tool = "unban_ip" -> UnbanPlan(in)
    [] in.tool = "delete_alerts" -> DeletePlan(in)
    [] in.tool \in {"list_decisions", "list_alerts"} -> ListPlan(in)
    [] OTHER -> ReadPlan(in)

-----------------------------------------------------------------------------
(* The LAPI                                                                *)

Around(q, v) ==
  \/ q.address \in {None, v}
  \/ IF q.within THEN <<v, q.address>> \in Inside ELSE <<q.address, v>> \in Inside

\* The alerts of a query: those with a decision of its type, if it has one.
Matching(q) ==
  {a \in alerts :
     /\ a.id \in live
     /\ Around(q, a.value)
     /\ \A f \in {"scope", "value", "scenario", "origin"} : q[f] \in {None, a[f]}
     /\ q.type # None => q.type \in a.types
     /\ q.active \in {TRUE, FALSE} => q.active = (DecisionsOf(a) \cap active # {})}

\* DELETE of decisions: those in force, of the type.
MatchingDecisions(q) ==
  {d \in UNION {DecisionsOf(a) : a \in Matching([q EXCEPT !.active = None])} :
     d \in active /\ q.type \in {None, d.type}}

-----------------------------------------------------------------------------
(* The calls                                                               *)

Step(c, state) == call' = [call EXCEPT ![c] = state]

Fails(c) == [call[c] EXCEPT !.phase = "failed"]

\* maxBanDuration
LengthAllowed(plan) == plan.force \/ plan.total <= MaxBan

\* The LAPI is asked nothing for a call that is refused.
Call(c, in) ==
  /\ setup = None /\ call[c].phase = "none"
  /\ in.tool \in served
  /\ LET plan == Plan(in)
         state == [call[c] EXCEPT !.input = in, !.plan = plan]
     IN  Step(c, IF plan = Refused THEN [NoCall EXCEPT !.phase = "refused"]
                 ELSE IF plan.how = "push" /\ ~LengthAllowed(plan)
                 THEN [NoCall EXCEPT !.phase = "refused"]
                 ELSE IF in.tool = "ban_ip"
                 THEN [state EXCEPT !.phase = plan.how, !.clear = plan.value \notin allowed]
                 ELSE [state EXCEPT !.phase = plan.how])
  /\ UNCHANGED <<server, lapi>>

\* Any request may fail, those of a parallel deletion aside (DeleteOne).
RequestFails(c) ==
  /\ call[c].phase \in {"search", "direct", "id", "check", "push", "list", "read"}
  /\ Step(c, Fails(c))
  /\ UNCHANGED <<server, lapi>>

\* Mutant of CheckAllowlist: only addresses are checked.
CheckAllowlistOfIps(c) ==
  /\ call[c].phase = "check"
  /\ Step(c, IF call[c].plan.scope = "Ip" /\ call[c].plan.value \in allowed
             THEN Fails(c)
             ELSE IF ~LengthAllowed(call[c].plan) THEN Fails(c)
             ELSE [call[c] EXCEPT !.phase = "push"])
  /\ UNCHANGED <<server, lapi>>

\* ensureBanAllowed() is answered, ensureBanDuration() follows.
CheckAllowlist(c) ==
  /\ call[c].phase = "check"
  /\ Step(c, IF call[c].plan.value \in allowed \/ ~LengthAllowed(call[c].plan)
             THEN Fails(c)
             ELSE [call[c] EXCEPT !.phase = "push"])
  /\ UNCHANGED <<server, lapi>>

\* pushAlerts() with buildBanAlert(), of what the LAPI can parse.
PushAlert(c) ==
  LET plan == call[c].plan
      new == [id |-> Cardinality(alerts) + 1, scope |-> plan.scope,
              value |-> plan.value, types |-> {plan.type}, scenario |-> "manual",
              origin |-> "cscli", length |-> GoParse(plan.wire)]
  IN  /\ call[c].phase = "push"
      /\ new.length # Invalid
      /\ new.id <= MaxAlerts
      /\ alerts' = alerts \cup {new}
      /\ live' = live \cup {new.id}
      /\ active' = active \cup DecisionsOf(new)
      /\ Step(c, [call[c] EXCEPT !.phase = "ok", !.alert = new.id])
      /\ UNCHANGED <<server, allowed, changes>>

IsThere(id) == IF id.type = None THEN id.alert \in live ELSE id \in active

\* What leaves the LAPI at the request of a call; alerts take their decisions
\* with them.
TakeAway(c, ids, state) ==
  LET gone == {id.alert : id \in {x \in ids : x.type = None}}
  IN  /\ live' = live \ gone
      /\ active' = {d \in active \ ids : d.alert \notin gone}
      /\ Step(c, [state EXCEPT !.removed = @ \cup ids])
      /\ UNCHANGED <<server, alerts, allowed, changes>>

Unbans(c) == call[c].input.tool = "unban_ip"

\* What a query is about, for the tool of the call.
Asked(c, q) ==
  IF Unbans(c) THEN MatchingDecisions(q) ELSE {IdOf(a) : a \in Matching(q)}

\* One request that deletes all that matches.
DeleteMatching(c) ==
  /\ call[c].phase = "direct"
  /\ TakeAway(c, Asked(c, call[c].plan.query), [call[c] EXCEPT !.phase = "ok"])

\* One request that deletes by id.
DeleteById(c) ==
  LET id == call[c].plan.id
  IN  /\ call[c].phase = "id"
      /\ IF IsThere(id)
         THEN TakeAway(c, {id}, [call[c] EXCEPT !.phase = "ok"])
         ELSE TakeAway(c, {}, Fails(c))

\* collectDecisionIds(): all decisions of the alerts, or the alerts themselves.
IdsFound(c, found) ==
  IF Unbans(c) THEN UNION {DecisionsOf(a) : a \in found} ELSE {IdOf(a) : a \in found}

\* The search is answered: all deletions are sent at once.
SearchAnswered(c) ==
  LET q == call[c].plan.query
      ids == IdsFound(c, Matching(q))
  IN  /\ call[c].phase = "search"
      /\ Step(c, [call[c] EXCEPT !.phase = IF ids = {} THEN "ok" ELSE "deleting",
                                 !.found = Asked(c, q), !.todo = ids])
      /\ UNCHANGED <<server, lapi>>

\* Mutant of Outcome: a deletion that fails is passed over.
OutcomeSettled(c, id, ok) ==
  IF call[c].todo = {id} THEN "ok" ELSE call[c].phase

\* Mutant of Outcome: a rejection is not passed on.
OutcomeUnheard(c, id, ok) ==
  IF call[c].todo = {id} /\ ok THEN "ok" ELSE call[c].phase

\* Promise.all: the first rejection is the result, the last answer is it else.
Outcome(c, id, ok) ==
  IF call[c].phase = "failed" \/ ~ok THEN "failed"
  ELSE IF call[c].todo = {id} THEN "ok" ELSE "deleting"

\* One of the deletions is answered, before or after another one failed.  That
\* of what is gone fails, or counts for nothing if it is a decision.
DeleteOne(c, id, ok) ==
  LET there == IsThere(id)
  IN  /\ id \in call[c].todo
      /\ ok /\ ~there => Unbans(c)
      /\ TakeAway(c, IF ok /\ there THEN {id} ELSE {},
                  [call[c] EXCEPT !.todo = @ \ {id}, !.phase = Outcome(c, id, ok)])

-----------------------------------------------------------------------------
(* resolveListWindow(), the LAPI's limit, and what the lists show          *)

\* collectDecisionRows(): what is in force of the alerts that came.
Rows(found) == active \cap UNION {DecisionsOf(a) : a \in found}

\* truncateRows()
AtMost(n, bound) == IF n < bound THEN n ELSE bound

\* Mutant of Hinted: a full page is taken for the last one.
HintedBeyond(in, rows, shown) ==
  rows > shown \/ (in.limit = None /\ ~in.all /\ rows > limit)

\* "More results": rows are hidden, or the LAPI may have more than it was
\* asked for.
Hinted(in, rows, shown) ==
  rows > shown \/ (in.limit = None /\ ~in.all /\ rows >= limit)

\* The rows of a list: alerts, or decisions in force; in bouncer mode the LAPI
\* answers with decisions.
RowsOf(c, found) ==
  IF call[c].input.tool = "list_alerts" THEN Cardinality(found)
  ELSE IF mode = "bouncer" THEN Cardinality(MatchingDecisions(call[c].plan.query))
  ELSE Cardinality(Rows(found))

\* How many of n alerts the LAPI is asked for: all, unless the limit is the
\* default one.
FetchLimit(in, n) ==
  IF in.all \/ in.limit # None \/ mode = "bouncer" THEN n ELSE AtMost(n, limit)

DisplayLimit(in) == IF in.limit = None THEN limit ELSE in.limit

\* The LAPI answers with any alerts that match, as many as it was asked for.
ListAnswered(c) ==
  LET in == call[c].input
      all == Matching(call[c].plan.query)
      fetch == FetchLimit(in, Cardinality(all))
  IN  /\ call[c].phase = "list"
      /\ \E found \in {s \in SUBSET all : Cardinality(s) = fetch} :
           LET rows == RowsOf(c, found)
               shown == IF in.all THEN rows ELSE AtMost(rows, DisplayLimit(in))
               hint == IF mode = "bouncer" THEN rows > shown
                       ELSE Hinted(in, rows, shown)
           IN  Step(c, [call[c] EXCEPT !.phase = "ok",
                 !.report = [shown |-> shown, hint |-> hint, total |-> RowsOf(c, all)]])
      /\ UNCHANGED <<server, lapi>>

\* get_decision, get_alert, the allowlist tools, the status.
ReadAnswered(c) ==
  /\ call[c].phase = "read"
  /\ Step(c, [call[c] EXCEPT !.phase = "ok"])
  /\ UNCHANGED <<server, lapi>>

-----------------------------------------------------------------------------
(* The rest of the world                                                   *)

Expire(d) ==
  /\ setup = None /\ changes < MaxChanges
  /\ changes' = changes + 1
  /\ active' = active \ {d}
  /\ UNCHANGED <<server, alerts, live, allowed, call>>

\* An allowlist gains or loses a value.
AllowlistChanges(v) ==
  /\ setup = None /\ changes < MaxChanges
  /\ changes' = changes + 1
  /\ allowed' = IF v \in allowed THEN allowed \ {v} ELSE allowed \cup {v}
  /\ call' = [c \in Calls |->
       IF call[c].phase \in {"check", "push"} /\ call[c].plan.value \notin allowed'
       THEN [call[c] EXCEPT !.clear = TRUE] ELSE call[c]]
  /\ UNCHANGED <<server, alerts, live, active>>

Next ==
  \/ Serve
  \/ \E c \in Calls :
       \/ \E in \in Inputs[c] : Call(c, in)
       \/ RequestFails(c)
       \/ CheckAllowlist(c)
       \/ PushAlert(c)
       \/ DeleteMatching(c)
       \/ DeleteById(c)
       \/ SearchAnswered(c)
       \/ \E id \in call[c].todo, ok \in BOOLEAN : DeleteOne(c, id, ok)
       \/ ListAnswered(c)
       \/ ReadAnswered(c)
  \/ \E d \in active : Expire(d)
  \/ \E v \in Ips \cup Ranges : AllowlistChanges(v)

Spec == Init /\ [][Next]_vars

\* Every request is answered, or its timeout is.
Answered(c) ==
  \/ RequestFails(c)
  \/ \E id \in call[c].todo, ok \in BOOLEAN : DeleteOne(c, id, ok)

FairSpec == Spec /\ \A c \in Calls : WF_vars(Answered(c))

-----------------------------------------------------------------------------
(* Properties                                                              *)

Ended == {"ok", "failed", "refused"}

\* A deletion that reports success has left nothing in force, or there, of what
\* its search was asked for, although it deletes one by one, in parallel with
\* other calls, and every request may fail (deleteDecisionIds, deleteAlertIds).
ReportedIsDone ==
  \A c \in Calls : call[c].phase = "ok" /\ call[c].found # {} =>
    /\ call[c].todo = {}
    /\ \A id \in call[c].found : ~IsThere(id)

\* What a target reaches beyond itself: a range what lies inside it, as the README
\* has it, although unban_ip calls its range an "exact match" (README of
\* crowdsec-mcp, lines 239 and 258; tools/decisions.ts, 121 and 303-315) ...
NamesRange(in) ==
  in.range # None \/ IsCidr(in.ip) \/ (in.tool = "unban_ip" /\ in.scope = "Range")

\* ... and an address the ranges around it, when the LAPI is asked to delete
\* without a search (line 120 has it exact as well).
NamesAddress(in) ==
  IF in.tool = "unban_ip" THEN in.ip # None \/ in.scope = "Ip"
  ELSE in.ip # None /\ ~NeedsSearch(in)

Target(in) ==
  IF in.ip # None THEN in.ip ELSE IF in.range # None THEN in.range ELSE in.value

\* What a deletion may touch without a confirmation: what has the id, the
\* address or the scope and value it named, or is reached by that.
NamedValue(in, v) ==
  /\ in.ip # None \/ in.range # None \/ in.scope # None
  /\ \/ v = Target(in)
     \/ NamesRange(in) /\ <<v, Target(in)>> \in Inside
     \/ NamesAddress(in) /\ <<Target(in), v>> \in Inside

Named(in, x) == x = in.id \/ NamedValue(in, AlertOf(x.alert).value)

\* Decisions and alerts that a call did not name by id, address, or scope and
\* value stay, unless it was confirmed, on every path from the filters to the
\* requests (unban_ip, delete_alerts): a range takes nothing that is only
\* around it with it, an address nothing beside it, other targets themselves only.
RemovesOnlyNamed ==
  \A c \in Calls : call[c].removed # {} /\ ~call[c].input.confirm =>
    \A x \in call[c].removed : Named(call[c].input, x)

\* An address or a range is banned without "force" only if it was seen, or was,
\* off the allowlists during the call (ensureBanAllowed); it may have joined one
\* between the answer and the push.
BansSpareAllowlist ==
  \A c \in Calls :
    call[c].alert # None /\ ~call[c].plan.force /\ call[c].plan.scope # "Country"
      => call[c].clear

\* A ban lasts as long as was asked, at the LAPI and where a bouncer reads its
\* duration back, and no longer than allowed without "force" (toGoDuration,
\* ensureBanDuration, parseExpiration).
BansLastAsAsked ==
  \A c \in Calls : call[c].alert # None =>
    LET length == AlertOf(call[c].alert).length
    IN  /\ length = call[c].plan.total
        /\ ParseExpiration(GoString(length)) = length
        /\ length <= MaxBan \/ call[c].input.force

\* A list that hides something says so, although it may have asked the LAPI for
\* a page only, and counts alerts there but decisions here (resolveListWindow).
ListIsHonest ==
  \A c \in Calls : call[c].report # None =>
    call[c].report.hint \/ call[c].report.shown = call[c].report.total

\* What the settings asked of what is served.
AsAsked(cli, env) ==
  LET given(flag, value) == flag \/ value = TRUE
      token == cli.httpToken # None \/ env.httpToken # None
      http == "http" = FirstDefined(cli.transport, env.transport)
      passthrough == given(cli.passthrough, env.passthrough)
      tls == env.tls = {"cert", "key", "ca"}
  IN  /\ served' \cap WriteTools # {} =>
           /\ mode' = "watcher" /\ ~cli.readonly
           /\ cli.write \/ env.readonly = FALSE
      /\ "delete_alerts" \in served' =>
           /\ given(cli.enableAlertDelete, env.enableAlertDelete)
           /\ http => token \/ given(cli.withoutToken, env.withoutToken)
      /\ ~passthrough /\ ~tls =>
           IF mode' = "bouncer" THEN env.apiKey # None
           ELSE env.machineId # None /\ env.password # None
      /\ http => token \/ passthrough
      /\ passthrough => http
      /\ limit' \in 1..10000

\* When the process serves, tools that write were asked for and are a watcher's,
\* alerts can be deleted over HTTP only behind a token or knowingly without, the
\* credentials are complete, an HTTP server that has its own has a token, and
\* lists are limited.
ServesAsAsked == [][mode # mode' => AsAsked(setup.cli, setup.env)]_vars

\* What it tells of what is served.
AsTold(cli, env) ==
  /\ served' \subseteq told'.available
  /\ {cli.tools, env.tools, cli.disableTools, env.disableTools} = {None} =>
       /\ served' = told'.available
       /\ told'.call \subseteq
            served' \cup (IF "unban_ip" \in served' THEN {"delete_alerts"} ELSE {})

\* The instructions and prompts of a server fit its tools, although both are
\* made from the configuration separately (docs.ts, prompts.ts, registry.ts):
\* what is offered is announced, and unless tools are chosen by name nothing
\* else is, nor is any other tool named to the model, but for delete_alerts:
\* a rule speaks of it wherever decisions can be changed.
ServesAsTold == [][mode # mode' => AsTold(setup.cli, setup.env)]_vars

\* Every call is answered, and the requests it leaves behind when one of them
\* failed come to an end too.
CallsEnd ==
  \A c \in Calls : call[c].phase # "none" ~> call[c].phase \in Ended /\ call[c].todo = {}
=============================================================================
