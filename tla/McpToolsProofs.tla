---------------------------- MODULE McpToolsProofs ----------------------------
(***************************************************************************)
(* Theorems about McpTools, for any LAPI, settings, number of calls and    *)
(* inputs, whatever the interleaving of their requests.                    *)
(***************************************************************************)
EXTENDS McpTools, FiniteSetTheorems, SequenceTheorems, TLAPS

-----------------------------------------------------------------------------
(* What the plans of deletions may reach                                   *)

QueryFields == {"address", "scope", "value", "type", "scenario", "origin",
                "active", "within"}

\* An alert on this value may match the query.
Reaches(q, v) == Around(q, v) /\ q.value \in {None, v}

\* Without a confirmation the query reaches what the input named only.
Narrow(in, q) == in.confirm \/ \A v : Reaches(q, v) => NamedValue(in, v)

\* What is inside a range is searched for, whoever asks.
LEMMA RangeIsNarrow ==
  ASSUME NEW in, in.tool = "unban_ip", UnbanTargetsValid(in), NEW range,
         \/ range = in.range /\ in.range # None
         \/ range = in.value /\ in.scope = "Range" /\ in.scope # None
  PROVE  LET q == UnbanByRange(in, range).query
         IN  DOMAIN q = QueryFields /\ q.active = TRUE /\ Narrow(in, q)
<1> DEFINE q == UnbanByRange(in, range).query
<1>1. /\ DOMAIN q = QueryFields /\ q.active = TRUE
      /\ q.address = range /\ q.within = TRUE /\ q.value = None
  BY DEF UnbanByRange, Search, Everything, QueryFields
<1>2. range # None /\ Target(in) = range /\ NamesRange(in)
  BY DEF UnbanTargetsValid, Target, NamesRange
<1>3. in.range # None \/ in.scope # None
  OBVIOUS
<1> HIDE DEF q
<1>4. Narrow(in, q)
  BY <1>1, <1>2, <1>3 DEF Narrow, Reaches, Around, NamedValue
<1> QED
  BY <1>1, <1>4 DEF q

LEMMA UnbanIsNarrow ==
  ASSUME NEW in, in.tool = "unban_ip", UnbanPlan(in) # Refused
  PROVE  LET plan == UnbanPlan(in)
         IN  \/ plan.how = "id" /\ plan.id = in.id
             \/ /\ plan.how \in {"search", "direct"}
                /\ DOMAIN plan.query = QueryFields
                /\ plan.how = "search" => plan.query.active = TRUE
                /\ Narrow(in, plan.query)
<1> DEFINE plan == UnbanPlan(in)
<1>1. CASE in.all /\ AllAlone(in)
  <2>1. plan = Search(Everything)
    BY <1>1, Zenon DEF UnbanPlan, UnbanValid
  <2> QED
    BY <1>1, <2>1 DEF Search, Everything, QueryFields, AllAlone, Narrow
<1>2. CASE ~in.all /\ in.id # None /\ ~HasFilter(in) /\ IdValid(in)
  <2>1. plan = ById(in.id)
    BY <1>2, Zenon DEF UnbanPlan, UnbanValid
  <2> QED
    BY <2>1 DEF ById
<1>3. CASE UnbanValid(in) /\ in.scope # None
  <2>1. plan = UnbanByScopeValue(in)
    BY <1>3 DEF UnbanPlan, UnbanValid
  <2>2. UnbanTargetsValid(in) /\ in.value # None /\ in.ip = None /\ in.range = None
    BY <1>3 DEF UnbanValid, UnbanTargetsValid
  <2>3. ScopeValueOk(in.scope, in.value)
    BY <2>1 DEF UnbanByScopeValue
  <2>4. CASE in.scope = "Ip"
    <3>1. plan = Direct([Query(in) EXCEPT !.address = in.value, !.scope = None,
                                          !.value = None])
      BY <2>1, <2>3, <2>4 DEF UnbanByScopeValue
    <3> DEFINE q == [Query(in) EXCEPT !.address = in.value, !.scope = None, !.value = None]
    <3>2. DOMAIN q = QueryFields /\ q.address = in.value /\ q.within = FALSE
      BY DEF Query, QueryFields
    <3> HIDE DEF q
    <3>3. plan.how = "direct" /\ plan.query = q
      BY <3>1 DEF Direct, q
    <3>4. Target(in) = in.value /\ NamesAddress(in) /\ in.value # None
      BY <2>2, <2>4 DEF Target, NamesAddress
    <3>5. Narrow(in, q)
      BY <1>3, <3>2, <3>4 DEF Narrow, Reaches, Around, NamedValue
    <3> QED
      BY <3>2, <3>3, <3>5
  <2>5. CASE in.scope = "Range"
    <3>1. plan = UnbanByRange(in, in.value)
      BY <2>1, <2>3, <2>5 DEF UnbanByScopeValue
    <3> HIDE DEF plan
    <3>2. plan.how = "search"
      BY <3>1 DEF UnbanByRange, Search
    <3> DEFINE q == UnbanByRange(in, in.value).query
    <3>3. DOMAIN q = QueryFields /\ q.active = TRUE /\ Narrow(in, q)
      BY <1>3, <2>2, <2>5, RangeIsNarrow
    <3>4. plan.query = q
      BY <3>1
    <3> HIDE DEF q
    <3> QED
      BY <3>2, <3>3, <3>4 DEF plan
  <2>6. CASE in.scope \notin {"Ip", "Range"}
    <3>1. plan = Direct(Query(in))
      BY <2>1, <2>3, <2>6 DEF UnbanByScopeValue
    <3>2. /\ plan.how = "direct" /\ DOMAIN plan.query = QueryFields
          /\ plan.query.value = in.value
      BY <3>1 DEF Direct, Query, QueryFields
    <3>3. Target(in) = in.value
      BY <2>2 DEF Target
    <3> QED
      BY <1>3, <2>2, <3>2, <3>3 DEF Narrow, Reaches, NamedValue
  <2> QED
    BY <2>4, <2>5, <2>6
<1>4. CASE UnbanValid(in) /\ in.scope = None /\ in.range # None
  <2>1. plan = UnbanByRange(in, in.range)
    BY <1>4 DEF UnbanPlan, UnbanValid
  <2> HIDE DEF plan
  <2>2. plan.how = "search" /\ UnbanTargetsValid(in)
    BY <1>4, <2>1 DEF UnbanByRange, Search, UnbanValid
  <2> QED
    BY <1>4, <2>1, <2>2, RangeIsNarrow DEF plan
<1>5. CASE UnbanValid(in) /\ in.scope = None /\ in.range = None
  <2>1. plan = UnbanByQuery(in)
    BY <1>5 DEF UnbanPlan, UnbanValid
  <2>2. plan = Direct(Query(in)) /\ HasFilter(in)
    BY <2>1 DEF UnbanByQuery
  <2>3. /\ plan.how = "direct" /\ DOMAIN plan.query = QueryFields
        /\ plan.query.address = in.ip /\ plan.query.within = FALSE
    BY <1>5, <2>2 DEF Direct, Query, QueryFields
  <2>4. in.confirm \/ in.ip # None
    BY <1>5, <2>2 DEF UnbanValid, Confirmed, HasNarrowTarget
  <2>5. in.ip # None => Target(in) = in.ip /\ NamesAddress(in)
    BY DEF Target, NamesAddress
  <2> QED
    BY <2>3, <2>4, <2>5 DEF Narrow, Reaches, Around, NamedValue
<1> QED
  BY <1>1, <1>2, <1>3, <1>4, <1>5 DEF UnbanPlan

LEMMA DeleteIsNarrow ==
  ASSUME NEW in, in.tool = "delete_alerts", DeletePlan(in) # Refused
  PROVE  LET plan == DeletePlan(in)
         IN  \/ plan.how = "id" /\ plan.id = in.id
             \/ /\ plan.how \in {"search", "direct"}
                /\ DOMAIN plan.query = QueryFields
                /\ Narrow(in, plan.query)
<1> DEFINE plan == DeletePlan(in)
<1>1. CASE DeleteValid(in) /\ in.id # None
  <2>1. plan = ById(in.id)
    BY <1>1, Zenon DEF DeletePlan, DeleteValid, AllAlone
  <2> QED
    BY <2>1 DEF ById
<1>2. CASE DeleteValid(in) /\ in.all /\ in.id = None
  <2>1. plan = Direct([Everything EXCEPT !.active = None])
    BY <1>2 DEF DeletePlan
  <2>2. plan.how = "direct" /\ DOMAIN plan.query = QueryFields
    BY <2>1 DEF Direct, Everything, QueryFields
  <2> QED
    BY <1>2, <2>2 DEF DeleteValid, AllAlone, Narrow
<1>3. CASE DeleteValid(in) /\ in.id = None /\ ~in.all
  <2>1. plan = IF NeedsSearch(in) THEN Search([Query(in) EXCEPT !.within = TRUE])
               ELSE Direct(Query(in))
    BY <1>3 DEF DeletePlan
  <2>2. /\ plan.how \in {"search", "direct"} /\ DOMAIN plan.query = QueryFields
        /\ plan.query.address = IF in.range # None THEN in.range ELSE in.ip
        /\ plan.query.value = in.value
    BY <2>1 DEF Search, Direct, Query, QueryFields
  <2>3. Confirmed(in) /\ DeleteTargetsValid(in)
    BY <1>3 DEF DeleteValid
  <2>4. CASE in.ip # None \/ in.range # None
    <3>1. Target(in) = plan.query.address /\ Target(in) # None
      BY <2>2, <2>3, <2>4 DEF Target, DeleteTargetsValid
    <3>2. CASE NeedsSearch(in)
      <4>1. plan.query.within = TRUE
        BY <2>1, <3>2 DEF Search, Query
      <4> HIDE DEF plan
      <4>2. \A v : <<v, Target(in)>> \in Inside => NamesRange(in)
        BY <2>4, ToolsAssumption DEF Target, NamesRange, IsCidr
      <4>3. Narrow(in, plan.query)
        BY <2>4, <3>1, <4>1, <4>2 DEF Narrow, Reaches, Around, NamedValue
      <4> QED
        BY <2>2, <4>3 DEF plan
    <3>3. CASE ~NeedsSearch(in)
      <4>1. plan.query.within = FALSE
        BY <2>1, <3>3 DEF Direct, Query
      <4> HIDE DEF plan
      <4>2. NamesAddress(in)
        BY <1>3, <2>4, <3>3 DEF NamesAddress, NeedsSearch
      <4>3. Narrow(in, plan.query)
        BY <2>4, <3>1, <4>1, <4>2 DEF Narrow, Reaches, Around, NamedValue
      <4> QED
        BY <2>2, <4>3 DEF plan
    <3> QED
      BY <3>2, <3>3
  <2>5. CASE in.ip = None /\ in.range = None /\ in.scope # None
    <3>1. Target(in) = in.value
      BY <2>5 DEF Target
    <3> QED
      BY <2>2, <2>3, <2>5, <3>1 DEF DeleteTargetsValid, Narrow, Reaches, NamedValue
  <2>6. CASE in.ip = None /\ in.range = None /\ in.scope = None
    BY <2>2, <2>3, <2>6 DEF Confirmed, HasNarrowTarget, Narrow
  <2> QED
    BY <2>4, <2>5, <2>6
<1> QED
  BY <1>1, <1>2, <1>3 DEF DeletePlan

LEMMA BanPlanSpares ==
  ASSUME NEW in, BanPlan(in) # Refused
  PROVE  LET plan == BanPlan(in)
         IN  /\ plan.how \in {"check", "push"}
             /\ plan.type \in DecisionTypes
             /\ plan.how = "push" => plan.force \/ plan.scope = "Country"
<1>1. /\ BanValid(in)
      /\ BanPlan(in).how = IF AsksFirst(in) THEN "check" ELSE "push"
      /\ BanPlan(in).scope = BanScope(in) /\ BanPlan(in).type = in.type
      /\ BanPlan(in).force = in.force
  BY DEF BanPlan
<1> QED
  BY <1>1 DEF BanValid, AsksFirst, ScopeValueOk

LEMMA ListPlanAsks ==
  ASSUME NEW in, ListPlan(in) # Refused
  PROVE  LET plan == ListPlan(in)
         IN  /\ plan.how = "list"
             /\ in.tool = "list_decisions" => plan.query.active = TRUE
<1> DEFINE q == [Query(in) EXCEPT !.within = TRUE,
                   !.active = IF in.tool = "list_decisions" THEN TRUE ELSE @]
<1>1. in.tool = "list_decisions" => q.active = TRUE
  BY DEF Query
<1> HIDE DEF q
<1>2. ListPlan(in) = [how |-> "list", query |-> q]
  BY DEF ListPlan, q
<1> QED
  BY <1>1, <1>2

LEMMA PlanOfTool ==
  ASSUME NEW in
  PROVE  /\ in.tool = "ban_ip" => Plan(in) = BanPlan(in)
         /\ in.tool = "unban_ip" => Plan(in) = UnbanPlan(in)
         /\ in.tool = "delete_alerts" => Plan(in) = DeletePlan(in)
         /\ in.tool \in {"list_decisions", "list_alerts"} => Plan(in) = ListPlan(in)
         /\ in.tool \notin {"ban_ip", "unban_ip", "delete_alerts", "list_decisions",
                           "list_alerts"} => Plan(in) = ReadPlan(in)
<1>1. CASE in.tool = "ban_ip"
  BY <1>1, Zenon DEF Plan
<1>2. CASE in.tool = "unban_ip"
  BY <1>2, Zenon DEF Plan
<1>3. CASE in.tool = "delete_alerts"
  BY <1>3, Zenon DEF Plan
<1>4. CASE in.tool = "list_decisions"
  BY <1>4, Zenon DEF Plan
<1>5. CASE in.tool = "list_alerts"
  BY <1>5, Zenon DEF Plan
<1>6. CASE in.tool \notin {"ban_ip", "unban_ip", "delete_alerts", "list_decisions",
                           "list_alerts"}
  BY <1>6, Zenon DEF Plan
<1> QED
  BY <1>1, <1>2, <1>3, <1>4, <1>5, <1>6

\* Which phase a plan starts, and what it then holds.
PlanFits(in, plan) ==
  /\ plan.how \in {"search", "direct", "id", "check", "push", "list", "read"}
  /\ in.tool = "ban_ip" <=> plan.how \in {"check", "push"}
  /\ plan.how \in {"check", "push"} => plan.type \in DecisionTypes
  /\ plan.how = "push" => plan.force \/ plan.scope = "Country"
  /\ plan.how = "id" => plan.id = in.id
  /\ plan.how \in {"search", "direct"} =>
       DOMAIN plan.query = QueryFields /\ Narrow(in, plan.query)
  /\ plan.how = "search" /\ in.tool = "unban_ip" => plan.query.active = TRUE
  /\ plan.how = "list" => in.tool \in {"list_decisions", "list_alerts"}
  /\ plan.how = "list" /\ in.tool = "list_decisions" => plan.query.active = TRUE

LEMMA PlansFit ==
  ASSUME NEW in, Plan(in) # Refused
  PROVE  PlanFits(in, Plan(in))
<1> DEFINE plan == Plan(in)
<1>1. CASE in.tool = "ban_ip"
  <2>1. plan = BanPlan(in)
    BY <1>1, PlanOfTool
  <2> QED
    BY <1>1, <2>1, BanPlanSpares DEF PlanFits
<1>2. CASE in.tool = "unban_ip"
  <2>1. plan = UnbanPlan(in)
    BY <1>2, PlanOfTool
  <2> QED
    BY <1>2, <2>1, UnbanIsNarrow DEF PlanFits
<1>3. CASE in.tool = "delete_alerts"
  <2>1. plan = DeletePlan(in)
    BY <1>3, PlanOfTool
  <2> QED
    BY <1>3, <2>1, DeleteIsNarrow DEF PlanFits
<1>4. CASE in.tool \in {"list_decisions", "list_alerts"}
  <2>1. plan = ListPlan(in)
    BY <1>4, PlanOfTool
  <2> QED
    BY <1>4, <2>1, ListPlanAsks DEF PlanFits
<1>5. CASE in.tool \notin {"ban_ip", "unban_ip", "delete_alerts", "list_decisions",
                           "list_alerts"}
  <2>1. plan = ReadPlan(in)
    BY <1>5, PlanOfTool
  <2>2. ReadPlan(in) \in {Refused, [how |-> "read"]}
    BY Zenon DEF ReadPlan
  <2>3. plan.how = "read"
    BY <2>1, <2>2
  <2> QED
    BY <1>5, <2>3 DEF PlanFits
<1> QED
  BY <1>1, <1>2, <1>3, <1>4, <1>5

-----------------------------------------------------------------------------
(* The inductive invariant                                                 *)

\* The LAPI numbers its alerts one after the other.
AlertsInv ==
  /\ IsFiniteSet(alerts)
  /\ \A a \in alerts : a.id \in 1..Cardinality(alerts) /\ a.types \subseteq DecisionTypes
  /\ \A a, b \in alerts : a.id = b.id => a = b

ServerInv ==
  /\ setup = None \/ setup \in Options
  /\ limit \in Nat

Known(x) == \E a \in alerts : a.id = x.alert

CallFields == {"input", "plan", "phase", "found", "todo", "removed", "alert",
               "clear", "report"}

Started(k) == k.phase \notin {"none", "refused"}

\* A call runs the plan of its input, and has done nothing if it has none.
PlanInv(c, k) ==
  /\ DOMAIN k = CallFields
  /\ Started(k) =>
       k.input \in Inputs[c] /\ k.plan = Plan(k.input) /\ k.plan # Refused
  /\ k.phase \in {"search", "direct", "id", "list", "read", "check"} =>
       k.plan.how = k.phase
  /\ k.phase = "push" => k.plan.how \in {"check", "push"}

\* What a deletion was asked for is gone or waits for a request of its own.
DoneInv(k) ==
  /\ k.phase \notin {"deleting", "failed", "ok"} => k.found = {} /\ k.todo = {}
  /\ \A x \in k.found \cup k.todo : Known(x)
  /\ k.phase \in {"deleting", "ok"} => \A x \in k.found : x \in k.todo \/ ~IsThere(x)
  /\ k.phase = "ok" => k.todo = {}

\* What it removed, and what it is about to, it may.
NamedInv(k) ==
  /\ ~Started(k) => k.removed = {}
  /\ \A x \in k.todo \cup k.removed :
       k.input.confirm \/ x = k.input.id \/ (Known(x) /\ Named(k.input, x))

\* A ban that waits for its check has seen what the allowlists are.
BanInv(k) ==
  /\ ~Started(k) => k.alert = None
  /\ k.phase = "check" /\ k.plan.value \notin allowed => k.clear
  /\ k.phase = "push" \/ k.alert # None =>
       k.plan.force \/ k.plan.scope = "Country" \/ k.clear

ListInv(k) ==
  /\ ~Started(k) => k.report = None
  /\ k.report # None => k.report.hint \/ k.report.shown = k.report.total

CallInv(c, k) == PlanInv(c, k) /\ DoneInv(k) /\ NamedInv(k) /\ BanInv(k) /\ ListInv(k)

ToolsInv ==
  /\ AlertsInv /\ ServerInv
  /\ call = [c \in Calls |-> call[c]]
  /\ \A c \in Calls : CallInv(c, call[c])

-----------------------------------------------------------------------------
(* What a configuration says                                               *)

\* A configuration that loadConfig() makes of these options, field by field.
Configures(config, cli, env) ==
  /\ config.passthrough = ReadBooleanOption(cli.passthrough, env.passthrough, FALSE)
  /\ config.tls = ResolveTls(env.tls)
  /\ config.auth = ResolveAuth(FirstDefined(cli.auth, env.auth), env.apiKey,
                     env.machineId, env.password, config.passthrough, config.tls)
  /\ config.transport =
       ResolveTransport(FirstDefined(cli.transport, env.transport), config.passthrough)
  /\ config.token = FirstDefined(cli.httpToken, env.httpToken)
  /\ config.readonly = ResolveReadonly(cli, env)
  /\ config.enableAlertDelete =
       ReadBooleanOption(cli.enableAlertDelete, env.enableAlertDelete, FALSE)
  /\ config.withoutToken = ReadBooleanOption(cli.withoutToken, env.withoutToken, FALSE)
  /\ config.tools = FirstDefined(cli.tools, env.tools)
  /\ config.disableTools =
       IF FirstDefined(cli.disableTools, env.disableTools) = None THEN {}
       ELSE FirstDefined(cli.disableTools, env.disableTools)

\* What maxResults may be.
Limits == 1..10000

LEMMA LimitInRange ==
  /\ Limits \subseteq Nat
  /\ \A value : ReadInteger(value, 25, 1, 10000) # Refused =>
                ReadInteger(value, 25, 1, 10000) \in Limits
<1>1. Limits \subseteq Nat /\ 25 \in Limits
  BY DEF Limits
<1>2. ASSUME NEW default, NEW max, NEW value, ReadInteger(value, default, 1, max) # Refused
      PROVE  ReadInteger(value, default, 1, max) \in {default} \cup (1..max)
  BY <1>2, Zenon DEF ReadInteger
<1>3. PICK max : max = 10000
  OBVIOUS
<1>4. Limits = 1..max
  BY <1>3 DEF Limits
<1>5. \A value : ReadInteger(value, 25, 1, max) # Refused =>
                 ReadInteger(value, 25, 1, max) \in Limits
  BY <1>1, <1>2, <1>4
<1> QED
  BY <1>1, <1>3, <1>5

LEMMA ConfigFields ==
  ASSUME NEW cli, NEW env, LoadConfig(cli, env) # Refused
  PROVE  LET config == LoadConfig(cli, env)
         IN  /\ Configures(config, cli, env)
             /\ \A f \in {"auth", "passthrough", "tls", "transport", "readonly",
                          "enableAlertDelete", "withoutToken"} : config[f] # Refused
             /\ ValidCredentials(config.auth, env.apiKey, env.machineId, env.password,
                                 config.passthrough, config.tls)
             /\ ValidHttpToken(config.transport, config.token, config.passthrough)
             /\ ~(cli.readonly /\ cli.write)
             /\ config.maxResults \in Limits
<1> DEFINE config == ConfigOf(cli, env)
           bound == FirstDefined(cli.maxResults, env.maxResults)
<1>1. /\ LoadConfig(cli, env) = config
      /\ \A f \in DOMAIN config : config[f] # Refused
      /\ ~(cli.readonly /\ cli.write)
      /\ ValidCredentials(config.auth, env.apiKey, env.machineId, env.password,
                          config.passthrough, config.tls)
      /\ ValidHttpToken(config.transport, config.token, config.passthrough)
  BY DEF LoadConfig
<1>2. DOMAIN config = {"url", "auth", "passthrough", "tls", "transport", "token",
                       "readonly", "enableAlertDelete", "withoutToken", "maxResults",
                       "tools", "disableTools"}
  BY DEF ConfigOf
<1>3. Configures(config, cli, env) /\ config.maxResults = ReadInteger(bound, 25, 1, 10000)
  BY DEF ConfigOf, Configures
<1> HIDE DEF config, bound
<1>4. config.maxResults \in Limits
  <2>1. config.maxResults # Refused
    BY <1>1, <1>2
  <2> QED
    BY <1>3, <2>1, LimitInRange
<1>5. \A f \in {"auth", "passthrough", "tls", "transport", "readonly",
                "enableAlertDelete", "withoutToken"} : config[f] # Refused
  BY <1>1, <1>2
<1> QED
  BY <1>1, <1>3, <1>4, <1>5

-----------------------------------------------------------------------------
(* How the LAPI changes                                                    *)

\* Alerts stay known, and what is gone stays away.
World ==
  /\ AlertsInv'
  /\ alerts \subseteq alerts'
  /\ \A x : Known(x) /\ ~IsThere(x) => ~IsThere(x)'

LEMMA NamesStay ==
  ASSUME World, NEW x, Known(x)
  PROVE  Known(x)' /\ \A in : Named(in, x) => Named(in, x)'
<1>1. PICK a \in alerts : a.id = x.alert
  BY DEF Known
<1>2. a \in alerts' /\ \A b \in alerts' : b.id = x.alert => b = a
  BY <1>1 DEF World, AlertsInv
<1>3. AlertOf(x.alert) = a
  BY <1>1, <1>2 DEF World, AlertOf
<1>4. AlertOf(x.alert)' = a
  BY <1>1, <1>2 DEF AlertOf
<1>5. \A in : Named(in, x) => Named(in, x)'
  BY <1>3, <1>4 DEF Named
<1> QED
  BY <1>1, <1>2, <1>5 DEF Known

\* A call that does nothing keeps its promises while the LAPI changes.
LEMMA CallStays ==
  ASSUME World, NEW c, NEW k, CallInv(c, k),
         k.phase = "check" /\ k.plan.value \notin allowed' => k.clear
  PROVE  CallInv(c, k)'
<1>1. PlanInv(c, k)'
  BY DEF CallInv, PlanInv
<1>2. DoneInv(k)'
  BY NamesStay DEF CallInv, DoneInv, World
<1>3. NamedInv(k)'
  BY NamesStay DEF CallInv, NamedInv
<1>4. BanInv(k)'
  BY DEF CallInv, BanInv
<1>5. ListInv(k)'
  BY DEF CallInv, ListInv
<1> QED
  BY <1>1, <1>2, <1>3, <1>4, <1>5 DEF CallInv

\* A step of one call leaves the others what they were.
LEMMA OneCall ==
  ASSUME ToolsInv, World, ServerInv', allowed' = allowed, NEW c \in Calls, NEW k,
         Step(c, k), CallInv(c, k)'
  PROVE  ToolsInv'
<1>1. call' = [d \in Calls |-> IF d = c THEN k ELSE call[d]]
  BY DEF ToolsInv, Step
<1>2. ASSUME NEW d \in Calls PROVE CallInv(d, call[d])'
  <2>1. CASE d = c
    BY <1>1, <2>1
  <2>2. CASE d # c
    <3>1. call'[d] = call[d]
      BY <1>1, <2>2
    <3>2. CallInv(d, call[d])
      BY DEF ToolsInv
    <3>3. PICK s : s = call[d]
      OBVIOUS
    <3>4. CallInv(d, s)'
      BY <3>2, <3>3, CallStays DEF CallInv, BanInv
    <3> QED
      BY <3>1, <3>3, <3>4
  <2> QED
    BY <2>1, <2>2
<1>3. call' = [d \in Calls |-> call'[d]]
  BY <1>1
<1> QED
  BY <1>2, <1>3 DEF ToolsInv, World

LEMMA WorldIsQuiet ==
  ASSUME AlertsInv, UNCHANGED lapi
  PROVE  World
BY DEF World, lapi, AlertsInv, IsThere

\* A deletion takes away and adds nothing.
LEMMA WorldLoses ==
  ASSUME AlertsInv, UNCHANGED alerts, live' \subseteq live, active' \subseteq active
  PROVE  World
BY DEF World, AlertsInv, IsThere

\* The id of a new alert is new.
LEMMA NewIdIsNew ==
  ASSUME AlertsInv
  PROVE  /\ Cardinality(alerts) + 1 \in Nat
         /\ \A a \in alerts : a.id # Cardinality(alerts) + 1
<1>1. Cardinality(alerts) \in Nat
  BY FS_CardinalityType DEF AlertsInv
<1> QED
  BY <1>1 DEF AlertsInv

-----------------------------------------------------------------------------
(* The steps                                                               *)

LEMMA InitInv ==
  ASSUME Init
  PROVE  ToolsInv
<1>1. AlertsInv
  BY AlertsAssumption DEF Init, AlertsInv
<1>2. ASSUME NEW c \in Calls PROVE CallInv(c, call[c])
  <2>1. call[c] = NoCall
    BY DEF Init
  <2> QED
    BY <2>1 DEF NoCall, CallInv, PlanInv, DoneInv, NamedInv, BanInv, ListInv, CallFields,
                Started
<1> QED
  BY <1>1, <1>2 DEF Init, ToolsInv, ServerInv

LEMMA ServeStep ==
  ASSUME ToolsInv, Serve
  PROVE  ToolsInv'
<1>1. limit' \in Nat
  <2>1. PICK config : config = LoadConfig(setup.cli, setup.env)
    OBVIOUS
  <2>2. config # Refused /\ limit' = config.maxResults
    BY <2>1 DEF Serve
  <2>3. config.maxResults \in Limits
    BY <2>1, <2>2, ConfigFields
  <2>4. Limits \subseteq Nat
    BY LimitInRange
  <2> QED
    BY <2>2, <2>3, <2>4, Zenon
<1>2. World
  BY WorldIsQuiet DEF ToolsInv, Serve
<1>3. ASSUME NEW c \in Calls PROVE CallInv(c, call[c])'
  <2>1. PICK k : k = call[c]
    OBVIOUS
  <2>2. CallInv(c, k)'
    BY <1>2, <2>1, CallStays DEF ToolsInv, Serve, lapi, CallInv, BanInv
  <2> QED
    BY <2>1, <2>2 DEF Serve
<1>4. setup' = None /\ call' = call
  BY DEF Serve
<1> QED
  BY <1>1, <1>2, <1>3, <1>4 DEF ToolsInv, World, ServerInv

LEMMA CallStep ==
  ASSUME ToolsInv, NEW c \in Calls, NEW in \in Inputs[c], Call(c, in)
  PROVE  ToolsInv'
<1> DEFINE plan == Plan(in)
           start == [call[c] EXCEPT !.input = in, !.plan = plan]
<1>1. World /\ ServerInv' /\ allowed' = allowed
  BY WorldIsQuiet DEF ToolsInv, Call, server, lapi, ServerInv
<1>2. /\ DOMAIN call[c] = CallFields /\ ~Started(call[c])
      /\ CallInv(c, call[c])
  BY DEF ToolsInv, CallInv, PlanInv, Call, Started
<1>3. CASE Step(c, [NoCall EXCEPT !.phase = "refused"])
  <2>1. PICK k : k = [NoCall EXCEPT !.phase = "refused"]
    OBVIOUS
  <2>2. CallInv(c, k)'
    BY <2>1 DEF NoCall, CallInv, PlanInv, DoneInv, NamedInv, BanInv, ListInv, CallFields,
                Started
  <2> QED
    BY <1>1, <1>3, <2>1, <2>2, OneCall
<1>4. ASSUME plan # Refused, NEW k,
             k = IF in.tool = "ban_ip"
                 THEN [start EXCEPT !.phase = plan.how, !.clear = plan.value \notin allowed]
                 ELSE [start EXCEPT !.phase = plan.how],
             Step(c, k)
      PROVE  ToolsInv'
  <2>1. PlanFits(in, plan)
    BY <1>4, PlansFit
  <2> HIDE DEF plan
  <2>2. /\ DOMAIN k = CallFields
        /\ k.input = in /\ k.plan = plan /\ k.phase = plan.how
        /\ k.found = {} /\ k.todo = {} /\ k.removed = {}
        /\ k.alert = None /\ k.report = None
        /\ in.tool = "ban_ip" => k.clear = (plan.value \notin allowed)
    BY <1>2, <1>4 DEF CallInv, DoneInv, NamedInv, BanInv, ListInv, CallFields, Started
  <2>3. PlanInv(c, k)'
    BY <1>4, <2>1, <2>2 DEF PlanInv, PlanFits, Started, plan
  <2>4. BanInv(k)'
    BY <1>1, <2>1, <2>2 DEF BanInv, PlanFits, Started
  <2>5. DoneInv(k)' /\ NamedInv(k)' /\ ListInv(k)'
    BY <2>1, <2>2 DEF DoneInv, NamedInv, ListInv, PlanFits
  <2> QED
    BY <1>1, <1>4, <2>3, <2>4, <2>5, OneCall DEF CallInv
<1> QED
  BY <1>3, <1>4 DEF Call

LEMMA FailureStep ==
  ASSUME ToolsInv, NEW c \in Calls, RequestFails(c)
  PROVE  ToolsInv'
<1>1. World /\ ServerInv' /\ allowed' = allowed
  BY WorldIsQuiet DEF ToolsInv, RequestFails, server, lapi, ServerInv
<1>2. PICK s : s = call[c]
  OBVIOUS
<1>3. CallInv(c, s)'
  BY <1>1, <1>2, CallStays DEF ToolsInv, CallInv, BanInv
<1>4. PICK k : k = [s EXCEPT !.phase = "failed"]
  OBVIOUS
<1>5. /\ DOMAIN k = CallFields /\ k.phase = "failed"
      /\ \A f \in CallFields \ {"phase"} : k[f] = s[f]
  BY <1>3, <1>4 DEF CallInv, PlanInv
<1>6. Started(s)
  BY <1>2 DEF RequestFails, Started
<1>7. CallInv(c, k)'
  BY <1>3, <1>5, <1>6 DEF CallInv, PlanInv, DoneInv, NamedInv, BanInv, ListInv, CallFields,
                          Started
<1> QED
  BY <1>1, <1>2, <1>4, <1>7, OneCall DEF RequestFails, Fails

LEMMA CheckStep ==
  ASSUME ToolsInv, NEW c \in Calls, CheckAllowlist(c)
  PROVE  ToolsInv'
<1>1. World /\ ServerInv' /\ allowed' = allowed
  BY WorldIsQuiet DEF ToolsInv, CheckAllowlist, server, lapi, ServerInv
<1>2. PICK s : s = call[c]
  OBVIOUS
<1>3. CallInv(c, s) /\ CallInv(c, s)' /\ s.phase = "check"
  BY <1>1, <1>2, CallStays DEF ToolsInv, CallInv, BanInv, CheckAllowlist
<1>4. PICK k : /\ Step(c, k)
               /\ \/ k = [s EXCEPT !.phase = "failed"]
                  \/ k = [s EXCEPT !.phase = "push"] /\ s.plan.value \notin allowed
  BY <1>2 DEF CheckAllowlist, Fails
<1>5. /\ DOMAIN k = CallFields
      /\ \A f \in CallFields \ {"phase"} : k[f] = s[f]
      /\ k.phase = "failed" \/ (k.phase = "push" /\ s.plan.value \notin allowed)
  BY <1>3, <1>4 DEF CallInv, PlanInv, CallFields
<1>6. CallInv(c, k)'
  BY <1>3, <1>5 DEF CallInv, PlanInv, DoneInv, NamedInv, BanInv, ListInv, CallFields, Started
<1> QED
  BY <1>1, <1>4, <1>6, OneCall

LEMMA PushStep ==
  ASSUME ToolsInv, NEW c \in Calls, PushAlert(c)
  PROVE  ToolsInv'
<1>1. PICK s : s = call[c]
  OBVIOUS
<1>2. CallInv(c, s) /\ s.phase = "push"
  BY <1>1 DEF ToolsInv, PushAlert
<1>3. PICK new : /\ new.id = Cardinality(alerts) + 1 /\ new.types = {s.plan.type}
                 /\ alerts' = alerts \cup {new}
                 /\ live' = live \cup {new.id}
                 /\ active' = active \cup DecisionsOf(new)
                 /\ Step(c, [s EXCEPT !.phase = "ok", !.alert = new.id])
  BY <1>1 DEF PushAlert
<1>4. /\ new \notin alerts /\ Cardinality(alerts) \in Nat
      /\ Cardinality(alerts') = Cardinality(alerts) + 1 /\ IsFiniteSet(alerts')
  BY <1>3, NewIdIsNew, FS_AddElement, FS_CardinalityType DEF ToolsInv, AlertsInv
<1>5. s.plan.type \in DecisionTypes
  BY <1>2, PlansFit DEF CallInv, PlanInv, PlanFits, Started
<1>6. AlertsInv'
  <2> DEFINE n == Cardinality(alerts)
  <2>1. n \in Nat /\ Cardinality(alerts') = n + 1 /\ new.id = n + 1
    BY <1>3, <1>4
  <2>2. \A a \in alerts : a.id \in 1..n /\ a.types \subseteq DecisionTypes
    BY DEF ToolsInv, AlertsInv
  <2> HIDE DEF n
  <2>3. \A a \in alerts' : a.id \in 1..(n + 1) /\ a.types \subseteq DecisionTypes
    BY <1>3, <1>5, <2>1, <2>2
  <2>4. \A a, b \in alerts' : a.id = b.id => a = b
    BY <1>3, <2>1, <2>2 DEF ToolsInv, AlertsInv
  <2> QED
    BY <1>4, <2>1, <2>3, <2>4 DEF AlertsInv
<1>7. World
  <2>1. ASSUME NEW x, Known(x), ~IsThere(x) PROVE ~IsThere(x)'
    <3>1. x.alert # new.id
      BY <1>3, <2>1, NewIdIsNew DEF Known, ToolsInv
    <3> QED
      BY <1>3, <2>1, <3>1 DEF IsThere, DecisionsOf
  <2> QED
    BY <1>3, <1>6, <2>1 DEF World
<1>8. ServerInv' /\ allowed' = allowed
  BY DEF PushAlert, server, ToolsInv, ServerInv
<1>9. CallInv(c, s)'
  BY <1>2, <1>7, CallStays
<1>10. PICK k : k = [s EXCEPT !.phase = "ok", !.alert = new.id]
  OBVIOUS
<1>11. /\ DOMAIN k = CallFields /\ k.phase = "ok"
       /\ \A f \in CallFields \ {"phase", "alert"} : k[f] = s[f]
  BY <1>2, <1>10 DEF CallInv, PlanInv, CallFields
<1>12. CallInv(c, k)'
  BY <1>2, <1>9, <1>11 DEF CallInv, PlanInv, DoneInv, NamedInv, BanInv, ListInv, CallFields,
                           Started
<1> QED
  BY <1>3, <1>7, <1>8, <1>10, <1>12, OneCall

-----------------------------------------------------------------------------
(* Deletions                                                               *)

LEMMA ValueIsNamed ==
  ASSUME AlertsInv, NEW in, NEW a \in alerts, NEW x, x.alert = a.id, NamedValue(in, a.value)
  PROVE  Named(in, x)
<1>1. AlertOf(x.alert) = a
  BY DEF AlertsInv, AlertOf
<1> QED
  BY <1>1 DEF Named

\* A narrow query matches alerts that the input named.
LEMMA MatchesAreNamed ==
  ASSUME AlertsInv, NEW in, NEW q, Narrow(in, q), NEW p,
         p.address = q.address, p.within = q.within, p.value = q.value,
         NEW a \in Matching(p), NEW x, x.alert = a.id
  PROVE  Known(x) /\ (in.confirm \/ Named(in, x))
<1>1. a \in alerts /\ Around(p, a.value) /\ p["value"] \in {None, a["value"]}
  BY DEF Matching
<1>2. Reaches(q, a.value)
  BY <1>1 DEF Reaches, Around
<1> QED
  BY <1>1, <1>2, ValueIsNamed DEF Narrow, Known

\* So does what a call asks to be deleted at once, or finds.
LEMMA AskedIsNamed ==
  ASSUME AlertsInv, NEW c, NEW q, DOMAIN q = QueryFields, Narrow(call[c].input, q),
         NEW x \in Asked(c, q) \cup IdsFound(c, Matching(q))
  PROVE  Known(x) /\ (call[c].input.confirm \/ Named(call[c].input, x))
<1>1. PICK p : p = [q EXCEPT !.active = None]
  OBVIOUS
<1>2. p.address = q.address /\ p.within = q.within /\ p.value = q.value
  BY <1>1 DEF QueryFields
<1>3. CASE x \in MatchingDecisions(q)
  <2>1. PICK a \in Matching(p) : x \in DecisionsOf(a)
    BY <1>1, <1>3 DEF MatchingDecisions
  <2> QED
    BY <1>2, <2>1, MatchesAreNamed DEF DecisionsOf
<1>4. CASE x \in {IdOf(a) : a \in Matching(q)} \cup UNION {DecisionsOf(a) : a \in Matching(q)}
  <2>1. PICK a \in Matching(q) : x.alert = a.id
    BY <1>4 DEF DecisionsOf, IdOf
  <2> QED
    BY <2>1, MatchesAreNamed
<1> QED
  BY <1>3, <1>4 DEF Asked, IdsFound

LEMMA TakeAwayEffect ==
  ASSUME ToolsInv, NEW c \in Calls, NEW ids, NEW k, TakeAway(c, ids, k)
  PROVE  /\ World /\ ServerInv' /\ allowed' = allowed
         /\ \A x \in ids : ~IsThere(x)'
         /\ Step(c, [k EXCEPT !.removed = @ \cup ids])
<1> DEFINE gone == {id.alert : id \in {x \in ids : x.type = None}}
<1>1. /\ live' = live \ gone
      /\ active' = {d \in active \ ids : d.alert \notin gone}
      /\ Step(c, [k EXCEPT !.removed = @ \cup ids])
      /\ UNCHANGED <<server, alerts, allowed, changes>>
  BY DEF TakeAway
<1>2. World
  BY <1>1, WorldLoses DEF ToolsInv
<1>3. \A x \in ids : ~IsThere(x)'
  BY <1>1 DEF IsThere
<1> QED
  BY <1>1, <1>2, <1>3 DEF ToolsInv, ServerInv, server

\* What a deletion did to its call: the ids are gone, and it may have been named.
LEMMA TakenIsNamed ==
  ASSUME ToolsInv, NEW c \in Calls, NEW s, s = call[c], NEW ids, NEW m, NEW k,
         TakeAway(c, ids, m),
         DOMAIN m = CallFields,
         \A f \in CallFields \ {"phase", "todo"} : m[f] = s[f],
         m.todo \subseteq s.todo,
         k = [m EXCEPT !.removed = @ \cup ids],
         Started(s), Started(m),
         m.phase \notin {"search", "direct", "id", "list", "read", "check", "push"},
         \A x \in ids : \/ s.input.confirm \/ x = s.input.id
                        \/ Known(x) /\ Named(s.input, x),
         DoneInv(k)'
  PROVE  ToolsInv'
<1>1. /\ World /\ ServerInv' /\ allowed' = allowed /\ Step(c, k)
      /\ CallInv(c, s)
  BY TakeAwayEffect DEF ToolsInv
<1>2. CallInv(c, s)'
  BY <1>1, CallStays DEF CallInv, BanInv
<1>3. /\ DOMAIN k = CallFields /\ k.phase = m.phase /\ k.todo = m.todo
      /\ \A f \in CallFields \ {"phase", "todo", "removed"} : k[f] = s[f]
      /\ k.removed = s.removed \cup ids
  BY DEF CallFields
<1>4. NamedInv(k)'
  <2>1. \A x \in ids : \/ s.input.confirm \/ x = s.input.id
                       \/ Known(x)' /\ Named(s.input, x)'
    BY <1>1, NamesStay
  <2> QED
    BY <1>2, <1>3, <2>1 DEF CallInv, NamedInv, Started, CallFields
<1>5. /\ PlanInv(c, k)' /\ BanInv(k)' /\ ListInv(k)'
  BY <1>2, <1>3 DEF CallInv, PlanInv, BanInv, ListInv, Started, CallFields
<1> QED
  BY <1>1, <1>4, <1>5, OneCall DEF CallInv

LEMMA DeleteMatchingStep ==
  ASSUME ToolsInv, NEW c \in Calls, DeleteMatching(c)
  PROVE  ToolsInv'
<1>1. PICK s : s = call[c]
  OBVIOUS
<1>2. PICK m : m = [s EXCEPT !.phase = "ok"]
  OBVIOUS
<1>3. PICK ids : ids = Asked(c, s.plan.query)
  OBVIOUS
<1>4. PICK k : k = [m EXCEPT !.removed = @ \cup ids]
  OBVIOUS
<1>5. s.phase = "direct" /\ TakeAway(c, ids, m) /\ CallInv(c, s)
  BY <1>1, <1>2, <1>3 DEF DeleteMatching, ToolsInv
<1>6. /\ DOMAIN m = CallFields /\ m.phase = "ok"
      /\ \A f \in CallFields \ {"phase"} : m[f] = s[f]
      /\ s.todo = {} /\ s.found = {}
  BY <1>2, <1>5 DEF CallInv, PlanInv, DoneInv, CallFields
<1>7. k.found = {} /\ k.todo = {} /\ k.phase = "ok"
  BY <1>4, <1>6 DEF CallFields
<1>8. \A x \in ids : Known(x) /\ (s.input.confirm \/ Named(s.input, x))
  <2>1. DOMAIN s.plan.query = QueryFields /\ Narrow(s.input, s.plan.query)
    BY <1>5, PlansFit DEF CallInv, PlanInv, PlanFits, Started
  <2> QED
    BY <1>1, <1>3, <2>1, AskedIsNamed DEF ToolsInv
<1>9. DoneInv(k)'
  BY <1>7 DEF DoneInv
<1> QED
  BY <1>1, <1>4, <1>5, <1>6, <1>8, <1>9, TakenIsNamed DEF Started, CallFields

LEMMA DeleteByIdStep ==
  ASSUME ToolsInv, NEW c \in Calls, DeleteById(c)
  PROVE  ToolsInv'
<1>1. PICK s : s = call[c]
  OBVIOUS
<1>2. s.phase = "id" /\ CallInv(c, s) /\ s.plan.id = s.input.id
  <2>1. s.phase = "id" /\ CallInv(c, s)
    BY <1>1 DEF DeleteById, ToolsInv
  <2> QED
    BY <2>1, PlansFit DEF CallInv, PlanInv, PlanFits, Started
<1>3. PICK ids, m : /\ TakeAway(c, ids, m) /\ ids \subseteq {s.plan.id}
                    /\ \/ m = [s EXCEPT !.phase = "ok"]
                       \/ m = [s EXCEPT !.phase = "failed"]
  BY <1>1 DEF DeleteById, Fails
<1>4. PICK k : k = [m EXCEPT !.removed = @ \cup ids]
  OBVIOUS
<1>5. /\ DOMAIN m = CallFields /\ m.phase \in {"ok", "failed"}
      /\ \A f \in CallFields \ {"phase"} : m[f] = s[f]
      /\ s.todo = {} /\ s.found = {}
  BY <1>2, <1>3 DEF CallInv, PlanInv, DoneInv, CallFields
<1>6. k.found = {} /\ k.todo = {} /\ k.phase \in {"ok", "failed"}
  BY <1>4, <1>5 DEF CallFields
<1>7. DoneInv(k)'
  BY <1>6 DEF DoneInv
<1> QED
  BY <1>1, <1>2, <1>3, <1>4, <1>5, <1>7, TakenIsNamed DEF Started, CallFields

\* A parallel deletion is answered: if well, what it was about is gone.
LEMMA DeleteOneStep ==
  ASSUME ToolsInv, NEW c \in Calls, NEW id \in call[c].todo, NEW ok \in BOOLEAN,
         DeleteOne(c, id, ok)
  PROVE  ToolsInv'
<1>1. PICK s : s = call[c]
  OBVIOUS
<1>2. CallInv(c, s) /\ s.phase \in {"deleting", "failed"} /\ Started(s)
  BY <1>1 DEF ToolsInv, CallInv, DoneInv, Started
<1>3. PICK ids : ids = IF ok /\ IsThere(id) THEN {id} ELSE {}
  OBVIOUS
<1>4. PICK m : m = [s EXCEPT !.todo = @ \ {id}, !.phase = Outcome(c, id, ok)]
  OBVIOUS
<1>5. PICK k : k = [m EXCEPT !.removed = @ \cup ids]
  OBVIOUS
<1>6. TakeAway(c, ids, m)
  BY <1>1, <1>3, <1>4 DEF DeleteOne
<1>7. /\ DOMAIN m = CallFields /\ m.todo = s.todo \ {id}
      /\ m.phase = Outcome(c, id, ok)
      /\ \A f \in CallFields \ {"phase", "todo"} : m[f] = s[f]
  BY <1>2, <1>4 DEF CallInv, PlanInv, CallFields
<1>8. /\ m.phase \in {"failed", "ok", "deleting"}
      /\ m.phase = "ok" => s.todo = {id}
      /\ m.phase \in {"ok", "deleting"} => ok /\ s.phase = "deleting"
  BY <1>1, <1>2, <1>7 DEF Outcome
<1>9. k.found = s.found /\ k.todo = s.todo \ {id} /\ k.phase = m.phase
  BY <1>5, <1>7 DEF CallFields
<1>10. World /\ (ok => ~IsThere(id)')
  <2>1. World /\ \A x \in ids : ~IsThere(x)'
    BY <1>6, TakeAwayEffect
  <2>2. Known(id)
    BY <1>1, <1>2 DEF CallInv, DoneInv
  <2> QED
    BY <1>3, <2>1, <2>2 DEF World
<1>11. DoneInv(s)'
  BY <1>2, <1>10, NamesStay DEF CallInv, DoneInv, World
<1>12. DoneInv(k)'
  BY <1>8, <1>9, <1>10, <1>11 DEF DoneInv
<1>13. \A x \in ids : \/ s.input.confirm \/ x = s.input.id
                      \/ Known(x) /\ Named(s.input, x)
  BY <1>1, <1>2, <1>3 DEF CallInv, NamedInv
<1> QED
  BY <1>1, <1>2, <1>5, <1>6, <1>7, <1>8, <1>12, <1>13, TakenIsNamed DEF Started

\* What a search was about is among what it found: all of it will be deleted.
LEMMA SearchStep ==
  ASSUME ToolsInv, NEW c \in Calls, SearchAnswered(c)
  PROVE  ToolsInv'
<1>1. World /\ ServerInv' /\ allowed' = allowed
  BY WorldIsQuiet DEF ToolsInv, SearchAnswered, server, lapi, ServerInv
<1>2. PICK s : s = call[c]
  OBVIOUS
<1>3. PICK q : q = s.plan.query
  OBVIOUS
<1>4. PICK ids : ids = IdsFound(c, Matching(q))
  OBVIOUS
<1>5. PICK k : k = [s EXCEPT !.phase = IF ids = {} THEN "ok" ELSE "deleting",
                             !.found = Asked(c, q), !.todo = ids]
  OBVIOUS
<1>6. s.phase = "search" /\ Step(c, k) /\ CallInv(c, s) /\ CallInv(c, s)'
  BY <1>1, <1>2, <1>3, <1>4, <1>5, CallStays DEF SearchAnswered, ToolsInv, CallInv, BanInv
<1>7. /\ DOMAIN k = CallFields /\ k.phase \in {"ok", "deleting"}
      /\ k.phase = "ok" => ids = {}
      /\ k.found = Asked(c, q) /\ k.todo = ids
      /\ \A f \in CallFields \ {"phase", "found", "todo"} : k[f] = s[f]
  BY <1>5, <1>6 DEF CallInv, PlanInv, CallFields
<1>8. /\ DOMAIN q = QueryFields /\ Narrow(s.input, q)
      /\ s.input.tool = "unban_ip" => q.active = TRUE
  BY <1>3, <1>6, PlansFit DEF CallInv, PlanInv, PlanFits, Started
<1>9. \A x \in k.found \cup k.todo : Known(x) /\ (s.input.confirm \/ Named(s.input, x))
  BY <1>2, <1>4, <1>7, <1>8, AskedIsNamed DEF ToolsInv
<1>10. k.found \subseteq k.todo
  <2>1. CASE ~Unbans(c)
    BY <1>4, <1>7, <2>1 DEF Asked, IdsFound
  <2>2. CASE Unbans(c)
    <3>1. q.active = TRUE
      BY <1>2, <1>8, <2>2 DEF Unbans
    <3>2. PICK p : p = [q EXCEPT !.active = None]
      OBVIOUS
    <3>3. ASSUME NEW d \in MatchingDecisions(q) PROVE d \in ids
      <4>1. PICK a \in Matching(p) : d \in DecisionsOf(a) /\ d \in active
        BY <3>2 DEF MatchingDecisions
      <4>2. \A f \in QueryFields \ {"active"} : p[f] = q[f]
        BY <1>8, <3>2 DEF QueryFields
      <4>3. a \in Matching(q)
        BY <3>1, <4>1, <4>2 DEF Matching, Around, QueryFields
      <4> QED
        BY <1>4, <2>2, <4>1, <4>3 DEF IdsFound
    <3> QED
      BY <1>7, <2>2, <3>3 DEF Asked
  <2> QED
    BY <2>1, <2>2
<1>11. DoneInv(k)'
  BY <1>1, <1>7, <1>9, <1>10, NamesStay DEF DoneInv
<1>12. NamedInv(k)'
  <2>1. \A x \in k.todo : Known(x)' /\ (s.input.confirm \/ Named(s.input, x)')
    BY <1>1, <1>9, NamesStay
  <2> QED
    BY <1>6, <1>7, <2>1 DEF CallInv, NamedInv, Started, CallFields
<1>13. PlanInv(c, k)' /\ BanInv(k)' /\ ListInv(k)'
  BY <1>6, <1>7 DEF CallInv, PlanInv, BanInv, ListInv, Started, CallFields
<1> QED
  BY <1>1, <1>6, <1>11, <1>12, <1>13, OneCall DEF CallInv

LEMMA ReadStep ==
  ASSUME ToolsInv, NEW c \in Calls, ReadAnswered(c)
  PROVE  ToolsInv'
<1>1. World /\ ServerInv' /\ allowed' = allowed
  BY WorldIsQuiet DEF ToolsInv, ReadAnswered, server, lapi, ServerInv
<1>2. PICK s : s = call[c]
  OBVIOUS
<1>3. PICK k : k = [s EXCEPT !.phase = "ok"]
  OBVIOUS
<1>4. s.phase = "read" /\ Step(c, k) /\ CallInv(c, s) /\ CallInv(c, s)'
  BY <1>1, <1>2, <1>3, CallStays DEF ReadAnswered, ToolsInv, CallInv, BanInv
<1>5. /\ DOMAIN k = CallFields /\ k.phase = "ok"
      /\ \A f \in CallFields \ {"phase"} : k[f] = s[f]
  BY <1>3, <1>4 DEF CallInv, PlanInv, CallFields
<1>6. CallInv(c, k)'
  BY <1>4, <1>5 DEF CallInv, PlanInv, DoneInv, NamedInv, BanInv, ListInv, CallFields, Started
<1> QED
  BY <1>1, <1>4, <1>6, OneCall

LEMMA ExpireStep ==
  ASSUME ToolsInv, NEW d, Expire(d)
  PROVE  ToolsInv'
<1>1. World
  BY WorldLoses DEF ToolsInv, Expire
<1>2. ASSUME NEW c \in Calls PROVE CallInv(c, call[c])'
  <2>1. PICK k : k = call[c]
    OBVIOUS
  <2>2. CallInv(c, k)'
    BY <1>1, <2>1, CallStays DEF ToolsInv, Expire, CallInv, BanInv
  <2> QED
    BY <2>1, <2>2 DEF Expire
<1> QED
  BY <1>1, <1>2 DEF ToolsInv, ServerInv, World, Expire, server

LEMMA AllowlistStep ==
  ASSUME ToolsInv, NEW v, AllowlistChanges(v)
  PROVE  ToolsInv'
<1>1. World
  BY WorldLoses DEF ToolsInv, AllowlistChanges
<1>2. ASSUME NEW c \in Calls PROVE CallInv(c, call[c])'
  <2>1. PICK s : s = call[c]
    OBVIOUS
  <2>2. PICK k : k = call'[c]
    OBVIOUS
  <2>3. CallInv(c, s)
    BY <2>1 DEF ToolsInv
  <2>4. \/ k = s /\ ~(s.phase \in {"check", "push"} /\ s.plan.value \notin allowed')
        \/ k = [s EXCEPT !.clear = TRUE]
    BY <2>1, <2>2 DEF AllowlistChanges
  <2>5. /\ DOMAIN k = CallFields
        /\ \A f \in CallFields \ {"clear"} : k[f] = s[f]
        /\ k.clear = TRUE \/ k.clear = s.clear
        /\ k.phase = "check" /\ k.plan.value \notin allowed' => k.clear = TRUE
    BY <2>3, <2>4 DEF CallInv, PlanInv, CallFields
  <2>6. CallInv(c, k)
    <3>1. BanInv(k)
      BY <2>3, <2>5 DEF CallInv, BanInv, CallFields, Started
    <3> QED
      BY <2>3, <2>5, <3>1 DEF CallInv, PlanInv, DoneInv, NamedInv, ListInv, CallFields,
                              Started
  <2>7. CallInv(c, k)'
    BY <1>1, <2>5, <2>6, CallStays
  <2> QED
    BY <2>2, <2>7
<1>3. call' = [c \in Calls |-> call'[c]] /\ ServerInv'
  BY DEF AllowlistChanges, ToolsInv, ServerInv, server
<1> QED
  BY <1>1, <1>2, <1>3 DEF ToolsInv, World

-----------------------------------------------------------------------------
(* Lists                                                                   *)

LEMMA TypesFinite == IsFiniteSet(DecisionTypes)
<1>1. DecisionTypes = {"ban"} \cup {"captcha"} \cup {"throttle"}
  BY DEF DecisionTypes
<1> QED
  BY <1>1, FS_Singleton, FS_Union

\* Finitely many alerts decide finitely many things.
LEMMA DecisionsFinite ==
  ASSUME AlertsInv, NEW S \in SUBSET alerts
  PROVE  IsFiniteSet(UNION {DecisionsOf(a) : a \in S})
<1> DEFINE D == UNION {DecisionsOf(a) : a \in S}
           n == Cardinality(alerts)
           f == [d \in D |-> <<d.alert, d.type>>]
<1>1. n \in Nat
  BY FS_CardinalityType DEF AlertsInv
<1>2. \A a \in alerts : a.id \in 1..n /\ a.types \subseteq DecisionTypes
  BY DEF AlertsInv
<1> HIDE DEF n
<1>3. IsFiniteSet((1..n) \X DecisionTypes)
  <2>1. IsFiniteSet(1..n)
    BY <1>1, FS_Interval
  <2> QED
    BY <2>1, TypesFinite, FS_Product
<1>4. \A d \in D : /\ d.alert \in 1..n /\ d.type \in DecisionTypes
                   /\ d = [alert |-> d.alert, type |-> d.type]
  BY <1>2 DEF DecisionsOf
<1> HIDE DEF D
<1>5. f \in [D -> (1..n) \X DecisionTypes]
  BY <1>4
<1>6. \A d, e \in D : f[d] = f[e] => d = e
  BY <1>4
<1>7. f \in Injection(D, (1..n) \X DecisionTypes)
  BY <1>5, <1>6 DEF Injection, IsInjective
<1> QED
  BY <1>3, <1>7, FS_Injection DEF D

LEMMA MatchingFinite ==
  ASSUME AlertsInv, NEW q
  PROVE  /\ Matching(q) \subseteq alerts /\ IsFiniteSet(Matching(q))
         /\ IsFiniteSet(MatchingDecisions(q))
<1>1. \A p : Matching(p) \subseteq alerts
  BY DEF Matching
<1>2. IsFiniteSet(Matching(q))
  BY <1>1, FS_Subset DEF AlertsInv
<1>3. PICK p : p = [q EXCEPT !.active = None]
  OBVIOUS
<1>4. MatchingDecisions(q) \subseteq UNION {DecisionsOf(a) : a \in Matching(p)}
  BY <1>3 DEF MatchingDecisions
<1>5. IsFiniteSet(UNION {DecisionsOf(a) : a \in Matching(p)})
  BY <1>1, DecisionsFinite
<1> QED
  BY <1>1, <1>2, <1>4, <1>5, FS_Subset

\* Alerts with a decision in force give a row each at least.
LEMMA RowsAtLeast ==
  ASSUME AlertsInv, NEW S \in SUBSET alerts, \A a \in S : DecisionsOf(a) \cap active # {}
  PROVE  IsFiniteSet(Rows(S)) /\ Cardinality(S) <= Cardinality(Rows(S))
<1> DEFINE f == [a \in S |-> CHOOSE d \in DecisionsOf(a) : d \in active]
<1>1. IsFiniteSet(Rows(S))
  <2>1. IsFiniteSet(UNION {DecisionsOf(a) : a \in S})
    BY DecisionsFinite
  <2>2. Rows(S) \subseteq UNION {DecisionsOf(a) : a \in S}
    BY DEF Rows
  <2> QED
    BY <2>1, <2>2, FS_Subset
<1>2. \A a \in S : f[a] \in DecisionsOf(a) /\ f[a] \in active
  OBVIOUS
<1>3. f \in [S -> Rows(S)]
  BY <1>2 DEF Rows
<1>4. \A a, b \in S : f[a] = f[b] => a = b
  <2>1. \A a \in S : f[a].alert = a.id
    BY <1>2 DEF DecisionsOf
  <2> QED
    BY <2>1 DEF AlertsInv
<1> HIDE DEF f
<1>5. f \in Injection(S, Rows(S))
  BY <1>3, <1>4 DEF Injection, IsInjective
<1> QED
  BY <1>1, <1>5, FS_Injection

LEMMA AtMostFits ==
  ASSUME NEW n \in Nat, NEW bound \in Nat
  PROVE  /\ AtMost(n, bound) \in Nat
         /\ AtMost(n, bound) <= n
         /\ n <= AtMost(n, bound) => AtMost(n, bound) = n
         /\ AtMost(n, bound) = n \/ AtMost(n, bound) = bound
BY DEF AtMost

\* A list shows everything, or hints at the rest.
LEMMA ListHonest ==
  ASSUME ToolsInv, NEW c \in Calls, NEW s, s = call[c], s.phase = "list",
         NEW q, q = s.plan.query, NEW found \in SUBSET Matching(q),
         Cardinality(found) = FetchLimit(s.input, Cardinality(Matching(q))),
         NEW rows, rows = RowsOf(c, found),
         NEW shown,
         shown = IF s.input.all THEN rows ELSE AtMost(rows, DisplayLimit(s.input)),
         NEW hint,
         hint = IF mode = "bouncer" THEN rows > shown ELSE Hinted(s.input, rows, shown)
  PROVE  hint \/ shown = RowsOf(c, Matching(q))
<1>1. /\ s.input \in Inputs[c]
      /\ s.input.tool \in {"list_decisions", "list_alerts"}
      /\ s.input.tool = "list_decisions" => q.active = TRUE
  <2>1. PlanInv(c, s)
    BY DEF ToolsInv, CallInv
  <2> QED
    BY <2>1, PlansFit DEF PlanInv, PlanFits, Started
<1>2. /\ AlertsInv /\ limit \in Nat
      /\ Matching(q) \subseteq alerts /\ IsFiniteSet(Matching(q))
      /\ IsFiniteSet(MatchingDecisions(q))
      /\ IsFiniteSet(found) /\ found \in SUBSET alerts
  BY MatchingFinite, FS_Subset DEF ToolsInv, ServerInv
<1>3. DisplayLimit(s.input) \in Nat
  BY <1>1, <1>2, InputsAssumption DEF DisplayLimit
<1>4. rows \in Nat
  <2>1. IsFiniteSet(Rows(found))
    <3>1. IsFiniteSet(UNION {DecisionsOf(a) : a \in found})
      BY <1>2, DecisionsFinite
    <3>2. Rows(found) \subseteq UNION {DecisionsOf(a) : a \in found}
      BY DEF Rows
    <3> QED
      BY <3>1, <3>2, FS_Subset
  <2>2. /\ Cardinality(found) \in Nat /\ Cardinality(Rows(found)) \in Nat
        /\ Cardinality(MatchingDecisions(q)) \in Nat
    BY <1>2, <2>1, FS_CardinalityType
  <2> QED
    BY <2>2 DEF RowsOf
<1>5. ASSUME found = Matching(q) PROVE hint \/ shown = rows
  <2>1. CASE s.input.all
    BY <2>1
  <2>2. CASE ~s.input.all
    <3>1. shown \in Nat /\ (rows <= shown => shown = rows)
      BY <1>3, <1>4, <2>2, AtMostFits
    <3>2. rows > shown => hint
      BY DEF Hinted
    <3> QED
      BY <1>4, <3>1, <3>2
  <2> QED
    BY <2>1, <2>2
<1>6. CASE Cardinality(found) = Cardinality(Matching(q))
  <2>1. found = Matching(q)
    BY <1>2, <1>6, FS_Subset
  <2> QED
    BY <1>5, <2>1
<1>7. CASE Cardinality(found) # Cardinality(Matching(q))
  <2>1. ~s.input.all /\ s.input.limit = None /\ mode # "bouncer"
    BY <1>7 DEF FetchLimit
  <2>2. Cardinality(found) = limit
    BY <1>7, <2>1 DEF FetchLimit, AtMost
  <2>3. rows >= limit
    <3>1. CASE s.input.tool = "list_alerts"
      BY <1>2, <2>2, <3>1 DEF RowsOf
    <3>2. CASE s.input.tool = "list_decisions"
      <4>1. \A a \in found : DecisionsOf(a) \cap active # {}
        BY <1>1, <3>2 DEF Matching
      <4>2. Cardinality(found) <= Cardinality(Rows(found))
        BY <1>2, <4>1, RowsAtLeast
      <4>3. rows = Cardinality(Rows(found))
        BY <2>1, <3>2 DEF RowsOf
      <4> QED
        BY <1>2, <1>4, <2>2, <4>2, <4>3
    <3> QED
      BY <1>1, <3>1, <3>2
  <2> QED
    BY <2>1, <2>3 DEF Hinted
<1> QED
  BY <1>6, <1>7

LEMMA ListStep ==
  ASSUME ToolsInv, NEW c \in Calls, ListAnswered(c)
  PROVE  ToolsInv'
<1>1. World /\ ServerInv' /\ allowed' = allowed
  BY WorldIsQuiet DEF ToolsInv, ListAnswered, server, lapi, ServerInv
<1>2. PICK s : s = call[c]
  OBVIOUS
<1>3. PICK q : q = s.plan.query
  OBVIOUS
<1>4. s.phase = "list" /\ CallInv(c, s) /\ CallInv(c, s)'
  BY <1>1, <1>2, CallStays DEF ListAnswered, ToolsInv, CallInv, BanInv
<1>5. PICK found, rows, shown, hint :
        /\ found \in SUBSET Matching(q)
        /\ Cardinality(found) = FetchLimit(s.input, Cardinality(Matching(q)))
        /\ rows = RowsOf(c, found)
        /\ shown = IF s.input.all THEN rows ELSE AtMost(rows, DisplayLimit(s.input))
        /\ hint = IF mode = "bouncer" THEN rows > shown ELSE Hinted(s.input, rows, shown)
        /\ Step(c, [s EXCEPT !.phase = "ok",
             !.report = [shown |-> shown, hint |-> hint, total |-> RowsOf(c, Matching(q))]])
  <2> DEFINE Shown(r) == IF s.input.all THEN r ELSE AtMost(r, DisplayLimit(s.input))
             Hint(r) == IF mode = "bouncer" THEN r > Shown(r)
                        ELSE Hinted(s.input, r, Shown(r))
  <2>1. PICK found :
          /\ found \in {t \in SUBSET Matching(q) :
                         Cardinality(t) = FetchLimit(s.input, Cardinality(Matching(q)))}
          /\ Step(c, [s EXCEPT !.phase = "ok",
               !.report = [shown |-> Shown(RowsOf(c, found)), hint |-> Hint(RowsOf(c, found)),
                           total |-> RowsOf(c, Matching(q))]])
    BY <1>2, <1>3, Zenon DEF ListAnswered
  <2>2. PICK rows : rows = RowsOf(c, found)
    OBVIOUS
  <2>3. PICK shown, hint : shown = Shown(rows) /\ hint = Hint(rows)
    OBVIOUS
  <2> QED
    BY <2>1, <2>2, <2>3, Zenon
<1>6. PICK report : report = [shown |-> shown, hint |-> hint,
                              total |-> RowsOf(c, Matching(q))]
  OBVIOUS
<1>7. PICK k : k = [s EXCEPT !.phase = "ok", !.report = report]
  OBVIOUS
<1>8. report.hint \/ report.shown = report.total
  BY <1>2, <1>3, <1>4, <1>5, <1>6, ListHonest
<1>9. /\ DOMAIN k = CallFields /\ k.phase = "ok" /\ k.report = report
      /\ \A f \in CallFields \ {"phase", "report"} : k[f] = s[f]
  BY <1>4, <1>7 DEF CallInv, PlanInv, CallFields
<1>10. CallInv(c, k)'
  BY <1>4, <1>8, <1>9 DEF CallInv, PlanInv, DoneInv, NamedInv, BanInv, ListInv, CallFields,
                          Started
<1> QED
  BY <1>1, <1>5, <1>6, <1>7, <1>10, OneCall

-----------------------------------------------------------------------------
(* The theorems                                                            *)

LEMMA ToolsInvStep ==
  ASSUME ToolsInv, [Next]_vars
  PROVE  ToolsInv'
<1>1. CASE Next
  <2>1. CASE Serve
    BY <2>1, ServeStep
  <2>2. ASSUME NEW c \in Calls, NEW in \in Inputs[c], Call(c, in) PROVE ToolsInv'
    BY <2>2, CallStep
  <2>3. ASSUME NEW c \in Calls, RequestFails(c) PROVE ToolsInv'
    BY <2>3, FailureStep
  <2>4. ASSUME NEW c \in Calls, CheckAllowlist(c) PROVE ToolsInv'
    BY <2>4, CheckStep
  <2>5. ASSUME NEW c \in Calls, PushAlert(c) PROVE ToolsInv'
    BY <2>5, PushStep
  <2>6. ASSUME NEW c \in Calls, DeleteMatching(c) PROVE ToolsInv'
    BY <2>6, DeleteMatchingStep
  <2>7. ASSUME NEW c \in Calls, DeleteById(c) PROVE ToolsInv'
    BY <2>7, DeleteByIdStep
  <2>8. ASSUME NEW c \in Calls, SearchAnswered(c) PROVE ToolsInv'
    BY <2>8, SearchStep
  <2>9. ASSUME NEW c \in Calls, NEW id \in call[c].todo, NEW ok \in BOOLEAN,
               DeleteOne(c, id, ok)
        PROVE  ToolsInv'
    BY <2>9, DeleteOneStep
  <2>10. ASSUME NEW c \in Calls, ListAnswered(c) PROVE ToolsInv'
    BY <2>10, ListStep
  <2>11. ASSUME NEW c \in Calls, ReadAnswered(c) PROVE ToolsInv'
    BY <2>11, ReadStep
  <2>12. ASSUME NEW d \in active, Expire(d) PROVE ToolsInv'
    BY <2>12, ExpireStep
  <2>13. ASSUME NEW v \in Ips \cup Ranges, AllowlistChanges(v) PROVE ToolsInv'
    BY <2>13, AllowlistStep
  <2> QED
    BY <1>1, <2>1, <2>2, <2>3, <2>4, <2>5, <2>6, <2>7, <2>8, <2>9, <2>10, <2>11, <2>12,
       <2>13 DEF Next
<1>2. CASE UNCHANGED vars
  <2>1. UNCHANGED <<setup, limit, lapi, call>>
    BY <1>2 DEF vars, server
  <2>2. World
    BY <2>1, WorldIsQuiet DEF ToolsInv
  <2>3. ASSUME NEW c \in Calls PROVE CallInv(c, call[c])'
    <3>1. PICK k : k = call[c]
      OBVIOUS
    <3>2. CallInv(c, k)'
      BY <2>1, <2>2, <3>1, CallStays DEF ToolsInv, lapi, CallInv, BanInv
    <3> QED
      BY <2>1, <3>1, <3>2
  <2> QED
    BY <2>1, <2>2, <2>3 DEF ToolsInv, World, ServerInv
<1> QED
  BY <1>1, <1>2

\* What McpToolsProofs rests on: with any number of calls at work, and the LAPI
\* changing meanwhile, each holds what it promised so far.
THEOREM ToolsInvariant == Spec => []ToolsInv
<1> QED
  BY InitInv, ToolsInvStep, PTL DEF Spec

\* A deletion that says "ok" left nothing of what it was asked for, however its
\* requests, those of others and expirations are interleaved (deleteDecisionIds,
\* deleteAlertIds).
THEOREM DeletionsAreDone == Spec => []ReportedIsDone
<1>1. ToolsInv => ReportedIsDone
  BY DEF ToolsInv, CallInv, DoneInv, ReportedIsDone
<1> QED
  BY <1>1, ToolsInvariant, PTL

\* No unconfirmed deletion touches what its input did not name, whatever the
\* input: the checks of the filters and the queries made of them agree
\* (validateUnbanTargets, normalizeDeleteInput, unban_ip, delete_alerts).
THEOREM DeletionsAreNamed == Spec => []RemovesOnlyNamed
<1>1. ToolsInv => RemovesOnlyNamed
  BY DEF ToolsInv, CallInv, NamedInv, RemovesOnlyNamed, Named
<1> QED
  BY <1>1, ToolsInvariant, PTL

\* Nothing is banned without "force" that was on an allowlist throughout the
\* call, whichever way its target was written (resolveBanTarget, ensureBanAllowed).
THEOREM BansAreSpared == Spec => []BansSpareAllowlist
<1>1. ToolsInv => BansSpareAllowlist
  BY DEF ToolsInv, CallInv, BanInv, BansSpareAllowlist
<1> QED
  BY <1>1, ToolsInvariant, PTL

\* A list that is not whole says so, for any limits and any number of alerts and
\* decisions, whichever the LAPI sends (resolveListWindow, truncateRows).
THEOREM ListsAreHonest == Spec => []ListIsHonest
<1>1. ToolsInv => ListIsHonest
  BY DEF ToolsInv, CallInv, ListInv, ListIsHonest
<1> QED
  BY <1>1, ToolsInvariant, PTL

-----------------------------------------------------------------------------
(* What the server serves                                                  *)

LEMMA ModeIsServed ==
  ASSUME [Next]_vars, mode # mode'
  PROVE  Serve
<1>1. \A c \in Calls : \A in \in Inputs[c] : Call(c, in) => UNCHANGED server
  BY DEF Call
<1>2. \A c, ids, k : TakeAway(c, ids, k) => UNCHANGED server
  BY DEF TakeAway
<1>3. \A c \in Calls : RequestFails(c) \/ CheckAllowlist(c) \/ PushAlert(c) => UNCHANGED server
  BY DEF RequestFails, CheckAllowlist, PushAlert
<1>4. \A c \in Calls : DeleteMatching(c) \/ DeleteById(c) => UNCHANGED server
  BY <1>2 DEF DeleteMatching, DeleteById
<1>5. \A c, id, ok : DeleteOne(c, id, ok) => UNCHANGED server
  BY <1>2 DEF DeleteOne
<1>6. \A c \in Calls : SearchAnswered(c) \/ ReadAnswered(c) => UNCHANGED server
  BY DEF SearchAnswered, ReadAnswered
<1>7. \A c \in Calls : ListAnswered(c) => UNCHANGED server
  BY Zenon DEF ListAnswered
<1>8. \A x : Expire(x) \/ AllowlistChanges(x) => UNCHANGED server
  BY DEF Expire, AllowlistChanges
<1>9. ~UNCHANGED server /\ ~UNCHANGED vars
  BY DEF vars, server
<1> QED
  BY <1>1, <1>3, <1>4, <1>5, <1>6, <1>7, <1>8, <1>9 DEF Next

\* A flag that was given, on the command line or in the environment.
Given(flag, value) == flag \/ value = TRUE

LEMMA FlagIsGiven ==
  ASSUME NEW flag \in BOOLEAN, NEW value \in {None, Junk} \cup BOOLEAN,
         ReadBooleanOption(flag, value, FALSE) # Refused
  PROVE  /\ ReadBooleanOption(flag, value, FALSE) \in BOOLEAN
         /\ ReadBooleanOption(flag, value, FALSE) = TRUE <=> Given(flag, value)
<1>1. CASE flag = TRUE
  BY <1>1 DEF ReadBooleanOption, Given
<1>2. CASE flag = FALSE /\ value = None
  BY <1>2, OptionsAssumption DEF ReadBooleanOption, ReadBoolean, Given
<1>3. CASE flag = FALSE /\ value # None
  <2>1. value # Junk /\ value \in BOOLEAN
    BY <1>3 DEF ReadBooleanOption, ReadBoolean
  <2> QED
    BY <1>3, <2>1 DEF ReadBooleanOption, ReadBoolean, Given
<1> QED
  BY <1>1, <1>2, <1>3

\* What main() served from, as the options have it.
Serves(config, cli, env) ==
  /\ {cli.passthrough, cli.write, cli.readonly, cli.enableAlertDelete, cli.withoutToken}
       \subseteq BOOLEAN
  /\ {env.passthrough, env.readonly, env.enableAlertDelete, env.withoutToken}
       \subseteq {None, Junk} \cup BOOLEAN
  /\ Configures(config, cli, env)
  /\ {config.passthrough, config.enableAlertDelete, config.withoutToken} \subseteq BOOLEAN
  /\ config.passthrough = TRUE <=> Given(cli.passthrough, env.passthrough)
  /\ config.enableAlertDelete = TRUE <=> Given(cli.enableAlertDelete, env.enableAlertDelete)
  /\ config.withoutToken = TRUE <=> Given(cli.withoutToken, env.withoutToken)
  /\ mode' \in {"bouncer", "watcher"}
  /\ config.passthrough = FALSE => mode' = config.auth
  /\ ValidCredentials(config.auth, env.apiKey, env.machineId, env.password,
                      config.passthrough, config.tls)
  /\ ValidHttpToken(config.transport, config.token, config.passthrough)
  /\ config.transport # Refused /\ config.tls # Refused /\ config.readonly # Refused
  /\ ~(cli.readonly /\ cli.write)
  /\ served' = SelectTools(config, mode') /\ served' # Refused
  /\ told' = Guide(config, mode')
  /\ limit' \in Limits

LEMMA ServeIsConfigured ==
  ASSUME ServerInv, Serve
  PROVE  \E config : Serves(config, setup.cli, setup.env)
<1>1. PICK cli, env : cli = setup.cli /\ env = setup.env
  OBVIOUS
<1>2. PICK config : config = LoadConfig(cli, env)
  OBVIOUS
<1>3. /\ config # Refused
      /\ mode' \in IF config.passthrough THEN {"bouncer", "watcher"} ELSE {config.auth}
      /\ served' = SelectTools(config, mode') /\ served' # Refused
      /\ told' = Guide(config, mode')
      /\ limit' = config.maxResults
  BY <1>1, <1>2 DEF Serve
<1>4. /\ Configures(config, cli, env)
      /\ \A f \in {"auth", "passthrough", "tls", "transport", "readonly",
                   "enableAlertDelete", "withoutToken"} : config[f] # Refused
      /\ ValidCredentials(config.auth, env.apiKey, env.machineId, env.password,
                          config.passthrough, config.tls)
      /\ ValidHttpToken(config.transport, config.token, config.passthrough)
      /\ ~(cli.readonly /\ cli.write)
      /\ config.maxResults \in Limits
  BY <1>2, <1>3, ConfigFields
<1>5. setup \in Options
  BY DEF ServerInv, Serve
<1>6. /\ {cli.passthrough, cli.write, cli.readonly, cli.enableAlertDelete,
          cli.withoutToken} \subseteq BOOLEAN
      /\ {env.passthrough, env.readonly, env.enableAlertDelete, env.withoutToken}
           \subseteq {None, Junk} \cup BOOLEAN
  BY <1>1, <1>5, OptionsAssumption
<1>7. /\ {config.passthrough, config.enableAlertDelete, config.withoutToken} \subseteq BOOLEAN
      /\ config.passthrough = TRUE <=> Given(cli.passthrough, env.passthrough)
      /\ config.enableAlertDelete = TRUE <=> Given(cli.enableAlertDelete, env.enableAlertDelete)
      /\ config.withoutToken = TRUE <=> Given(cli.withoutToken, env.withoutToken)
  BY <1>4, <1>6, FlagIsGiven DEF Configures
<1>8. config.auth \in {"bouncer", "watcher"}
  BY <1>4 DEF Configures, ResolveAuth
<1>9. mode' \in {"bouncer", "watcher"} /\ (config.passthrough = FALSE => mode' = config.auth)
  BY <1>3, <1>7, <1>8
<1>10. /\ config.transport # Refused /\ config.tls # Refused /\ config.readonly # Refused
       /\ limit' \in Limits
  BY <1>3, <1>4
<1>11. Serves(config, cli, env)
  BY <1>3, <1>4, <1>6, <1>7, <1>9, <1>10 DEF Serves
<1> QED
  BY <1>1, <1>11

\* The tools that write are offered to those that asked for them.
LEMMA WritersAreAsked ==
  ASSUME NEW cli, NEW env, NEW config, Serves(config, cli, env)
  PROVE  served' \cap WriteTools # {} =>
           /\ mode' = "watcher" /\ ~cli.readonly
           /\ cli.write \/ env.readonly = FALSE
<1>1. ASSUME NEW tool \in served' \cap WriteTools
      PROVE  mode' = "watcher" /\ ~config.readonly
  <2>1. tool \in SelectTools(config, mode') /\ SelectTools(config, mode') # Refused
    BY DEF Serves
  <2>2. /\ config.readonly => tool \notin WriteTools
        /\ mode' # "watcher" => tool \notin WatcherTools
    BY <2>1 DEF SelectTools
  <2> QED
    BY <1>1, <2>2 DEF WriteTools, WatcherTools, Tools
<1>2. /\ config.readonly = ResolveReadonly(cli, env)
      /\ ResolveReadonly(cli, env) # Refused
      /\ ~(cli.readonly /\ cli.write)
  BY DEF Serves, Configures
<1>3. /\ cli.write \in BOOLEAN /\ cli.readonly \in BOOLEAN
      /\ env.readonly \in {None, Junk} \cup BOOLEAN
  BY DEF Serves
<1>4. ResolveReadonly(cli, env) \in BOOLEAN
  <2>1. CASE cli.write \/ cli.readonly
    BY <2>1 DEF ResolveReadonly
  <2>2. CASE ~cli.write /\ ~cli.readonly
    BY <1>2, <1>3, <2>2 DEF ResolveReadonly, ReadBoolean
  <2> QED
    BY <2>1, <2>2
<1>5. ResolveReadonly(cli, env) = FALSE =>
        ~cli.readonly /\ (cli.write \/ env.readonly = FALSE)
  <2>1. CASE cli.write
    BY <1>2, <1>3, <2>1
  <2>2. CASE ~cli.write /\ cli.readonly
    BY <2>2 DEF ResolveReadonly
  <2>3. CASE ~cli.write /\ ~cli.readonly
    <3>1. ResolveReadonly(cli, env) = ReadBoolean(env.readonly, TRUE)
      BY <2>3, Zenon DEF ResolveReadonly
    <3>2. ReadBoolean(env.readonly, TRUE) \in {TRUE, Refused, env.readonly}
      BY Zenon DEF ReadBoolean
    <3> QED
      BY <1>2, <2>3, <3>1, <3>2, Zenon
  <2> QED
    BY <2>1, <2>2, <2>3
<1>6. ASSUME NEW tool \in served' \cap WriteTools
      PROVE  mode' = "watcher" /\ ResolveReadonly(cli, env) = FALSE
  BY <1>1, <1>2, <1>4
<1> QED
  BY <1>5, <1>6

\* What an HTTP server asks for, and what the other settings imply.
LEMMA SettingsAreAsked ==
  ASSUME NEW cli, NEW env, NEW config, Serves(config, cli, env)
  PROVE  LET http == "http" = FirstDefined(cli.transport, env.transport)
             token == cli.httpToken # None \/ env.httpToken # None
             passthrough == Given(cli.passthrough, env.passthrough)
         IN  /\ http <=> config.transport = "http"
             /\ token <=> config.token # None
             /\ http => token \/ passthrough
             /\ passthrough => http
             /\ ~passthrough /\ env.tls # {"cert", "key", "ca"} =>
                  IF mode' = "bouncer" THEN env.apiKey # None
                  ELSE env.machineId # None /\ env.password # None
<1> DEFINE requested == FirstDefined(cli.transport, env.transport)
<1>1. /\ config.transport = ResolveTransport(requested, config.passthrough)
      /\ config.transport # Refused
      /\ config.passthrough \in BOOLEAN
      /\ config.passthrough = TRUE <=> Given(cli.passthrough, env.passthrough)
      /\ config.tls = ResolveTls(env.tls) /\ config.tls # Refused
      /\ config.passthrough = FALSE => mode' = config.auth
      /\ ValidCredentials(config.auth, env.apiKey, env.machineId, env.password,
                          config.passthrough, config.tls)
      /\ ValidHttpToken(config.transport, config.token, config.passthrough)
      /\ config.token = FirstDefined(cli.httpToken, env.httpToken)
  BY DEF Serves, Configures
<1> HIDE DEF requested
<1>2. /\ config.transport = "http" <=> requested = "http"
      /\ config.passthrough = TRUE => requested = "http"
  BY <1>1, OptionsAssumption DEF ResolveTransport
<1>3. config.token # None <=> cli.httpToken # None \/ env.httpToken # None
  BY <1>1 DEF FirstDefined
<1>4. config.transport = "http" => config.token # None \/ config.passthrough = TRUE
  BY <1>1 DEF ValidHttpToken
<1>5. config.passthrough = FALSE /\ env.tls # {"cert", "key", "ca"} =>
        IF mode' = "bouncer" THEN env.apiKey # None
        ELSE env.machineId # None /\ env.password # None
  BY <1>1 DEF ValidCredentials, ResolveTls
<1> QED
  BY <1>1, <1>2, <1>3, <1>4, <1>5 DEF requested

LEMMA AlertDeleteIsAsked ==
  ASSUME NEW cli, NEW env, NEW config, Serves(config, cli, env)
  PROVE  "delete_alerts" \in served' =>
           /\ Given(cli.enableAlertDelete, env.enableAlertDelete)
           /\ config.transport = "http" =>
                config.token # None \/ Given(cli.withoutToken, env.withoutToken)
<1>1. "delete_alerts" \in served' => IsAlertDeleteAvailable(config)
  BY DEF Serves, SelectTools
<1> QED
  BY <1>1 DEF Serves, IsAlertDeleteAvailable

\* The settings that a server came to serve with had asked for it, whatever they
\* were: how the flags and variables combine, and the refusals (loadConfig,
\* selectTools, isAlertDeleteAvailable).
THEOREM ServedAsAsked == Spec => ServesAsAsked
<1>1. ASSUME ToolsInv, [Next]_vars, mode # mode'
      PROVE  AsAsked(setup.cli, setup.env)
  <2>1. PICK cli, env : cli = setup.cli /\ env = setup.env
    OBVIOUS
  <2>2. PICK config : Serves(config, cli, env)
    BY <1>1, <2>1, ModeIsServed, ServeIsConfigured DEF ToolsInv
  <2>3. served' \cap WriteTools # {} =>
          mode' = "watcher" /\ ~cli.readonly /\ (cli.write \/ env.readonly = FALSE)
    BY <2>2, WritersAreAsked
  <2>6. "delete_alerts" \in served' =>
          /\ Given(cli.enableAlertDelete, env.enableAlertDelete)
          /\ config.transport = "http" =>
               config.token # None \/ Given(cli.withoutToken, env.withoutToken)
    BY <2>2, AlertDeleteIsAsked
  <2>4. limit' \in 1..10000
    <3>1. limit' \in Limits
      BY <2>2 DEF Serves
    <3> QED
      BY <3>1, SMTT(20) DEF Limits
  <2>5. AsAsked(cli, env)
    <3>1. /\ "http" = FirstDefined(cli.transport, env.transport) <=>
               config.transport = "http"
          /\ cli.httpToken # None \/ env.httpToken # None <=> config.token # None
          /\ "http" = FirstDefined(cli.transport, env.transport) =>
               \/ cli.httpToken # None \/ env.httpToken # None
               \/ Given(cli.passthrough, env.passthrough)
          /\ Given(cli.passthrough, env.passthrough) =>
               "http" = FirstDefined(cli.transport, env.transport)
          /\ ~Given(cli.passthrough, env.passthrough) /\ env.tls # {"cert", "key", "ca"} =>
               IF mode' = "bouncer" THEN env.apiKey # None
               ELSE env.machineId # None /\ env.password # None
      BY <2>2, SettingsAreAsked
    <3>2. "delete_alerts" \in served' =>
            /\ Given(cli.enableAlertDelete, env.enableAlertDelete)
            /\ "http" = FirstDefined(cli.transport, env.transport) =>
                 \/ cli.httpToken # None \/ env.httpToken # None
                 \/ Given(cli.withoutToken, env.withoutToken)
      <4>1. CASE config.transport = "http"
        BY <2>6, <3>1, <4>1
      <4>2. CASE config.transport # "http"
        BY <2>6, <3>1, <4>2
      <4> QED
        BY <4>1, <4>2
    <3> QED
      BY <2>3, <2>4, <3>1, <3>2, SMTT(30) DEF Given, AsAsked
  <2> QED
    BY <2>1, <2>5
<1> QED
  BY <1>1, ToolsInvariant, PTL DEF Spec, ServesAsAsked

\* What a context announces, mode by mode.
LEMMA GuideOfMode ==
  ASSUME NEW config, NEW m \in {"bouncer", "watcher"},
         NEW deletes, deletes = CanDeleteAlerts(config, m),
         NEW guide, guide = Guide(config, m)
  PROVE  /\ m = "bouncer" =>
              /\ ~deletes
              /\ guide.available = {"crowdsec_status", "list_decisions"}
              /\ guide.call \subseteq {"crowdsec_status", "list_decisions"}
         /\ m = "watcher" =>
              /\ guide.available =
                   {"crowdsec_status", "list_decisions", "list_alerts", "get_alert",
                    "get_decision"} \cup AllowlistTools
                   \cup (IF deletes THEN {"delete_alerts"} ELSE {})
                   \cup (IF config.readonly THEN {} ELSE {"ban_ip", "unban_ip"})
              /\ guide.call \subseteq
                   guide.available \cup (IF config.readonly THEN {} ELSE {"delete_alerts"})
<1> DEFINE write == WriteSummary(config, m)
           prompts == Prompts(config, m)
<1>1. /\ guide.available = AvailabilityLines(config, m) \cup write
      /\ guide.call = WorkingRules(config, m) \cup prompts
  BY DEF Guide
<1>2. write = IF m = "bouncer" \/ config.readonly THEN {} ELSE {"ban_ip", "unban_ip"}
  BY DEF WriteSummary
<1>3. prompts \subseteq
        IF m = "bouncer" THEN InvestigateIp(config, m)
        ELSE TriageAlerts(config, m) \cup InvestigateIp(config, m) \cup BannedFromCountry
  <2>1. ASSUME NEW p \in {"triage_alerts", "investigate_ip", "banned_from_country"},
               IsPromptAvailable(p, m)
        PROVE  (CASE p = "triage_alerts" -> TriageAlerts(config, m)
                  [] p = "investigate_ip" -> InvestigateIp(config, m)
                  [] OTHER -> BannedFromCountry)
               \subseteq IF m = "bouncer" THEN InvestigateIp(config, m)
                         ELSE TriageAlerts(config, m) \cup InvestigateIp(config, m)
                              \cup BannedFromCountry
    <3>1. CASE p = "triage_alerts"
      BY <2>1, <3>1, Zenon DEF IsPromptAvailable
    <3>2. CASE p = "investigate_ip"
      BY <3>2, Zenon
    <3>3. CASE p = "banned_from_country"
      BY <2>1, <3>3, Zenon DEF IsPromptAvailable
    <3> QED
      BY <3>1, <3>2, <3>3
  <2> QED
    BY <2>1, Zenon DEF Prompts
<1> HIDE DEF write, prompts
<1>4. CASE m = "bouncer"
  <2>1. ~deletes
    BY <1>4 DEF CanDeleteAlerts
  <2>2. guide.available = {"crowdsec_status", "list_decisions"}
    BY <1>1, <1>2, <1>4, <2>1 DEF AvailabilityLines
  <2>3. guide.call \subseteq {"crowdsec_status", "list_decisions"}
    BY <1>1, <1>3, <1>4 DEF WorkingRules, InvestigateIp, WriteSummary
  <2> QED
    BY <1>4, <2>1, <2>2, <2>3
<1>5. CASE m = "watcher"
  <2>1. guide.available =
          {"crowdsec_status", "list_decisions", "list_alerts", "get_alert", "get_decision"}
          \cup AllowlistTools \cup (IF deletes THEN {"delete_alerts"} ELSE {})
          \cup (IF config.readonly THEN {} ELSE {"ban_ip", "unban_ip"})
    BY <1>1, <1>2, <1>5 DEF AvailabilityLines
  <2>2. prompts \subseteq guide.available
    BY <1>2, <1>3, <1>5, <2>1
       DEF TriageAlerts, InvestigateIp, BannedFromCountry, WriteSummary, AllowlistTools
  <2>3. WorkingRules(config, m) \subseteq
          guide.available \cup (IF config.readonly THEN {} ELSE {"delete_alerts"})
    BY <1>2, <1>5, <2>1 DEF WorkingRules, WriteSummary, AllowlistTools
  <2> QED
    BY <1>1, <1>5, <2>1, <2>2, <2>3
<1> QED
  BY <1>4, <1>5

\* What a context offers of it.
LEMMA OfferedOfMode ==
  ASSUME NEW config, NEW m \in {"bouncer", "watcher"}, SelectTools(config, m) # Refused,
         NEW deletes, deletes = CanDeleteAlerts(config, m),
         NEW guide, guide = Guide(config, m)
  PROVE  /\ SelectTools(config, m) \subseteq guide.available
         /\ config.tools = None /\ config.disableTools = {} =>
              SelectTools(config, m) = guide.available
<1> DEFINE S == SelectTools(config, m)
<1>1. \A tool : tool \in S <=>
        /\ tool \in Tools
        /\ config.readonly => tool \notin WriteTools
        /\ m # "watcher" => tool \notin WatcherTools \cup AllowlistTools
        /\ ~IsAlertDeleteAvailable(config) => tool # "delete_alerts"
        /\ config.tools # None => tool \in config.tools
        /\ tool \notin config.disableTools
  BY DEF SelectTools
<1>2. deletes <=> m = "watcher" /\ ~config.readonly /\ IsAlertDeleteAvailable(config)
  BY DEF CanDeleteAlerts
<1> HIDE DEF S
<1>3. CASE m = "bouncer"
  <2>1. guide.available = {"crowdsec_status", "list_decisions"}
    BY <1>3, GuideOfMode
  <2> QED
    BY <1>1, <1>3, <2>1 DEF S, Tools, WatcherTools, AllowlistTools, WriteTools
<1>4. CASE m = "watcher"
  <2>1. guide.available =
          {"crowdsec_status", "list_decisions", "list_alerts", "get_alert", "get_decision"}
          \cup AllowlistTools \cup (IF deletes THEN {"delete_alerts"} ELSE {})
          \cup (IF config.readonly THEN {} ELSE {"ban_ip", "unban_ip"})
    BY <1>4, GuideOfMode
  <2> QED
    BY <1>1, <1>2, <1>4, <2>1 DEF S, Tools, WatcherTools, AllowlistTools, WriteTools
<1> QED
  BY <1>3, <1>4

\* Instructions, prompts and tools agree, although each is made by itself, for
\* every configuration (availabilityLines, workingRules, crowdsecPrompts), but
\* for the rule on deleting alerts, which whoever may write is told.
THEOREM ServedAsTold == Spec => ServesAsTold
<1>1. ASSUME ToolsInv, [Next]_vars, mode # mode'
      PROVE  AsTold(setup.cli, setup.env)
  <2>1. PICK cli, env : cli = setup.cli /\ env = setup.env
    OBVIOUS
  <2>2. PICK config : Serves(config, cli, env)
    BY <1>1, <2>1, ModeIsServed, ServeIsConfigured DEF ToolsInv
  <2>3. PICK m : m = mode'
    OBVIOUS
  <2>4. PICK guide, deletes : guide = Guide(config, m) /\ deletes = CanDeleteAlerts(config, m)
    OBVIOUS
  <2>5. /\ m \in {"bouncer", "watcher"} /\ told' = guide
        /\ served' = SelectTools(config, m) /\ served' # Refused
    BY <2>2, <2>3, <2>4 DEF Serves
  <2>6. /\ served' \subseteq told'.available
        /\ config.tools = None /\ config.disableTools = {} => served' = told'.available
    BY <2>4, <2>5, OfferedOfMode
  <2>7. told'.call \subseteq told'.available
          \cup (IF "unban_ip" \in told'.available THEN {"delete_alerts"} ELSE {})
    <3>1. CASE m = "bouncer"
      BY <2>4, <2>5, <3>1, GuideOfMode
    <3>2. CASE m = "watcher"
      <4>1. /\ guide.call \subseteq guide.available
                 \cup (IF config.readonly THEN {} ELSE {"delete_alerts"})
            /\ ~config.readonly => "unban_ip" \in guide.available
        BY <2>4, <2>5, <3>2, GuideOfMode
      <4> QED
        BY <2>5, <4>1
    <3> QED
      BY <2>5, <3>1, <3>2
  <2>8. {cli.tools, env.tools, cli.disableTools, env.disableTools} = {None} =>
          config.tools = None /\ config.disableTools = {}
    BY <2>2 DEF Serves, Configures, FirstDefined
  <2>9. AsTold(cli, env)
    BY <2>6, <2>7, <2>8 DEF AsTold
  <2> QED
    BY <2>1, <2>9
<1> QED
  BY <1>1, ToolsInvariant, PTL DEF Spec, ServesAsTold

-----------------------------------------------------------------------------
(* Induction on natural numbers, from the well-foundedness of their initial   *)
(* intervals                                                               *)

\* Every set of natural numbers but the empty one has a least element.
LEMMA LeastNumber ==
  ASSUME NEW T \in SUBSET Nat, T # {}
  PROVE  \E n \in T : \A m \in T : n <= m
<1> DEFINE R == StrictSubsetOrdering(Nat)
           F == FiniteSubsetsOf(Nat)
           B == {0..n : n \in T}
<1>1. IsWellFoundedOn(R, F)
  BY FS_StrictSubsetOrderingWellFounded
<1>2. B \subseteq F /\ B # {}
  <2>1. ASSUME NEW n \in T PROVE 0..n \in F
    <3>1. IsFiniteSet(0..n)
      BY FS_Interval
    <3>2. 0..n \in SUBSET Nat
      OBVIOUS
    <3> QED
      BY <3>1, <3>2 DEF FiniteSubsetsOf
  <2> QED
    BY <2>1
<1> HIDE DEF R, F, B
<1>3. PICK b \in B : \A c \in B : ~(<<c, b>> \in R)
  BY <1>1, <1>2, WFMin
<1>4. PICK n \in T : b = 0..n
  BY DEF B
<1>5. ASSUME NEW m \in T, m < n PROVE FALSE
  <2>1. 0..m \in B
    BY DEF B
  <2>2. 0..m \subseteq 0..n /\ n \in 0..n /\ n \notin 0..m
    BY <1>5
  <2>3. <<0..m, b>> \in R
    BY <1>4, <2>2 DEF R, StrictSubsetOrdering
  <2> QED
    BY <1>3, <2>1, <2>3
<1> QED
  BY <1>5

\* What holds of zero, and of each number's successor, holds of all numbers.
LEMMA NumberInduction ==
  ASSUME NEW S, 0 \in S, \A n \in Nat : n \in S => n + 1 \in S
  PROVE  Nat \subseteq S
<1> SUFFICES ASSUME Nat \ S # {} PROVE FALSE
  OBVIOUS
<1>1. PICK n \in Nat \ S : \A m \in Nat \ S : n <= m
  BY LeastNumber
<1>2. n # 0
  OBVIOUS
<1>3. n - 1 \in Nat /\ n - 1 \notin Nat \ S
  BY <1>1, <1>2
<1> QED
  BY <1>3, <1>1

-----------------------------------------------------------------------------
(* Durations                                                               *)

Parts == [tenths : Nat, unit : Units]

Term(p) == p.tenths * SecondsOf[p.unit]

\* The sums of the first parts of a text.
Sums(text, f) ==
  f = [n \in 0..Len(text) |->
         IF n = 0 THEN 0 ELSE f[n - 1] + text[n].tenths * SecondsOf[text[n].unit]]

LEMMA UnitSeconds ==
  /\ Units = {"d", "h", "m", "s"}
  /\ SecondsOf["d"] = 86400 /\ SecondsOf["h"] = 3600 /\ SecondsOf["m"] = 60
  /\ SecondsOf["s"] = 1
BY DEF SecondsOf, Units

LEMMA TermIsNat ==
  ASSUME NEW p \in Parts
  PROVE  Term(p) \in Nat
<1>1. SecondsOf[p.unit] \in {86400, 3600, 60, 1} /\ p.tenths \in Nat
  BY UnitSeconds DEF Parts
<1> QED
  BY <1>1 DEF Term

\* Every text has its sums.
LEMMA SumsExist ==
  ASSUME NEW text \in Seq(Parts)
  PROVE  \E f : Sums(text, f)
<1> DEFINE L == Len(text)
           Good(k, f) == /\ f[0] = 0
                         /\ \A n \in 1..k : f[n] = f[n - 1] + Term(text[n])
           S == {k \in Nat : k <= L => \E f \in [0..k -> Nat] : Good(k, f)}
<1>1. L \in Nat /\ \A n \in 1..L : Term(text[n]) \in Nat
  BY TermIsNat
<1>2. 0 \in S
  <2>1. [n \in 0..0 |-> 0] \in [0..0 -> Nat] /\ Good(0, [n \in 0..0 |-> 0])
    OBVIOUS
  <2> QED
    BY <2>1
<1>3. ASSUME NEW k \in Nat, k \in S, k + 1 <= L
      PROVE  \E f \in [0..(k + 1) -> Nat] : Good(k + 1, f)
  <2>1. PICK f \in [0..k -> Nat] : Good(k, f)
    BY <1>1, <1>3
  <2> DEFINE g == [n \in 0..(k + 1) |-> IF n = k + 1 THEN f[k] + Term(text[n]) ELSE f[n]]
  <2>2. f[k] \in Nat /\ Term(text[k + 1]) \in Nat
    BY <1>1, <1>3, <2>1
  <2>3. g \in [0..(k + 1) -> Nat]
    BY <2>1, <2>2
  <2>4. \A n \in 0..k : g[n] = f[n]
    OBVIOUS
  <2>5. g[k + 1] = f[k] + Term(text[k + 1])
    OBVIOUS
  <2> HIDE DEF g
  <2>6. ASSUME NEW n \in 1..(k + 1) PROVE g[n] = g[n - 1] + Term(text[n])
    <3>1. CASE n = k + 1
      BY <2>4, <2>5, <3>1
    <3>2. CASE n # k + 1
      <4>1. n \in 1..k /\ n \in 0..k /\ n - 1 \in 0..k
        BY <3>2
      <4> QED
        BY <2>1, <2>4, <4>1
    <3> QED
      BY <3>1, <3>2
  <2>7. g[0] = 0
    BY <2>1, <2>4
  <2> QED
    BY <2>3, <2>6, <2>7
<1> HIDE DEF Good
<1>4. ASSUME NEW k \in Nat, k \in S PROVE k + 1 \in S
  <2>1. k + 1 \in Nat
    OBVIOUS
  <2>2. ASSUME k + 1 <= L PROVE \E f \in [0..(k + 1) -> Nat] : Good(k + 1, f)
    BY <1>3, <1>4, <2>2
  <2> QED
    BY <2>1, <2>2
<1> HIDE DEF S
<1>5. L \in S
  BY <1>1, <1>2, <1>4, NumberInduction
<1>6. PICK f \in [0..L -> Nat] : Good(L, f)
  BY <1>1, <1>5 DEF S, Good
<1>7. f = [n \in 0..L |-> IF n = 0 THEN 0 ELSE f[n - 1] + Term(text[n])]
  BY <1>1, <1>6 DEF Good
<1> QED
  BY <1>7 DEF Sums, Term

\* Total() is the last of them.
LEMMA TotalIsSum ==
  ASSUME NEW text \in Seq(Parts)
  PROVE  \E f : Sums(text, f) /\ Total(text) = f[Len(text)]
<1> DEFINE f == CHOOSE g : Sums(text, g)
<1>1. Sums(text, f)
  BY SumsExist, Zenon
<1>2. Total(text) = f[Len(text)]
  BY Zenon DEF Total, Sums
<1> QED
  BY <1>1, <1>2

LEMMA TotalIsNat ==
  ASSUME NEW text \in Seq(Parts)
  PROVE  Total(text) \in Nat
<1> DEFINE L == Len(text)
<1>1. PICK f : Sums(text, f) /\ Total(text) = f[L]
  BY TotalIsSum
<1>2. L \in Nat /\ \A n \in 1..L : Term(text[n]) \in Nat
  BY TermIsNat
<1>3. f = [n \in 0..L |-> IF n = 0 THEN 0 ELSE f[n - 1] + Term(text[n])]
  BY <1>1 DEF Sums, Term
<1>4. f[0] = 0 /\ \A n \in 1..L : f[n] = f[n - 1] + Term(text[n])
  BY <1>2, <1>3
<1> DEFINE S == {n \in Nat : n <= L => f[n] \in Nat}
<1>5. 0 \in S
  BY <1>4
<1>6. ASSUME NEW n \in Nat, n \in S PROVE n + 1 \in S
  BY <1>2, <1>4, <1>6
<1> HIDE DEF S
<1>7. L \in S
  BY <1>2, <1>5, <1>6, NumberInduction
<1> QED
  BY <1>1, <1>2, <1>7 DEF S

\* The sums of short texts.
LEMMA TotalOfFew ==
  ASSUME NEW text \in Seq(Parts)
  PROVE  /\ Len(text) = 0 => Total(text) = 0
         /\ Len(text) = 1 => Total(text) = Term(text[1])
         /\ Len(text) = 2 => Total(text) = Term(text[1]) + Term(text[2])
         /\ Len(text) = 3 => Total(text) = Term(text[1]) + Term(text[2]) + Term(text[3])
<1> DEFINE L == Len(text)
<1>1. PICK f : Sums(text, f) /\ Total(text) = f[L]
  BY TotalIsSum
<1>2. L \in Nat /\ \A n \in 1..L : Term(text[n]) \in Nat
  BY TermIsNat
<1>3. f = [n \in 0..L |-> IF n = 0 THEN 0 ELSE f[n - 1] + Term(text[n])]
  BY <1>1 DEF Sums, Term
<1>4. f[0] = 0 /\ \A n \in 1..L : f[n] = f[n - 1] + Term(text[n])
  BY <1>2, <1>3
<1>5. L >= 1 => f[1] = Term(text[1])
  BY <1>2, <1>4
<1>6. L >= 2 => f[2] = Term(text[1]) + Term(text[2])
  BY <1>2, <1>4, <1>5
<1>7. L >= 3 => f[3] = Term(text[1]) + Term(text[2]) + Term(text[3])
  BY <1>2, <1>4, <1>6
<1> QED
  BY <1>1, <1>4, <1>5, <1>6, <1>7

Hours(h) == PartOf(h * 10, "h")
Minutes(m) == PartOf(m * 10, "m")
Seconds(s) == PartOf(s, "s")

LEMMA PieceTerms ==
  ASSUME NEW h \in Nat, NEW m \in Nat, NEW s \in Nat
  PROVE  /\ {Hours(h), Minutes(m), Seconds(s)} \subseteq Parts
         /\ Term(Hours(h)) = 36000 * h
         /\ Term(Minutes(m)) = 600 * m
         /\ Term(Seconds(s)) = s
<1>1. /\ Hours(h) = [tenths |-> h * 10, unit |-> "h"]
      /\ Minutes(m) = [tenths |-> m * 10, unit |-> "m"]
      /\ Seconds(s) = [tenths |-> s, unit |-> "s"]
  BY DEF Hours, Minutes, Seconds, PartOf
<1>2. h * 10 \in Nat /\ m * 10 \in Nat
  OBVIOUS
<1> QED
  BY <1>1, <1>2, UnitSeconds DEF Parts, Term

LEMMA TotalOfLists ==
  ASSUME NEW a \in Parts, NEW b \in Parts, NEW c \in Parts
  PROVE  /\ <<>> \in Seq(Parts) /\ Total(<<>>) = 0
         /\ <<a>> \in Seq(Parts) /\ Total(<<a>>) = Term(a)
         /\ <<a, b>> \in Seq(Parts) /\ Total(<<a, b>>) = Term(a) + Term(b)
         /\ <<a, b, c>> \in Seq(Parts) /\ Total(<<a, b, c>>) = Term(a) + Term(b) + Term(c)
<1>1. <<>> \in Seq(Parts) /\ Len(<<>>) = 0
  OBVIOUS
<1>2. <<a>> \in Seq(Parts) /\ Len(<<a>>) = 1 /\ <<a>>[1] = a
  OBVIOUS
<1>3. <<a, b>> \in Seq(Parts) /\ Len(<<a, b>>) = 2 /\ <<a, b>>[1] = a /\ <<a, b>>[2] = b
  OBVIOUS
<1>4. /\ <<a, b, c>> \in Seq(Parts) /\ Len(<<a, b, c>>) = 3
      /\ <<a, b, c>>[1] = a /\ <<a, b, c>>[2] = b /\ <<a, b, c>>[3] = c
  OBVIOUS
<1> QED
  BY <1>1, <1>2, <1>3, <1>4, TotalOfFew

\* The hours, minutes and tenths of seconds of a total.
LEMMA Clock ==
  ASSUME NEW total \in Nat
  PROVE  /\ total \div 36000 \in Nat
         /\ (total % 36000) \div 600 \in Nat /\ (total % 36000) \div 600 < 60
         /\ total % 600 \in Nat /\ total % 600 < 600
         /\ total = 36000 * (total \div 36000) + 600 * ((total % 36000) \div 600) + (total % 600)
OBVIOUS

LEMMA PairJoined ==
  ASSUME NEW a \in Parts, NEW b \in Parts
  PROVE  <<a>> \o <<b>> = <<a, b>>
<1> DEFINE s == <<a>> \o <<b>>
           t == <<a, b>>
<1>1. <<a>> \in Seq(Parts) /\ <<b>> \in Seq(Parts) /\ t \in Seq(Parts)
  OBVIOUS
<1>2. s \in Seq(Parts) /\ Len(s) = 2 /\ s[1] = a /\ s[2] = b
  BY <1>1, ConcatProperties
<1>3. Len(t) = 2 /\ t[1] = a /\ t[2] = b
  OBVIOUS
<1> HIDE DEF s, t
<1>4. s = t
  BY <1>1, <1>2, <1>3, SeqEqual
<1> QED
  BY <1>4 DEF s, t

LEMMA TripleJoined ==
  ASSUME NEW a \in Parts, NEW b \in Parts, NEW c \in Parts
  PROVE  <<a, b>> \o <<c>> = <<a, b, c>>
<1> DEFINE s == <<a, b>> \o <<c>>
           t == <<a, b, c>>
<1>1. <<a, b>> \in Seq(Parts) /\ <<c>> \in Seq(Parts) /\ t \in Seq(Parts)
  OBVIOUS
<1>2. s \in Seq(Parts) /\ Len(s) = 3 /\ s[1] = a /\ s[2] = b /\ s[3] = c
  BY <1>1, ConcatProperties
<1>3. Len(t) = 3 /\ t[1] = a /\ t[2] = b /\ t[3] = c
  OBVIOUS
<1> HIDE DEF s, t
<1>4. s = t
  BY <1>1, <1>2, <1>3, SeqEqual
<1> QED
  BY <1>4 DEF s, t

\* Parts put together, those that are there.
LEMMA Joins ==
  ASSUME NEW a \in Parts, NEW b \in Parts, NEW c \in Parts
  PROVE  /\ <<a>> \o <<b>> \o <<c>> = <<a, b, c>>
         /\ <<a>> \o <<b>> \o <<>> = <<a, b>>
         /\ <<a>> \o <<>> \o <<c>> = <<a, c>>
         /\ <<>> \o <<b>> \o <<c>> = <<b, c>>
         /\ <<a>> \o <<>> \o <<>> = <<a>>
         /\ <<>> \o <<b>> \o <<>> = <<b>>
         /\ <<>> \o <<>> \o <<c>> = <<c>>
<1>1. <<a>> \o <<b>> = <<a, b>> /\ <<a>> \o <<c>> = <<a, c>> /\ <<b>> \o <<c>> = <<b, c>>
  BY PairJoined
<1>2. <<a, b>> \o <<c>> = <<a, b, c>>
  BY TripleJoined
<1>3. <<a, b>> \o <<>> = <<a, b>>
  OBVIOUS
<1>4. <<a>> \o <<>> = <<a>> /\ <<>> \o <<b>> = <<b>> /\ <<>> \o <<>> = <<>>
  OBVIOUS
<1>5. <<>> \o <<c>> = <<c>> /\ <<b>> \o <<>> = <<b>>
  OBVIOUS
<1> QED
  BY <1>1, <1>2, <1>3, <1>4, <1>5, Zenon

\* What is sent to the LAPI is as long as what was asked for.
LEMMA WireLasts ==
  ASSUME NEW total \in Nat
  PROVE  /\ ToGoDuration(total) \in Seq(Parts)
         /\ Total(ToGoDuration(total)) = total
<1>1. PICK h, m, s : h = total \div 36000 /\ m = (total % 36000) \div 600 /\ s = total % 600
  OBVIOUS
<1>2. PICK a, b, c : a = Hours(h) /\ b = Minutes(m) /\ c = Seconds(s)
  OBVIOUS
<1>3. PICK x, y, z : /\ x = IF h > 0 THEN <<a>> ELSE <<>>
                     /\ y = IF m > 0 THEN <<b>> ELSE <<>>
                     /\ z = IF s > 0 \/ total < 600 THEN <<c>> ELSE <<>>
  OBVIOUS
<1>4. ToGoDuration(total) = x \o y \o z
  BY <1>1, <1>2, <1>3 DEF ToGoDuration, Hours, Minutes, Seconds
<1>5. /\ h \in Nat /\ m \in Nat /\ s \in Nat /\ total = 36000 * h + 600 * m + s
      /\ ~(h > 0) /\ ~(m > 0) /\ ~(s > 0) => total < 600
  BY <1>1, Clock
<1>. a \in Parts /\ b \in Parts /\ c \in Parts
  BY <1>2, <1>5, PieceTerms
<1>6. Term(a) = 36000 * h /\ Term(b) = 600 * m /\ Term(c) = s
  BY <1>2, <1>5, PieceTerms
<1>7. /\ <<a>> \in Seq(Parts) /\ Total(<<a>>) = Term(a)
      /\ <<b>> \in Seq(Parts) /\ Total(<<b>>) = Term(b)
      /\ <<c>> \in Seq(Parts) /\ Total(<<c>>) = Term(c)
      /\ <<a, b>> \in Seq(Parts) /\ Total(<<a, b>>) = Term(a) + Term(b)
      /\ <<a, c>> \in Seq(Parts) /\ Total(<<a, c>>) = Term(a) + Term(c)
      /\ <<b, c>> \in Seq(Parts) /\ Total(<<b, c>>) = Term(b) + Term(c)
      /\ <<a, b, c>> \in Seq(Parts) /\ Total(<<a, b, c>>) = Term(a) + Term(b) + Term(c)
  <2>1. /\ <<a>> \in Seq(Parts) /\ Total(<<a>>) = Term(a)
        /\ <<a, b>> \in Seq(Parts) /\ Total(<<a, b>>) = Term(a) + Term(b)
        /\ <<a, b, c>> \in Seq(Parts) /\ Total(<<a, b, c>>) = Term(a) + Term(b) + Term(c)
    BY TotalOfLists, Zenon
  <2>2. /\ <<b>> \in Seq(Parts) /\ Total(<<b>>) = Term(b)
        /\ <<b, c>> \in Seq(Parts) /\ Total(<<b, c>>) = Term(b) + Term(c)
    BY TotalOfLists, Zenon
  <2>3. /\ <<c>> \in Seq(Parts) /\ Total(<<c>>) = Term(c)
        /\ <<a, c>> \in Seq(Parts) /\ Total(<<a, c>>) = Term(a) + Term(c)
    BY TotalOfLists, Zenon
  <2> QED
    BY <2>1, <2>2, <2>3, Zenon
<1>8. \/ x \o y \o z = <<a, b, c>>
      \/ x \o y \o z = <<a, b>> /\ s = 0
      \/ x \o y \o z = <<a, c>> /\ m = 0
      \/ x \o y \o z = <<b, c>> /\ h = 0
      \/ x \o y \o z = <<a>> /\ m = 0 /\ s = 0
      \/ x \o y \o z = <<b>> /\ h = 0 /\ s = 0
      \/ x \o y \o z = <<c>> /\ h = 0 /\ m = 0
  <2>1. x = <<a>> \/ (x = <<>> /\ h = 0)
    BY <1>3, <1>5
  <2>2. y = <<b>> \/ (y = <<>> /\ m = 0)
    BY <1>3, <1>5
  <2>3. z = <<c>> \/ (z = <<>> /\ s = 0 /\ (h # 0 \/ m # 0))
    BY <1>3, <1>5
  <2>4. x = <<>> /\ y = <<>> => z = <<c>>
    <3> SUFFICES ASSUME x = <<>>, y = <<>>, z = <<>> PROVE FALSE
      BY <2>3
    <3>1. <<a>> # <<>> /\ <<b>> # <<>> /\ <<c>> # <<>>
      OBVIOUS
    <3> QED
      BY <2>1, <2>2, <2>3, <3>1
  <2>5. /\ <<a>> \o <<b>> \o <<c>> = <<a, b, c>>
        /\ <<a>> \o <<b>> \o <<>> = <<a, b>>
        /\ <<a>> \o <<>> \o <<c>> = <<a, c>>
        /\ <<>> \o <<b>> \o <<c>> = <<b, c>>
        /\ <<a>> \o <<>> \o <<>> = <<a>>
        /\ <<>> \o <<b>> \o <<>> = <<b>>
        /\ <<>> \o <<>> \o <<c>> = <<c>>
    BY Joins, Zenon
  <2> QED
    BY <2>1, <2>2, <2>3, <2>4, <2>5, Zenon
<1> DEFINE t == x \o y \o z
           sum == 36000 * h + 600 * m + s
<1>9. t \in Seq(Parts) /\ Total(t) = sum
  <2>1. CASE t = <<a, b, c>>
    BY <1>5, <1>6, <1>7, <2>1
  <2>2. CASE t = <<a, b>> /\ s = 0
    BY <1>5, <1>6, <1>7, <2>2
  <2>3. CASE t = <<a, c>> /\ m = 0
    BY <1>5, <1>6, <1>7, <2>3
  <2>4. CASE t = <<b, c>> /\ h = 0
    BY <1>5, <1>6, <1>7, <2>4
  <2>5. CASE t = <<a>> /\ m = 0 /\ s = 0
    BY <1>5, <1>6, <1>7, <2>5
  <2>6. CASE t = <<b>> /\ h = 0 /\ s = 0
    BY <1>5, <1>6, <1>7, <2>6
  <2>7. CASE t = <<c>> /\ h = 0 /\ m = 0
    BY <1>5, <1>6, <1>7, <2>7
  <2> QED
    BY <1>8, <2>1, <2>2, <2>3, <2>4, <2>5, <2>6, <2>7
<1> QED
  BY <1>4, <1>5, <1>9

\* Where a bouncer reads a text as a whole, it is the text's sum.
LEMMA WholeIsParsed ==
  ASSUME NEW text \in Seq(Parts), Len(text) > 0,
         \A i \in 1..Len(text) : Matches(text[i]),
         \A i \in 1..(Len(text) - 1) : Rank(text[i].unit) < Rank(text[i + 1].unit)
  PROVE  ParseExpiration(text) = Total(text)
<1> DEFINE L == Len(text)
           matched == {n \in 1..L :
                         /\ \A i \in 1..n : Matches(text[i])
                         /\ \A i \in 1..(n - 1) : Rank(text[i].unit) < Rank(text[i + 1].unit)}
           last == CHOOSE n \in matched : \A m \in matched : m <= n
<1>1. L \in Nat /\ L > 0
  OBVIOUS
<1>2. L \in matched /\ \A m \in matched : m \in 1..L
  BY <1>1
<1>3. last \in matched /\ \A m \in matched : m <= last
  <2>1. \E n \in matched : \A m \in matched : m <= n
    BY <1>1, <1>2
  <2> HIDE DEF matched
  <2> QED
    BY <2>1
<1>4. last = L
  <2> HIDE DEF last, matched
  <2>1. last \in 1..L /\ L <= last
    BY <1>2, <1>3
  <2> QED
    BY <1>1, <2>1
<1>5. SubSeq(text, 1, L) = text
  BY <1>1
<1>6. matched # {} /\ ParseExpiration(text) = Total(SubSeq(text, 1, last))
  BY <1>2 DEF ParseExpiration
<1> QED
  BY <1>4, <1>5, <1>6

\* What the LAPI says of a duration of Go lasts as long where a bouncer reads it.
LEMMA StringLasts ==
  ASSUME NEW total \in Nat, total <= MaxGo
  PROVE  ParseExpiration(GoString(total)) = total
<1>1. PICK h, m, s : h = total \div 36000 /\ m = (total % 36000) \div 600 /\ s = total % 600
  OBVIOUS
<1>2. PICK a, b, c : a = Hours(h) /\ b = Minutes(m) /\ c = Seconds(s)
  OBVIOUS
<1>3. PICK x, y, z : /\ x = IF h > 0 THEN <<a>> ELSE <<>>
                     /\ y = IF h > 0 \/ m > 0 THEN <<b>> ELSE <<>>
                     /\ z = <<c>>
  OBVIOUS
<1>4. GoString(total) = x \o y \o z
  BY <1>1, <1>2, <1>3 DEF GoString, Hours, Minutes, Seconds
<1>5. /\ h \in Nat /\ m \in Nat /\ m < 60 /\ s \in Nat /\ s < 600
      /\ total = 36000 * h + 600 * m + s
  BY <1>1, Clock
<1>6. h < 100000000
  <2>1. MaxGo \in Nat /\ MaxGo \div 36000 < 100000000
    BY GoAssumption
  <2>2. total \div 36000 <= MaxGo \div 36000
    BY <2>1
  <2> QED
    BY <1>1, <1>5, <2>1, <2>2
<1>. a \in Parts /\ b \in Parts /\ c \in Parts
  BY <1>2, <1>5, PieceTerms
<1>7. Term(a) = 36000 * h /\ Term(b) = 600 * m /\ Term(c) = s
  BY <1>2, <1>5, PieceTerms
<1>8. /\ Matches(a) /\ Rank(a.unit) = 1
      /\ Matches(b) /\ Rank(b.unit) = 2
      /\ Matches(c) /\ Rank(c.unit) = 3
  <2>1. a.tenths = h * 10 /\ a.unit = "h" /\ a.tenths \div 10 = h /\ a.tenths % 10 = 0
    BY <1>2, <1>5 DEF Hours, PartOf
  <2>2. b.tenths = m * 10 /\ b.unit = "m" /\ b.tenths \div 10 = m /\ b.tenths % 10 = 0
    BY <1>2, <1>5 DEF Minutes, PartOf
  <2>3. c.tenths = s /\ c.unit = "s" /\ c.tenths \div 10 < 100
    BY <1>2, <1>5 DEF Seconds, PartOf
  <2>4. Matches(a) /\ Rank(a.unit) = 1
    BY <1>5, <1>6, <2>1 DEF Matches, Rank
  <2>5. Matches(b) /\ Rank(b.unit) = 2
    BY <1>5, <1>6, <2>2 DEF Matches, Rank
  <2>6. Matches(c) /\ Rank(c.unit) = 3
    BY <1>5, <1>6, <2>3 DEF Matches, Rank
  <2> QED
    BY <2>4, <2>5, <2>6
<1>9. /\ <<a>> \o <<b>> \o <<c>> = <<a, b, c>>
      /\ <<>> \o <<b>> \o <<c>> = <<b, c>>
      /\ <<>> \o <<>> \o <<c>> = <<c>>
  BY Joins, Zenon
<1>10. CASE h > 0
  <2>1. GoString(total) = <<a, b, c>>
    <3>1. x = <<a>> /\ y = <<b>> /\ z = <<c>>
      BY <1>3, <1>10
    <3> QED
      BY <1>4, <1>9, <3>1
  <2>2. <<a, b, c>> \in Seq(Parts) /\ Total(<<a, b, c>>) = Term(a) + Term(b) + Term(c)
    BY TotalOfLists, Zenon
  <2>3. ParseExpiration(<<a, b, c>>) = Total(<<a, b, c>>)
    <3> DEFINE t == <<a, b, c>>
    <3>1. Len(t) = 3 /\ t[1] = a /\ t[2] = b /\ t[3] = c
      OBVIOUS
    <3> HIDE DEF t
    <3>2. t \in Seq(Parts)
      BY <2>2 DEF t
    <3>3. \A i \in 1..Len(t) : Matches(t[i])
      BY <1>8, <3>1
    <3>4. \A i \in 1..(Len(t) - 1) : Rank(t[i].unit) < Rank(t[i + 1].unit)
      BY <1>8, <3>1
    <3>5. Len(t) > 0
      BY <3>1
    <3>6. ParseExpiration(t) = Total(t)
      BY <3>2, <3>3, <3>4, <3>5, WholeIsParsed
    <3> QED
      BY <3>6 DEF t
  <2> QED
    BY <1>5, <1>7, <2>1, <2>2, <2>3
<1>11. CASE ~(h > 0) /\ m > 0
  <2>1. GoString(total) = <<b, c>>
    BY <1>3, <1>4, <1>9, <1>11
  <2>2. <<b, c>> \in Seq(Parts) /\ Total(<<b, c>>) = Term(b) + Term(c)
    BY TotalOfLists, Zenon
  <2>3. ParseExpiration(<<b, c>>) = Total(<<b, c>>)
    <3> DEFINE t == <<b, c>>
    <3>1. Len(t) = 2 /\ t[1] = b /\ t[2] = c
      OBVIOUS
    <3> HIDE DEF t
    <3>2. t \in Seq(Parts)
      BY <2>2 DEF t
    <3>3. \A i \in 1..Len(t) : Matches(t[i])
      BY <1>8, <3>1
    <3>4. \A i \in 1..(Len(t) - 1) : Rank(t[i].unit) < Rank(t[i + 1].unit)
      BY <1>8, <3>1
    <3>5. Len(t) > 0
      BY <3>1
    <3>6. ParseExpiration(t) = Total(t)
      BY <3>2, <3>3, <3>4, <3>5, WholeIsParsed
    <3> QED
      BY <3>6 DEF t
  <2> QED
    BY <1>5, <1>7, <1>11, <2>1, <2>2, <2>3
<1>12. CASE ~(h > 0) /\ ~(m > 0)
  <2>1. GoString(total) = <<c>>
    BY <1>3, <1>4, <1>9, <1>12
  <2>2. <<c>> \in Seq(Parts) /\ Total(<<c>>) = Term(c)
    BY TotalOfLists, Zenon
  <2>3. ParseExpiration(<<c>>) = Total(<<c>>)
    <3> DEFINE t == <<c>>
    <3>1. Len(t) = 1 /\ t[1] = c
      OBVIOUS
    <3> HIDE DEF t
    <3>2. t \in Seq(Parts)
      BY <2>2 DEF t
    <3>3. \A i \in 1..Len(t) : Matches(t[i])
      BY <1>8, <3>1
    <3>4. \A i \in 1..(Len(t) - 1) : Rank(t[i].unit) < Rank(t[i + 1].unit)
      BY <3>1
    <3>5. Len(t) > 0
      BY <3>1
    <3>6. ParseExpiration(t) = Total(t)
      BY <3>2, <3>3, <3>4, <3>5, WholeIsParsed
    <3> QED
      BY <3>6 DEF t
  <2> QED
    BY <1>5, <1>7, <1>12, <2>1, <2>2, <2>3
<1> QED
  BY <1>10, <1>11, <1>12

-----------------------------------------------------------------------------
(* How long a ban lasts                                                    *)

\* What a text may be before it is read.
Spoken == [tenths : Nat, unit : Units \cup {"?"}]

\* What a duration is read as, if it is one.
LEMMA ParsedIsNat ==
  ASSUME NEW text \in Seq(Spoken), ParseDuration(text) # Invalid
  PROVE  ParseDuration(text) \in Nat
<1> DEFINE L == Len(text)
           days == text # <<>> /\ text[1].unit = "d"
           rest == IF days THEN Tail(text) ELSE text
<1>1. /\ IsGoText(rest) \/ (days /\ rest = <<>>)
      /\ ParseDuration(text) = Total(text)
  BY DEF ParseDuration
<1>2. L \in Nat /\ \A i \in 1..L : text[i] \in Spoken
  OBVIOUS
<1>3. ASSUME NEW i \in 1..L PROVE text[i].unit \in Units
  <2>1. CASE days
    <3>1. i = 1 => text[i].unit = "d"
      BY <2>1
    <3>2. ASSUME i # 1 PROVE text[i].unit \in {"h", "m", "s"}
      <4>1. PICK t : t = Tail(text)
        OBVIOUS
      <4>2. /\ t \in Seq(Spoken) /\ Len(t) = L - 1
            /\ \A j \in 1..Len(t) : t[j] = text[j + 1]
        BY <2>1, <4>1, HeadTailProperties
      <4>3. i - 1 \in 1..Len(t) /\ t[i - 1] = text[i] /\ t # <<>>
        BY <1>2, <3>2, <4>2
      <4>4. IsGoText(t)
        BY <1>1, <2>1, <4>1, <4>3
      <4>5. t[i - 1].unit \in {"h", "m", "s"}
        BY <4>2, <4>3, <4>4 DEF IsGoText
      <4> QED
        BY <4>3, <4>5
    <3> QED
      BY <3>1, <3>2, UnitSeconds
  <2>2. CASE ~days
    <3>1. IsGoText(text)
      BY <1>1, <2>2
    <3>2. text[i].unit \in {"h", "m", "s"}
      BY <3>1 DEF IsGoText
    <3> QED
      BY <3>2, UnitSeconds
  <2> QED
    BY <2>1, <2>2
<1>4. \A i \in 1..L : text[i] \in Parts
  BY <1>2, <1>3 DEF Parts, Spoken
<1>5. text \in Seq(Parts)
  BY <1>2, <1>4
<1> QED
  BY <1>1, <1>5, TotalIsNat

\* A ban has the length of its input, and says so in a text as long.
LEMMA BanLength ==
  ASSUME NEW c \in Calls, NEW in \in Inputs[c], in.tool = "ban_ip", Plan(in) # Refused
  PROVE  LET plan == Plan(in)
         IN  /\ plan.total \in Nat /\ plan.force = in.force
             /\ Total(plan.wire) = plan.total
<1>1. Plan(in) = BanPlan(in)
  BY PlanOfTool
<1>2. /\ BanPlan(in).total = BanTotal(in)
      /\ BanPlan(in).wire = ToGoDuration(BanTotal(in))
      /\ BanPlan(in).force = in.force
      /\ BanTotal(in) # Invalid /\ BanTotal(in) > 0
  BY <1>1 DEF BanPlan, BanValid
<1>3. BanTotal(in) \in Nat
  <2>1. CASE in.seconds # None /\ in.seconds \in Int
    BY <1>2, <2>1 DEF BanTotal
  <2>2. CASE /\ in.seconds = None
             /\ in.duration \in Seq(Spoken)
    BY <1>2, <2>2, ParsedIsNat DEF BanTotal
  <2> QED
    BY <2>1, <2>2, InputsAssumption DEF Spoken
<1> QED
  BY <1>1, <1>2, <1>3, WireLasts

\* A ban that is to be made is no longer than allowed, and one that was made is
\* as long as it was to be.
LengthInv(k) ==
  /\ k.phase = "push" => LengthAllowed(k.plan)
  /\ k.alert # None =>
       /\ Started(k) /\ k.plan.how \in {"check", "push"} /\ LengthAllowed(k.plan)
       /\ k.plan.total \in Nat /\ k.plan.total <= MaxGo
       /\ \E a \in alerts : a.id = k.alert /\ a.length = k.plan.total

LengthsInv == \A c \in Calls : LengthInv(call[c])

\* What a step may do to the length of a ban unless it makes one.
Keeps(k, s) ==
  \/ k.alert = None /\ k.phase # "push"
  \/ /\ k.plan = s.plan /\ k.alert = s.alert
     /\ k.phase = "push" => s.phase = "push"
     /\ Started(s) => Started(k)

LEMMA LengthStays ==
  ASSUME NEW s, NEW k, LengthInv(s), Keeps(k, s), alerts \subseteq alerts'
  PROVE  LengthInv(k)'
BY DEF LengthInv, Keeps, LengthAllowed, Started

\* The calls that a step leaves alone.
LEMMA OneLength ==
  ASSUME ToolsInv, LengthsInv, NEW c \in Calls, NEW k, Step(c, k),
         alerts \subseteq alerts', LengthInv(k)'
  PROVE  LengthsInv'
<1>1. call' = [d \in Calls |-> IF d = c THEN k ELSE call[d]]
  BY DEF ToolsInv, Step
<1>2. ASSUME NEW d \in Calls PROVE LengthInv(call[d])'
  <2>1. CASE d = c
    BY <1>1, <2>1
  <2>2. CASE d # c
    <3>1. PICK s : s = call[d] /\ call'[d] = s
      BY <1>1, <2>2
    <3>2. LengthInv(s)'
      BY <3>1, LengthStays DEF LengthsInv, Keeps
    <3> QED
      BY <3>1, <3>2
  <2> QED
    BY <2>1, <2>2
<1> QED
  BY <1>2 DEF LengthsInv

\* A step of a call that makes no ban.
LEMMA OneKept ==
  ASSUME ToolsInv, LengthsInv, NEW c \in Calls, NEW k, Step(c, k),
         UNCHANGED alerts, Keeps(k, call[c])
  PROVE  LengthsInv'
<1>1. PICK s : s = call[c]
  OBVIOUS
<1>2. LengthInv(k)'
  BY <1>1, LengthStays DEF LengthsInv
<1> QED
  BY <1>2, OneLength

LEMMA LengthCallStep ==
  ASSUME ToolsInv, LengthsInv, NEW c \in Calls, NEW in \in Inputs[c], Call(c, in)
  PROVE  LengthsInv'
<1> DEFINE plan == Plan(in)
           start == [call[c] EXCEPT !.input = in, !.plan = plan]
<1>1. /\ UNCHANGED alerts
      /\ DOMAIN call[c] = CallFields /\ call[c].alert = None
  BY DEF Call, lapi, ToolsInv, CallInv, PlanInv, BanInv, Started
<1>2. CASE Step(c, [NoCall EXCEPT !.phase = "refused"])
  <2>1. PICK k : k = [NoCall EXCEPT !.phase = "refused"]
    OBVIOUS
  <2>2. k.alert = None /\ k.phase # "push"
    BY <2>1 DEF NoCall
  <2> QED
    BY <1>1, <1>2, <2>1, <2>2, OneKept DEF Keeps
<1>3. ASSUME ~(plan.how = "push" /\ ~LengthAllowed(plan)), NEW k,
             k = IF in.tool = "ban_ip"
                 THEN [start EXCEPT !.phase = plan.how, !.clear = plan.value \notin allowed]
                 ELSE [start EXCEPT !.phase = plan.how],
             Step(c, k)
      PROVE  LengthsInv'
  <2> HIDE DEF plan
  <2>1. k.plan = plan /\ k.phase = plan.how /\ k.alert = None
    BY <1>1, <1>3 DEF CallFields
  <2>2. LengthInv(k)'
    BY <1>3, <2>1 DEF LengthInv, LengthAllowed
  <2> QED
    BY <1>1, <1>3, <2>2, OneLength
<1> QED
  BY <1>2, <1>3 DEF Call

\* A call that goes on, or ends, without a ban.
LEMMA OneEnds ==
  ASSUME ToolsInv, LengthsInv, NEW c \in Calls, NEW k, Step(c, k), UNCHANGED alerts,
         k.plan = call[c].plan, k.alert = call[c].alert,
         k.phase \in {"failed", "ok", "deleting"}
  PROVE  LengthsInv'
<1>1. Keeps(k, call[c])
  BY DEF Keeps, Started
<1> QED
  BY <1>1, OneKept

LEMMA LengthFailureStep ==
  ASSUME ToolsInv, LengthsInv, NEW c \in Calls, RequestFails(c)
  PROVE  LengthsInv'
<1>1. DOMAIN call[c] = CallFields
  BY DEF ToolsInv, CallInv, PlanInv
<1>2. PICK k : k = [call[c] EXCEPT !.phase = "failed"]
  OBVIOUS
<1>3. k.phase = "failed" /\ k.plan = call[c].plan /\ k.alert = call[c].alert
  BY <1>1, <1>2 DEF CallFields
<1>4. Step(c, k) /\ UNCHANGED alerts
  BY <1>2 DEF RequestFails, Fails, lapi
<1> QED
  BY <1>3, <1>4, OneEnds

LEMMA LengthReadStep ==
  ASSUME ToolsInv, LengthsInv, NEW c \in Calls, ReadAnswered(c)
  PROVE  LengthsInv'
<1>1. DOMAIN call[c] = CallFields
  BY DEF ToolsInv, CallInv, PlanInv
<1>2. PICK k : k = [call[c] EXCEPT !.phase = "ok"]
  OBVIOUS
<1>3. k.phase = "ok" /\ k.plan = call[c].plan /\ k.alert = call[c].alert
  BY <1>1, <1>2 DEF CallFields
<1>4. Step(c, k) /\ UNCHANGED alerts
  BY <1>2 DEF ReadAnswered, lapi
<1> QED
  BY <1>3, <1>4, OneEnds

LEMMA LengthSearchStep ==
  ASSUME ToolsInv, LengthsInv, NEW c \in Calls, SearchAnswered(c)
  PROVE  LengthsInv'
<1>1. DOMAIN call[c] = CallFields
  BY DEF ToolsInv, CallInv, PlanInv
<1>2. PICK q : q = call[c].plan.query
  OBVIOUS
<1>3. PICK ids, found : ids = IdsFound(c, Matching(q)) /\ found = Asked(c, q)
  OBVIOUS
<1>4. PICK phase : phase = IF ids = {} THEN "ok" ELSE "deleting"
  OBVIOUS
<1>5. PICK k : k = [call[c] EXCEPT !.phase = phase, !.found = found, !.todo = ids]
  OBVIOUS
<1>6. k.phase = phase /\ k.plan = call[c].plan /\ k.alert = call[c].alert
  BY <1>1, <1>5 DEF CallFields
<1>7. Step(c, k) /\ UNCHANGED alerts
  BY <1>2, <1>3, <1>4, <1>5 DEF SearchAnswered, lapi
<1> QED
  BY <1>4, <1>6, <1>7, OneEnds

LEMMA LengthListStep ==
  ASSUME ToolsInv, LengthsInv, NEW c \in Calls, ListAnswered(c)
  PROVE  LengthsInv'
<1>1. DOMAIN call[c] = CallFields
  BY DEF ToolsInv, CallInv, PlanInv
<1>2. \E report : Step(c, [call[c] EXCEPT !.phase = "ok", !.report = report])
  BY Zenon DEF ListAnswered
<1>3. PICK report : Step(c, [call[c] EXCEPT !.phase = "ok", !.report = report])
  BY <1>2, Zenon
<1> DEFINE k == [call[c] EXCEPT !.phase = "ok", !.report = report]
<1>4. k.phase = "ok" /\ k.plan = call[c].plan /\ k.alert = call[c].alert
  BY <1>1 DEF CallFields
<1>5. UNCHANGED alerts
  BY Zenon DEF ListAnswered, lapi
<1> HIDE DEF k
<1>6. Step(c, k)
  BY <1>3, Zenon DEF k
<1> QED
  BY <1>4, <1>5, <1>6, OneEnds

\* A call that deletes.
LEMMA LengthTakeStep ==
  ASSUME ToolsInv, LengthsInv, NEW c \in Calls, NEW ids, NEW m, TakeAway(c, ids, m),
         DOMAIN m = CallFields, m.plan = call[c].plan, m.alert = call[c].alert,
         m.phase \in {"failed", "ok", "deleting"}
  PROVE  LengthsInv'
<1>1. PICK k : k = [m EXCEPT !.removed = @ \cup ids]
  OBVIOUS
<1>2. k.phase = m.phase /\ k.plan = m.plan /\ k.alert = m.alert
  BY <1>1 DEF CallFields
<1>3. Step(c, k) /\ UNCHANGED alerts
  BY <1>1 DEF TakeAway
<1> QED
  BY <1>2, <1>3, OneEnds

LEMMA LengthDeleteStep ==
  ASSUME ToolsInv, LengthsInv, NEW c \in Calls, DeleteMatching(c) \/ DeleteById(c)
  PROVE  LengthsInv'
<1>1. DOMAIN call[c] = CallFields
  BY DEF ToolsInv, CallInv, PlanInv
<1>2. PICK ids, phase, m : /\ m = [call[c] EXCEPT !.phase = phase]
                           /\ phase \in {"failed", "ok"} /\ TakeAway(c, ids, m)
  <2>1. \E ids, phase : /\ TakeAway(c, ids, [call[c] EXCEPT !.phase = phase])
                        /\ phase \in {"failed", "ok"}
    BY Zenon DEF DeleteMatching, DeleteById, Fails
  <2> QED
    BY <2>1
<1>3. /\ DOMAIN m = CallFields /\ m.phase = phase
      /\ m.plan = call[c].plan /\ m.alert = call[c].alert
  BY <1>1, <1>2 DEF CallFields
<1> QED
  BY <1>2, <1>3, LengthTakeStep

LEMMA LengthDeleteOneStep ==
  ASSUME ToolsInv, LengthsInv, NEW c \in Calls, NEW id, NEW ok, DeleteOne(c, id, ok)
  PROVE  LengthsInv'
<1>1. DOMAIN call[c] = CallFields
  BY DEF ToolsInv, CallInv, PlanInv
<1>2. PICK phase : phase = Outcome(c, id, ok)
  OBVIOUS
<1>3. phase \in {"failed", "ok", "deleting"}
  BY <1>2 DEF Outcome
<1>4. PICK ids : ids = IF ok /\ IsThere(id) THEN {id} ELSE {}
  OBVIOUS
<1>5. PICK m : m = [call[c] EXCEPT !.todo = @ \ {id}, !.phase = phase]
  OBVIOUS
<1>6. TakeAway(c, ids, m)
  BY <1>2, <1>4, <1>5, Zenon DEF DeleteOne
<1>7. /\ DOMAIN m = CallFields /\ m.phase = phase
      /\ m.plan = call[c].plan /\ m.alert = call[c].alert
  BY <1>1, <1>5 DEF CallFields
<1> QED
  BY <1>3, <1>6, <1>7, LengthTakeStep

\* The length is checked once the allowlists were asked.
LEMMA LengthCheckStep ==
  ASSUME ToolsInv, LengthsInv, NEW c \in Calls, CheckAllowlist(c)
  PROVE  LengthsInv'
<1>1. PICK s : s = call[c]
  OBVIOUS
<1>2. DOMAIN s = CallFields /\ s.phase = "check" /\ LengthInv(s) /\ UNCHANGED alerts
  BY <1>1 DEF ToolsInv, CallInv, PlanInv, CheckAllowlist, LengthsInv, lapi
<1>3. PICK k : /\ Step(c, k)
               /\ \/ k = [s EXCEPT !.phase = "failed"]
                  \/ k = [s EXCEPT !.phase = "push"] /\ LengthAllowed(s.plan)
  BY <1>1 DEF CheckAllowlist, Fails
<1>4. /\ k.plan = s.plan /\ k.alert = s.alert
      /\ k.phase = "failed" \/ (k.phase = "push" /\ LengthAllowed(s.plan))
  BY <1>2, <1>3 DEF CallFields
<1>5. LengthInv(k)'
  BY <1>2, <1>4 DEF LengthInv, LengthAllowed, Started
<1> QED
  BY <1>2, <1>3, <1>5, OneLength

\* What the LAPI is sent is what it makes of it.
LEMMA LengthPushStep ==
  ASSUME ToolsInv, LengthsInv, NEW c \in Calls, PushAlert(c)
  PROVE  LengthsInv'
<1>1. PICK s : s = call[c]
  OBVIOUS
<1>2. /\ CallInv(c, s) /\ s.phase = "push" /\ LengthInv(s)
  BY <1>1 DEF ToolsInv, LengthsInv, PushAlert
<1>3. /\ s.input \in Inputs[c] /\ s.plan = Plan(s.input) /\ s.plan # Refused
      /\ s.plan.how \in {"check", "push"} /\ DOMAIN s = CallFields
      /\ LengthAllowed(s.plan)
  BY <1>2 DEF CallInv, PlanInv, Started, LengthInv
<1>4. s.input.tool = "ban_ip"
  BY <1>3, PlansFit DEF PlanFits
<1>5. s.plan.total \in Nat /\ Total(s.plan.wire) = s.plan.total
  BY <1>3, <1>4, BanLength
<1>6. PICK new : new = [id |-> Cardinality(alerts) + 1, scope |-> s.plan.scope,
              value |-> s.plan.value, types |-> {s.plan.type}, scenario |-> "manual",
              origin |-> "cscli", length |-> GoParse(s.plan.wire)]
  OBVIOUS
<1>7. /\ new.length # Invalid /\ alerts' = alerts \cup {new}
      /\ Step(c, [s EXCEPT !.phase = "ok", !.alert = new.id])
  BY <1>1, <1>6, Zenon DEF PushAlert
<1>8. new.length = s.plan.total /\ s.plan.total <= MaxGo
  BY <1>5, <1>6, <1>7 DEF GoParse
<1>9. PICK k : k = [s EXCEPT !.phase = "ok", !.alert = new.id]
  OBVIOUS
<1>10. k.phase = "ok" /\ k.plan = s.plan /\ k.alert = new.id
  BY <1>3, <1>9 DEF CallFields
<1>11. LengthInv(k)'
  BY <1>3, <1>5, <1>7, <1>8, <1>10 DEF LengthInv, LengthAllowed, Started
<1> QED
  BY <1>7, <1>9, <1>11, OneLength

LEMMA LengthAllowlistStep ==
  ASSUME ToolsInv, LengthsInv, NEW v, AllowlistChanges(v)
  PROVE  LengthsInv'
<1>1. UNCHANGED alerts
  BY DEF AllowlistChanges
<1>2. ASSUME NEW c \in Calls PROVE LengthInv(call[c])'
  <2>1. PICK s, k : s = call[c] /\ k = call'[c]
    OBVIOUS
  <2>2. k = s \/ k = [s EXCEPT !.clear = TRUE]
    BY <2>1 DEF AllowlistChanges
  <2>3. DOMAIN s = CallFields /\ LengthInv(s)
    BY <2>1 DEF ToolsInv, CallInv, PlanInv, LengthsInv
  <2>4. k.phase = s.phase /\ k.plan = s.plan /\ k.alert = s.alert
    BY <2>2, <2>3 DEF CallFields
  <2>5. LengthInv(k)'
    BY <1>1, <2>3, <2>4, LengthStays DEF Keeps, Started
  <2> QED
    BY <2>1, <2>5
<1> QED
  BY <1>2 DEF LengthsInv

LEMMA LengthsInvStep ==
  ASSUME ToolsInv, LengthsInv, [Next]_vars
  PROVE  LengthsInv'
<1>1. ASSUME UNCHANGED <<alerts, call>> PROVE LengthsInv'
  BY <1>1 DEF LengthsInv, LengthInv, LengthAllowed, Started
<1>2. CASE Serve
  BY <1>1, <1>2 DEF Serve, lapi
<1>3. ASSUME NEW c \in Calls, NEW in \in Inputs[c], Call(c, in) PROVE LengthsInv'
  BY <1>3, LengthCallStep
<1>4. ASSUME NEW c \in Calls, RequestFails(c) PROVE LengthsInv'
  BY <1>4, LengthFailureStep
<1>5. ASSUME NEW c \in Calls, CheckAllowlist(c) PROVE LengthsInv'
  BY <1>5, LengthCheckStep
<1>6. ASSUME NEW c \in Calls, PushAlert(c) PROVE LengthsInv'
  BY <1>6, LengthPushStep
<1>7. ASSUME NEW c \in Calls, DeleteMatching(c) \/ DeleteById(c) PROVE LengthsInv'
  BY <1>7, LengthDeleteStep
<1>8. ASSUME NEW c \in Calls, SearchAnswered(c) PROVE LengthsInv'
  BY <1>8, LengthSearchStep
<1>9. ASSUME NEW c \in Calls, NEW id \in call[c].todo, NEW ok \in BOOLEAN,
             DeleteOne(c, id, ok)
      PROVE  LengthsInv'
  BY <1>9, LengthDeleteOneStep
<1>10. ASSUME NEW c \in Calls, ListAnswered(c) PROVE LengthsInv'
  BY <1>10, LengthListStep
<1>11. ASSUME NEW c \in Calls, ReadAnswered(c) PROVE LengthsInv'
  BY <1>11, LengthReadStep
<1>12. ASSUME NEW d \in active, Expire(d) PROVE LengthsInv'
  BY <1>1, <1>12 DEF Expire
<1>13. ASSUME NEW v \in Ips \cup Ranges, AllowlistChanges(v) PROVE LengthsInv'
  BY <1>13, LengthAllowlistStep
<1>14. CASE UNCHANGED vars
  BY <1>1, <1>14 DEF vars, lapi
<1> QED
  BY <1>2, <1>3, <1>4, <1>5, <1>6, <1>7, <1>8, <1>9, <1>10, <1>11, <1>12, <1>13, <1>14
     DEF Next

LEMMA LengthsAreAsked ==
  ASSUME ToolsInv, LengthsInv
  PROVE  BansLastAsAsked
<1> SUFFICES ASSUME NEW c \in Calls, call[c].alert # None
             PROVE  LET length == AlertOf(call[c].alert).length
                    IN  /\ length = call[c].plan.total
                        /\ ParseExpiration(GoString(length)) = length
                        /\ length <= MaxBan \/ call[c].input.force
  BY DEF BansLastAsAsked
<1>1. PICK s : s = call[c]
  OBVIOUS
<1>2. CallInv(c, s) /\ LengthInv(s) /\ s.alert # None
  BY <1>1 DEF ToolsInv, LengthsInv
<1>3. PICK a \in alerts : a.id = s.alert /\ a.length = s.plan.total
  BY <1>2 DEF LengthInv
<1>4. AlertOf(s.alert) = a
  BY <1>3 DEF AlertOf, ToolsInv, AlertsInv
<1>5. /\ s.input \in Inputs[c] /\ s.plan = Plan(s.input) /\ s.plan # Refused
      /\ s.plan.how \in {"check", "push"} /\ LengthAllowed(s.plan)
      /\ s.plan.total \in Nat /\ s.plan.total <= MaxGo
  BY <1>2 DEF CallInv, PlanInv, LengthInv
<1>6. s.plan.force = s.input.force
  BY <1>5, PlansFit, BanLength DEF PlanFits
<1>7. ParseExpiration(GoString(s.plan.total)) = s.plan.total
  BY <1>5, StringLasts
<1> QED
  BY <1>1, <1>3, <1>4, <1>5, <1>6, <1>7 DEF LengthAllowed

\* A ban is as long as was asked for, and allowed, at the LAPI and where a bouncer
\* reads it, whatever the duration and the way it was written: the texts that are
\* made of it and read on the way lose nothing (toGoDuration, time.ParseDuration,
\* Duration.String, parseExpiration).
THEOREM BansLast == Spec => []BansLastAsAsked
<1>1. Init => LengthsInv
  BY DEF Init, LengthsInv, LengthInv, NoCall
<1>2. ToolsInv /\ LengthsInv /\ [Next]_vars => LengthsInv'
  BY LengthsInvStep
<1>3. ToolsInv /\ LengthsInv => BansLastAsAsked
  BY LengthsAreAsked
<1> QED
  BY <1>1, <1>2, <1>3, ToolsInvariant, PTL DEF Spec
=============================================================================
