------------------------------ MODULE McpConfig ------------------------------
(***************************************************************************)
(* crowdsec-mcp/src/config.ts, which makes a configuration of the command  *)
(* line and the environment or refuses them, and selectTools() of          *)
(* registry.ts, which says which tools a context offers; docs.ts and       *)
(* prompts.ts, which tell a model which tools there are and what to call.  *)
(*                                                                         *)
(* Options are records whose fields are None when they are not given (or   *)
(* empty) and Junk when their value does not parse.                        *)
(***************************************************************************)
EXTENDS Integers, FiniteSets

CONSTANTS
  None,      \* undefined
  Junk,      \* what nobody expects
  Refused    \* an exception: the process exits

\* [kind, requires, feature] of the tool definitions.
Tools == {"crowdsec_status", "list_decisions", "get_decision", "ban_ip",
          "unban_ip", "list_alerts", "get_alert", "delete_alerts",
          "list_allowlists", "get_allowlist", "check_allowlist"}

WriteTools == {"ban_ip", "unban_ip", "delete_alerts"}

WatcherTools == Tools \ {"crowdsec_status", "list_decisions"}

AllowlistTools == {"list_allowlists", "get_allowlist", "check_allowlist"}

-----------------------------------------------------------------------------
(* The pieces of loadConfig().  "cli" and "env" are its two arguments.     *)

FirstDefined(cli, env) == IF cli # None THEN cli ELSE env

ReadBoolean(value, default) ==
  IF value = None THEN default
  ELSE IF value # Junk THEN value ELSE Refused

\* A flag of the command line can only say yes.
ReadBooleanOption(flag, value, default) ==
  IF flag THEN TRUE ELSE ReadBoolean(value, default)

ReadInteger(value, default, min, max) ==
  IF value = None THEN default
  ELSE IF value # Junk /\ value \in min..max THEN value ELSE Refused

RequireUrl(url) == IF url \in {None, Junk} THEN Refused ELSE url

\* Certificate, key and authority: all or none.
ResolveTls(files) ==
  IF files = {} THEN FALSE ELSE IF files = {"cert", "key", "ca"} THEN TRUE ELSE Refused

ResolveAuth(requested, apiKey, machineId, password, passthrough, tls) ==
  IF requested # None
  THEN IF requested \in {"bouncer", "watcher"} THEN requested ELSE Refused
  ELSE IF apiKey # None THEN "bouncer"
  ELSE IF machineId # None \/ password # None \/ TRUE \in {passthrough, tls}
  THEN "watcher" ELSE Refused

ValidCredentials(auth, apiKey, machineId, password, passthrough, tls) ==
  \/ passthrough \/ tls
  \/ auth = "bouncer" /\ apiKey # None
  \/ auth = "watcher" /\ machineId # None /\ password # None

ResolveTransport(requested, passthrough) ==
  LET transport == IF requested = None THEN "stdio" ELSE requested
  IN  IF transport \notin {"stdio", "http"} \/ (passthrough = TRUE /\ transport # "http")
      THEN Refused ELSE transport

ValidHttpToken(transport, token, passthrough) ==
  transport = "http" => token # None \/ passthrough

ResolveReadonly(cli, env) ==
  IF cli.write THEN FALSE
  ELSE IF cli.readonly THEN TRUE ELSE ReadBoolean(env.readonly, TRUE)

\* What loadConfig() makes of its pieces; "Refused" where one throws.
ConfigOf(cli, env) ==
  LET passthrough == ReadBooleanOption(cli.passthrough, env.passthrough, FALSE)
      tls == ResolveTls(env.tls)
      disableTools == FirstDefined(cli.disableTools, env.disableTools)
  IN  [url |-> RequireUrl(FirstDefined(cli.url, env.url)),
       auth |-> ResolveAuth(FirstDefined(cli.auth, env.auth), env.apiKey,
                            env.machineId, env.password, passthrough, tls),
       passthrough |-> passthrough,
       tls |-> tls,
       transport |-> ResolveTransport(FirstDefined(cli.transport, env.transport),
                                      passthrough),
       token |-> FirstDefined(cli.httpToken, env.httpToken),
       readonly |-> ResolveReadonly(cli, env),
       enableAlertDelete |-> ReadBooleanOption(cli.enableAlertDelete,
                                               env.enableAlertDelete, FALSE),
       withoutToken |-> ReadBooleanOption(cli.withoutToken,
                                          env.withoutToken, FALSE),
       maxResults |-> ReadInteger(FirstDefined(cli.maxResults, env.maxResults),
                                  25, 1, 10000),
       tools |-> FirstDefined(cli.tools, env.tools),
       disableTools |-> IF disableTools = None THEN {} ELSE disableTools]

\* loadConfig(): every piece that refuses ends the process.
LoadConfig(cli, env) ==
  LET config == ConfigOf(cli, env)
  IN  IF \/ \E field \in DOMAIN config : config[field] = Refused
         \/ cli.readonly /\ cli.write
         \/ ~ValidCredentials(config.auth, env.apiKey, env.machineId, env.password,
                              config.passthrough, config.tls)
         \/ ~ValidHttpToken(config.transport, config.token, config.passthrough)
      THEN Refused
      ELSE config

-----------------------------------------------------------------------------
IsAlertDeleteAvailable(config) ==
  /\ config.enableAlertDelete
  /\ config.transport = "http" => config.token # None \/ config.withoutToken

\* Mutant of SelectTools: the list of tools asked for is looked at first.
SelectToolsAsked(config, mode) ==
  IF config.tools # None THEN config.tools \ config.disableTools
  ELSE {tool \in Tools :
         /\ config.readonly => tool \notin WriteTools
         /\ mode # "watcher" => tool \notin WatcherTools
         /\ ~IsAlertDeleteAvailable(config) => tool # "delete_alerts"
         /\ tool \notin config.disableTools}

\* The tools a context of this mode offers; "allowlists" are a capability of
\* watchers.  A name that is not known is refused.
SelectTools(config, mode) ==
  IF config.tools # None /\ ~(config.tools \subseteq Tools)
  THEN Refused
  ELSE {tool \in Tools :
         /\ config.readonly => tool \notin WriteTools
         /\ mode # "watcher" => tool \notin WatcherTools \cup AllowlistTools
         /\ ~IsAlertDeleteAvailable(config) => tool # "delete_alerts"
         /\ config.tools # None => tool \in config.tools
         /\ tool \notin config.disableTools}

-----------------------------------------------------------------------------
(* What a context tells about itself.                                      *)

\* Mutant of CanDeleteAlerts: read-only mode is not looked at.
CanDeleteAlertsAlways(config, mode) ==
  mode = "watcher" /\ IsAlertDeleteAvailable(config)

CanDeleteAlerts(config, mode) ==
  mode = "watcher" /\ ~config.readonly /\ IsAlertDeleteAvailable(config)

\* The tools that change decisions, of writeSummary() and writeGuardrail().
WriteSummary(config, mode) ==
  IF mode = "bouncer" \/ config.readonly THEN {} ELSE {"ban_ip", "unban_ip"}

\* What the instructions call available.
AvailabilityLines(config, mode) ==
  {"crowdsec_status", "list_decisions"}
  \cup (IF mode = "watcher" THEN {"list_alerts", "get_alert", "get_decision"} ELSE {})
  \cup (IF mode = "watcher" THEN AllowlistTools ELSE {})
  \cup (IF CanDeleteAlerts(config, mode) THEN {"delete_alerts"} ELSE {})

\* The tools that the rules among them name.  Whoever may write is told how to
\* delete alerts, whether or not that is offered.
WorkingRules(config, mode) ==
  IF mode = "bouncer" THEN {"crowdsec_status", "list_decisions"}
  ELSE {"crowdsec_status", "list_alerts", "get_alert", "list_decisions", "get_decision"}
       \cup WriteSummary(config, mode)
       \cup (IF config.readonly THEN {} ELSE {"check_allowlist", "delete_alerts"})

\* The prompts of a context.
IsPromptAvailable(prompt, mode) == prompt = "investigate_ip" \/ mode = "watcher"

\* What the steps of a prompt say to call.
TriageAlerts(config, mode) ==
  {"list_alerts", "get_alert", "list_decisions"} \cup WriteSummary(config, mode)

InvestigateIp(config, mode) ==
  {"list_decisions"} \cup WriteSummary(config, mode)
  \cup (IF mode = "bouncer" THEN {} ELSE {"list_alerts", "check_allowlist"})

BannedFromCountry == {"list_alerts", "list_decisions"}

Prompts(config, mode) ==
  UNION {IF ~IsPromptAvailable(prompt, mode) THEN {}
         ELSE CASE prompt = "triage_alerts" -> TriageAlerts(config, mode)
                [] prompt = "investigate_ip" -> InvestigateIp(config, mode)
                [] OTHER -> BannedFromCountry
           : prompt \in {"triage_alerts", "investigate_ip", "banned_from_country"}}

\* createServer(): its instructions and its prompts.
Guide(config, mode) ==
  [available |-> AvailabilityLines(config, mode) \cup WriteSummary(config, mode),
   call |-> WorkingRules(config, mode) \cup Prompts(config, mode)]
=============================================================================
