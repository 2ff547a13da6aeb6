------------------------------ MODULE MCMcpTools ------------------------------
(* Instance of McpTools: one range with an address in it, a country; a call   *)
(* with many inputs and one that bans, unbans or deletes beside it.           *)
EXTENDS McpTools

CONSTANTS I1, I2, R1, FR, ENV

MCInside == {<<I1, R1>>}

Base == [tool |-> "unban_ip", id |-> None, ip |-> None, range |-> None,
         scope |-> None, value |-> None, type |-> None, scenario |-> None,
         origin |-> None, since |-> None, active |-> None, all |-> FALSE,
         confirm |-> FALSE, limit |-> None, duration |-> None, seconds |-> None,
         force |-> FALSE]

Text(tenths, unit) == <<PartOf(tenths, unit)>>

Targets ==
  {[Base EXCEPT !.ip = I1], [Base EXCEPT !.ip = R1], [Base EXCEPT !.range = R1],
   [Base EXCEPT !.scope = "Range", !.value = R1],
   [Base EXCEPT !.scope = "Ip", !.value = I1],
   [Base EXCEPT !.scope = "Country", !.value = FR],
   [Base EXCEPT !.scope = "Ip", !.value = FR],
   [Base EXCEPT !.value = FR], [Base EXCEPT !.type = "captcha"],
   [Base EXCEPT !.type = "captcha", !.confirm = TRUE],
   [Base EXCEPT !.range = R1, !.type = "captcha"],
   [Base EXCEPT !.all = TRUE], [Base EXCEPT !.all = TRUE, !.confirm = TRUE],
   [Base EXCEPT !.id = [alert |-> 1, type |-> None], !.ip = I1], [Base EXCEPT !.id = Junk], Base}

Bans ==
  {[b EXCEPT !.tool = "ban_ip", !.type = "ban"] :
     b \in {[Base EXCEPT !.ip = I2, !.seconds = 0],
            [Base EXCEPT !.ip = I2, !.duration = <<PartOf(15, "h"), PartOf(5, "s")>>],
            [Base EXCEPT !.range = R1, !.duration = Text(10, "d")],
            [Base EXCEPT !.range = R1, !.seconds = 54001],
            [Base EXCEPT !.range = R1, !.duration = Text(10, "d"), !.force = TRUE],
            [Base EXCEPT !.scope = "Country", !.value = FR, !.duration = Text(10, "d")],
            [Base EXCEPT !.scope = "Country", !.value = FR, !.duration = Text(900, "m")]}}

Lists ==
  {[l EXCEPT !.tool = tool] : tool \in {"list_decisions", "list_alerts"},
     l \in {Base, [Base EXCEPT !.limit = 1], [Base EXCEPT !.all = TRUE],
            [Base EXCEPT !.range = R1], [Base EXCEPT !.since = Text(15, "d")]}}

MCInputs == [c \in Calls |->
  IF c = 1
  THEN Targets \cup {[t EXCEPT !.tool = "delete_alerts"] : t \in Targets} \cup Bans \cup Lists
       \cup {[Base EXCEPT !.id = [alert |-> 1, type |-> "ban"]],
             [Base EXCEPT !.tool = "delete_alerts", !.id = [alert |-> 1, type |-> None]],
             [Base EXCEPT !.tool = "get_alert", !.id = [alert |-> 1, type |-> None]],
             [Base EXCEPT !.tool = "check_allowlist", !.value = FR]}
  ELSE {[Base EXCEPT !.range = R1], [Base EXCEPT !.tool = "delete_alerts", !.range = R1],
        [Base EXCEPT !.tool = "ban_ip", !.type = "ban", !.ip = I1, !.seconds = 36000]}]

Alert(id, scope, value, types) ==
  [id |-> id, scope |-> scope, value |-> value, types |-> types,
   scenario |-> "probing", origin |-> "crowdsec", length |-> 0]

MCAlerts == {Alert(1, "Ip", I1, {"ban", "captcha"}), Alert(2, "Range", R1, {"ban"}),
             Alert(3, "Country", FR, {"ban"})}

Flags == {"passthrough", "write", "readonly", "enableAlertDelete", "withoutToken"}

Setup(flags, login, token, transport, readonly) ==
  [cli |-> [url |-> None, auth |-> None, transport |-> None, httpToken |-> None,
            maxResults |-> None, tools |-> None, disableTools |-> None,
            passthrough |-> "passthrough" \in flags,
            write |-> "write" \in flags, readonly |-> "readonly" \in flags,
            enableAlertDelete |-> "enableAlertDelete" \in flags,
            withoutToken |-> "withoutToken" \in flags],
   env |-> [url |-> ENV, passthrough |-> None, tls |-> {}, auth |-> None,
            apiKey |-> login.apiKey, machineId |-> login.machineId,
            password |-> login.password, httpToken |-> token,
            transport |-> transport, readonly |-> readonly,
            enableAlertDelete |-> None, withoutToken |-> None,
            maxResults |-> 2, tools |-> None, disableTools |-> None]]

\* All flags, logins and tokens; what else may be wrong, one at a time.
MCOptions ==
  LET logins == [{"apiKey", "machineId", "password"} -> {None, ENV}]
      good == Setup({"write"}, [l \in {"apiKey", "machineId", "password"} |->
                                  IF l = "apiKey" THEN None ELSE ENV], None, None, None)
  IN  {Setup(flags, login, token, transport, readonly) :
         flags \in SUBSET Flags, login \in logins, token \in {None, ENV},
         transport \in {None, "http"}, readonly \in {FALSE, Junk, None}}
      \cup {[good EXCEPT !.env.url = None], [good EXCEPT !.env.tls = {"cert"}],
            [good EXCEPT !.env.maxResults = 0],
            [good EXCEPT !.env.tools = {"unheard-of"}],
            [good EXCEPT !.env.enableAlertDelete = Junk],
            [good EXCEPT !.cli.disableTools = {"ban_ip"}, !.env.tools = {"ban_ip", "unban_ip"}],
            [good EXCEPT !.env.machineId = None, !.env.tls = {"cert", "key", "ca"},
                         !.env.tools = {"list_alerts", "delete_alerts"}],
            [good EXCEPT !.cli.auth = "bouncer"], [good EXCEPT !.cli.transport = Junk]}
=============================================================================
