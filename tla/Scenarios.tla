------------------------------ MODULE Scenarios ------------------------------
(***************************************************************************)
(* crowdsec-client-scenarios: what the scenarios make of one request.      *)
(*                                                                         *)
(* The X-Forwarded-For checker reads the chain of proxies of a request,    *)
(* from the socket outwards, and finds in it the visitor and the first     *)
(* proxy nobody trusts; the enrichers complete an alert, drop it, or       *)
(* throw.  Everything here is a function of its arguments: the cache of    *)
(* chains and the loading of databases are HTTPMiddleware's.               *)
(***************************************************************************)
EXTENDS Integers, Sequences, SequencesExt

CONSTANTS
  Addresses,     \* addresses, as the parsed objects compare them
  Trusted,       \* those in a trustedProxies range
  Allowed,       \* those in a range of the allow list
  Located,       \* those the MaxMind databases know
  MaxMindPaths,  \* the databases of the maxmind options
  Throws,        \* the result of a call that throws
  Nothing        \* undefined

ASSUME ScenariosAssumption ==
  /\ Trusted \subseteq Addresses
  /\ Allowed \subseteq Addresses
  /\ Located \subseteq Addresses
  /\ MaxMindPaths \subseteq {"city", "ASN"}
  /\ Throws # Nothing
  /\ Addresses \cap {Throws, Nothing} = {}

MaxConfidence == 10

-----------------------------------------------------------------------------
(* Addresses                                                               *)

\* The text of an address in a header or a socket: an IPv4-mapped IPv6
\* address is the IPv4 address, and what is no address is Garbage.
Plain(a) == [form |-> "plain", address |-> a]
Mapped(a) == [form |-> "mapped", address |-> a]
Garbage == [form |-> "garbage"]

Texts == {Plain(a) : a \in Addresses} \cup {Mapped(a) : a \in Addresses} \cup {Garbage}

GetIpObject(text) == IF text = Garbage THEN Throws ELSE text.address

\* getAddressObjectWithCache(): no text, as on a socket that is gone, throws.
GetAddressObject(text) == IF text = Nothing THEN Throws ELSE GetIpObject(text)

-----------------------------------------------------------------------------
(* X-Forwarded-For                                                         *)

\* The hops of the header, nearest first: proxies append.
ExtractIpsFromHeader(header) ==
  [i \in DOMAIN header |->
     [ip |-> Reverse(header)[i], address |-> GetAddressObject(Reverse(header)[i])]]

\* Mutant of ExtractIps: an unreadable hop is passed over, not a proxy.
ExtractIpsTrustingAll(remote, header) ==
  LET hops == <<[ip |-> remote, address |-> GetAddressObject(remote)]>>
                \o ExtractIpsFromHeader(header)
  IN  [i \in DOMAIN hops |->
         [ip |-> hops[i].ip, valid |-> hops[i].address # Throws,
          trustedProxy |-> hops[i].address \in Trusted \cup {Throws}]]

\* The hops from the socket outwards.  A proxy is trusted as long as no
\* untrusted one was met; a hop that cannot be read is not trusted, but does
\* not keep those behind it from being trusted.
ExtractIps(remote, header) ==
  LET hops == <<[ip |-> remote, address |-> GetAddressObject(remote)]>>
                \o ExtractIpsFromHeader(header)
      firstUntrustedIpFound(i) ==
        \E j \in 1..(i - 1) : hops[j].address \notin Trusted \cup {Throws}
  IN  [i \in DOMAIN hops |->
         [ip |-> hops[i].ip, valid |-> hops[i].address # Throws,
          trustedProxy |-> hops[i].address \in Trusted
                             /\ ~firstUntrustedIpFound(i)]]

\* The first hop that is not a trusted proxy, 0 if all are.
Untrusted(chain) ==
  LET found == {i \in DOMAIN chain : ~chain[i].trustedProxy}
  IN  IF found = {} THEN 0 ELSE CHOOSE i \in found : \A j \in found : i <= j

\* extractIp(): that hop, or the proxy before it if it cannot be read.
ExtractIp(chain) ==
  LET i == Untrusted(chain)
  IN  IF i = 0 THEN Nothing
      ELSE IF chain[i].valid
           THEN [ip |-> chain[i].ip, confidence |-> MaxConfidence]
           ELSE IF i > 1 /\ chain[i - 1].valid /\ chain[i - 1].trustedProxy
                THEN [ip |-> chain[i - 1].ip, confidence |-> 1]
                ELSE Nothing

\* generateAlert(): about the address the middleware checks, whichever hop
\* passed the header.
GenerateAlert(address) ==
  [ip |-> address, range |-> Nothing, as |-> Nothing, cn |-> Nothing,
   event |-> [source_ip |-> address], meta |-> [source_ip |-> address]]

\* Mutant of XForwardedForCheck: an alert for each hop passed on.
XForwardedForCheckEach(address, chain, alertOnNotTrustedIps) ==
  IF Untrusted(chain) \in 1..(Len(chain) - 1) /\ alertOnNotTrustedIps
  THEN [i \in 1..(Len(chain) - Untrusted(chain)) |-> GenerateAlert(address)]
  ELSE <<>>

\* _check(): the first untrusted hop passed on what is behind it.
XForwardedForCheck(address, chain, alertOnNotTrustedIps) ==
  IF Untrusted(chain) \in 1..(Len(chain) - 1) /\ alertOnNotTrustedIps
  THEN <<GenerateAlert(address)>>
  ELSE <<>>

-----------------------------------------------------------------------------
(* Enrichers                                                               *)

\* mergeMetas(): what is there stays; empty values are left out.
MergeMetas(metas, more) ==
  LET kept == {k \in DOMAIN more : more[k] # Nothing}
  IN  [k \in DOMAIN metas \cup kept |->
         IF k \in DOMAIN metas THEN metas[k] ELSE more[k]]

\* Mutant of AllowListEnrich: the alert is passed on.
AllowListEnrichLate(alert) == alert

\* AllowListEnricher.enrich(): no alert about an allowed address.  An alert
\* about a range is compared by it; those of this package have an address.
AllowListEnrich(alert) ==
  LET source == IF alert.ip # Nothing THEN alert.ip ELSE alert.range
  IN  IF source \in Allowed THEN Nothing ELSE alert

\* HTTPEnricher.enrich(): a path that new URL() refuses throws.
HTTPEnrich(alert, path) ==
  LET metas == [http_path |-> path, service |-> "http"]
  IN  IF path = Throws THEN Throws
      ELSE [alert EXCEPT !.event = MergeMetas(@, metas), !.meta = MergeMetas(@, metas)]

\* InternalASNEnricher: enrichAlert() keeps a range that is there.
ASNEnrichAlert(alert) ==
  IF alert.ip \in Located
  THEN [alert EXCEPT !.range = IF @ = Nothing THEN alert.ip ELSE @, !.as = alert.ip]
  ELSE alert

ASNEnrichEvent(ip, event) ==
  IF ip \in Located THEN MergeMetas(event, [ASNNumber |-> ip]) ELSE event

\* InternalCityEnricher
CityEnrichAlert(alert) ==
  IF alert.ip \in Located
  THEN [alert EXCEPT !.range = IF @ = Nothing THEN alert.ip ELSE @, !.cn = alert.ip]
  ELSE alert

CityEnrichEvent(ip, event) ==
  IF ip \in Located THEN MergeMetas(event, [cn |-> ip]) ELSE event

\* MaxMindEnricher.enrich(), with the databases that are loaded: one that is
\* not throws as soon as it is asked.
MaxMindEnrich(alert, loaded) ==
  IF ~(MaxMindPaths \subseteq loaded) \/ MaxMindPaths = {}
  THEN Throws
  ELSE LET city == IF "city" \in MaxMindPaths THEN CityEnrichAlert(alert) ELSE alert
           both == IF "ASN" \in MaxMindPaths THEN ASNEnrichAlert(city) ELSE city
           ip == both.event.source_ip
           located == IF "city" \in MaxMindPaths THEN CityEnrichEvent(ip, both.event)
                      ELSE both.event
       IN  [both EXCEPT !.event = IF "ASN" \in MaxMindPaths
                                  THEN ASNEnrichEvent(ip, located) ELSE located]
=============================================================================
