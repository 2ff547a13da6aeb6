--------------------------- MODULE MCHTTPMiddleware ---------------------------
(***************************************************************************)
(* A trusted proxy, a visitor on the allow list and one who is not; the    *)
(* requests of both with and without a proxy, with a header of their own,  *)
(* an unreadable one, a path that does not parse, and a socket that is     *)
(* gone.                                                                   *)
(***************************************************************************)
EXTENDS HTTPMiddleware

CONSTANTS proxy, friend, visitor

MCScenarioList == <<"allow-list", "x-forwarded-for", "http-enricher", "maxmind">>

Via(remote, header) == [remote |-> remote, header |-> header, path |-> "/"]

MCRequests ==
  {Via(Plain(visitor), <<>>),
   Via(Mapped(proxy), <<Plain(visitor)>>),
   Via(Plain(friend), <<Plain(visitor)>>),
   Via(Plain(proxy), <<Plain(visitor), Garbage>>),
   [Via(Plain(visitor), <<Plain(friend)>>) EXCEPT !.path = Throws],
   Via(Plain(visitor), <<Plain(proxy), Plain(friend)>>),
   Via(Nothing, <<>>)}
=============================================================================
