---------------------------- MODULE DecisionsFeed ----------------------------
(***************************************************************************)
(* What a decision stream promises its user: two ordered feeds, one of     *)
(* added and one of deleted decisions.  A decision received from the LAPI  *)
(* joins the backlog of its feed, and leaves it, in the order it came, by  *)
(* being delivered, which happens only while the feed is flowing.  Nothing *)
(* is delivered twice, nothing is dropped, nothing overtakes.              *)
(*                                                                         *)
(* DecisionsStream is shown to implement this module.                      *)
(***************************************************************************)
EXTENDS Sequences, SequencesExt

CONSTANT Kind        \* the feeds: "added" and "deleted"

VARIABLES
  backlog,           \* [Kind -> Seq]: received, not delivered yet
  delivered,         \* [Kind -> Seq]: handed to the listeners, in order
  flowing,           \* is the feed resumed?
  broken             \* has a listener thrown?

feedVars == <<backlog, delivered, flowing, broken>>

FeedInit ==
  /\ backlog = [k \in Kind |-> <<>>]
  /\ delivered = [k \in Kind |-> <<>>]
  /\ flowing = FALSE
  /\ broken = FALSE

Receive ==
  /\ \A k \in Kind : IsPrefix(backlog[k], backlog'[k])
  /\ DOMAIN backlog' = Kind
  /\ UNCHANGED <<delivered, flowing>>

Deliver(k) ==
  /\ flowing
  /\ backlog[k] # <<>>
  /\ backlog' = [backlog EXCEPT ![k] = Tail(@)]
  /\ delivered' = [delivered EXCEPT ![k] = Append(@, Head(backlog[k]))]
  /\ UNCHANGED flowing

Switch ==
  /\ flowing' \in BOOLEAN
  /\ UNCHANGED <<backlog, delivered>>

\* A listener that throws ends the promise: what comes after may be delivered
\* out of order.
Break == broken' = TRUE

FeedNext ==
  \/ Break
  \/ /\ broken' = FALSE
     /\ Receive \/ Switch \/ \E k \in Kind : Deliver(k)

FeedSpec == FeedInit /\ [][FeedNext]_feedVars
=============================================================================
