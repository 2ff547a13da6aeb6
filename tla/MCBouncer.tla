----------------------------- MODULE MCBouncer -----------------------------
(***************************************************************************)
(* Two visitors; an address, the range around both, and a range bigger     *)
(* than subnetLevel.                                                       *)
(***************************************************************************)
EXTENDS Bouncer

CONSTANTS i1, i2, address, range, country

MCIps == {i1, i2}
MCMaskOf ==
  [v \in Values |-> CASE v = address -> 32 [] v = range -> 24 [] v = country -> 8]
MCCovered == [v \in Values |-> IF v = address THEN {i1} ELSE MCIps]
=============================================================================
