------------------------- MODULE MCBouncerMiddleware -------------------------
(***************************************************************************)
(* Two visitors, the range around them, and one bigger than subnetLevel.   *)
(***************************************************************************)
EXTENDS BouncerMiddleware, TLC

CONSTANTS i1, i2, range, country

MCIps == {i1, i2}
MCValues == {range, country}
MCMaskOf == (range :> 24) @@ (country :> 8)
MCCovered == (range :> MCIps) @@ (country :> MCIps)
=============================================================================
