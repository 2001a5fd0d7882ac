----------------------------- MODULE MCThrottle -----------------------------
(***************************************************************************)
(* A limit that is a multiple of nothing, one, and none at all.            *)
(***************************************************************************)
EXTENDS Throttle

MCRates == {0, 3, 4}
=============================================================================
