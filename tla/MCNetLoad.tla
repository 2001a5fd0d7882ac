----------------------------- MODULE MCNetLoad -----------------------------
(***************************************************************************)
(* Two connections that send and share the acceptor, one that receives, or *)
(* one that goes both ways and that the network may reset.                 *)
(***************************************************************************)
EXTENDS NetLoad

CONSTANTS c1, c2
MCConns == {c1, c2}
AllDirs == {"send", "recv", "both"}

\* Unless the client sends, its second worker fails to connect at once.
MCNext ==
    /\ Next
    /\ dir # "send" => worker'[c2] = "ended"
    /\ dir # "both" => resets' = 0
MCSpec == Init /\ [][MCNext]_vars
MCFairSpec == MCSpec /\ Fairness
=============================================================================
