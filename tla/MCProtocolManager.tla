------------------------- MODULE MCProtocolManager --------------------------
(* ProtocolManager on a small network: a router that may have either of two *)
(* link addresses and one other host.                                       *)
EXTENDS ProtocolManager

CONSTANTS rtr, peer, m1, m2, h1

MCIP == {rtr, peer}
MCRouterMACs == {m1, m2}
MCHostMACs == {h1}
=============================================================================
