---------------------------- MODULE MCTFTPClient ----------------------------
(* TFTPClient with a server that has two ports for its sessions, so that a  *)
(* repeated read request can open a second one.                             *)
EXTENDS TFTPClient

CONSTANTS p1, p2

MCPorts == {p1, p2}
=============================================================================
