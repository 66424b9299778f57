------------------------- MODULE MCOuterLoopMailbox -------------------------
(* Values for TLC of the mailbox of the OLP-MCP servers.                   *)
EXTENDS OuterLoopMailbox

CONSTANTS a, b

OneServer == {a}
TwoServers == {a, b}
=============================================================================
