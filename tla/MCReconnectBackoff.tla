------------------------- MODULE MCReconnectBackoff -------------------------
(* Values for TLC: half-second ticks, the constants of transport.rs.  A    *)
(* stdio spawn returns within a tick.                                      *)
EXTENDS ReconnectBackoff

StdioConnect == {0}
=============================================================================
