-------------------------- MODULE MCProtocolBackend --------------------------
(* Values for TLC of the transport's connection and scope state machine.   *)
EXTENDS ProtocolBackend

CONSTANTS a, b

TwoSessions == {a, b}
ScopedKinds == {"open", "hydrate", "turn"}
AllUserKinds == {"resolve", "list", "open", "hydrate", "turn"}
=============================================================================
