-------------------------- MODULE MCSharedInstance --------------------------
(* Values for TLC of the discovery of a shared server.                     *)
EXTENDS SharedInstance

CONSTANTS p1, p2, s1, s2, s3

TwoClients == {p1, p2}
ThreeServers == {s1, s2, s3}
TwoServers == {s1, s2}
=============================================================================
