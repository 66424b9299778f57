---------------------------- MODULE SharedServer ----------------------------
(***************************************************************************)
(* What the discovery of a shared server promises (src/shared_instance.rs): *)
(* a runtime directory is served by nobody or by one server, and a client   *)
(* uses a server only after that server, while it served, spoke to it.      *)
(***************************************************************************)
CONSTANTS
    Clients,    \* who looks for a server
    Servers,    \* the servers there may be
    None        \* no server

VARIABLES
    serving,    \* the server of the directory
    met,        \* the server that spoke to a client in its current search
    uses        \* the server a client uses

vars == <<serving, met, uses>>

Init ==
    /\ serving = None
    /\ met = [c \in Clients |-> None]
    /\ uses = [c \in Clients |-> None]

Serve(s) == serving = None /\ serving' = s /\ UNCHANGED <<met, uses>>

Stop == serving # None /\ serving' = None /\ UNCHANGED <<met, uses>>

Meet(c) ==
    /\ serving # None /\ met' = [met EXCEPT ![c] = serving]
    /\ UNCHANGED <<serving, uses>>

Use(c) ==
    /\ met[c] # None
    /\ uses' = [uses EXCEPT ![c] = met[c]] /\ met' = [met EXCEPT ![c] = None]
    /\ UNCHANGED serving

Forget(c) ==
    /\ met' = [met EXCEPT ![c] = None] /\ uses' = [uses EXCEPT ![c] = None]
    /\ UNCHANGED serving

Next ==
    \/ \E s \in Servers : Serve(s)
    \/ Stop
    \/ \E c \in Clients : Meet(c) \/ Use(c) \/ Forget(c)

Spec == Init /\ [][Next]_vars
=============================================================================
