---------------------------- MODULE DutyAuthority ----------------------------
(***************************************************************************)
(* What `octoscode outer-duty` promises (src/outer_duty.rs): the reviewer   *)
(* authority over a project is vacant or held by one outer, and an agent    *)
(* acts under it only while its outer holds it.                             *)
(***************************************************************************)
CONSTANTS
    Outers,     \* the processes that may hold the duty
    None        \* nobody, and no outer

VARIABLES
    holder,     \* who holds the authority
    acting      \* whether the agent of the holder runs

vars == <<holder, acting>>

Init == holder = None /\ acting = FALSE

Take(w) == holder = None /\ holder' = w /\ acting' = FALSE

Act == holder # None /\ acting' = TRUE /\ UNCHANGED holder

Stop == acting /\ acting' = FALSE /\ UNCHANGED holder

Release == holder # None /\ holder' = None /\ acting' = FALSE

Next == (\E w \in Outers : Take(w)) \/ Act \/ Stop \/ Release

Spec == Init /\ [][Next]_vars
=============================================================================
