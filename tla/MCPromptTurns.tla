---------------------------- MODULE MCPromptTurns ----------------------------
(* Values for TLC of the life of a prompt in the store.                    *)
EXTENDS PromptTurns

CONSTANTS s1, s2

OneSession == {s1}
TwoSessions == {s1, s2}

Plain(steering, kinds, prompts) ==
    [steering |-> steering, twins |-> FALSE, kinds |-> kinds,
     prompts |-> prompts, faults |-> 2, own |-> 0]
TwinTurns == [Plain("off", {}, 2) EXCEPT !.twins = TRUE, !.own = 1]

\* Three prompts through two faults, and one prompt through any two.
StoreServers ==
    {Plain("off", {"death", "rejection"}, 3), Plain("off", FaultKinds, 1),
     [Plain("echo", FaultKinds, 1) EXCEPT !.own = 1]}

\* Faults after which the user's prompts are all answered.
LiveServers ==
    {Plain("off", {"death", "drop"}, 3), TwinTurns}
        \cup {Plain(m, {"no steer"}, 3) : m \in {"echo", "settles"}}

OneDeath == {[Plain("off", {"death"}, 1) EXCEPT !.faults = 1]}

\* Select, written for the provers, is SelectSeq.
Odd(n) == n % 2 = 1
ShortSeqs == UNION {[1..n -> 0..2] : n \in 0..4}
ASSUME SelectIsSelectSeq == \A seq \in ShortSeqs : Select(seq, Odd) = SelectSeq(seq, Odd)
=============================================================================
