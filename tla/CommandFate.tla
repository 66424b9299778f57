---------------------------- MODULE CommandFate ----------------------------
(***************************************************************************)
(* What the transport promises for one command of the store, whatever      *)
(* happens to the connection: it is accepted, it may wait, it is sent at   *)
(* most once, and it is settled (answered or reported lost) at any time;   *)
(* it is never put back after it was sent.                                 *)
(*                                                                         *)
(* One command at a time may end without an event of its own: an open that *)
(* was sent, and whose session the component remembers and opens again by  *)
(* itself.  It is dropped only while it is the one remembered, and for     *)
(* good.                                                                   *)
(***************************************************************************)
CONSTANT Commands

VARIABLES
    fate,       \* where each command is
    remembered  \* the open whose session will be opened again, if any

Fates == {"new", "held", "sent", "settled", "dropped"}

(* Where a command may go from each fate, besides staying. *)
Later == [new     |-> {"held"},
          held    |-> {"sent", "settled"},
          sent    |-> {"settled"},
          settled |-> {},
          dropped |-> {}]

AtMostOne(C) == \A c, d \in C : c = d

Dropped(c) == fate[c] = "sent" /\ c \in remembered /\ fate'[c] = "dropped"

Init ==
    /\ fate = [c \in Commands |-> "new"]
    /\ remembered = {}

(* A disconnect or a flush may settle several commands in one step. *)
Next ==
    /\ fate' \in [Commands -> Fates]
    /\ \A c \in Commands :
          fate'[c] = fate[c] \/ fate'[c] \in Later[fate[c]] \/ Dropped(c)
    /\ remembered' \subseteq Commands /\ AtMostOne(remembered')

Spec == Init /\ [][Next]_<<fate, remembered>>
=============================================================================
