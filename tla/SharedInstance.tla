--------------------------- MODULE SharedInstance ---------------------------
(***************************************************************************)
(* How clients find or start the one WebSocket server of a runtime          *)
(* directory (src/shared_instance.rs, called by the transport whenever it   *)
(* connects): the startup lock, the record a server leaves, the probe of    *)
(* the ownership lock, the spawn, and the sixty seconds of patience.        *)
(*                                                                          *)
(* The servers are another program, modelled from what the code expects of  *)
(* them: a server takes the ownership lock or exits, replaces the record in *)
(* one step, may never do either, may never answer, and may die at any      *)
(* moment and leave its record behind; the operator may start one by hand.  *)
(* Clients may be killed between two steps, and connect again after a lost  *)
(* link or a failed search. A client's child lives on without it.           *)
(*                                                                          *)
(* Abstracted: the record is the server that wrote it, or Bad for a file    *)
(* read_instance or validate_record rejects; an answer is that of the       *)
(* server named by the record or, when its port has gone to another         *)
(* process, a different one.                                                *)
(***************************************************************************)
EXTENDS Naturals

CONSTANTS
    Clients,    \* the processes that search
    Servers,    \* the servers that may be started: the bound on spawns
    None,       \* nobody
    Bad         \* a record that does not match this runtime or protocol

ASSUME NamesAssumption ==
    /\ Clients \cap Servers = {} /\ None # Bad
    /\ {None, Bad} \cap (Clients \cup Servers) = {}

VARIABLES
    place,      \* where each client is in discover, or what it returned
    late,       \* clients whose deadline has passed
    polling,    \* clients that are past the probe of the ownership lock
    child,      \* the server a search has spawned
    asked,      \* the record a client read last
    answer,     \* what the process at that endpoint has answered
    start,      \* who has the startup lock
    owner,      \* who has the ownership lock
    record,     \* the record file
    server,     \* where each server is
    left,       \* servers nobody waited for any more when they began
    lostTo      \* who had the ownership when a server found it taken

clientVars == <<place, late, polling, child, asked, answer>>
serverVars == <<record, server, lostTo>>
vars == <<clientVars, start, owner, serverVars, left>>

Locked == {"reads", "asks", "probes", "probed", "spawns", "polls"}
Errors == {"busy", "record", "exited", "unattached", "failed"}
Over == Errors \cup {"attached", "killed"}

Init ==
    /\ place = [c \in Clients |-> "new"]
    /\ late = {} /\ polling = {} /\ left = {}
    /\ child = [c \in Clients |-> None]
    /\ asked = [c \in Clients |-> None]
    /\ answer = [c \in Clients |-> "none"]
    /\ start = None /\ owner = None
    /\ record \in {None, Bad}
    /\ server = [s \in Servers |-> "none"]
    /\ lostTo = [s \in Servers |-> None]

Starting == {s \in Servers : server[s] = "starting"}

At(c, at) == place' = [place EXCEPT ![c] = at]

(* discover is called: its deadline counts from here.                       *)
Discover(c) ==
    /\ place[c] \in {"new", "attached"} \cup Errors
    /\ At(c, "locks") /\ late' = late \ {c} /\ polling' = polling \ {c}
    /\ UNCHANGED <<child, asked, answer, start, owner, serverVars, left>>

(* Mutant: the startup lock is taken shared. *)
LocksShared(c) ==
    /\ place[c] = "locks" /\ start' = c /\ At(c, "reads")
    /\ UNCHANGED <<late, polling, child, asked, answer, owner, serverVars, left>>

(* One attempt every 100 ms until the startup lock is free ... *)
Locks(c) ==
    /\ place[c] = "locks" /\ start = None
    /\ start' = c /\ At(c, "reads")
    /\ UNCHANGED <<late, polling, child, asked, answer, owner, serverVars, left>>

(* ... or the deadline has passed. *)
Busy(c) ==
    /\ place[c] = "locks" /\ start # None /\ c \in late
    /\ At(c, "busy")
    /\ UNCHANGED <<late, polling, child, asked, answer, start, owner, serverVars, left>>

(* Mutant: an error path keeps the startup lock. *)
ReturnsLocked(c, at) ==
    /\ At(c, at) /\ UNCHANGED start
    /\ child' = [child EXCEPT ![c] = None]
    /\ left' = left \cup ({child[c]} \cap Starting)

(* A return drops the startup lock and the handle of the child, not the     *)
(* child.                                                                   *)
Returns(c, at) ==
    /\ At(c, at) /\ start' = None
    /\ child' = [child EXCEPT ![c] = None]
    /\ left' = left \cup ({child[c]} \cap Starting)

GoesOn(c, at) == At(c, at) /\ UNCHANGED <<start, child, left>>

(* Mutant: the poll has no deadline. *)
FoundNobodyEver(c) == GoesOn(c, IF c \in polling THEN "polls" ELSE "probes")

(* No record, or one whose server did not prove itself in time.             *)
FoundNobody(c) ==
    \/ c \notin polling /\ GoesOn(c, "probes")
    \/ c \in polling \ late /\ GoesOn(c, "polls")
    \/ c \in polling \cap late /\ Returns(c, "unattached")

(* read_instance *)
ReadInstance(c) ==
    /\ place[c] = "reads"
    /\ \/ record = None /\ FoundNobody(c) /\ UNCHANGED <<asked, answer>>
       \/ record = Bad /\ Returns(c, "record") /\ UNCHANGED <<asked, answer>>
       \/ /\ record \in Servers /\ GoesOn(c, "asks")
          /\ asked' = [asked EXCEPT ![c] = record]
          /\ answer' = [answer EXCEPT ![c] = "none"]
    /\ UNCHANGED <<late, polling, owner, serverVars>>

(* Mutant: whoever answers is the server. *)
VerifyAnyone(c) ==
    /\ place[c] = "asks" /\ answer[c] # "none" /\ Returns(c, "attached")
    /\ UNCHANGED <<late, polling, asked, answer, owner, serverVars>>

(* verify compares the identity in the answer with the record.              *)
Verify(c) ==
    /\ place[c] = "asks" /\ answer[c] = "same" /\ Returns(c, "attached")
    /\ UNCHANGED <<late, polling, asked, answer, owner, serverVars>>

(* Refused, closed, another identity, or the two or three seconds are over, *)
(* also when an answer is about to arrive.                                  *)
VerifyFails(c) ==
    /\ place[c] = "asks" /\ FoundNobody(c)
    /\ UNCHANGED <<late, polling, asked, answer, owner, serverVars>>

-----------------------------------------------------------------------------
(* The probe takes the ownership lock and gives it back, or sees that it is *)
(* owned and starts nothing.                                                *)
Probe(c) ==
    /\ place[c] = "probes"
    /\ \/ owner = None /\ owner' = c /\ At(c, "probed") /\ UNCHANGED polling
       \/ owner # None /\ At(c, "polls") /\ polling' = polling \cup {c}
          /\ UNCHANGED owner
    /\ UNCHANGED <<late, child, asked, answer, start, serverVars, left>>

(* Mutant: the startup lock goes with the ownership lock. *)
UnlockBoth(c) ==
    /\ place[c] = "probed" /\ owner' = None /\ start' = None /\ At(c, "spawns")
    /\ UNCHANGED <<late, polling, child, asked, answer, serverVars, left>>

Unlock(c) ==
    /\ place[c] = "probed" /\ owner' = None /\ At(c, "spawns")
    /\ UNCHANGED <<late, polling, child, asked, answer, start, serverVars, left>>

Spawn(c) ==
    /\ place[c] = "spawns"
    /\ \E s \in Servers :
          /\ server[s] = "none" /\ server' = [server EXCEPT ![s] = "starting"]
          /\ child' = [child EXCEPT ![c] = s]
    /\ At(c, "polls") /\ polling' = polling \cup {c}
    /\ UNCHANGED <<late, asked, answer, start, owner, record, lostTo, left>>

(* A lock file that cannot be opened, a command that cannot be started, a   *)
(* child that cannot be asked.                                              *)
Fails(c) ==
    /\ place[c] \in {"probes", "spawns", "polls"} /\ Returns(c, "failed")
    /\ UNCHANGED <<late, polling, asked, answer, owner, serverVars>>

(* The poll asks for the exit status first, whoever is ready by now.        *)
Poll(c) ==
    /\ place[c] = "polls"
    /\ \/ child[c] # None /\ server[child[c]] = "exited" /\ Returns(c, "exited")
       \/ child[c] # None /\ server[child[c]] # "exited" /\ GoesOn(c, "reads")
       \/ child[c] = None /\ GoesOn(c, "reads")
    /\ UNCHANGED <<late, polling, asked, answer, owner, serverVars>>

DeadlinePasses(c) ==
    /\ place[c] \in Locked \cup {"locks"} /\ c \notin late /\ late' = late \cup {c}
    /\ UNCHANGED <<place, polling, child, asked, answer, start, owner, serverVars, left>>

(* The kernel closes the locks of a killed client. *)
Killed(c) ==
    /\ place[c] \in Locked \cup {"locks"}
    /\ At(c, "killed") /\ child' = [child EXCEPT ![c] = None]
    /\ start' = IF start = c THEN None ELSE start
    /\ owner' = IF owner = c THEN None ELSE owner
    /\ left' = left \cup ({child[c]} \cap Starting)
    /\ UNCHANGED <<late, polling, asked, answer, serverVars>>

-----------------------------------------------------------------------------
(* The operator starts a server by hand. *)
ByHand(s) ==
    /\ server[s] = "none" /\ server' = [server EXCEPT ![s] = "starting"]
    /\ left' = left \cup {s}
    /\ UNCHANGED <<clientVars, start, owner, record, lostTo>>

Owns(s) ==
    /\ server[s] = "starting" /\ owner = None
    /\ owner' = s /\ server' = [server EXCEPT ![s] = "owner"]
    /\ UNCHANGED <<clientVars, start, record, left, lostTo>>

Loses(s) ==
    /\ server[s] = "starting" /\ owner # None
    /\ server' = [server EXCEPT ![s] = "exited"]
    /\ lostTo' = [lostTo EXCEPT ![s] = owner]
    /\ UNCHANGED <<clientVars, start, owner, record, left>>

Serves(s) ==
    /\ server[s] = "owner" /\ server' = [server EXCEPT ![s] = "serving"]
    /\ record' = s
    /\ UNCHANGED <<clientVars, start, owner, left, lostTo>>

Dies(s) ==
    /\ server[s] \in {"starting", "owner", "serving"}
    /\ server' = [server EXCEPT ![s] = "exited"]
    /\ owner' = IF owner = s THEN None ELSE owner
    /\ UNCHANGED <<clientVars, start, record, left, lostTo>>

(* The server answers, or the process that has got the port of a dead one.  *)
Answers(c) ==
    /\ place[c] = "asks" /\ answer[c] = "none"
    /\ \/ server[asked[c]] = "serving" /\ answer' = [answer EXCEPT ![c] = "same"]
       \/ server[asked[c]] = "exited" /\ answer' = [answer EXCEPT ![c] = "other"]
    /\ UNCHANGED <<place, late, polling, child, asked, start, owner, serverVars, left>>

-----------------------------------------------------------------------------
SearchSteps(c) ==
    \/ Locks(c) \/ Busy(c) \/ ReadInstance(c) \/ Verify(c) \/ VerifyFails(c)
    \/ Probe(c) \/ Unlock(c) \/ Spawn(c) \/ Fails(c) \/ Poll(c)

Next ==
    \/ \E c \in Clients :
          Discover(c) \/ SearchSteps(c) \/ DeadlinePasses(c) \/ Killed(c) \/ Answers(c)
    \/ \E s \in Servers : ByHand(s) \/ Owns(s) \/ Loses(s) \/ Serves(s) \/ Dies(s)

Spec == Init /\ [][Next]_vars

(* A search runs on and time passes; no server has to do anything.          *)
Fairness ==
    \A c \in Clients : WF_vars(SearchSteps(c)) /\ WF_vars(DeadlinePasses(c))

FairSpec == Spec /\ Fairness

-----------------------------------------------------------------------------
(* Types, and who may have which lock and child. *)
TypeOK ==
    /\ place \in [Clients -> Locked \cup Over \cup {"new", "locks"}]
    /\ late \subseteq Clients /\ polling \subseteq Clients /\ left \subseteq Servers
    /\ child \in [Clients -> Servers \cup {None}]
    /\ asked \in [Clients -> Servers \cup {None}]
    /\ answer \in [Clients -> {"none", "same", "other"}]
    /\ start \in Clients \cup {None} /\ owner \in Clients \cup Servers \cup {None}
    /\ record \in Servers \cup {None, Bad}
    /\ server \in [Servers -> {"none", "starting", "owner", "serving", "exited"}]
    /\ lostTo \in [Servers -> Clients \cup Servers \cup {None}]
    /\ \A c \in Clients :
          /\ place[c] = "asks" => asked[c] \in Servers
          /\ start = c <=> place[c] \in Locked
          /\ owner = c <=> place[c] = "probed"
          /\ child[c] # None => c \in polling /\ place[c] \in {"reads", "asks", "polls"}

(* A server that finds the directory owned by another was started by hand,  *)
(* or was left behind while it began, or lost to such a one: as long as     *)
(* nobody is killed or runs out of patience, concurrent clients never start *)
(* competing servers, though the ownership lock is free between the probe   *)
(* and the spawn.                                                           *)
CompetitorsWereLeft ==
    \A s \in Servers : lostTo[s] # None => s \in left \/ lostTo[s] \in left

(* Every search ends, also one that waits behind a search whose server      *)
(* never answers.                                                           *)
DiscoveryEnds == \A c \in Clients : place[c] = "locks" ~> place[c] \in Over

(* A client uses only a server that answered it with the identity of the    *)
(* record while it owned the directory, whatever died, whoever got its port *)
(* and whichever record was read in between.                                *)
Promise == INSTANCE SharedServer WITH
    serving <- IF owner \in Servers /\ server[owner] = "serving" THEN owner ELSE None,
    met <- [c \in Clients |->
              IF place[c] = "asks" /\ answer[c] = "same" THEN asked[c] ELSE None],
    uses <- [c \in Clients |-> IF place[c] = "attached" THEN asked[c] ELSE None]
ImplementsSharedServer == Promise!Spec
=============================================================================
