------------------------------ MODULE OuterDuty ------------------------------
(***************************************************************************)
(* The outer duty lock of one project (src/outer_duty.rs,                   *)
(* src/cmd/outer_duty.rs): wrappers run `outer-duty hold -- agent`, each    *)
(* one once, checks run `outer-duty check`, and the operator may kill any   *)
(* of them between two steps.                                               *)
(*                                                                          *)
(* The lock is flock(2) on one file. owner is the open file description     *)
(* that has it, named after the process that opened it; it is shared with   *)
(* the child of that process from fork to exec (CLOEXEC), and the kernel    *)
(* frees the lock with the last descriptor. A process that ends closes its  *)
(* descriptors first and only then hands its children to init and sends     *)
(* them the signal they asked for, which is why a wrapper is "dying" before *)
(* it is "gone".                                                            *)
(*                                                                          *)
(* Left out: the path and permissions of the lock file, whose failures end  *)
(* a process before it tries the lock, the metadata beside it, which only   *)
(* diagnostics read, and grandchildren, which hold no descriptor.           *)
(***************************************************************************)
EXTENDS Naturals, FiniteSets

CONSTANTS
    Outers,     \* the wrappers
    Checks,     \* the probes
    None        \* no process

ASSUME ProcessesAssumption ==
    /\ Outers \cap Checks = {} /\ None \notin Outers \cup Checks
    /\ IsFiniteSet(Outers \cup Checks)

VARIABLES
    wrapper,    \* where each wrapper is
    child,      \* where its child is
    coupled,    \* children that asked for SIGKILL when their parent dies
    killed,     \* children to which the kernel has sent it
    late,       \* wrappers whose two seconds of retries are over
    met,        \* who had the lock when a wrapper tried to take it
    check,      \* where each probe is, and what it printed
    owner       \* who has the lock

vars == <<wrapper, child, coupled, killed, late, met, check, owner>>

Alive == {"retries", "holds", "spawns", "waits"}    \* wrappers with descriptors
PreExec == {"forked", "coupled", "checked"}         \* children that share them

Init ==
    /\ wrapper = [w \in Outers |-> "new"]
    /\ child = [w \in Outers |-> "none"]
    /\ coupled = {} /\ killed = {} /\ late = {}
    /\ met = [w \in Outers |-> {}]
    /\ check = [c \in Checks |-> "new"]
    /\ owner = None

(* A wrapper and its child get to new places, and the kernel frees the lock *)
(* that was theirs with the last descriptor.                                *)
Moves(w, at, childAt) ==
    /\ wrapper' = [wrapper EXCEPT ![w] = at]
    /\ child' = [child EXCEPT ![w] = childAt]
    /\ owner' = IF owner = w /\ at \notin Alive /\ childAt \notin PreExec
              THEN None ELSE owner

WrapperTo(w, at) == Moves(w, at, child[w])
ChildTo(w, at) == Moves(w, wrapper[w], at)

-----------------------------------------------------------------------------
(* Mutant: the lock is taken shared. *)
LocksShared(w) ==
    /\ owner' = w /\ UNCHANGED child
    /\ wrapper' = [wrapper EXCEPT ![w] = "holds"]
    /\ met' = [met EXCEPT ![w] = {}] /\ late' = late \ {w}

(* acquire: one attempt, then one every 20 ms for two seconds.              *)
Locks(w) ==
    /\ owner = None /\ owner' = w
    /\ wrapper' = [wrapper EXCEPT ![w] = "holds"] /\ UNCHANGED child
    /\ met' = [met EXCEPT ![w] = {}] /\ late' = late \ {w}

Meets(w, at) ==
    /\ owner # None /\ WrapperTo(w, at)
    /\ met' = [met EXCEPT ![w] = @ \cup {owner}] /\ UNCHANGED late

(* Mutant: a contended attempt is a conflict. *)
AcquireOnce(w) ==
    /\ wrapper[w] = "new"
    /\ Locks(w) \/ Meets(w, "conflict")
    /\ UNCHANGED <<coupled, killed, check>>

Acquire(w) ==
    /\ wrapper[w] = "new"
    /\ Locks(w) \/ Meets(w, "retries")
    /\ UNCHANGED <<coupled, killed, check>>

(* A probe has unlocked before the 20 ms of an attempt it met are over.     *)
Retry(w) ==
    /\ wrapper[w] = "retries"
    /\ owner \notin met[w] \cap Checks
    /\ Locks(w) \/ Meets(w, IF w \in late THEN "conflict" ELSE "retries")
    /\ UNCHANGED <<coupled, killed, check>>

DeadlinePasses(w) ==
    /\ wrapper[w] = "retries" /\ w \notin late /\ late' = late \cup {w}
    /\ UNCHANGED <<wrapper, child, coupled, killed, met, check, owner>>

-----------------------------------------------------------------------------
(* spawn_holder_child: the wrapper forks and waits for the outcome of exec. *)
(* Mutant: the hold guard is dropped before the wait. *)
ForkDropsHold(w) ==
    /\ wrapper[w] = "holds" /\ wrapper' = [wrapper EXCEPT ![w] = "spawns"]
    /\ child' = [child EXCEPT ![w] = "forked"] /\ owner' = None
    /\ UNCHANGED <<coupled, killed, late, met, check>>

Fork(w) ==
    /\ wrapper[w] = "holds" /\ Moves(w, "spawns", "forked")
    /\ UNCHANGED <<coupled, killed, late, met, check>>

(* A child the kernel has signalled runs no further instruction.            *)
Runs(w, at) == child[w] = at /\ w \notin killed

(* Mutant: prctl is forgotten. *)
CoupleNot(w) ==
    /\ Runs(w, "forked") /\ ChildTo(w, "coupled")
    /\ UNCHANGED <<coupled, killed, late, met, check>>

(* setpgid and prctl(PR_SET_PDEATHSIG), in the child. *)
Couple(w) ==
    /\ Runs(w, "forked") /\ ChildTo(w, "coupled") /\ coupled' = coupled \cup {w}
    /\ UNCHANGED <<killed, late, met, check>>

(* Mutant: the child does not look at its parent again. *)
CheckParentNot(w) ==
    /\ Runs(w, "coupled") /\ ChildTo(w, "checked")
    /\ UNCHANGED <<coupled, killed, late, met, check>>

(* getppid, in the child: it fails once the child has been handed over.     *)
CheckParent(w) ==
    /\ Runs(w, "coupled")
    /\ ChildTo(w, IF wrapper[w] = "gone" THEN "failed" ELSE "checked")
    /\ UNCHANGED <<coupled, killed, late, met, check>>

(* exec closes the descriptor of the lock in the child. *)
Exec(w) ==
    /\ Runs(w, "checked") /\ ChildTo(w, "agent")
    /\ UNCHANGED <<coupled, killed, late, met, check>>

(* setpgid, prctl or exec fails, and the child tells the wrapper and ends.  *)
ChildFails(w) ==
    /\ \E at \in PreExec : Runs(w, at)
    /\ ChildTo(w, "failed")
    /\ UNCHANGED <<coupled, killed, late, met, check>>

-----------------------------------------------------------------------------
(* run_hold: fork or exec failed, and the wrapper ends.                     *)
SpawnFails(w) ==
    /\ \/ wrapper[w] = "holds"
       \/ wrapper[w] = "spawns" /\ child[w] = "failed"
    /\ WrapperTo(w, "gone")
    /\ UNCHANGED <<coupled, killed, late, met, check>>

(* exec is done; the metadata is written and the wrapper waits for the child. *)
Spawned(w) ==
    /\ wrapper[w] = "spawns" /\ child[w] \in {"agent", "dead"}
    /\ WrapperTo(w, "waits")
    /\ UNCHANGED <<coupled, killed, late, met, check>>

AgentExits(w) ==
    /\ child[w] = "agent" /\ ChildTo(w, "dead")
    /\ UNCHANGED <<coupled, killed, late, met, check>>

WaitReturns(w) ==
    /\ wrapper[w] = "waits" /\ child[w] = "dead"
    /\ WrapperTo(w, "gone")
    /\ UNCHANGED <<coupled, killed, late, met, check>>

-----------------------------------------------------------------------------
(* The operator kills a wrapper; the kernel closes its descriptors, ...     *)
WrapperDies(w) ==
    /\ wrapper[w] \in Alive
    /\ WrapperTo(w, "dying")
    /\ UNCHANGED <<coupled, killed, late, met, check>>

(* ... then hands over its child and signals it, if it is coupled, ...      *)
HandsOver(w) ==
    /\ wrapper[w] = "dying" /\ WrapperTo(w, "gone")
    /\ killed' = killed \cup ({w} \cap coupled)
    /\ UNCHANGED <<coupled, late, met, check>>

(* ... and a signalled child ends.                                          *)
ChildDies(w) ==
    /\ w \in killed /\ child[w] \in PreExec \cup {"agent"}
    /\ ChildTo(w, "dead")
    /\ UNCHANGED <<coupled, killed, late, met, check>>

-----------------------------------------------------------------------------
(* check: the probe takes the lock if it can, and gives it back.            *)
Probe(c) ==
    /\ check[c] = "new"
    /\ \/ owner = None /\ owner' = c /\ check' = [check EXCEPT ![c] = "locked"]
       \/ owner # None /\ check' = [check EXCEPT ![c] = "HELD"] /\ UNCHANGED owner
    /\ UNCHANGED <<wrapper, child, coupled, killed, late, met>>

(* It unlocks and prints VACANT. *)
ProbeEnds(c) ==
    /\ check[c] = "locked"
    /\ check' = [check EXCEPT ![c] = "VACANT"] /\ owner' = None
    /\ UNCHANGED <<wrapper, child, coupled, killed, late, met>>

-----------------------------------------------------------------------------
WrapperSteps(w) ==
    Acquire(w) \/ Retry(w) \/ Fork(w) \/ SpawnFails(w) \/ Spawned(w) \/ WaitReturns(w)

ChildSteps(w) == Couple(w) \/ CheckParent(w) \/ Exec(w) \/ ChildFails(w) \/ AgentExits(w)

KernelSteps(w) == DeadlinePasses(w) \/ WrapperDies(w) \/ HandsOver(w) \/ ChildDies(w)

Next ==
    \/ \E w \in Outers : WrapperSteps(w) \/ ChildSteps(w) \/ KernelSteps(w)
    \/ \E c \in Checks : Probe(c) \/ ProbeEnds(c)

Spec == Init /\ [][Next]_vars

(* Processes run on and the kernel ends what died; nobody has to be killed, *)
(* and an agent may run for ever.                                           *)
Fairness ==
    /\ \A w \in Outers :
          /\ WF_vars(Retry(w)) /\ WF_vars(DeadlinePasses(w))
          /\ WF_vars(Fork(w) \/ SpawnFails(w)) /\ WF_vars(Spawned(w))
          /\ WF_vars(WaitReturns(w))
          /\ WF_vars(Couple(w) \/ CheckParent(w) \/ Exec(w) \/ ChildFails(w))
          /\ WF_vars(HandsOver(w)) /\ WF_vars(ChildDies(w))
    /\ \A c \in Checks : WF_vars(ProbeEnds(c))

FairSpec == Spec /\ Fairness

-----------------------------------------------------------------------------
TypeOK ==
    /\ wrapper \in [Outers -> Alive \cup {"new", "conflict", "dying", "gone"}]
    /\ child \in [Outers -> PreExec \cup {"none", "agent", "failed", "dead"}]
    /\ coupled \subseteq Outers /\ killed \subseteq coupled /\ late \subseteq Outers
    /\ \A w \in Outers : child[w] \in {"coupled", "checked", "agent"} => w \in coupled
    /\ met \in [Outers -> SUBSET (Outers \cup Checks)]
    /\ check \in [Checks -> {"new", "locked", "VACANT", "HELD"}]
    /\ owner \in Outers \cup Checks \cup {None}

Acts(w) == child[w] = "agent" /\ wrapper[w] \in Alive

(* An agent whose wrapper is alive acts under the lock, so there is at most *)
(* one of them, whatever wrappers and checks are started and killed: the    *)
(* "authority" of the module's head comment.                                *)
ActsUnderLock == \A w \in Outers : Acts(w) => owner = w

(* An agent whose wrapper is gone has been sent its SIGKILL, also when the  *)
(* wrapper died between the fork and the coupling: "an orphaned agent must  *)
(* not outlive its authority" (spawn_holder_child).                         *)
OrphanIsDoomed ==
    \A w \in Outers :
        child[w] \in {"checked", "agent"} /\ wrapper[w] = "gone" => w \in killed

(* One check alone never makes acquire report another holder: it takes a    *)
(* holder, or a second check that meets a later attempt.                    *)
ConflictIsReal ==
    \A w \in Outers : wrapper[w] = "conflict" =>
        met[w] \cap Outers # {} \/ Cardinality(met[w]) > 1

(* The authority of a wrapper that died, however far its child had come,    *)
(* becomes free, and its child ends.                                        *)
AuthorityReturns ==
    \A w \in Outers : wrapper[w] = "dying" ~>
        owner # w /\ child[w] \in {"none", "failed", "dead"}

(* Wrappers and checks together implement the authority: a probe's instant  *)
(* with the lock holds nothing, and a child before exec still does.         *)
Authority == INSTANCE DutyAuthority WITH
    holder <- IF owner \in Outers THEN owner ELSE None,
    acting <- owner \in Outers /\ Acts(owner)
ImplementsDutyAuthority == Authority!Spec
=============================================================================
