--------------------------- MODULE OuterDutyProofs ---------------------------
(***************************************************************************)
(* Proofs about the outer duty lock: whatever wrappers and checks there     *)
(* are, and whenever any of them is killed, at most one agent acts and it   *)
(* acts under the lock, an orphan is doomed, and the whole implements       *)
(* DutyAuthority.                                                           *)
(***************************************************************************)
EXTENDS OuterDuty, FiniteSetTheorems, TLAPS

(* The three facts that tie the kernel's lock to the two processes that     *)
(* share its description: who has it is a wrapper past acquire, a child     *)
(* before exec or a probe between its two calls, and each of those has it.  *)
LockHeldByItsUsers ==
    /\ \A w \in Outers :
          owner = w <=> wrapper[w] \in {"holds", "spawns", "waits"} \/ child[w] \in PreExec
    /\ \A c \in Checks : owner = c <=> check[c] = "locked"

ChildAfterFork ==
    \A w \in Outers :
        wrapper[w] \in {"new", "retries", "conflict", "holds"} => child[w] = "none"

DutyInv == TypeOK /\ LockHeldByItsUsers /\ ChildAfterFork /\ OrphanIsDoomed

LEMMA DutyInit == Init => DutyInv
  BY ProcessesAssumption DEF Init, DutyInv, TypeOK, LockHeldByItsUsers, ChildAfterFork,
     OrphanIsDoomed, PreExec, Alive

LEMMA WrapperStep ==
  ASSUME DutyInv, NEW w \in Outers, WrapperSteps(w)
  PROVE  DutyInv'
<1> USE ProcessesAssumption DEF DutyInv, TypeOK, LockHeldByItsUsers, ChildAfterFork,
     OrphanIsDoomed, PreExec, Alive, Locks, Meets, Moves, WrapperTo
<1>1. CASE Acquire(w)
  BY <1>1 DEF Acquire
<1>2. CASE Retry(w)
  BY <1>2 DEF Retry
<1>3. CASE Fork(w)
  BY <1>3 DEF Fork
<1>4. CASE SpawnFails(w)
  BY <1>4 DEF SpawnFails
<1>5. CASE Spawned(w)
  BY <1>5 DEF Spawned
<1>6. CASE WaitReturns(w)
  BY <1>6 DEF WaitReturns
<1> QED BY <1>1, <1>2, <1>3, <1>4, <1>5, <1>6 DEF WrapperSteps

LEMMA ChildStep ==
  ASSUME DutyInv, NEW w \in Outers, ChildSteps(w)
  PROVE  DutyInv'
<1> USE ProcessesAssumption DEF DutyInv, TypeOK, LockHeldByItsUsers, ChildAfterFork,
     OrphanIsDoomed, PreExec, Alive, Moves, ChildTo, Runs
<1>1. CASE Couple(w)
  BY <1>1 DEF Couple
<1>2. CASE CheckParent(w)
  BY <1>2 DEF CheckParent
<1>3. CASE Exec(w)
  BY <1>3 DEF Exec
<1>4. CASE ChildFails(w)
  BY <1>4 DEF ChildFails
<1>5. CASE AgentExits(w)
  BY <1>5 DEF AgentExits
<1> QED BY <1>1, <1>2, <1>3, <1>4, <1>5 DEF ChildSteps

LEMMA KernelStep ==
  ASSUME DutyInv, NEW w \in Outers, KernelSteps(w)
  PROVE  DutyInv'
<1> USE ProcessesAssumption DEF DutyInv, TypeOK, LockHeldByItsUsers, ChildAfterFork,
     OrphanIsDoomed, PreExec, Alive, Moves, WrapperTo, ChildTo
<1>1. CASE DeadlinePasses(w)
  BY <1>1 DEF DeadlinePasses
<1>2. CASE WrapperDies(w)
  BY <1>2 DEF WrapperDies
<1>3. CASE HandsOver(w)
  BY <1>3 DEF HandsOver
<1>4. CASE ChildDies(w)
  BY <1>4 DEF ChildDies
<1> QED BY <1>1, <1>2, <1>3, <1>4 DEF KernelSteps

LEMMA CheckStep ==
  ASSUME DutyInv, NEW c \in Checks, Probe(c) \/ ProbeEnds(c)
  PROVE  DutyInv'
<1> USE ProcessesAssumption DEF DutyInv, TypeOK, LockHeldByItsUsers, ChildAfterFork,
     OrphanIsDoomed, PreExec, Alive
<1>1. CASE Probe(c)
  BY <1>1 DEF Probe
<1>2. CASE ProbeEnds(c)
  BY <1>2 DEF ProbeEnds
<1> QED BY <1>1, <1>2

THEOREM DutyInvariant == Spec => []DutyInv
<1>1. DutyInv /\ [Next]_vars => DutyInv'
  <2> SUFFICES ASSUME DutyInv, [Next]_vars PROVE DutyInv'
    OBVIOUS
  <2>1. CASE Next
    BY <2>1, WrapperStep, ChildStep, KernelStep, CheckStep DEF Next
  <2>2. CASE UNCHANGED vars
    BY <2>2 DEF vars, DutyInv, TypeOK, LockHeldByItsUsers, ChildAfterFork,
       OrphanIsDoomed, Alive, PreExec
  <2> QED BY <2>1, <2>2
<1> QED BY DutyInit, <1>1, PTL DEF Spec

(* The lock, the couplings and the probes stay what TypeOK says for every   *)
(* set of wrappers and checks.                                              *)
THEOREM TypeCorrect == Spec => []TypeOK
BY DutyInvariant, PTL DEF DutyInv

(* Mutual exclusion: an agent whose wrapper lives acts under the lock.      *)
THEOREM AgentsActUnderLock == Spec => []ActsUnderLock
<1>1. DutyInv => ActsUnderLock
  BY DEF DutyInv, TypeOK, LockHeldByItsUsers, ChildAfterFork, ActsUnderLock, Acts, Alive
<1> QED BY DutyInvariant, <1>1, PTL

(* No agent outlives its wrapper unsignalled, whenever the wrapper dies.    *)
THEOREM OrphansAreDoomed == Spec => []OrphanIsDoomed
BY DutyInvariant, PTL DEF DutyInv

-----------------------------------------------------------------------------
(* Why a reported conflict is real: who retries has met somebody, and a     *)
(* later attempt that meets a probe meets another one.                      *)
ConflictInv ==
    /\ ConflictIsReal
    /\ \A w \in Outers : wrapper[w] = "retries" => met[w] # {}

LEMMA SecondMeeting ==
  ASSUME TypeOK, NEW w \in Outers, met[w] # {}, owner \notin met[w], owner # None
  PROVE  Cardinality(met[w] \cup {owner}) > 1
<1>1. met[w] \subseteq Outers \cup Checks /\ owner \in Outers \cup Checks
  BY DEF TypeOK
<1>2. IsFiniteSet(met[w])
  BY <1>1, ProcessesAssumption, FS_Subset
<1>3. Cardinality(met[w]) \in Nat /\ Cardinality(met[w]) # 0
  BY <1>2, FS_CardinalityType, FS_EmptySet
<1>4. Cardinality(met[w] \cup {owner}) = Cardinality(met[w]) + 1
  BY <1>2, FS_AddElement
<1> QED BY <1>3, <1>4

LEMMA MeetingStep ==
  ASSUME TypeOK, ConflictInv, NEW w \in Outers, Acquire(w) \/ Retry(w)
  PROVE  ConflictInv'
<1> USE DEF TypeOK, ConflictInv, ConflictIsReal, Alive
<1>1. CASE Locks(w)
  BY <1>1 DEF Locks, Acquire, Retry
<1>2. CASE Acquire(w) /\ Meets(w, "retries")
  BY <1>2 DEF Acquire, Meets, WrapperTo, Moves
<1>3. CASE Retry(w) /\ Meets(w, IF w \in late THEN "conflict" ELSE "retries")
  <2>1. owner \in Outers \/ Cardinality(met[w] \cup {owner}) > 1
    <3> SUFFICES ASSUME owner \notin Outers PROVE Cardinality(met[w] \cup {owner}) > 1
      OBVIOUS
    <3>1. owner \in Checks /\ owner # None
      BY <1>3 DEF Meets
    <3>2. owner \notin met[w] /\ met[w] # {}
      BY <1>3, <3>1 DEF Retry
    <3> QED BY <3>1, <3>2, SecondMeeting
  <2> QED BY <1>3, <2>1 DEF Retry, Meets, WrapperTo, Moves
<1> QED BY <1>1, <1>2, <1>3 DEF Acquire, Retry

(* One check alone never makes acquire report a conflict.                   *)
THEOREM ConflictsAreReal == Spec => []ConflictIsReal
<1>1. Init => ConflictInv
  BY DEF Init, ConflictInv, ConflictIsReal
<1>2. TypeOK /\ ConflictInv /\ [Next]_vars => ConflictInv'
  <2> SUFFICES ASSUME TypeOK, ConflictInv, [Next]_vars PROVE ConflictInv'
    OBVIOUS
  <2> USE DEF TypeOK, ConflictInv, ConflictIsReal
  <2>1. ASSUME NEW w \in Outers, WrapperSteps(w) PROVE ConflictInv'
    <3>1. CASE Acquire(w) \/ Retry(w)
      BY <3>1, MeetingStep
    <3>2. CASE Fork(w) \/ SpawnFails(w) \/ Spawned(w) \/ WaitReturns(w)
      BY <3>2 DEF Fork, SpawnFails, Spawned, WaitReturns, WrapperTo, Moves
    <3> QED BY <2>1, <3>1, <3>2 DEF WrapperSteps
  <2>2. ASSUME NEW w \in Outers, ChildSteps(w) PROVE ConflictInv'
    BY <2>2 DEF ChildSteps, Couple, CheckParent, Exec, ChildFails, AgentExits, ChildTo, Moves
  <2>3. ASSUME NEW w \in Outers, KernelSteps(w) PROVE ConflictInv'
    BY <2>3 DEF KernelSteps, DeadlinePasses, WrapperDies, HandsOver, ChildDies, WrapperTo,
       ChildTo, Moves
  <2>4. ASSUME NEW c \in Checks, Probe(c) \/ ProbeEnds(c) PROVE ConflictInv'
    BY <2>4 DEF Probe, ProbeEnds
  <2>5. CASE UNCHANGED vars
    BY <2>5 DEF vars
  <2> QED BY <2>1, <2>2, <2>3, <2>4, <2>5 DEF Next
<1>3. ConflictInv => ConflictIsReal
  BY DEF ConflictInv
<1> QED BY TypeCorrect, <1>1, <1>2, <1>3, PTL DEF Spec

-----------------------------------------------------------------------------
(* A step of a wrapper, of its child or of the kernel takes, uses or gives  *)
(* back the authority, or changes nothing of it.                            *)
LEMMA OuterSimulates ==
  ASSUME DutyInv, NEW w \in Outers, WrapperSteps(w) \/ ChildSteps(w) \/ KernelSteps(w)
  PROVE  [Authority!Next]_(Authority!vars)
<1> USE ProcessesAssumption DEF DutyInv, TypeOK, LockHeldByItsUsers, ChildAfterFork, Acts,
     Alive, PreExec, Moves, WrapperTo, ChildTo, Authority!vars
<1>1. CASE WrapperSteps(w)
  <2>1. CASE Acquire(w) \/ Retry(w)
    <3>1. CASE Locks(w)
      <4>1. Authority!Take(w)
        BY <2>1, <3>1 DEF Locks, Acquire, Retry, Authority!Take
      <4> QED BY <4>1 DEF Authority!Next
    <3>2. CASE ~Locks(w)
      BY <2>1, <3>2 DEF Acquire, Retry, Meets
    <3> QED BY <3>1, <3>2
  <2>2. CASE Fork(w)
    BY <2>2 DEF Fork
  <2>3. CASE SpawnFails(w)
    BY <2>3 DEF SpawnFails, Authority!Next, Authority!Release
  <2>4. CASE Spawned(w)
    BY <2>4 DEF Spawned
  <2>5. CASE WaitReturns(w)
    BY <2>5 DEF WaitReturns, Authority!Next, Authority!Release
  <2> QED BY <1>1, <2>1, <2>2, <2>3, <2>4, <2>5 DEF WrapperSteps
<1>2. CASE ChildSteps(w)
  <2>1. CASE Couple(w)
    BY <2>1 DEF Couple, Runs
  <2>2. CASE CheckParent(w)
    BY <2>2 DEF CheckParent, Runs, Authority!Next, Authority!Release
  <2>3. CASE Exec(w)
    BY <2>3 DEF Exec, Runs, Authority!Next, Authority!Act, Authority!Release
  <2>4. CASE ChildFails(w)
    BY <2>4 DEF ChildFails, Runs, Authority!Next, Authority!Release
  <2>5. CASE AgentExits(w)
    BY <2>5 DEF AgentExits, Authority!Next, Authority!Stop
  <2> QED BY <1>2, <2>1, <2>2, <2>3, <2>4, <2>5 DEF ChildSteps
<1>3. CASE KernelSteps(w)
  <2>1. CASE DeadlinePasses(w)
    BY <2>1 DEF DeadlinePasses
  <2>2. CASE WrapperDies(w)
    BY <2>2 DEF WrapperDies, Authority!Next, Authority!Release
  <2>3. CASE HandsOver(w)
    BY <2>3 DEF HandsOver
  <2>4. CASE ChildDies(w)
    BY <2>4 DEF ChildDies, Authority!Next, Authority!Stop, Authority!Release
  <2> QED BY <1>3, <2>1, <2>2, <2>3, <2>4 DEF KernelSteps
<1> QED BY <1>1, <1>2, <1>3

(* A check has no part in the authority.                                    *)
LEMMA CheckStutters ==
  ASSUME DutyInv, NEW c \in Checks, Probe(c) \/ ProbeEnds(c)
  PROVE  UNCHANGED Authority!vars
BY ProcessesAssumption DEF DutyInv, TypeOK, LockHeldByItsUsers, Probe, ProbeEnds, Acts,
   Alive, Authority!vars

(* The lock, the two processes and the probes implement the authority.      *)
THEOREM DutyIsAuthority == Spec => ImplementsDutyAuthority
<1>1. Init => Authority!Init
  BY ProcessesAssumption DEF Init, Authority!Init
<1>2. DutyInv /\ [Next]_vars => [Authority!Next]_(Authority!vars)
  <2> SUFFICES ASSUME DutyInv, [Next]_vars PROVE [Authority!Next]_(Authority!vars)
    OBVIOUS
  <2>1. CASE Next
    BY <2>1, OuterSimulates, CheckStutters DEF Next
  <2>2. CASE UNCHANGED vars
    BY <2>2 DEF vars, Authority!vars, Acts
  <2> QED BY <2>1, <2>2
<1> QED BY DutyInvariant, <1>1, <1>2, PTL DEF Spec, ImplementsDutyAuthority, Authority!Spec
=============================================================================
