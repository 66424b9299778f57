----------------------- MODULE ReconnectBackoffProofs -----------------------
(* Proofs about the reconnect schedule, for every base, cap, window and     *)
(* bound.  The streak theorems assume a driver whose connect() does not     *)
(* block (a stdio spawn); for one that blocks they are false.               *)
EXTENDS ReconnectBackoff, TLAPS

LEMMA SmallerType ==
    ASSUME NEW x \in Int, NEW y \in Int
    PROVE  /\ Smaller(x, y) \in {x, y}
           /\ Smaller(x, y) <= x /\ Smaller(x, y) <= y
  BY DEF Smaller

(* The factor of the delay is at least one and grows with the streak. *)
LEMMA DoublingGrows ==
    ASSUME NEW f \in Nat \ {0}
    PROVE  /\ Doubling(f) \in Nat /\ Doubling(f) >= 1
           /\ Doubling(f + 1) \in Nat /\ Doubling(f) <= Doubling(f + 1)
  <1>1. CASE f \in 1..9
    BY <1>1, SMTT(20) DEF Doubling, Smaller
  <1>2. CASE f > 9
    BY <1>2 DEF Doubling, Smaller
  <1> QED BY <1>1, <1>2

-----------------------------------------------------------------------------
(* Every variable stays in its range: the ages are clamped, the streak      *)
(* counter never underflows.                                                *)
THEOREM TypeCorrect == Spec => []TypeOK
  <1> USE ScheduleAssumption DEF ScheduleAssumption, TypeOK, Never
  <1>1. ASSUME Init PROVE TypeOK
    <2>1. linkUp \in BOOLEAN
      BY <1>1, Zenon DEF Init
    <2> QED BY <1>1, <2>1 DEF Init
  <1>2. TypeOK /\ [Next]_vars => TypeOK'
    <2> SUFFICES ASSUME TypeOK, [Next]_vars PROVE TypeOK'
      OBVIOUS
    <2>1. ASSUME NEW d \in ConnectTicks, DialFails(d) PROVE TypeOK'
      BY <2>1 DEF DialFails, Smaller
    <2>2. ASSUME NEW d \in ConnectTicks, DialSucceeds(d) PROVE TypeOK'
      BY <2>2 DEF DialSucceeds, Smaller
    <2>3. CASE FrameArrives
      BY <2>3 DEF FrameArrives
    <2>4. CASE Dies
      <3>1. linkUp' \in BOOLEAN
        BY <2>4, Zenon DEF Dies
      <3> QED BY <2>4, <3>1 DEF Dies
    <2>5. CASE Tick
      BY <2>5 DEF Tick, Older, Smaller
    <2>6. CASE UNCHANGED vars
      BY <2>6 DEF vars
    <2> QED BY <2>1, <2>2, <2>3, <2>4, <2>5, <2>6 DEF Next
  <1> QED BY <1>1, <1>2, PTL DEF Spec

-----------------------------------------------------------------------------
(* Why the streak is right: the age the code judges a connection by is the  *)
(* time it has really been up, unless a frame has proved it already; and a  *)
(* connection that ended left the streak its end calls for.                 *)
StreakInv ==
    /\ failures = streak
    /\ connectAge = Never \/ (linkUp /\ upFor = Smaller(connectAge, ShortLived))
    /\ linkUp /\ connectAge = Never => failures = 0
    /\ ~linkUp /\ lastEnd \in {"failed", "young"} => failures > 0
    /\ ~linkUp /\ lastEnd = "healthy" => failures = 0

LEMMA StreakInvStep ==
    ASSUME ConnectTicks = {0}, TypeOK, StreakInv, [Next]_vars
    PROVE  StreakInv'
  <1> USE ScheduleAssumption DEF ScheduleAssumption, TypeOK, StreakInv, Never
  <1>1. ASSUME NEW d \in ConnectTicks, DialFails(d) PROVE StreakInv'
    BY <1>1 DEF DialFails
  <1>2. ASSUME NEW d \in ConnectTicks, DialSucceeds(d) PROVE StreakInv'
    BY <1>2 DEF DialSucceeds, Smaller
  <1>3. CASE FrameArrives
    BY <1>3 DEF FrameArrives
  <1>4. CASE Dies
    BY <1>4 DEF Dies, Smaller
  <1>5. CASE Tick
    BY <1>5 DEF Tick, Older, Smaller
  <1>6. CASE UNCHANGED vars
    BY <1>6 DEF vars
  <1> QED BY <1>1, <1>2, <1>3, <1>4, <1>5, <1>6 DEF Next

LEMMA StreakInvariant == ConnectTicks = {0} => (Spec => [](TypeOK /\ StreakInv))
  <1> SUFFICES ASSUME ConnectTicks = {0} PROVE Spec => [](TypeOK /\ StreakInv)
    OBVIOUS
  <1>1. Init => StreakInv
    BY DEF Init, StreakInv, Never
  <1>2. TypeOK /\ StreakInv /\ [Next]_vars => StreakInv'
    BY StreakInvStep
  <1> QED BY <1>1, <1>2, TypeCorrect, PTL DEF Spec

(* Every connection that dies within the window of connecting counts as     *)
(* one more failure, and nothing else does.                                 *)
THEOREM StreakIsCounted == ConnectTicks = {0} => (Spec => []StreakCounted)
  <1>1. StreakInv => StreakCounted
    BY DEF StreakInv, StreakCounted
  <1> QED BY <1>1, StreakInvariant, PTL

(* A dead endpoint is never dialled again at once. *)
THEOREM CrashLoopIsSlowed == ConnectTicks = {0} => (Spec => []CrashLoopBacksOff)
  <1>1. TypeOK /\ StreakInv => CrashLoopBacksOff
    <2> SUFFICES ASSUME TypeOK, StreakInv, ~linkUp, lastEnd \in {"failed", "young"}
                 PROVE  CurrentDelay >= Base
      BY DEF CrashLoopBacksOff
    <2>1. failures \in Nat \ {0}
      BY ScheduleAssumption DEF ScheduleAssumption, TypeOK, StreakInv
    <2>2. Doubling(failures) \in Nat /\ Doubling(failures) >= 1
      BY <2>1, DoublingGrows
    <2>3. Base * Doubling(failures) \in Nat /\ Base * Doubling(failures) >= Base
      BY <2>2, ScheduleAssumption DEF ScheduleAssumption
    <2> QED BY <2>1, <2>3, ScheduleAssumption DEF ScheduleAssumption, CurrentDelay, Smaller
  <1> QED BY <1>1, StreakInvariant, PTL

(* A working server that restarts is dialled without delay. *)
THEOREM HealthyRestart == ConnectTicks = {0} => (Spec => []HealthyRestartIsImmediate)
  <1>1. TypeOK /\ StreakInv => HealthyRestartIsImmediate
    BY ScheduleAssumption
       DEF ScheduleAssumption, TypeOK, StreakInv, HealthyRestartIsImmediate, ShouldAttempt, CurrentDelay, Never
  <1> QED BY <1>1, StreakInvariant, PTL

(* The delay shrinks only when a frame or a long life proved a connection.  *)
THEOREM DelayGrows == ConnectTicks = {0} => (Spec => DelayNeverShrinksInCrashLoop)
  <1>1. ASSUME TypeOK, StreakInv, [Next]_vars, CurrentDelay' < CurrentDelay
        PROVE  FrameArrives \/ (Dies /\ lastEnd' = "healthy")
    <2> USE ScheduleAssumption DEF ScheduleAssumption
    <2>0. failures \in Nat /\ connectAge \in Int /\ upFor \in Nat
      BY <1>1 DEF TypeOK, Never
    <2>1. ASSUME failures' = failures + 1 PROVE CurrentDelay' >= CurrentDelay
      <3>0. CASE failures = 0
        <4>1. Doubling(1) = 1
          BY DEF Doubling, Smaller
        <4> QED BY <2>1, <3>0, <4>1 DEF CurrentDelay, Smaller
      <3>1. CASE failures # 0
        <4>1. /\ Doubling(failures) \in Nat /\ Doubling(failures + 1) \in Nat
              /\ Doubling(failures) <= Doubling(failures + 1)
          BY <3>1, <2>0, DoublingGrows
        <4>2. /\ Base * Doubling(failures) \in Nat
              /\ Base * Doubling(failures + 1) \in Nat
              /\ Base * Doubling(failures) <= Base * Doubling(failures + 1)
          BY <4>1
        <4>3. /\ CurrentDelay = Smaller(Base * Doubling(failures), Cap)
              /\ CurrentDelay' = Smaller(Base * Doubling(failures + 1), Cap)
          BY <2>0, <2>1, <3>1 DEF CurrentDelay
        <4> QED BY <4>2, <4>3 DEF Smaller
      <3> QED BY <3>0, <3>1
    <2>2. ASSUME failures' = failures PROVE CurrentDelay' = CurrentDelay
      BY <2>2 DEF CurrentDelay, Doubling
    <2>3. CurrentDelay \in Int /\ CurrentDelay' \in Int
      <3>1. failures' \in Nat
        BY <1>1, <2>0 DEF Next, DialFails, DialSucceeds, FrameArrives, Dies, Tick, vars
      <3>2. ASSUME NEW f \in Nat \ {0} PROVE Smaller(Base * Doubling(f), Cap) \in Int
        <4>1. Base * Doubling(f) \in Int
          BY <3>2, DoublingGrows
        <4> QED BY <4>1 DEF Smaller
      <3> QED BY <2>0, <3>1, <3>2 DEF CurrentDelay
    <2>4. failures' # failures /\ failures' # failures + 1
      BY <1>1, <2>1, <2>2, <2>3
    <2>5. FrameArrives \/ Dies
      BY <1>1, <2>4 DEF Next, DialFails, DialSucceeds, Tick, vars
    <2>6. ASSUME Dies PROVE lastEnd' = "healthy"
      BY <1>1, <2>0, <2>4, <2>6 DEF Dies, StreakInv, Smaller
    <2> QED BY <2>5, <2>6
  <1>2. TypeOK /\ StreakInv /\ [Next]_vars
            => [CurrentDelay' < CurrentDelay
                    => FrameArrives \/ (Dies /\ lastEnd' = "healthy")]_vars
    BY <1>1
  <1> QED BY <1>2, StreakInvariant, PTL DEF Spec, DelayNeverShrinksInCrashLoop
=============================================================================
