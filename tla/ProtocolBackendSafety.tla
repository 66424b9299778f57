------------------------ MODULE ProtocolBackendSafety ------------------------
(***************************************************************************)
(* Proofs about the transport's state machine, for every set of sessions,   *)
(* every limit, server and bound: its type invariant, and then that a lost  *)
(* connection leaves nothing behind, that the open in flight is the         *)
(* candidate its answer will promote, and that a flush is never left by an  *)
(* Err.                                                                     *)
(*                                                                          *)
(* Handlers are stacks of frames, so the inductive invariant says which     *)
(* frames may be above which.                                               *)
(***************************************************************************)
EXTENDS ProtocolBackend, TLAPS, SequenceTheorems

(* SMT takes TRUE to be a Boolean, and needs to be told so of FALSE. *)
LEMMA FalseIsBoolean == \A x : x = FALSE => x \in BOOLEAN
  BY Zenon

-----------------------------------------------------------------------------
(* The data a handler works on. *)
LEMMA CommandData ==
    /\ {NoCommand, HelloCommand, CapsCommand, ResolveCommand} \subseteq Command
    /\ \A s \in Sessions : OpenCommand(s) \in Command /\ ReopenCommand(s) \in Command
  BY BackendAssumption
     DEF BackendAssumption, Command, Kinds, SessionKinds, NoCommand, HelloCommand,
         CapsCommand, ResolveCommand, OpenCommand, ReopenCommand, Cmd

LEMMA PlanData ==
    /\ NoPlan \in Plan
    /\ \A p \in Plan : /\ PlanHeads(p) \subseteq Sessions
                       /\ \A s : PlanWithout(p, s) \in Plan
  BY BackendAssumption DEF BackendAssumption, NoPlan, Plan, PlanHeads, PlanWithout

LEMMA FrameData ==
    /\ \A op \in Ops : Fr(op) \in Frame
    /\ \A op \in Ops, c \in Command : FrCmd(op, c) \in Frame
    /\ \A op \in Ops, p \in Plan : FrPlan(op, p) \in Frame
  BY CommandData, PlanData DEF Frame, Fr, FrCmd, FrPlan

LEMMA HeadData ==
    ASSUME NEW s \in Seq(Frame), s # <<>>
    PROVE  /\ Head(s) \in Frame /\ Tail(s) \in Seq(Frame)
           /\ Head(s).op \in Ops /\ Head(s).cmd \in Command /\ Head(s).plan \in Plan
  <1>1. Head(s) \in Frame /\ Tail(s) \in Seq(Frame)
    OBVIOUS
  <1> QED BY <1>1 DEF Frame

LEMMA CallData ==
    ASSUME NEW s \in Seq(Frame), s # <<>>, NEW f \in Seq(Frame)
    PROVE  f \o Tail(s) \in Seq(Frame) /\ f \o s \in Seq(Frame)
  BY HeadData

LEMMA ReportKeepsType ==
    ASSUME reports \in [1..MaxCommands -> Nat], NEW C, Report(C)
    PROVE  reports' \in [1..MaxCommands -> Nat]
  BY DEF Report

(* mark_disconnected, whatever it is called with, keeps the types of what   *)
(* it assigns.                                                              *)
LEMMA MarkDisconnectedKeepsTypes ==
    ASSUME TypeOK, NEW reqs, NEW again, NEW lockedOut \in BOOLEAN,
           MarkDisconnected(reqs, again, lockedOut)
    PROVE  /\ up' \in BOOLEAN /\ conns' \in 0..MaxConns /\ dialable' \in BOOLEAN
           /\ proven' \in BOOLEAN /\ reported' \in BOOLEAN /\ fatal' \in BOOLEAN
           /\ hello' \in Nat /\ barrier' \in Barrier /\ chain' \in Plan
           /\ deferred' \in Seq(Command)
           /\ refreshCaps' \in BOOLEAN
           /\ nextId' \in Nat /\ pending' \subseteq Request
           /\ scoped' \subseteq Sessions
           /\ reports' \in [1..MaxCommands -> Nat]
  <1>1. reports' \in [1..MaxCommands -> Nat]
    BY DEF MarkDisconnected, TypeOK
  <1>2. chain' \in Plan /\ barrier' \in Barrier
    BY PlanData DEF MarkDisconnected, Barrier
  <1>3. dialable' \in BOOLEAN
    BY Zenon DEF MarkDisconnected, TypeOK
  <1> QED BY <1>1, <1>2, <1>3, FalseIsBoolean DEF MarkDisconnected, TypeOK

LEMMA DeferKeepsTypes ==
    ASSUME TypeOK, NEW c \in Command, Defer(c)
    PROVE  deferred' \in Seq(Command) /\ reports' \in [1..MaxCommands -> Nat]
  <1>1. Append(deferred, c) \in Seq(Command)
    BY DEF TypeOK
  <1>2. CASE ReportOne(c) /\ UNCHANGED deferred
    BY <1>2, ReportKeepsType DEF ReportOne, TypeOK
  <1>3. CASE deferred' = Append(deferred, c) /\ UNCHANGED reports
    BY <1>1, <1>3 DEF TypeOK
  <1> QED BY <1>2, <1>3 DEF Defer

(* A command that goes out is tracked under a fresh id; an open's barrier   *)
(* names a session.                                                         *)
LEMMA TrackKeepsTypes ==
    ASSUME TypeOK, NEW c \in Command, Track(c)
    PROVE  /\ reopen' \in Sessions \cup {NoSession}
           /\ confirmed' \in Sessions \cup {NoSession}
           /\ resolveCached' \in BOOLEAN
           /\ selection' \in Sessions \cup {NoSession}
           /\ nextId' \in Nat /\ pending' \subseteq Request /\ barrier' \in Barrier
  <1>1. c.sess \in Sessions \cup {NoSession} /\ (IsOpen(c) => c.sess \in Sessions)
    BY DEF Command, IsOpen, SessionKinds
  <1>2. nextId + 1 \in Nat \ {0}
    BY DEF TypeOK
  <1>3. [id |-> nextId + 1, cmd |-> c] \in Request
    BY <1>2 DEF Request
  <1> QED BY <1>1, <1>2, <1>3 DEF Track, RecordTarget, TypeOK, Barrier

LEMMA RecordTargetKeepsTypes ==
    ASSUME TypeOK, NEW c \in Command, RecordTarget(c)
    PROVE  /\ reopen' \in Sessions \cup {NoSession}
           /\ confirmed' \in Sessions \cup {NoSession}
           /\ resolveCached' \in BOOLEAN
           /\ selection' \in Sessions \cup {NoSession}
  BY DEF RecordTarget, TypeOK, Command

(* Each step of a handler keeps the types. *)
LEMMA TypeStep ==
    ASSUME TypeOK, [Next]_vars
    PROVE  TypeOK'
  <1> USE FalseIsBoolean DEF linkVars, barrierVars, scopeVars, replayVars, requestVars,
                             userVars, Running, Return, Raise, Call, Idle
  <1>1. CASE ClockQuiet
    BY <1>1, HeadData DEF ClockQuiet, TypeOK
  <1>2. CASE HelloExpires
    BY <1>2, HeadData, FrameData DEF HelloExpires, TypeOK, Ops
  <1>3. CASE OpenExpires
    BY <1>3, HeadData, MarkDisconnectedKeepsTypes
       DEF OpenExpires, TypeOK, FailSessionOpenBarrier
  <1>4. CASE GateRefuses
    BY <1>4, HeadData, ReportKeepsType DEF GateRefuses, TypeOK, ReportOne
  <1>5. CASE GatePasses
    BY <1>5, HeadData, CallData, FrameData, CommandData
       DEF GatePasses, TypeOK, SendFrames, Ops
  <1>6. CASE AlreadyConnected
    BY <1>6, HeadData DEF AlreadyConnected, TypeOK
  <1>7. CASE DialRefused
    BY <1>7, HeadData DEF DialRefused, TypeOK
  <1>8. CASE DialFails
    BY <1>8, HeadData DEF DialFails, TypeOK
  <1>9. CASE Dials
    <2>1. <<Fr("hello")>> \in Seq(Frame) /\ <<Fr("caps")>> \in Seq(Frame)
      BY FrameData DEF Ops
    <2>2. ReopenPlan \in Plan
      BY BackendAssumption DEF ReopenPlan, Plan, Target, TypeOK, BackendAssumption
    <2>3. (IF reported THEN ReopenPlan ELSE NoPlan) \in Plan
      BY <2>2, PlanData
    <2>4. <<FrPlan("reopen", IF reported THEN ReopenPlan ELSE NoPlan)>> \in Seq(Frame)
      BY <2>3, FrameData DEF Ops
    <2>5. stack' \in Seq(Frame)
      BY <1>9, <2>1, <2>4, HeadData DEF Dials, TypeOK
    <2>6. reconcile' \in BOOLEAN
      BY <1>9, Zenon DEF Dials, TypeOK
    <2> QED BY <1>9, <2>5, <2>6, BackendAssumption DEF Dials, TypeOK, BackendAssumption
  <1>10. CASE HelloSent
    <2>1. nextId + 1 \in Nat \ {0} /\ [id |-> nextId + 1, cmd |-> HelloCommand] \in Request
      BY CommandData DEF TypeOK, Request
    <2> QED BY <1>10, <2>1, HeadData DEF HelloSent, TypeOK
  <1>11. CASE HelloSendFails
    BY <1>11, HeadData, MarkDisconnectedKeepsTypes
       DEF HelloSendFails, TypeOK
  <1>12. CASE RefreshCapabilities
    BY <1>12, HeadData, CallData, FrameData, CommandData
       DEF RefreshCapabilities, TypeOK, SendFrames, Ops
  <1>13. CASE ReplayResolve
    BY <1>13, HeadData, CallData, FrameData, CommandData
       DEF ReplayResolve, TypeOK, SendFrames, Ops
  <1>14. CASE ReopenStarts
    BY <1>14, HeadData, CallData, FrameData, CommandData, PlanData
       DEF ReopenStarts, OpenNext, TypeOK, SendFrames, Ops
  <1>15. CASE NothingToReopen
    BY <1>15, HeadData DEF NothingToReopen, TypeOK
  <1>16. CASE ReopenSent
    BY <1>16, HeadData DEF ReopenSent, TypeOK
  <1>17. CASE AdmitDefers
    BY <1>17, HeadData, DeferKeepsTypes DEF AdmitDefers, TypeOK
  <1>18. CASE AdmitRejects
    BY <1>18, HeadData, ReportKeepsType DEF AdmitRejects, TypeOK, ReportOne
  <1>19. CASE AdmitOpensFirst
    <2> DEFINE c == Head(stack).cmd
    <2>1. c \in Command /\ c.sess \in Sessions
      BY <1>19, HeadData DEF AdmitOpensFirst, UnknownHydrate, TypeOK, Command, SessionKinds
    <2>2. SendFrames(OpenCommand(c.sess)) \o <<FrCmd("requeue", c)>> \in Seq(Frame)
      BY <2>1, CommandData, FrameData DEF SendFrames, Ops
    <2> QED BY <1>19, <2>2, HeadData, CallData DEF AdmitOpensFirst, TypeOK
  <1>20. CASE Requeue
    <2>1. Head(stack).cmd \in Command
      BY <1>20, HeadData DEF Requeue, TypeOK
    <2>2. <<Head(stack).cmd>> \o deferred \in Seq(Command)
      BY <2>1 DEF TypeOK
    <2>3. deferred' \in Seq(Command) /\ reports' \in [1..MaxCommands -> Nat]
      <3>1. CASE deferred' = <<Head(stack).cmd>> \o deferred /\ UNCHANGED reports
        BY <2>2, <3>1 DEF TypeOK
      <3>2. CASE ReportOne(Head(stack).cmd) /\ UNCHANGED deferred
        BY <3>2, ReportKeepsType DEF ReportOne, TypeOK
      <3> QED BY <1>20, <3>1, <3>2 DEF Requeue
    <2> QED BY <1>20, <2>3, HeadData DEF Requeue, TypeOK
  <1>21. CASE Transmits
    BY <1>21, HeadData, TrackKeepsTypes DEF Transmits, TypeOK
  <1>22. CASE TransmitFails
    <2> DEFINE c == Head(stack).cmd
               r == [id |-> nextId + 1, cmd |-> c]
    <2>1. c \in Command /\ RecordTarget(c) /\ MarkDisconnected(pending \cup {r}, {c.id}, FALSE)
      BY <1>22, HeadData DEF TransmitFails, TypeOK
    <2> HIDE DEF c, r
    <2> QED BY <1>22, <2>1, HeadData, MarkDisconnectedKeepsTypes, RecordTargetKeepsTypes
            DEF TransmitFails, TypeOK
  <1>23. CASE TransmitReconnects
    <2>1. Head(stack).cmd \in Command
      BY <1>23, HeadData DEF TransmitReconnects, TypeOK
    <2>2. <<Fr("connect"), FrCmd("transmit", Head(stack).cmd)>> \in Seq(Frame)
      BY <2>1, FrameData DEF Ops
    <2> QED BY <1>23, <2>1, <2>2, CallData, TrackKeepsTypes DEF TransmitReconnects, TypeOK
  <1>24. CASE TransmitsLate
    BY <1>24, HeadData DEF TransmitsLate, TypeOK
  <1>25. CASE TransmitFailsLate
    BY <1>25, HeadData, MarkDisconnectedKeepsTypes
       DEF TransmitFailsLate, TypeOK
  <1>26. CASE ReconnectForTransmitFails
    BY <1>26, HeadData, MarkDisconnectedKeepsTypes
       DEF ReconnectForTransmitFails, TypeOK
  <1>27. CASE FlushSends
    BY <1>27, HeadData, CallData, FrameData, CommandData
       DEF FlushSends, TypeOK, SendFrames, Ops
  <1>28. CASE FlushEnds
    BY <1>28, HeadData DEF FlushEnds, TypeOK
  <1>29. CASE PollsNothing
    BY <1>29, HeadData DEF PollsNothing, TypeOK
  <1>30. CASE ReadFindsNoLink
    BY <1>30, HeadData, MarkDisconnectedKeepsTypes
       DEF ReadFindsNoLink, TypeOK
  <1>31. CASE ReadsSkip
    BY <1>31, HeadData, ReportKeepsType DEF ReadsSkip, TypeOK
  <1>32. CASE ReadsNotification
    BY <1>32, HeadData DEF ReadsNotification, ReadsFrame, TypeOK
  <1>33. CASE Unwind
    BY <1>33, HeadData DEF Unwind, TypeOK
  <1>34. CASE SendReturns
    BY <1>34, HeadData, ReportKeepsType DEF SendReturns, TypeOK
  <1>35. CASE FirstDialReturns
    BY <1>35, HeadData DEF FirstDialReturns, TypeOK
  <1>36. CASE FirstDialFailsReadonly
    <2>1. stack' \in Seq(Frame)
      BY <1>36 DEF FirstDialFailsReadonly
    <2> QED BY <1>36, <2>1, MarkDisconnectedKeepsTypes DEF FirstDialFailsReadonly, TypeOK
  <1>37. CASE BootstrapFails
    BY <1>37, HeadData, CallData, FrameData, CommandData
       DEF BootstrapFails, TypeOK, SendFrames, Ops
  <1>38. CASE Booted
    BY <1>38, HeadData DEF Booted, TypeOK
  <1>39. CASE BackoffElapses
    BY <1>39, HeadData DEF BackoffElapses, TypeOK
  <1>40. CASE NextEvent
    <2>1. ClockFrames \in Seq(Frame) /\ <<Fr("connect"), Fr("poll")>> \in Seq(Frame)
      BY FrameData DEF ClockFrames, Ops
    <2> QED BY <1>40, <2>1 DEF NextEvent, TypeOK
  <1>41. ASSUME NEW lockedOut \in BOOLEAN, ReadsLinkEnd(lockedOut) PROVE TypeOK'
    BY <1>41, HeadData, MarkDisconnectedKeepsTypes DEF ReadsLinkEnd, TypeOK
  <1>42. ASSUME NEW r \in pending, NEW ans \in Answers, PlainAnswer(r, ans) PROVE TypeOK'
    <2>1. r \in Request /\ (IsOpen(r.cmd) => r.cmd.sess \in Sessions)
      BY DEF TypeOK, Request, Command, IsOpen, SessionKinds
    <2>2. resolveCached' \in BOOLEAN
      BY <1>42, Zenon DEF PlainAnswer, TypeOK
    <2> QED BY <1>42, <2>1, <2>2, HeadData, ReportKeepsType
            DEF PlainAnswer, ReadsAnswer, ReadsFrame, ReportOne, TypeOK
  <1>43. ASSUME NEW r \in pending, NEW ans \in Answers, HelloAnswered(r, ans) PROVE TypeOK'
    BY <1>43, HeadData, CallData, FrameData, ReportKeepsType
       DEF HelloAnswered, ReadsAnswer, ReadsFrame, ReportOne, TypeOK, Ops
  <1>44. ASSUME NEW r \in pending, OpenConfirmed(r)
        PROVE  /\ up' \in BOOLEAN /\ conns' \in 0..MaxConns /\ dialable' \in BOOLEAN
               /\ proven' \in BOOLEAN /\ reported' \in BOOLEAN /\ fatal' \in BOOLEAN
               /\ barrier' \in Barrier /\ required' \in BOOLEAN
               /\ confirmed' \in Sessions \cup {NoSession} /\ scopes' \subseteq Sessions
               /\ scoped' \subseteq Sessions /\ pending' \subseteq Request
               /\ reports' \in [1..MaxCommands -> Nat]
    <2>1. barrier.sess \in Sessions
      <3>1. r.id \in Nat \ {0}
        BY DEF TypeOK, Request
      <3> QED BY <1>44, <3>1 DEF OpenConfirmed, AnswersOpen, TypeOK, Barrier, NoBarrier
    <2> QED BY <1>44, <2>1, ReportKeepsType
            DEF OpenConfirmed, ReadsAnswer, ReadsFrame, ReportOne, TypeOK, Barrier
  <1>45. ASSUME NEW r \in pending, OpenConfirmedMidChain(r) PROVE TypeOK'
    <2>1. OpenConfirmed(r) /\ stack # <<>>
      BY <1>45 DEF OpenConfirmedMidChain, OpenConfirmed, ReadsAnswer, ReadsFrame
    <2>2. /\ stack' \in Seq(Frame) /\ chain' \in Plan /\ opening' \in BOOLEAN
      BY <1>45, <2>1, CallData, FrameData, CommandData, PlanData
         DEF OpenConfirmedMidChain, OpenNext, TypeOK, SendFrames, Ops
    <2> QED BY <1>45, <2>1, <2>2, <1>44 DEF OpenConfirmedMidChain, TypeOK
  <1>46. ASSUME NEW r \in pending, OpenConfirmedLast(r) PROVE TypeOK'
    <2>1. OpenConfirmed(r) /\ stack # <<>>
      BY <1>46 DEF OpenConfirmedLast, OpenConfirmed, ReadsAnswer, ReadsFrame
    <2>2. stack' \in Seq(Frame)
      BY <1>46, <2>1, CallData, FrameData DEF OpenConfirmedLast, TypeOK, Ops
    <2> QED BY <1>46, <2>1, <2>2, <1>44 DEF OpenConfirmedLast, TypeOK
  <1>47. ASSUME NEW r \in pending, OpenRejected(r) PROVE TypeOK'
    <2>1. Target(confirmed) \in Sessions \cup {NoSession}
      BY BackendAssumption DEF BackendAssumption, Target, TypeOK
    <2> QED BY <1>47, <2>1, HeadData, CallData, FrameData, ReportKeepsType, PlanData
            DEF OpenRejected, ReadsAnswer, ReadsFrame, ReportOne, TypeOK, Barrier, Ops
  <1>48. ASSUME NEW r \in pending, OpenGarbled(r) PROVE TypeOK'
    BY <1>48, HeadData, MarkDisconnectedKeepsTypes
       DEF OpenGarbled, FailSessionOpenBarrier, TypeOK
  <1>49. ASSUME NEW k \in UserKinds, NEW s \in Sessions \cup {NoSession}, UserSends(k, s) PROVE TypeOK'
    <2> DEFINE c == Cmd(k, s, issued + 1)
    <2>1. c \in Command /\ issued + 1 \in 0..MaxCommands
      BY <1>49, BackendAssumption
         DEF UserSends, TypeOK, BackendAssumption, Cmd, Command, SessionKinds
    <2>2. /\ ClockFrames \in Seq(Frame) /\ SendFrames(c) \in Seq(Frame)
          /\ <<FrCmd("returned", c)>> \in Seq(Frame)
      BY <2>1, FrameData DEF ClockFrames, SendFrames, Ops
    <2>3. stack' \in Seq(Frame)
      BY <1>49, <2>2 DEF UserSends
    <2> QED BY <1>49, <2>1, <2>3 DEF UserSends, TypeOK
  <1>50. CASE UNCHANGED vars
    BY <1>50 DEF vars, TypeOK
  <1> QED
    BY <1>1, <1>2, <1>3, <1>4, <1>5, <1>6, <1>7, <1>8, <1>9, <1>10, <1>11, <1>12,
       <1>13, <1>14, <1>15, <1>16, <1>17, <1>18, <1>19, <1>20, <1>21, <1>22, <1>23,
       <1>24, <1>25, <1>26, <1>27, <1>28, <1>29, <1>30, <1>31, <1>32, <1>33, <1>34,
       <1>35, <1>36, <1>37, <1>38, <1>39, <1>40, <1>41, <1>42, <1>43, <1>45, <1>46,
       <1>47, <1>48, <1>49, <1>50
       DEF Next, Handler, EventLoop, Clock, Gate, EnsureConnected, Admit, Flush, Read,
           Returns, Halted

THEOREM TypeCorrect == Spec => []TypeOK
  <1>1. ASSUME Init PROVE TypeOK
    <2>1. /\ <<Fr("connect"), Fr("firstDial")>> \in Seq(Frame)
          /\ <<Fr("booted")>> \in Seq(Frame)
          /\ SendFrames(CapsCommand) \in Seq(Frame)
      BY FrameData, CommandData DEF SendFrames, Ops
    <2>2. (IF LaunchSession # NoSession THEN SendFrames(OpenCommand(LaunchSession)) ELSE <<>>)
             \in Seq(Frame)
      BY FrameData, CommandData, BackendAssumption DEF SendFrames, Ops, BackendAssumption
    <2>3. stack \in Seq(Frame)
      BY <1>1, <2>1, <2>2 DEF Init
    <2>4. chain \in Plan /\ barrier \in Barrier
      BY <1>1, PlanData DEF Init, Barrier
    <2> QED BY <1>1, <2>3, <2>4, FalseIsBoolean, BackendAssumption
            DEF Init, TypeOK, BackendAssumption
  <1>2. TypeOK /\ [Next]_vars => TypeOK'
    BY TypeStep
  <1> QED BY <1>1, <1>2, PTL DEF Spec

-----------------------------------------------------------------------------
(* The safety invariants, and what the frames on the stack have to do with   *)
(* them.                                                                    *)

(* client_hello is the first thing a new link does. *)
HelloFrames == \A i \in DOMAIN stack : Op(i) = "hello" => i = 1 /\ up /\ ~raised

(* Above a flush there is one send, whose link is up, or the command that   *)
(* waits for an open it sent first; so nothing above a flush dials.         *)
FlushFrames ==
    \A i \in DOMAIN stack : Op(i) = "flush" =>
        /\ ~raised
        /\ i > 1 => Op(1) \in {"gate", "admit", "requeue"} /\ (Op(1) # "requeue" => up)
        /\ \A j \in 2..i-1 : Op(j) = "requeue"

(* sending_reconnect_open is set below the reset of an open, and nothing    *)
(* above that reset carries a hydrate or releases what waits.               *)
Harmless(f) == f.cmd.kind # "hydrate" /\ f.op \notin {"flush", "clock", "poll"}
OpeningFrames ==
    opening => \E i \in DOMAIN stack :
        Op(i) = "opened" /\ \A j \in 1..i-1 : Harmless(stack[j])

BootFrames ==
    \A i \in DOMAIN stack :
        /\ Op(i) = "firstDial" => \A j \in i+1..Len(stack) : Op(j) \in {"gate", "booted"}
        /\ Op(i) = "booted" => i = Len(stack)

FrameInv == HelloFrames /\ FlushFrames /\ OpeningFrames /\ BootFrames

(* Without a link there is nothing to cancel, except while send_text dials  *)
(* for a request it has tracked already.                                    *)
Clean == hello = 0 /\ barrier = NoBarrier /\ deferred = <<>> /\ pending = {}
DownClean ==
    ~up => \/ Clean
           \/ ~raised /\ Len(stack) >= 2 /\ Op(1) = "connect" /\ Op(2) = "transmit"
           \/ raised /\ stack # <<>> /\ Op(1) = "transmit"

SafeInv == FrameInv /\ DownClean /\ BarrierCoversCandidate

-----------------------------------------------------------------------------
(* What a return and a call do to the stack. *)
LEMMA TailData ==
    ASSUME NEW s \in Seq(Frame), s # <<>>
    PROVE  /\ Len(s) \in Nat \ {0} /\ DOMAIN s = 1..Len(s) /\ Head(s) = s[1]
           /\ Len(Tail(s)) = Len(s) - 1 /\ DOMAIN Tail(s) = 1..(Len(s) - 1)
           /\ \A i \in 1..(Len(s) - 1) : Tail(s)[i] = s[i + 1]
  OBVIOUS

LEMMA JoinData ==
    ASSUME NEW f \in Seq(Frame), NEW s \in Seq(Frame)
    PROVE  /\ Len(f) \in Nat /\ Len(s) \in Nat /\ Len(f \o s) = Len(f) + Len(s)
           /\ DOMAIN (f \o s) = 1..(Len(f) + Len(s))
           /\ \A i \in 1..Len(f) : (f \o s)[i] = f[i]
           /\ \A i \in 1..Len(s) : (f \o s)[i + Len(f)] = s[i]
           /\ \A i \in (Len(f) + 1)..(Len(f) + Len(s)) : (f \o s)[i] = s[i - Len(f)]
  OBVIOUS

LEMMA ReturnFrames ==
    ASSUME TypeOK, FrameInv, stack # <<>>, Return,
           raised' = FALSE \/ raised \/ Op(1) \notin {"gate", "admit", "requeue", "flush"},
           opening' = FALSE \/ (opening' = opening /\ Op(1) # "opened")
    PROVE  FrameInv'
  <1> DEFINE n == Len(stack)
  <1>1. /\ n \in Nat \ {0} /\ DOMAIN stack = 1..n
        /\ DOMAIN stack' = 1..(n - 1) /\ Len(stack') = n - 1
        /\ \A i \in 1..(n - 1) : stack'[i] = stack[i + 1]
    BY TailData DEF TypeOK, Return
  <1>0. Len(stack) = n
    OBVIOUS
  <1> HIDE DEF n
  <1>2. HelloFrames'
    BY <1>1 DEF FrameInv, HelloFrames, Op
  <1>3. FlushFrames'
    <2> SUFFICES ASSUME NEW i \in 1..(n - 1), stack'[i].op = "flush"
                 PROVE  /\ ~raised'
                        /\ i > 1 => stack'[1].op = "requeue"
                        /\ \A j \in 2..i-1 : stack'[j].op = "requeue"
      BY <1>1 DEF FlushFrames, Op
    <2>1. i + 1 \in 1..n /\ i + 1 > 1 /\ Op(i + 1) = "flush"
      BY <1>1 DEF Op
    <2>2. /\ ~raised /\ Op(1) \in {"gate", "admit", "requeue"}
          /\ \A j \in 2..(i + 1 - 1) : Op(j) = "requeue"
      BY <1>1, <2>1 DEF FrameInv, FlushFrames
    <2>3. \A j \in 1..i-1 : stack'[j] = stack[j + 1] /\ j + 1 \in 2..(i + 1 - 1)
      BY <1>1
    <2>4. \A j \in 1..i-1 : stack'[j].op = "requeue"
      BY <2>2, <2>3 DEF Op
    <2> QED BY <2>2, <2>4
  <1>4. OpeningFrames'
    <2> SUFFICES ASSUME opening' PROVE OpeningFrames'
      BY DEF OpeningFrames
    <2>1. PICK i \in 1..n : Op(i) = "opened" /\ \A j \in 1..i-1 : Harmless(stack[j])
      BY <1>1 DEF FrameInv, OpeningFrames
    <2>2. i # 1 /\ i - 1 \in 1..(n - 1)
      BY <1>1, <2>1
    <2>3. stack'[i - 1].op = "opened" /\ \A j \in 1..(i - 1 - 1) : Harmless(stack'[j])
      BY <1>1, <2>1, <2>2 DEF Op
    <2> QED BY <1>1, <2>2, <2>3 DEF OpeningFrames, Op, Harmless
  <1>5. BootFrames'
    <2> SUFFICES ASSUME NEW i \in 1..(n - 1)
                 PROVE  /\ stack'[i].op = "firstDial" =>
                              \A j \in (i + 1)..(n - 1) : stack'[j].op \in {"gate", "booted"}
                        /\ stack'[i].op = "booted" => i = n - 1
      BY <1>1 DEF BootFrames, Op
    <2>1. i + 1 \in 1..n /\ stack'[i] = stack[i + 1]
      BY <1>1
    <2>2. /\ Op(i + 1) = "firstDial" => \A j \in (i + 1 + 1)..n : Op(j) \in {"gate", "booted"}
          /\ Op(i + 1) = "booted" => i + 1 = n
      BY <1>0, <1>1, <2>1 DEF FrameInv, BootFrames
    <2>3. \A j \in (i + 1)..(n - 1) : stack'[j] = stack[j + 1] /\ j + 1 \in (i + 1 + 1)..n
      BY <1>1
    <2> QED BY <1>1, <2>1, <2>2, <2>3 DEF Op
  <1> QED BY <1>2, <1>3, <1>4, <1>5 DEF FrameInv

(* The frames a call pushes in place of its own. *)
LEMMA CallFrames ==
    ASSUME TypeOK, FrameInv, stack # <<>>, raised = FALSE, raised' = FALSE,
           NEW f \in Seq(Frame), f # <<>>, Call(f), NEW m, m = Len(f),
           \A i \in 1..m :
               /\ f[i].op \notin {"booted", "firstDial"}
               /\ f[i].op = "hello" => i = 1 /\ up'
               /\ f[i].op = "flush" => i = 1 \/ (i = 2 /\ f[1].op = "gate" /\ up'),
           \/ Op(1) \notin {"gate", "admit", "requeue"}
           \/ /\ Op(1) \in {"gate", "admit"}
              /\ up => /\ up' /\ f[1].op \in {"gate", "admit"}
                       /\ \A i \in 2..m : f[i].op = "requeue",
           \/ opening' = FALSE
           \/ opening' = opening /\ Op(1) # "opened"
              /\ (opening /\ Harmless(stack[1]) => \A i \in 1..m : Harmless(f[i]))
           \/ \E k \in 1..m : f[k].op = "opened" /\ \A j \in 1..k-1 : Harmless(f[j])
    PROVE  FrameInv'
  <1> DEFINE n == Len(stack)
  <1>6. n \in Nat \ {0} /\ m \in Nat \ {0}
    BY TailData DEF TypeOK
  <1>1. /\ n \in Nat \ {0} /\ m \in Nat \ {0} /\ DOMAIN stack = 1..n
        /\ DOMAIN stack' = 1..(m + n - 1) /\ Len(stack') = m + n - 1
        /\ \A i \in 1..m : stack'[i] = f[i]
        /\ \A i \in (m + 1)..(m + n - 1) : stack'[i] = stack[i - m + 1]
    <2>1. /\ stack \in Seq(Frame) /\ Tail(stack) \in Seq(Frame) /\ stack' = f \o Tail(stack)
          /\ n \in Nat \ {0} /\ m \in Nat \ {0} /\ DOMAIN stack = 1..n
      BY TailData, HeadData DEF TypeOK, Call
    <2>2. Len(Tail(stack)) = n - 1 /\ \A i \in 1..(n - 1) : Tail(stack)[i] = stack[i + 1]
      BY <2>1, TailData
    <2>3. /\ DOMAIN stack' = 1..(m + n - 1) /\ Len(stack') = m + n - 1
          /\ \A i \in 1..m : stack'[i] = f[i]
          /\ \A i \in (m + 1)..(m + n - 1) : stack'[i] = Tail(stack)[i - m]
      BY <2>1, <2>2, JoinData
    <2> HIDE DEF n
    <2>4. \A i \in (m + 1)..(m + n - 1) : Tail(stack)[i - m] = stack[i - m + 1]
      BY <2>1, <2>2
    <2> QED BY <2>1, <2>3, <2>4
  <1>0. Len(stack) = n
    OBVIOUS
  <1> HIDE DEF n
  <1>2. HelloFrames'
    <2> SUFFICES ASSUME NEW i \in 1..(m + n - 1), stack'[i].op = "hello"
                 PROVE  i = 1 /\ up'
      BY <1>1 DEF HelloFrames, Op
    <2>1. CASE i > m
      <3>1. i - m + 1 \in 1..n /\ i - m + 1 # 1 /\ Op(i - m + 1) = "hello"
        BY <1>1, <2>1 DEF Op
      <3> QED BY <1>1, <3>1 DEF FrameInv, HelloFrames
    <2>2. CASE i <= m
      BY <1>1, <2>2
    <2> QED BY <1>1, <2>1, <2>2
  <1>3. FlushFrames'
    <2> SUFFICES ASSUME NEW i \in 1..(m + n - 1), stack'[i].op = "flush"
                 PROVE  /\ i > 1 => /\ stack'[1].op \in {"gate", "admit", "requeue"}
                                    /\ stack'[1].op # "requeue" => up'
                        /\ \A j \in 2..i-1 : stack'[j].op = "requeue"
      BY <1>1 DEF FlushFrames, Op
    <2>1. CASE i <= m
      <3>1. i \in 1..m /\ f[i].op = "flush"
        BY <1>1, <2>1
      <3> QED BY <1>1, <3>1
    <2>2. CASE i > m
      <3>1. i - m + 1 \in 1..n /\ i - m + 1 > 1 /\ Op(i - m + 1) = "flush"
        BY <1>1, <2>2 DEF Op
      <3>2. /\ Op(1) \in {"gate", "admit", "requeue"} /\ (Op(1) # "requeue" => up)
            /\ \A j \in 2..(i - m + 1 - 1) : Op(j) = "requeue"
        <4>1. FlushFrames
          BY DEF FrameInv
        <4>2. i - m + 1 \in DOMAIN stack
          BY <1>1, <3>1
        <4> QED BY <3>1, <4>1, <4>2 DEF FlushFrames
      <3>3. \A j \in (m + 1)..(i - 1) : stack'[j] = stack[j - m + 1] /\ j - m + 1 \in 2..(i - m + 1 - 1)
        BY <1>1, <2>2
      <3>4. ASSUME NEW j \in (m + 1)..(i - 1) PROVE stack'[j].op = "requeue"
        <4>1. stack'[j] = stack[j - m + 1] /\ j - m + 1 \in 2..(i - m + 1 - 1)
          BY <3>3
        <4>2. Op(j - m + 1) = "requeue"
          BY <3>2, <4>1
        <4> QED BY <4>1, <4>2 DEF Op
      <3>5. up' /\ f[1].op \in {"gate", "admit"} /\ \A j \in 2..m : f[j].op = "requeue"
        BY <3>2
      <3>6. stack'[1] = f[1] /\ \A j \in 2..m : stack'[j] = f[j]
        BY <1>1
      <3>7. \A j \in 2..i-1 : j \in 2..m \/ j \in (m + 1)..(i - 1)
        BY <1>1, <2>2
      <3> QED BY <3>4, <3>5, <3>6, <3>7
    <2> QED BY <1>1, <2>1, <2>2
  <1>4. OpeningFrames'
    <2> SUFFICES ASSUME opening' PROVE OpeningFrames'
      BY DEF OpeningFrames
    <2>1. ASSUME NEW k \in 1..m, f[k].op = "opened", \A j \in 1..k-1 : Harmless(f[j])
          PROVE  OpeningFrames'
      <3>1. k \in 1..(m + n - 1) /\ \A j \in 1..k : stack'[j] = f[j]
        BY <1>1
      <3>2. stack'[k].op = "opened" /\ \A j \in 1..k-1 : Harmless(stack'[j])
        <4>1. \A j \in 1..k-1 : j \in 1..k
          BY <1>1
        <4> QED BY <2>1, <3>1, <4>1
      <3> QED BY <1>1, <3>1, <3>2 DEF OpeningFrames, Op, Harmless
    <2>2. CASE opening /\ Op(1) # "opened" /\ (Harmless(stack[1]) => \A i \in 1..m : Harmless(f[i]))
      <3>1. PICK i \in 1..n : Op(i) = "opened" /\ \A j \in 1..i-1 : Harmless(stack[j])
        BY <1>1, <2>2 DEF FrameInv, OpeningFrames
      <3>c. i # 1
        BY <2>2, <3>1
      <3>2. i # 1 /\ i + m - 1 \in (m + 1)..(m + n - 1) /\ i + m - 1 - m + 1 = i
        BY <1>6, <3>c
      <3>a. 1 \in 1..i-1
        BY <1>1, <3>1, <3>2
      <3>3. Harmless(stack[1]) /\ \A j \in 1..m : Harmless(f[j])
        BY <2>2, <3>1, <3>a
      <3>4. \A j \in 1..m : Harmless(stack'[j])
        BY <1>1, <3>3
      <3>5. \A j \in (m + 1)..(i + m - 1 - 1) : Harmless(stack'[j])
        <4> SUFFICES ASSUME NEW j \in (m + 1)..(i + m - 1 - 1) PROVE Harmless(stack'[j])
          OBVIOUS
        <4>1. stack'[j] = stack[j - m + 1] /\ j - m + 1 \in 1..(i - 1)
          BY <1>1, <3>2
        <4> QED BY <3>1, <4>1
      <3>6. \A j \in 1..(i + m - 1 - 1) : j \in 1..m \/ j \in (m + 1)..(i + m - 1 - 1)
        BY <1>1
      <3>b. stack'[i + m - 1] = stack[i]
        BY <1>1, <3>2
      <3>7. stack'[i + m - 1].op = "opened" /\ \A j \in 1..(i + m - 1 - 1) : Harmless(stack'[j])
        BY <3>1, <3>4, <3>5, <3>6, <3>b DEF Op
      <3> DEFINE k == i + m - 1
      <3>8. k \in DOMAIN stack' /\ stack'[k].op = "opened" /\ \A j \in 1..k-1 : Harmless(stack'[j])
        BY <1>1, <3>2, <3>7
      <3> HIDE DEF k
      <3> QED BY <3>8 DEF OpeningFrames, Op, Harmless
    <2> QED BY <2>1, <2>2
  <1>5. BootFrames'
    <2> SUFFICES ASSUME NEW i \in 1..(m + n - 1)
                 PROVE  /\ stack'[i].op = "firstDial" =>
                              \A j \in (i + 1)..(m + n - 1) : stack'[j].op \in {"gate", "booted"}
                        /\ stack'[i].op = "booted" => i = m + n - 1
      BY <1>1 DEF BootFrames, Op
    <2>1. CASE i <= m
      BY <1>1, <2>1
    <2>2. CASE i > m
      <3>0. i \in (m + 1)..(m + n - 1)
        BY <1>1, <2>2
      <3>1. i - m + 1 \in 1..n /\ stack'[i] = stack[i - m + 1]
        BY <1>1, <3>0
      <3>2. /\ Op(i - m + 1) = "firstDial" =>
                  \A j \in (i - m + 1 + 1)..n : Op(j) \in {"gate", "booted"}
            /\ Op(i - m + 1) = "booted" => i - m + 1 = n
        BY <1>0, <1>1, <3>1 DEF FrameInv, BootFrames
      <3>3. \A j \in (i + 1)..(m + n - 1) :
               stack'[j] = stack[j - m + 1] /\ j - m + 1 \in (i - m + 1 + 1)..n
        <4> SUFFICES ASSUME NEW j \in (i + 1)..(m + n - 1)
                     PROVE  stack'[j] = stack[j - m + 1] /\ j - m + 1 \in (i - m + 1 + 1)..n
          OBVIOUS
        <4>1. j \in (m + 1)..(m + n - 1) /\ j - m + 1 \in (i - m + 1 + 1)..n
          BY <1>6, <2>2
        <4> QED BY <1>1, <4>1
      <3>4. stack'[i].op = Op(i - m + 1)
        BY <3>1 DEF Op
      <3>5. ASSUME stack'[i].op = "firstDial", NEW j \in (i + 1)..(m + n - 1)
            PROVE  stack'[j].op \in {"gate", "booted"}
        <4>1. stack'[j] = stack[j - m + 1] /\ j - m + 1 \in (i - m + 1 + 1)..n
          BY <3>3
        <4>2. Op(j - m + 1) \in {"gate", "booted"}
          BY <3>2, <3>4, <3>5, <4>1
        <4> QED BY <4>1, <4>2 DEF Op
      <3>6. stack'[i].op = "booted" => i = m + n - 1
        BY <1>6, <3>2, <3>4
      <3> QED BY <3>5, <3>6
    <2> QED BY <1>1, <2>1, <2>2
  <1> QED BY <1>2, <1>3, <1>4, <1>5 DEF FrameInv

-----------------------------------------------------------------------------
LEMMA RunningData ==
    ASSUME TypeOK, NEW op, Running(op)
    PROVE  /\ stack # <<>> /\ raised = FALSE /\ Op(1) = op /\ stack[1] = Head(stack)
           /\ stack[1].cmd \in Command
           /\ (DownClean /\ op # "connect" /\ ~up) => Clean
  BY HeadData, TailData DEF Running, TypeOK, Op, DownClean

LEMMA CleanBelow ==
    ASSUME TypeOK, SafeInv, NEW op, op # "connect", Running(op)
    PROVE  ~up => Clean
  BY RunningData DEF SafeInv

LEMMA Lost ==
    ASSUME NEW reqs, NEW again, NEW lockedOut, MarkDisconnected(reqs, again, lockedOut)
    PROVE  up' = FALSE /\ Clean' /\ DownClean' /\ BarrierCoversCandidate'
  BY DEF MarkDisconnected, Clean, DownClean, BarrierCoversCandidate

(* A step that leaves the link and what waits on it alone. *)
LEMMA Quiet ==
    ASSUME TypeOK, SafeInv, stack # <<>>, UNCHANGED <<up, hello, barrier, deferred, reopen>>,
           pending' \subseteq pending,
           Op(1) # "connect" \/ up, ~raised \/ Op(1) # "transmit"
    PROVE  DownClean' /\ BarrierCoversCandidate'
  BY DEF SafeInv, DownClean, Clean, BarrierCoversCandidate

LEMMA OneFrame ==
    ASSUME NEW a \in Frame
    PROVE  <<a>> \in Seq(Frame) /\ <<a>> # <<>> /\ Len(<<a>>) = 1 /\ <<a>>[1] = a
  OBVIOUS

LEMMA TwoFrames ==
    ASSUME NEW a \in Frame, NEW b \in Frame
    PROVE  /\ <<a, b>> \in Seq(Frame) /\ <<a, b>> # <<>> /\ Len(<<a, b>>) = 2
           /\ <<a, b>>[1] = a /\ <<a, b>>[2] = b
           /\ \A i \in 1..2 : i = 1 \/ i = 2
  OBVIOUS

LEMMA JoinTwo ==
    ASSUME NEW a \in Frame, NEW b \in Frame
    PROVE  <<a>> \o <<b>> = <<a, b>> /\ <<>> \o <<a>> = <<a>>
  <1>1. /\ <<a>> \o <<b>> \in Seq(Frame) /\ Len(<<a>> \o <<b>>) = 2
        /\ (<<a>> \o <<b>>)[1] = a /\ (<<a>> \o <<b>>)[2] = b
    OBVIOUS
  <1>2. /\ <<a, b>> \in Seq(Frame) /\ Len(<<a, b>>) = 2
        /\ \A i \in 1..2 : (<<a>> \o <<b>>)[i] = <<a, b>>[i]
    BY <1>1
  <1>3. <<a>> \o <<b>> = <<a, b>>
    BY <1>1, <1>2, SeqEqual
  <1>4. <<>> \o <<a>> = <<a>>
    BY ConcatEmptySeq
  <1> QED BY <1>3, <1>4

(* A call that pushes one frame, or two, in place of its own. *)
LEMMA CallOne ==
    ASSUME TypeOK, FrameInv, stack # <<>>, raised = FALSE, raised' = FALSE,
           NEW a \in Frame, Call(<<a>>),
           a.op \notin {"booted", "firstDial"}, a.op = "hello" => up',
           \/ Op(1) \notin {"gate", "admit", "requeue"}
           \/ Op(1) \in {"gate", "admit"} /\ (up => up' /\ a.op \in {"gate", "admit"}),
           opening' = FALSE \/ (opening' = opening /\ Op(1) # "opened"
                                /\ (Harmless(stack[1]) => Harmless(a)))
    PROVE  FrameInv'
  <1> DEFINE f == <<a>>
  <1>1. f \in Seq(Frame) /\ f # <<>> /\ Len(f) = 1 /\ f[1] = a /\ Call(f)
    BY OneFrame
  <1> HIDE DEF f
  <1>2. \A i \in 1..1 : f[i] = a /\ i = 1
    BY <1>1
  <1>3. \A i \in 2..1 : f[i].op = "requeue"
    OBVIOUS
  <1>4. \/ Op(1) \notin {"gate", "admit", "requeue"}
        \/ /\ Op(1) \in {"gate", "admit"}
           /\ up => /\ up' /\ f[1].op \in {"gate", "admit"}
                    /\ \A i \in 2..1 : f[i].op = "requeue"
    BY <1>1, <1>3
  <1>5. \/ opening' = FALSE
        \/ opening' = opening /\ Op(1) # "opened"
           /\ (opening /\ Harmless(stack[1]) => \A i \in 1..1 : Harmless(f[i]))
    BY <1>2
  <1>6. \A i \in 1..1 :
           /\ f[i].op \notin {"booted", "firstDial"}
           /\ f[i].op = "hello" => i = 1 /\ up'
           /\ f[i].op = "flush" => i = 1 \/ (i = 2 /\ f[1].op = "gate" /\ up')
    BY <1>2
  <1> QED BY <1>1, <1>4, <1>5, <1>6, CallFrames

LEMMA CallTwo ==
    ASSUME TypeOK, FrameInv, stack # <<>>, raised = FALSE, raised' = FALSE,
           NEW a \in Frame, NEW b \in Frame, Call(<<a, b>>),
           {a.op, b.op} \cap {"booted", "firstDial"} = {}, a.op = "hello" => up', b.op # "hello",
           b.op = "flush" => a.op = "gate" /\ up',
           \/ Op(1) \notin {"gate", "admit", "requeue"}
           \/ /\ Op(1) \in {"gate", "admit"}
              /\ up => up' /\ a.op \in {"gate", "admit"} /\ b.op = "requeue",
           \/ opening' = FALSE
           \/ opening' = opening /\ Op(1) # "opened"
              /\ (opening /\ Harmless(stack[1]) => Harmless(a) /\ Harmless(b))
           \/ b.op = "opened" /\ Harmless(a)
    PROVE  FrameInv'
  <1> DEFINE f == <<a, b>>
  <1>1. f \in Seq(Frame) /\ f # <<>> /\ Len(f) = 2 /\ f[1] = a /\ f[2] = b /\ Call(f)
    BY TwoFrames
  <1> HIDE DEF f
  <1>2. \A i \in 1..2 : (i = 1 /\ f[i] = a) \/ (i = 2 /\ f[i] = b)
    BY <1>1
  <1>3. 2 \in 1..2 /\ \A j \in 1..(2-1) : f[j] = a
    BY <1>1
  <1>4. \A i \in 2..2 : f[i] = b
    BY <1>1
  <1>5. \A i \in 1..2 :
           /\ f[i].op \notin {"booted", "firstDial"}
           /\ f[i].op = "hello" => i = 1 /\ up'
           /\ f[i].op = "flush" => i = 1 \/ (i = 2 /\ f[1].op = "gate" /\ up')
    BY <1>1, <1>2
  <1>6. \/ Op(1) \notin {"gate", "admit", "requeue"}
        \/ /\ Op(1) \in {"gate", "admit"}
           /\ up => /\ up' /\ f[1].op \in {"gate", "admit"}
                    /\ \A i \in 2..2 : f[i].op = "requeue"
    BY <1>1, <1>4
  <1>7. \/ opening' = FALSE
        \/ opening' = opening /\ Op(1) # "opened"
           /\ (opening /\ Harmless(stack[1]) => \A i \in 1..2 : Harmless(f[i]))
        \/ \E k \in 1..2 : f[k].op = "opened" /\ \A j \in 1..k-1 : Harmless(f[j])
    <2>1. CASE b.op = "opened" /\ Harmless(a)
      BY <1>1, <1>3, <2>1
    <2>2. CASE opening' = opening /\ Op(1) # "opened"
               /\ (opening /\ Harmless(stack[1]) => Harmless(a) /\ Harmless(b))
      BY <1>2, <2>2
    <2> QED BY <2>1, <2>2
  <1> QED BY <1>1, <1>5, <1>6, <1>7, CallFrames

LEMMA PushIsCall ==
    ASSUME NEW s \in Seq(Frame), s # <<>>, NEW a \in Frame
    PROVE  <<a>> \o s = <<a, Head(s)>> \o Tail(s)
  OBVIOUS

-----------------------------------------------------------------------------
(* A handler that only returns. *)
LEMMA QuietReturns ==
    ASSUME TypeOK, SafeInv,
           \/ ClockQuiet \/ GateRefuses \/ AlreadyConnected \/ NothingToReopen \/ ReopenSent
           \/ AdmitRejects \/ TransmitsLate \/ FlushEnds \/ PollsNothing \/ ReadsNotification
           \/ ReadsSkip \/ FirstDialReturns \/ Booted
    PROVE  SafeInv'
  <1>1. /\ Return /\ stack # <<>> /\ raised = FALSE /\ raised' = FALSE
        /\ UNCHANGED <<up, hello, barrier, deferred, reopen>> /\ pending' \subseteq pending
        /\ Op(1) # "connect" \/ up
        /\ opening' = FALSE \/ (opening' = opening /\ Op(1) # "opened")
    BY RunningData, TailData
       DEF TypeOK, Running, Op, Return, linkVars, barrierVars, scopeVars, requestVars,
           ClockQuiet, GateRefuses, AlreadyConnected, NothingToReopen, ReopenSent,
           AdmitRejects, TransmitsLate, FlushEnds, PollsNothing, ReadsNotification,
           ReadsFrame, ReadsSkip, FirstDialReturns, Booted
  <1>2. FrameInv'
    BY <1>1, ReturnFrames DEF SafeInv
  <1> QED BY <1>1, <1>2, Quiet DEF SafeInv

(* A handler that loses the link and returns. *)
LEMMA LossReturns ==
    ASSUME TypeOK, SafeInv,
           \/ OpenExpires \/ TransmitFails \/ TransmitFailsLate \/ ReconnectForTransmitFails
           \/ ReadFindsNoLink \/ HelloSendFails
           \/ (\E lockedOut \in BOOLEAN : ReadsLinkEnd(lockedOut))
    PROVE  SafeInv'
  <1>1. /\ Return /\ stack # <<>> /\ opening' = opening /\ Op(1) # "opened"
        /\ raised' = FALSE \/ Op(1) = "hello"
        /\ \E reqs, again, lockedOut : MarkDisconnected(reqs, again, lockedOut)
    BY RunningData, TailData
       DEF TypeOK, Running, Op, Return, Raise, OpenExpires, FailSessionOpenBarrier, TransmitFails,
           TransmitFailsLate, ReconnectForTransmitFails, ReadFindsNoLink, HelloSendFails,
           ReadsLinkEnd
  <1>2. FrameInv'
    BY <1>1, ReturnFrames DEF SafeInv
  <1> QED BY <1>1, <1>2, Lost DEF SafeInv

LEMMA GarbledReturns ==
    ASSUME TypeOK, SafeInv, NEW r \in pending, OpenGarbled(r)
    PROVE  SafeInv'
  <1>1. /\ Return /\ stack # <<>> /\ opening' = opening /\ Op(1) = "poll" /\ raised' = FALSE
        /\ up' = FALSE /\ hello' = 0 /\ barrier' = NoBarrier /\ deferred' = <<>> /\ pending' = {}
    BY RunningData, TailData
       DEF TypeOK, OpenGarbled, FailSessionOpenBarrier, MarkDisconnected
  <1>2. FrameInv'
    BY <1>1, ReturnFrames DEF SafeInv
  <1> QED BY <1>1, <1>2 DEF SafeInv, DownClean, Clean, BarrierCoversCandidate

(* What returns to a frame. *)
LEMMA SecondFrame ==
    ASSUME TypeOK, stack # <<>>, Return, Len(stack) >= 2
    PROVE  stack' # <<>> /\ stack'[1] = stack[2]
  <1>1. /\ Len(stack) \in Nat \ {0} /\ stack' = Tail(stack)
        /\ Len(Tail(stack)) = Len(stack) - 1 /\ Tail(stack) \in Seq(Frame)
        /\ \A i \in 1..(Len(stack) - 1) : Tail(stack)[i] = stack[i + 1]
    BY TailData, HeadData DEF TypeOK, Return
  <1>2. 1 \in 1..(Len(stack) - 1) /\ 1 + 1 = 2
    BY <1>1
  <1>3. stack'[1] = stack[2]
    BY <1>1, <1>2
  <1>4. Len(stack') > 0
    BY <1>1
  <1> QED BY <1>3, <1>4

(* An Err on its way up. *)
LEMMA ErrReturns ==
    ASSUME TypeOK, SafeInv, DialRefused \/ DialFails \/ Unwind \/ SendReturns
    PROVE  SafeInv'
  <1>1. CASE DialRefused \/ DialFails
    <2>1. /\ Return /\ stack # <<>> /\ raised = FALSE /\ raised' = TRUE /\ ~up /\ Op(1) = "connect"
          /\ UNCHANGED <<up, hello, barrier, deferred, pending, reopen, opening>>
      BY <1>1, RunningData DEF DialRefused, DialFails, Raise, Return, barrierVars, requestVars,
         scopeVars, linkVars
    <2>2. FrameInv'
      BY <2>1, ReturnFrames DEF SafeInv
    <2>3. Len(stack) >= 2 => stack' # <<>> /\ stack'[1] = stack[2]
      BY <2>1, SecondFrame
    <2>4. DownClean' /\ BarrierCoversCandidate'
      BY <2>1, <2>3 DEF SafeInv, DownClean, Clean, BarrierCoversCandidate, Op
    <2> QED BY <2>2, <2>4 DEF SafeInv
  <1>2. CASE Unwind \/ SendReturns
    <2>1. /\ Return /\ stack # <<>> /\ (raised' = FALSE \/ raised)
          /\ UNCHANGED <<up, hello, barrier, deferred, pending, reopen>>
          /\ Op(1) \notin {"transmit"}
          /\ opening' = FALSE \/ (opening' = opening /\ Op(1) # "opened")
      BY <1>2, HeadData, TailData DEF TypeOK, Unwind, SendReturns, Op, barrierVars, requestVars,
         scopeVars, linkVars
    <2>2. FrameInv'
      <3>1. CASE raised
        BY <2>1, <3>1, ReturnFrames DEF SafeInv
      <3>2. CASE raised' = FALSE
        BY <2>1, <3>2, ReturnFrames DEF SafeInv
      <3> QED BY <2>1, <3>1, <3>2
    <2>3. ~up => Clean
      BY <1>2, <2>1, HeadData, TailData DEF SafeInv, DownClean, Unwind, SendReturns, TypeOK, Op
    <2>4. DownClean' /\ BarrierCoversCandidate'
      BY <2>1, <2>3 DEF SafeInv, DownClean, Clean, BarrierCoversCandidate
    <2> QED BY <2>2, <2>4 DEF SafeInv
  <1> QED BY <1>1, <1>2

-----------------------------------------------------------------------------
(* A handler that calls and leaves the link and what waits on it alone. *)
LEMMA GateCalls ==
    ASSUME TypeOK, SafeInv, GatePasses
    PROVE  SafeInv'
  <1> DEFINE c == Head(stack).cmd
  <1>1. /\ stack # <<>> /\ raised = FALSE /\ raised' = FALSE /\ Op(1) = "gate"
        /\ UNCHANGED <<up, hello, barrier, deferred, reopen, pending, opening>>
        /\ c \in Command /\ c = stack[1].cmd
        /\ Call((IF up THEN <<>> ELSE <<Fr("connect")>>) \o <<FrCmd("admit", c)>>)
    BY RunningData, HeadData
       DEF TypeOK, GatePasses, linkVars, barrierVars, scopeVars, requestVars
  <1>2. /\ Fr("connect") \in Frame /\ FrCmd("admit", c) \in Frame
        /\ Fr("connect").op = "connect" /\ FrCmd("admit", c).op = "admit"
        /\ FrCmd("admit", c).cmd = c /\ Fr("connect").cmd.kind = "list"
    BY <1>1, FrameData DEF Ops, Fr, FrCmd, NoCommand, Cmd
  <1>3. CASE up
    <2>1. Call(<<FrCmd("admit", c)>>)
      BY <1>1, <1>2, <1>3, JoinTwo
    <2>2. Harmless(stack[1]) => Harmless(FrCmd("admit", c))
      BY <1>1, <1>2 DEF Harmless
    <2> HIDE DEF c
    <2>3. FrameInv'
      BY <1>1, <1>2, <1>3, <2>1, <2>2, CallOne DEF SafeInv
    <2> QED BY <1>1, <2>3, Quiet DEF SafeInv
  <1>4. CASE ~up
    <2>1. Call(<<Fr("connect"), FrCmd("admit", c)>>)
      BY <1>1, <1>2, <1>4, JoinTwo
    <2>2. Harmless(stack[1]) => Harmless(Fr("connect")) /\ Harmless(FrCmd("admit", c))
      BY <1>1, <1>2 DEF Harmless
    <2> HIDE DEF c
    <2>3. FrameInv'
      BY <1>1, <1>2, <1>4, <2>1, <2>2, CallTwo DEF SafeInv
    <2> QED BY <1>1, <2>3, Quiet DEF SafeInv
  <1> QED BY <1>3, <1>4

LEMMA CapsCalls ==
    ASSUME TypeOK, SafeInv, RefreshCapabilities
    PROVE  SafeInv'
  <1> DEFINE a == FrCmd("gate", CapsCommand)
  <1>1. /\ stack # <<>> /\ raised = FALSE /\ raised' = FALSE /\ Op(1) = "caps"
        /\ UNCHANGED <<up, hello, barrier, deferred, reopen, pending, opening>> /\ Call(<<a>>)
    BY RunningData
       DEF RefreshCapabilities, SendFrames, linkVars, barrierVars, scopeVars, requestVars
  <1>2. a \in Frame /\ a.op = "gate" /\ Harmless(a)
    BY FrameData, CommandData DEF Ops, FrCmd, CapsCommand, Cmd, Harmless
  <1> HIDE DEF a
  <1>3. FrameInv'
    BY <1>1, <1>2, CallOne DEF SafeInv
  <1> QED BY <1>1, <1>3, Quiet DEF SafeInv

LEMMA ResolveCalls ==
    ASSUME TypeOK, SafeInv, ReplayResolve
    PROVE  SafeInv'
  <1> DEFINE a == FrCmd("gate", ResolveCommand)
             b == FrPlan("reopenNow", Head(stack).plan)
  <1>1. /\ stack # <<>> /\ raised = FALSE /\ raised' = FALSE /\ Op(1) = "reopen"
        /\ UNCHANGED <<up, hello, barrier, deferred, reopen, pending, opening>>
        /\ Call(<<a>> \o <<b>>) /\ Head(stack).plan \in Plan
    BY RunningData, HeadData
       DEF TypeOK, ReplayResolve, SendFrames, linkVars, barrierVars, scopeVars, requestVars
  <1>2. a \in Frame /\ a.op = "gate" /\ Harmless(a)
    BY FrameData, CommandData DEF Ops, FrCmd, ResolveCommand, Cmd, Harmless
  <1>3. b \in Frame /\ b.op = "reopenNow" /\ Harmless(b)
    BY <1>1, FrameData DEF Ops, FrPlan, NoCommand, Cmd, Harmless
  <1> HIDE DEF a, b
  <1>4. Call(<<a, b>>)
    BY <1>1, <1>2, <1>3, JoinTwo
  <1>5. FrameInv'
    BY <1>1, <1>2, <1>3, <1>4, CallTwo DEF SafeInv
  <1> QED BY <1>1, <1>5, Quiet DEF SafeInv

(* The frames of one replayed open. *)
LEMMA OpenNextFrames ==
    ASSUME TypeOK, FrameInv, stack # <<>>, raised = FALSE, raised' = FALSE,
           Op(1) \notin {"gate", "admit", "requeue"}, NEW p \in Plan, OpenNext(p)
    PROVE  FrameInv'
  <1>1. PICK s \in PlanHeads(p) :
           opening' = TRUE /\ Call(SendFrames(ReopenCommand(s)) \o <<Fr("opened")>>)
    BY DEF OpenNext
  <1> DEFINE a == FrCmd("gate", ReopenCommand(s))
             b == Fr("opened")
  <1>2. ReopenCommand(s) \in Command /\ ReopenCommand(s).kind = "reopen"
    BY CommandData, PlanData DEF ReopenCommand, Cmd
  <1>3. a \in Frame /\ a.op = "gate" /\ Harmless(a) /\ b \in Frame /\ b.op = "opened"
    BY <1>2, FrameData DEF Ops, FrCmd, Fr, Harmless
  <1>4. Call(<<a>> \o <<b>>)
    BY <1>1 DEF SendFrames
  <1> HIDE DEF a, b
  <1>5. Call(<<a, b>>)
    BY <1>3, <1>4, JoinTwo
  <1> QED BY <1>1, <1>3, <1>5, CallTwo

LEMMA ReopenCalls ==
    ASSUME TypeOK, SafeInv, ReopenStarts
    PROVE  SafeInv'
  <1>1. /\ stack # <<>> /\ raised = FALSE /\ raised' = FALSE /\ Op(1) \in {"reopen", "reopenNow"}
        /\ UNCHANGED <<up, hello, barrier, deferred, reopen, pending>>
        /\ OpenNext(Head(stack).plan) /\ Head(stack).plan \in Plan
    BY RunningData, HeadData
       DEF TypeOK, ReopenStarts, linkVars, scopeVars, requestVars
  <1>2. FrameInv'
    BY <1>1, OpenNextFrames DEF SafeInv
  <1> QED BY <1>1, <1>2, Quiet DEF SafeInv

LEMMA OpensFirstCalls ==
    ASSUME TypeOK, SafeInv, AdmitOpensFirst
    PROVE  SafeInv'
  <1> DEFINE c == Head(stack).cmd
             a == FrCmd("gate", OpenCommand(c.sess))
             b == FrCmd("requeue", c)
  <1>1. /\ stack # <<>> /\ raised = FALSE /\ raised' = FALSE /\ Op(1) = "admit"
        /\ UNCHANGED <<up, hello, barrier, deferred, reopen, pending, opening>>
        /\ Call(<<a>> \o <<b>>) /\ c \in Command /\ c.kind = "hydrate" /\ c = stack[1].cmd
    BY RunningData, HeadData
       DEF TypeOK, AdmitOpensFirst, UnknownHydrate, SendFrames, linkVars, barrierVars, scopeVars,
           requestVars
  <1>2. c.sess \in Sessions
    BY <1>1 DEF Command, SessionKinds
  <1>3. a \in Frame /\ a.op = "gate" /\ b \in Frame /\ b.op = "requeue" /\ ~Harmless(stack[1])
    BY <1>1, <1>2, FrameData, CommandData DEF Ops, FrCmd, Harmless
  <1> HIDE DEF a, b, c
  <1>4. Call(<<a, b>>)
    BY <1>1, <1>3, JoinTwo
  <1>5. FrameInv'
    BY <1>1, <1>3, <1>4, CallTwo DEF SafeInv
  <1> QED BY <1>1, <1>5, Quiet DEF SafeInv

-----------------------------------------------------------------------------
(* The frames a new connection starts with. *)
LEMMA DialFrames ==
    ASSUME NEW a \in Frame, NEW b \in Frame, NEW c \in Frame, NEW s \in BOOLEAN, NEW r \in BOOLEAN,
           NEW f, f = (IF s THEN <<a>> ELSE <<>>) \o (IF r THEN <<b>> ELSE <<>>) \o <<c>>
    PROVE  /\ f \in Seq(Frame) /\ f # <<>>
           /\ \A i \in 1..Len(f) : f[i] \in {a, b, c} /\ (i # 1 => f[i] \in {b, c})
  <1> DEFINE x == IF s THEN <<a>> ELSE <<>>
             y == IF r THEN <<b>> ELSE <<>>
             z == <<c>>
  <1>1. /\ x \in Seq(Frame) /\ Len(x) \in {0, 1} /\ \A i \in 1..Len(x) : i = 1 /\ x[i] = a
        /\ y \in Seq(Frame) /\ Len(y) \in {0, 1} /\ \A i \in 1..Len(y) : y[i] = b
        /\ z \in Seq(Frame) /\ Len(z) = 1 /\ z[1] = c
    <2>1. /\ <<a>> \in Seq(Frame) /\ Len(<<a>>) = 1 /\ <<a>>[1] = a
          /\ <<b>> \in Seq(Frame) /\ Len(<<b>>) = 1 /\ <<b>>[1] = b
          /\ <<c>> \in Seq(Frame) /\ Len(<<c>>) = 1 /\ <<c>>[1] = c
      OBVIOUS
    <2>2. <<>> \in Seq(Frame) /\ Len(<<>>) = 0
      OBVIOUS
    <2>3. (s = TRUE /\ x = <<a>>) \/ (s = FALSE /\ x = <<>>)
      OBVIOUS
    <2>4. (r = TRUE /\ y = <<b>>) \/ (r = FALSE /\ y = <<>>)
      OBVIOUS
    <2>5. z = <<c>>
      OBVIOUS
    <2> HIDE DEF x, y, z
    <2>6. x \in Seq(Frame) /\ Len(x) \in {0, 1} /\ \A i \in 1..Len(x) : i = 1 /\ x[i] = a
      <3>1. CASE x = <<a>>
        <4>1. x \in Seq(Frame) /\ Len(x) = 1 /\ x[1] = a
          BY <2>1, <3>1
        <4> QED BY <4>1
      <3>2. CASE x = <<>>
        BY <2>2, <3>2
      <3> QED BY <2>3, <3>1, <3>2
    <2>7. y \in Seq(Frame) /\ Len(y) \in {0, 1} /\ \A i \in 1..Len(y) : y[i] = b
      <3>1. CASE y = <<b>>
        <4>1. y \in Seq(Frame) /\ Len(y) = 1 /\ y[1] = b
          BY <2>1, <3>1
        <4> QED BY <4>1
      <3>2. CASE y = <<>>
        BY <2>2, <3>2
      <3> QED BY <2>4, <3>1, <3>2
    <2> QED BY <2>1, <2>5, <2>6, <2>7
  <1>2. f = (x \o y) \o z
    OBVIOUS
  <1> HIDE DEF x, y, z
  <1>3. /\ x \o y \in Seq(Frame) /\ Len(x \o y) = Len(x) + Len(y)
        /\ \A i \in 1..Len(x) + Len(y) : (x \o y)[i] = IF i <= Len(x) THEN x[i] ELSE y[i - Len(x)]
    BY <1>1, ConcatProperties
  <1> DEFINE w == x \o y
  <1>4. /\ w \in Seq(Frame) /\ Len(w) \in 0..2
        /\ \A i \in 1..Len(w) : w[i] \in {a, b} /\ (i # 1 => w[i] = b)
    BY <1>1, <1>3
  <1>5. f = w \o z
    BY <1>2
  <1> HIDE DEF w
  <1>6. /\ w \o z \in Seq(Frame) /\ Len(w \o z) = Len(w) + 1
        /\ \A i \in 1..Len(w) + 1 : (w \o z)[i] = IF i <= Len(w) THEN w[i] ELSE z[i - Len(w)]
    BY <1>1, <1>4, ConcatProperties
  <1>7. \A i \in 1..Len(w) + 1 : i <= Len(w) \/ i - Len(w) = 1
    BY <1>4
  <1>8. \A i \in 1..Len(w) + 1 : f[i] \in {a, b, c} /\ (i # 1 => f[i] \in {b, c})
    BY <1>1, <1>4, <1>5, <1>6, <1>7
  <1>9. f # <<>>
    BY <1>4, <1>5, <1>6
  <1> QED BY <1>5, <1>6, <1>8, <1>9

LEMMA DialCalls ==
    ASSUME TypeOK, SafeInv, Dials
    PROVE  SafeInv'
  <1> DEFINE a == Fr("hello")
             b == Fr("caps")
             plan == IF reported THEN ReopenPlan ELSE NoPlan
             c == FrPlan("reopen", plan)
             f == (IF Stdio THEN <<a>> ELSE <<>>) \o (IF refreshCaps THEN <<b>> ELSE <<>>) \o <<c>>
             m == Len(f)
  <1>1. /\ stack # <<>> /\ raised = FALSE /\ raised' = FALSE /\ Op(1) = "connect" /\ up' = TRUE
        /\ UNCHANGED <<hello, barrier, deferred, reopen, pending, opening>> /\ Call(f)
    BY RunningData DEF Dials, barrierVars, scopeVars, requestVars
  <1>2. plan \in Plan
    BY BackendAssumption, PlanData DEF ReopenPlan, Plan, Target, TypeOK, BackendAssumption
  <1>3. /\ a \in Frame /\ a.op = "hello" /\ Harmless(a)
        /\ b \in Frame /\ b.op = "caps" /\ Harmless(b)
        /\ c \in Frame /\ c.op = "reopen" /\ Harmless(c)
    BY <1>2, FrameData DEF Ops, Fr, FrPlan, NoCommand, Cmd, Harmless
  <1>4. Stdio \in BOOLEAN /\ refreshCaps \in BOOLEAN
    BY BackendAssumption DEF BackendAssumption, TypeOK
  <1> HIDE DEF a, b, c
  <1>5. /\ f \in Seq(Frame) /\ f # <<>>
        /\ \A i \in 1..m : f[i] \in {a, b, c} /\ (i # 1 => f[i] \in {b, c})
    BY <1>3, <1>4, DialFrames
  <1>6. m = Len(f)
    OBVIOUS
  <1> HIDE DEF f, m
  <1>7. \A i \in 1..m : /\ Harmless(f[i]) /\ f[i].op \notin {"booted", "firstDial"}
                        /\ f[i].op = "hello" => i = 1 /\ up'
                        /\ f[i].op = "flush" => i = 1 \/ (i = 2 /\ f[1].op = "gate" /\ up')
    BY <1>1, <1>3, <1>5
  <1>8. FrameInv'
    BY <1>1, <1>5, <1>6, <1>7, CallFrames DEF SafeInv
  <1>9. DownClean' /\ BarrierCoversCandidate'
    BY <1>1 DEF DownClean, BarrierCoversCandidate, SafeInv
  <1> QED BY <1>8, <1>9 DEF SafeInv

LEMMA HelloReturns ==
    ASSUME TypeOK, SafeInv, HelloSent
    PROVE  SafeInv'
  <1>1. /\ Return /\ stack # <<>> /\ raised = FALSE /\ raised' = FALSE /\ Op(1) = "hello"
        /\ up' = up /\ UNCHANGED <<barrier, reopen, opening>>
    BY RunningData DEF HelloSent, linkVars, scopeVars
  <1>2. up
    <2>1. 1 \in DOMAIN stack
      BY <1>1, TailData DEF TypeOK
    <2> QED BY <1>1, <2>1 DEF SafeInv, FrameInv, HelloFrames
  <1>3. FrameInv'
    BY <1>1, ReturnFrames DEF SafeInv
  <1> QED BY <1>1, <1>2, <1>3 DEF SafeInv, DownClean, BarrierCoversCandidate

-----------------------------------------------------------------------------
(* send, once it has a link. *)
LEMMA DeferReturns ==
    ASSUME TypeOK, SafeInv, AdmitDefers \/ Requeue
    PROVE  SafeInv'
  <1>1. /\ Return /\ stack # <<>> /\ raised = FALSE /\ raised' = FALSE
        /\ Op(1) \in {"admit", "requeue"} /\ (~up => Clean)
        /\ UNCHANGED <<up, hello, barrier, reopen, pending, opening>>
        /\ deferred' # deferred => hello # 0 \/ barrier # NoBarrier
    <2>1. CASE AdmitDefers
      <3>1. Running("admit") /\ Return /\ UNCHANGED <<up, hello, barrier, reopen, pending, opening, raised>>
        BY <2>1 DEF AdmitDefers, linkVars, scopeVars, requestVars
      <3>2. hello # 0 \/ barrier # NoBarrier
        BY <2>1 DEF AdmitDefers, MustWait
      <3>3. ~up => Clean
        BY <3>1, CleanBelow
      <3> QED BY <3>1, <3>2, <3>3, RunningData
    <2>2. CASE Requeue
      <3>1. Running("requeue") /\ Return /\ UNCHANGED <<up, hello, barrier, reopen, pending, opening, raised>>
        BY <2>2 DEF Requeue, linkVars, scopeVars, requestVars
      <3>2. deferred' # deferred => barrier # NoBarrier
        BY <2>2 DEF Requeue
      <3>3. ~up => Clean
        BY <3>1, CleanBelow
      <3> QED BY <3>1, <3>2, <3>3, RunningData
    <2> QED BY <2>1, <2>2
  <1>2. FrameInv'
    BY <1>1, ReturnFrames DEF SafeInv
  <1>3. DownClean' /\ BarrierCoversCandidate'
    BY <1>1 DEF DownClean, Clean, BarrierCoversCandidate, SafeInv
  <1> QED BY <1>2, <1>3 DEF SafeInv

(* The request that goes out is an open, or is no hydrate that could replace *)
(* the target of an open in flight.                                          *)
LEMMA TrackCovers ==
    ASSUME TypeOK, SafeInv, Running("admit"), MayTransmit(Head(stack).cmd), Track(Head(stack).cmd)
    PROVE  BarrierCoversCandidate'
  <1> DEFINE c == Head(stack).cmd
  <1>1. /\ Op(1) = "admit" /\ stack[1].cmd = c
        /\ MayTransmit(c) /\ Track(c)
    BY RunningData
  <1>2. DOMAIN stack = 1..Len(stack) /\ Len(stack) \in Nat
    BY DEF TypeOK
  <1> HIDE DEF c
  <1>3. CASE IsOpen(c)
    BY <1>1, <1>3 DEF Track, RecordTarget, BarrierCoversCandidate
  <1>4. CASE ~IsOpen(c) /\ c.kind # "hydrate"
    BY <1>1, <1>4 DEF Track, RecordTarget, BarrierCoversCandidate, SafeInv
  <1>5. CASE c.kind = "hydrate"
    <2>1. ~opening
      <3> SUFFICES ASSUME opening PROVE FALSE
        OBVIOUS
      <3>1. PICK i \in 1..Len(stack) : Op(i) = "opened" /\ \A j \in 1..i-1 : Harmless(stack[j])
        BY <1>2 DEF SafeInv, FrameInv, OpeningFrames
      <3>2. i # 1
        BY <1>1, <3>1
      <3>3. 1 \in 1..i-1
        BY <1>2, <3>2
      <3> QED BY <1>1, <1>5, <3>1, <3>3 DEF Harmless
    <2>2. barrier = NoBarrier /\ barrier' = barrier
      BY <1>1, <1>5, <2>1 DEF MayTransmit, MustWait, MayCross, Track, IsOpen
    <2> QED BY <2>2 DEF BarrierCoversCandidate, NoBarrier
  <1> QED BY <1>3, <1>4, <1>5

LEMMA TransmitReturns ==
    ASSUME TypeOK, SafeInv, Transmits
    PROVE  SafeInv'
  <1>1. /\ Return /\ stack # <<>> /\ raised = FALSE /\ raised' = FALSE /\ Op(1) = "admit"
        /\ up /\ up' = up /\ opening' = opening
    BY RunningData DEF Transmits, linkVars
  <1>2. FrameInv'
    BY <1>1, ReturnFrames DEF SafeInv
  <1>3. BarrierCoversCandidate'
    BY TrackCovers DEF Transmits
  <1> QED BY <1>1, <1>2, <1>3 DEF SafeInv, DownClean

LEMMA TransmitCalls ==
    ASSUME TypeOK, SafeInv, TransmitReconnects
    PROVE  SafeInv'
  <1> DEFINE c == Head(stack).cmd
             a == Fr("connect")
             b == FrCmd("transmit", c)
  <1>1. /\ stack # <<>> /\ raised = FALSE /\ raised' = FALSE /\ Op(1) = "admit"
        /\ ~up /\ up' = up /\ opening' = opening
        /\ Call(<<a, b>>) /\ c \in Command /\ c = stack[1].cmd
    BY RunningData, HeadData DEF TypeOK, TransmitReconnects, linkVars
  <1>2. /\ a \in Frame /\ a.op = "connect" /\ b \in Frame /\ b.op = "transmit"
        /\ Harmless(stack[1]) => Harmless(a) /\ Harmless(b)
    BY <1>1, FrameData DEF Ops, Fr, FrCmd, NoCommand, Cmd, Harmless
  <1> HIDE DEF a, b, c
  <1>3. FrameInv'
    BY <1>1, <1>2, CallTwo DEF SafeInv
  <1>4. BarrierCoversCandidate'
    BY TrackCovers DEF TransmitReconnects
  <1>5. Len(stack') >= 2 /\ stack'[1] = a /\ stack'[2] = b
    <2>1. <<a, b>> \in Seq(Frame) /\ Tail(stack) \in Seq(Frame) /\ stack' = <<a, b>> \o Tail(stack)
      BY <1>1, <1>2, TwoFrames, HeadData DEF TypeOK, Call
    <2> QED BY <2>1
  <1>6. DownClean'
    BY <1>1, <1>2, <1>5 DEF DownClean, Op
  <1> QED BY <1>3, <1>4, <1>6 DEF SafeInv

-----------------------------------------------------------------------------
(* The calls of a flush, and to one. *)
LEMMA ExpiryCalls ==
    ASSUME TypeOK, SafeInv, HelloExpires
    PROVE  SafeInv'
  <1> DEFINE a == Fr("flush")
             b == Head(stack)
  <1>1. /\ stack # <<>> /\ raised = FALSE /\ raised' = FALSE /\ Op(1) = "clock"
        /\ UNCHANGED <<up, barrier, deferred, reopen, opening>>
        /\ hello' = 0 /\ pending' \subseteq pending
        /\ stack' = <<a>> \o stack /\ b = stack[1] /\ b \in Frame
    BY RunningData, HeadData DEF TypeOK, HelloExpires, linkVars, scopeVars
  <1>7. ~up => Clean
    BY CleanBelow DEF HelloExpires
  <1>2. a \in Frame /\ a.op = "flush" /\ b.op = "clock" /\ ~Harmless(stack[1])
    BY <1>1, FrameData DEF Ops, Fr, Op, Harmless
  <1>3. <<a>> \o stack = <<a, b>> \o Tail(stack)
    BY <1>1, <1>2, PushIsCall DEF TypeOK
  <1> HIDE DEF a, b
  <1>4. Call(<<a, b>>)
    BY <1>1, <1>3 DEF Call
  <1>5. FrameInv'
    BY <1>1, <1>2, <1>4, CallTwo DEF SafeInv
  <1>6. DownClean' /\ BarrierCoversCandidate'
    BY <1>1, <1>7 DEF SafeInv, DownClean, Clean, BarrierCoversCandidate
  <1> QED BY <1>5, <1>6 DEF SafeInv

LEMMA FlushCalls ==
    ASSUME TypeOK, SafeInv, FlushSends
    PROVE  SafeInv'
  <1> DEFINE a == FrCmd("gate", Head(deferred))
             b == Head(stack)
  <1>1. /\ stack # <<>> /\ raised = FALSE /\ raised' = FALSE /\ Op(1) = "flush"
        /\ UNCHANGED <<up, hello, barrier, reopen, opening>> /\ deferred # <<>>
        /\ stack' = <<a>> \o stack /\ b = stack[1] /\ b \in Frame
    BY RunningData, HeadData DEF TypeOK, FlushSends, SendFrames, linkVars, scopeVars
  <1>2. up
    BY <1>1, RunningData DEF SafeInv, Clean, FlushSends
  <1>3. Head(deferred) \in Command
    BY <1>1 DEF TypeOK
  <1>4. a \in Frame /\ a.op = "gate" /\ b.op = "flush" /\ ~Harmless(stack[1])
    BY <1>1, <1>3, FrameData DEF Ops, FrCmd, Op, Harmless
  <1>5. <<a>> \o stack = <<a, b>> \o Tail(stack)
    BY <1>1, <1>4, PushIsCall DEF TypeOK
  <1> HIDE DEF a, b
  <1>6. Call(<<a, b>>)
    BY <1>1, <1>5 DEF Call
  <1>7. FrameInv'
    BY <1>1, <1>2, <1>4, <1>6, CallTwo DEF SafeInv
  <1>8. DownClean' /\ BarrierCoversCandidate'
    BY <1>1, <1>2 DEF SafeInv, DownClean, BarrierCoversCandidate
  <1> QED BY <1>7, <1>8 DEF SafeInv

(* An answer. *)
LEMMA PlainAnswerReturns ==
    ASSUME TypeOK, SafeInv, NEW r \in pending, NEW ans, PlainAnswer(r, ans)
    PROVE  SafeInv'
  <1>1. /\ Return /\ stack # <<>> /\ raised = FALSE /\ raised' = FALSE /\ Op(1) = "poll"
        /\ UNCHANGED <<up, hello, barrier, deferred, reopen, opening>> /\ pending' \subseteq pending
    BY RunningData DEF PlainAnswer, ReadsAnswer, ReadsFrame, barrierVars, scopeVars
  <1>2. FrameInv'
    BY <1>1, ReturnFrames DEF SafeInv
  <1> QED BY <1>1, <1>2, Quiet DEF SafeInv

LEMMA AnswersFlush ==
    ASSUME TypeOK, SafeInv, NEW r \in pending, NEW ans \in Answers,
           HelloAnswered(r, ans) \/ OpenConfirmedLast(r) \/ OpenRejected(r)
    PROVE  SafeInv'
  <1> DEFINE a == Fr("flush")
  <1>1. /\ Running("poll") /\ Call(<<a>>) /\ UNCHANGED <<up, raised, opening>>
        /\ barrier' = NoBarrier \/ UNCHANGED <<barrier, reopen>>
    <2>1. CASE HelloAnswered(r, ans)
      BY <2>1 DEF HelloAnswered, ReadsAnswer, ReadsFrame, scopeVars
    <2>2. CASE OpenConfirmedLast(r)
      BY <2>2 DEF OpenConfirmedLast, OpenConfirmed, ReadsAnswer, ReadsFrame
    <2>3. CASE OpenRejected(r)
      BY <2>3 DEF OpenRejected, ReadsAnswer, ReadsFrame
    <2> QED BY <2>1, <2>2, <2>3
  <1>2. /\ stack # <<>> /\ raised = FALSE /\ raised' = FALSE /\ Op(1) = "poll"
    BY <1>1, RunningData
  <1>6. up
    BY <1>1, CleanBelow DEF Clean
  <1>3. a \in Frame /\ a.op = "flush" /\ ~Harmless(stack[1])
    BY <1>2, FrameData DEF Ops, Fr, Op, Harmless
  <1> HIDE DEF a
  <1>4. FrameInv'
    BY <1>1, <1>2, <1>3, CallOne DEF SafeInv
  <1>5. DownClean' /\ BarrierCoversCandidate'
    BY <1>1, <1>6 DEF SafeInv, DownClean, BarrierCoversCandidate
  <1> QED BY <1>4, <1>5 DEF SafeInv

LEMMA AnswerOpensNext ==
    ASSUME TypeOK, SafeInv, NEW r \in pending, OpenConfirmedMidChain(r)
    PROVE  SafeInv'
  <1>1. /\ Running("poll") /\ OpenNext(chain) /\ chain \in Plan /\ UNCHANGED <<up, raised>>
        /\ barrier' = NoBarrier
    BY DEF OpenConfirmedMidChain, OpenConfirmed, ReadsAnswer, ReadsFrame, TypeOK
  <1>2. /\ stack # <<>> /\ raised = FALSE /\ raised' = FALSE /\ Op(1) = "poll"
    BY <1>1, RunningData
  <1>6. up
    BY <1>1, CleanBelow DEF Clean
  <1>3. FrameInv'
    BY <1>1, <1>2, OpenNextFrames DEF SafeInv
  <1> QED BY <1>1, <1>6, <1>3 DEF SafeInv, DownClean, BarrierCoversCandidate

-----------------------------------------------------------------------------
(* Bootstrap ends with every frame of it dropped; no open is under way then. *)
LEMMA NoOpenInBootstrap ==
    ASSUME TypeOK, FrameInv, stack # <<>>, Head(stack).op \in {"firstDial", "booted"}
    PROVE  opening = FALSE
  <1>1. DOMAIN stack = 1..Len(stack) /\ Len(stack) \in Nat \ {0} /\ Op(1) \in {"firstDial", "booted"}
    BY TailData DEF TypeOK, Op
  <1>2. \A i \in 1..Len(stack) : i # 1 => Op(i) \in {"gate", "booted"}
    <2>1. CASE Op(1) = "firstDial"
      <3>1. \A i \in 1..Len(stack) : i # 1 => i \in (1 + 1)..Len(stack)
        BY <1>1
      <3> QED BY <1>1, <2>1, <3>1 DEF FrameInv, BootFrames
    <2>2. CASE Op(1) = "booted"
      <3>1. 1 = Len(stack)
        BY <1>1, <2>2 DEF FrameInv, BootFrames
      <3>2. \A i \in 1..1 : i = 1
        OBVIOUS
      <3> QED BY <3>1, <3>2
    <2> QED BY <1>1, <2>1, <2>2
  <1>3. \A i \in 1..Len(stack) : Op(i) # "opened"
    BY <1>1, <1>2
  <1>4. opening \in BOOLEAN
    BY DEF TypeOK
  <1> QED BY <1>1, <1>3, <1>4 DEF FrameInv, OpeningFrames

(* A stack without the frames the invariant speaks of. *)
LEMMA PlainStack ==
    ASSUME opening' = FALSE, NEW n \in Nat, DOMAIN stack' = 1..n,
           \A i \in 1..n : stack'[i].op \notin {"hello", "flush", "firstDial", "booted"}
    PROVE  FrameInv'
  BY DEF FrameInv, HelloFrames, FlushFrames, OpeningFrames, BootFrames, Op

LEMMA BootstrapEnds ==
    ASSUME TypeOK, SafeInv, FirstDialFailsReadonly \/ BootstrapFails
    PROVE  SafeInv'
  <1>1. opening' = FALSE
    BY NoOpenInBootstrap DEF SafeInv, FirstDialFailsReadonly, BootstrapFails, barrierVars
  <1>2. CASE FirstDialFailsReadonly
    <2>1. DOMAIN stack' = 1..0 /\ \A i \in 1..0 : stack'[i].op = "halt"
      BY <1>2 DEF FirstDialFailsReadonly
    <2>2. FrameInv'
      BY <1>1, <2>1, PlainStack
    <2>3. \E reqs, again, lockedOut : MarkDisconnected(reqs, again, lockedOut)
      BY <1>2 DEF FirstDialFailsReadonly
    <2> QED BY <2>2, <2>3, Lost DEF SafeInv
  <1>3. CASE BootstrapFails
    <2>1. DOMAIN stack' = 1..1 /\ \A i \in 1..1 : stack'[i].op = "halt"
      BY <1>3 DEF BootstrapFails, Fr
    <2>2. FrameInv'
      BY <1>1, <2>1, PlainStack
    <2>3. /\ stack # <<>> /\ raised /\ Op(1) \in {"firstDial", "booted"}
          /\ UNCHANGED <<up, hello, barrier, deferred, pending, reopen>>
      BY <1>3, TailData DEF TypeOK, Op, BootstrapFails, linkVars, barrierVars, requestVars, scopeVars
    <2>4. ~up => Clean
      BY <2>3 DEF SafeInv, DownClean
    <2>5. DownClean' /\ BarrierCoversCandidate'
      BY <2>3, <2>4 DEF SafeInv, DownClean, Clean, BarrierCoversCandidate
    <2> QED BY <2>2, <2>5 DEF SafeInv
  <1> QED BY <1>2, <1>3

(* The event loop calls. *)
LEMMA IdleIsClean ==
    ASSUME TypeOK, SafeInv, Idle
    PROVE  opening = FALSE /\ (~up => Clean)
  <1>1. stack = <<>> /\ DOMAIN stack = {}
    BY DEF Idle
  <1>2. opening \in BOOLEAN
    BY DEF TypeOK
  <1>3. opening = FALSE
    BY <1>1, <1>2 DEF SafeInv, FrameInv, OpeningFrames
  <1>4. Len(stack) = 0
    BY <1>1
  <1>5. ~up => Clean
    BY <1>1, <1>4 DEF SafeInv, DownClean
  <1> QED BY <1>3, <1>5

LEMMA ClockData ==
    /\ ClockFrames \in Seq(Frame) /\ Len(ClockFrames) \in {0, 1}
    /\ \A i \in 1..Len(ClockFrames) : ClockFrames[i].op = "clock"
  <1>1. Fr("clock") \in Frame /\ Fr("clock").op = "clock"
    BY FrameData DEF Ops, Fr
  <1>2. CASE ClockFrames = <<Fr("clock")>>
    BY <1>1, <1>2
  <1>3. CASE ClockFrames = <<>>
    BY <1>3
  <1> QED BY <1>2, <1>3 DEF ClockFrames

LEMMA EventLoopCalls ==
    ASSUME TypeOK, SafeInv,
           NextEvent \/ \E k \in UserKinds, s \in Sessions \cup {NoSession} : UserSends(k, s)
    PROVE  SafeInv'
  <1>1. /\ Idle /\ UNCHANGED <<up, hello, barrier, deferred, pending, reopen, opening>>
    BY DEF NextEvent, UserSends, linkVars, barrierVars, requestVars, scopeVars
  <1>2. opening' = FALSE /\ (~up => Clean)
    BY <1>1, IdleIsClean
  <1>3. PICK f \in Seq(Frame) :
           /\ stack' = ClockFrames \o f /\ Len(f) = 2
           /\ {f[1].op, f[2].op} \subseteq {"gate", "returned", "connect", "poll"}
    <2>1. CASE NextEvent
      <3>1. Fr("connect") \in Frame /\ Fr("poll") \in Frame
        BY FrameData DEF Ops
      <3>2. /\ <<Fr("connect"), Fr("poll")>> \in Seq(Frame)
            /\ Len(<<Fr("connect"), Fr("poll")>>) = 2
            /\ <<Fr("connect"), Fr("poll")>>[1].op = "connect"
            /\ <<Fr("connect"), Fr("poll")>>[2].op = "poll"
        BY <3>1 DEF Fr
      <3> QED BY <2>1, <3>2 DEF NextEvent
    <2>2. ASSUME NEW k \in UserKinds, NEW s \in Sessions \cup {NoSession}, UserSends(k, s)
          PROVE  \E f \in Seq(Frame) :
                    /\ stack' = ClockFrames \o f /\ Len(f) = 2
                    /\ {f[1].op, f[2].op} \subseteq {"gate", "returned", "connect", "poll"}
      <3> DEFINE c == Cmd(k, s, issued + 1)
                 a == FrCmd("gate", c)
                 b == FrCmd("returned", c)
      <3>1. c \in Command
        BY <2>2, BackendAssumption
           DEF UserSends, TypeOK, BackendAssumption, Cmd, Command, SessionKinds
      <3>2. stack' = ClockFrames \o <<a>> \o <<b>>
        BY <2>2 DEF UserSends, SendFrames
      <3>3. a \in Frame /\ a.op = "gate" /\ b \in Frame /\ b.op = "returned"
        BY <3>1, FrameData DEF Ops, FrCmd
      <3> HIDE DEF a, b
      <3>4. <<a>> \o <<b>> = <<a, b>> /\ <<a>> \in Seq(Frame) /\ <<b>> \in Seq(Frame)
        BY <3>3, JoinTwo
      <3>5. stack' = ClockFrames \o <<a, b>>
        <4>1. ClockFrames \in Seq(Frame)
          BY ClockData
        <4>2. (ClockFrames \o <<a>>) \o <<b>> = ClockFrames \o (<<a>> \o <<b>>)
          BY <3>4, <4>1, ConcatAssociative
        <4> QED BY <3>2, <3>4, <4>2
      <3>6. /\ <<a, b>> \in Seq(Frame) /\ Len(<<a, b>>) = 2
            /\ <<a, b>>[1] = a /\ <<a, b>>[2] = b
        BY <3>3, TwoFrames
      <3> QED BY <3>3, <3>5, <3>6
    <2> QED BY <2>1, <2>2
  <1> DEFINE n == Len(ClockFrames)
  <1>4. /\ n \in {0, 1} /\ DOMAIN stack' = 1..(n + 2)
        /\ \A i \in 1..(n + 2) : stack'[i].op \notin {"hello", "flush", "firstDial", "booted"}
    <2>1. /\ ClockFrames \in Seq(Frame) /\ n \in {0, 1}
          /\ \A i \in 1..n : ClockFrames[i].op = "clock"
      BY ClockData
    <2>2. /\ DOMAIN stack' = 1..(n + Len(f))
          /\ \A i \in 1..n : stack'[i] = ClockFrames[i]
          /\ \A i \in (n + 1)..(n + Len(f)) : stack'[i] = f[i - n]
      BY <1>3, <2>1, JoinData
    <2> HIDE DEF n
    <2>3. \A i \in 1..(n + 2) : i \in 1..n \/ (i \in (n + 1)..(n + 2) /\ i - n \in {1, 2})
      BY <2>1
    <2>4. \A i \in 1..(n + 2) : stack'[i].op \in {"clock", "gate", "returned", "connect", "poll"}
      BY <1>3, <2>1, <2>2, <2>3
    <2> QED BY <1>3, <2>1, <2>2, <2>4
  <1>5. n + 2 \in Nat
    BY <1>4
  <1> HIDE DEF n
  <1>6. FrameInv'
    BY <1>2, <1>4, <1>5, PlainStack
  <1>7. DownClean' /\ BarrierCoversCandidate'
    BY <1>1, <1>2 DEF SafeInv, DownClean, Clean, BarrierCoversCandidate
  <1> QED BY <1>6, <1>7 DEF SafeInv

-----------------------------------------------------------------------------
(* The frames of bootstrap: the first dial, the capabilities, and the open  *)
(* of the launch session if there is one.                                   *)
LEMMA InitFrames ==
    ASSUME Init
    PROVE  FrameInv
  <1> DEFINE a == <<Fr("connect"), Fr("firstDial")>>
             b == SendFrames(CapsCommand)
             c == IF LaunchSession # NoSession THEN SendFrames(OpenCommand(LaunchSession)) ELSE <<>>
             d == <<Fr("booted")>>
             n == Len(c)
  <1>1. /\ a \in Seq(Frame) /\ Len(a) = 2 /\ a[1].op = "connect" /\ a[2].op = "firstDial"
        /\ b \in Seq(Frame) /\ Len(b) = 1 /\ b[1].op = "gate"
        /\ d \in Seq(Frame) /\ Len(d) = 1 /\ d[1].op = "booted"
    BY FrameData, CommandData DEF SendFrames, Ops, Fr, FrCmd
  <1>2. c \in Seq(Frame) /\ n \in {0, 1} /\ \A i \in 1..n : c[i].op = "gate"
    <2>1. CASE LaunchSession # NoSession
      <3>1. OpenCommand(LaunchSession) \in Command
        BY <2>1, CommandData, BackendAssumption DEF BackendAssumption
      <3> DEFINE g == FrCmd("gate", OpenCommand(LaunchSession))
      <3>2. g \in Frame /\ g.op = "gate"
        BY <3>1, FrameData DEF Ops, FrCmd
      <3>3. c = <<g>>
        BY <2>1 DEF SendFrames
      <3> HIDE DEF c, g
      <3>4. c \in Seq(Frame) /\ Len(c) = 1 /\ c[1].op = "gate"
        BY <3>2, <3>3, OneFrame
      <3> QED BY <3>4
    <2>2. CASE LaunchSession = NoSession
      <3>1. c = <<>>
        BY <2>2
      <3> HIDE DEF c
      <3> QED BY <3>1
    <2> QED BY <2>1, <2>2
  <1>3. stack = ((a \o b) \o c) \o d /\ opening = FALSE
    BY DEF Init
  <1> HIDE DEF a, b, c, d
  <1>4. /\ a \o b \in Seq(Frame) /\ Len(a \o b) = 3
        /\ (a \o b)[1] = a[1] /\ (a \o b)[2] = a[2] /\ (a \o b)[3] = b[1]
    <2>1. /\ a \o b \in Seq(Frame) /\ Len(a \o b) = 2 + 1
          /\ \A i \in 1..(2 + 1) : (a \o b)[i] = IF i <= 2 THEN a[i] ELSE b[i - 2]
      BY <1>1, ConcatProperties
    <2>2. 1 \in 1..(2 + 1) /\ 2 \in 1..(2 + 1) /\ 3 \in 1..(2 + 1) /\ 3 - 2 = 1 /\ ~(3 <= 2)
      OBVIOUS
    <2> QED BY <2>1, <2>2
  <1> DEFINE u == a \o b
             v == u \o c
  <1>5. u \in Seq(Frame) /\ Len(u) = 3 /\ u[1] = a[1] /\ u[2] = a[2] /\ u[3] = b[1]
    BY <1>4
  <1> HIDE DEF u
  <1>6. /\ v \in Seq(Frame) /\ Len(v) = 3 + n
        /\ v[1].op = "connect" /\ v[2].op = "firstDial"
        /\ \A i \in 3..(3 + n) : v[i].op = "gate"
    <2>1. /\ v \in Seq(Frame) /\ Len(v) = 3 + n
          /\ \A i \in 1..3 : v[i] = u[i]
          /\ \A i \in 4..(3 + n) : v[i] = c[i - 3] /\ i - 3 \in 1..n
      <3>1. /\ v \in Seq(Frame) /\ Len(v) = 3 + n
            /\ \A i \in 1..(3 + n) : v[i] = IF i <= 3 THEN u[i] ELSE c[i - 3]
        <4>1. /\ u \o c \in Seq(Frame) /\ Len(u \o c) = Len(u) + Len(c)
              /\ \A i \in 1..Len(u) + Len(c) :
                    (u \o c)[i] = IF i <= Len(u) THEN u[i] ELSE c[i - Len(u)]
          BY <1>2, <1>5, ConcatProperties
        <4> QED BY <1>5, <4>1
      <3> HIDE DEF n, v
      <3> QED BY <1>2, <3>1
    <2>2. 1 \in 1..3 /\ 2 \in 1..3 /\ 3 \in 1..3 /\ \A i \in 3..(3 + n) : i = 3 \/ i \in 4..(3 + n)
      BY <1>2
    <2> QED BY <1>1, <1>2, <1>5, <2>1, <2>2
  <1>7. stack = v \o d
    BY <1>3 DEF u
  <1> HIDE DEF v
  <1>8. /\ DOMAIN stack = 1..(4 + n) /\ Len(stack) = 4 + n
        /\ Op(1) = "connect" /\ Op(2) = "firstDial"
        /\ \A i \in 3..(3 + n) : Op(i) = "gate"
        /\ Op(4 + n) = "booted"
    <2>1. /\ DOMAIN stack = 1..(3 + n + 1) /\ Len(stack) = 3 + n + 1
          /\ \A i \in 1..(3 + n) : stack[i] = v[i]
          /\ \A i \in 1..1 : stack[i + (3 + n)] = d[i]
      <3>1. /\ stack \in Seq(Frame) /\ Len(stack) = 3 + n + 1
            /\ \A i \in 1..(3 + n + 1) : stack[i] = IF i <= 3 + n THEN v[i] ELSE d[i - (3 + n)]
        <4>1. /\ v \o d \in Seq(Frame) /\ Len(v \o d) = Len(v) + Len(d)
              /\ \A i \in 1..Len(v) + Len(d) :
                    (v \o d)[i] = IF i <= Len(v) THEN v[i] ELSE d[i - Len(v)]
          BY <1>1, <1>6, ConcatProperties
        <4>2. Len(v) = 3 + n /\ Len(d) = 1
          BY <1>1, <1>6
        <4> HIDE DEF n
        <4> QED BY <1>7, <4>1, <4>2
      <3> HIDE DEF n
      <3> QED BY <1>2, <3>1
    <2>2. /\ 1 \in 1..(3 + n) /\ 2 \in 1..(3 + n) /\ \A i \in 3..(3 + n) : i \in 1..(3 + n)
          /\ 3 + n + 1 = 4 + n /\ 1 + (3 + n) = 4 + n /\ 1 \in 1..1
      BY <1>2
    <2>3. stack[4 + n] = d[1]
      BY <2>1, <2>2
    <2> QED BY <1>1, <1>6, <2>1, <2>2, <2>3 DEF Op
  <1>9. \A i \in 1..(4 + n) : i = 1 \/ i = 2 \/ i \in 3..(3 + n) \/ i = 4 + n
    BY <1>2
  <1>10. HelloFrames /\ FlushFrames /\ OpeningFrames
    BY <1>3, <1>8, <1>9 DEF HelloFrames, FlushFrames, OpeningFrames
  <1>11. BootFrames
    <2>1. \A j \in 3..(4 + n) : Op(j) \in {"gate", "booted"}
      <3>1. \A j \in 3..(4 + n) : j \in 3..(3 + n) \/ j = 4 + n
        BY <1>2
      <3> QED BY <1>8, <3>1
    <2>2. \A i \in 1..(4 + n) : Op(i) = "firstDial" => i = 2
      BY <1>8, <1>9
    <2>3. \A i \in 1..(4 + n) : Op(i) = "booted" => i = 4 + n
      BY <1>8, <1>9
    <2> QED BY <1>8, <2>1, <2>2, <2>3 DEF BootFrames
  <1> QED BY <1>10, <1>11 DEF FrameInv

LEMMA SafeInit == Init => SafeInv
  <1> SUFFICES ASSUME Init PROVE SafeInv
    OBVIOUS
  <1>1. DownClean /\ BarrierCoversCandidate
    BY DEF Init, DownClean, Clean, BarrierCoversCandidate
  <1> QED BY <1>1, InitFrames DEF SafeInv

LEMMA SafeStep ==
    ASSUME TypeOK, SafeInv, [Next]_vars
    PROVE  SafeInv'
  <1>1. CASE Clock
    BY <1>1, QuietReturns, ExpiryCalls, LossReturns DEF Clock
  <1>2. CASE Gate
    BY <1>2, QuietReturns, GateCalls DEF Gate
  <1>3. CASE EnsureConnected
    BY <1>3, QuietReturns, ErrReturns, DialCalls, HelloReturns, LossReturns, CapsCalls,
       ResolveCalls, ReopenCalls DEF EnsureConnected
  <1>4. CASE Admit
    BY <1>4, DeferReturns, QuietReturns, OpensFirstCalls, TransmitReturns, TransmitCalls,
       LossReturns DEF Admit
  <1>5. CASE Flush
    BY <1>5, FlushCalls, QuietReturns DEF Flush
  <1>6. CASE Read
    <2>1. CASE PollsNothing \/ ReadsSkip \/ ReadsNotification
      BY <2>1, QuietReturns
    <2>2. CASE ReadFindsNoLink \/ \E lockedOut \in BOOLEAN : ReadsLinkEnd(lockedOut)
      BY <2>2, LossReturns
    <2>3. ASSUME NEW r \in pending,
                 OpenConfirmedMidChain(r) \/ OpenConfirmedLast(r) \/ OpenRejected(r) \/ OpenGarbled(r)
          PROVE  SafeInv'
      <3>1. OpenConfirmedLast(r) \/ OpenRejected(r) => \E ans \in Answers : TRUE
        BY DEF OpenConfirmedLast, OpenConfirmed, OpenRejected, ReadsAnswer
      <3> QED BY <2>3, <3>1, AnswerOpensNext, AnswersFlush, GarbledReturns
    <2>4. ASSUME NEW r \in pending, NEW ans \in Answers, PlainAnswer(r, ans) \/ HelloAnswered(r, ans)
          PROVE  SafeInv'
      BY <2>4, PlainAnswerReturns, AnswersFlush
    <2> QED BY <1>6, <2>1, <2>2, <2>3, <2>4 DEF Read
  <1>7. CASE Returns
    BY <1>7, ErrReturns, QuietReturns, BootstrapEnds DEF Returns
  <1>8. CASE EventLoop
    BY <1>8, EventLoopCalls DEF EventLoop
  <1>9. CASE BackoffElapses \/ Halted \/ UNCHANGED vars
    <2>1. UNCHANGED <<up, hello, barrier, deferred, pending, reopen, opening, stack, raised>>
      BY <1>9 DEF BackoffElapses, Halted, vars, linkVars, barrierVars, scopeVars, requestVars
    <2> QED BY <2>1 DEF SafeInv, FrameInv, HelloFrames, FlushFrames, OpeningFrames, BootFrames, Op,
               Harmless, DownClean, Clean, BarrierCoversCandidate
  <1> QED
    BY <1>1, <1>2, <1>3, <1>4, <1>5, <1>6, <1>7, <1>8, <1>9 DEF Next, Handler

LEMMA SafeInvariant == Spec => []SafeInv
  <1>1. TypeOK /\ SafeInv /\ [Next]_vars => SafeInv'
    BY SafeStep
  <1> QED BY <1>1, SafeInit, TypeCorrect, PTL DEF Spec

(* For every limit and every server: between calls, a connection that is    *)
(* gone leaves no barrier, deferred command or pending request behind       *)
(* (mark_disconnected is reached on every way a link can end).              *)
THEOREM LossIsClean == Spec => []DownIsClean
  <1>1. TypeOK /\ SafeInv => DownIsClean
    BY IdleIsClean DEF DownIsClean, Clean
  <1> QED BY <1>1, SafeInvariant, TypeCorrect, PTL

(* For every limit and every server: the session whose open is in flight is *)
(* the one its success will promote to the confirmed reopen target.         *)
THEOREM CandidateIsCovered == Spec => []BarrierCoversCandidate
  <1>1. SafeInv => BarrierCoversCandidate
    BY DEF SafeInv
  <1> QED BY <1>1, SafeInvariant, PTL

(* For every limit and every server: an Err never leaves a send that a      *)
(* flush made, so the branch that puts the command back is never taken.     *)
THEOREM FlushIsQuiet == Spec => []FlushNeverRaises
  <1>1. SafeInv => FlushNeverRaises
    BY DEF SafeInv, FrameInv, FlushFrames, FlushNeverRaises, Op
  <1> QED BY <1>1, SafeInvariant, PTL
=============================================================================
