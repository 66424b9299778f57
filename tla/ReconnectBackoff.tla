-------------------------- MODULE ReconnectBackoff --------------------------
(***************************************************************************)
(* The reconnect schedule of the protocol transport: `ReconnectBackoff` in *)
(* src/src/transport.rs and the calls `ensure_connected`,                  *)
(* `mark_disconnected` and `read_next_transport_event` make to it.         *)
(*                                                                         *)
(* Time advances in ticks of half a second (RECONNECT_BACKOFF_BASE).  An   *)
(* Instant the code stores is modelled by its age, `now` minus the         *)
(* Instant, which stops growing at the largest value anything compares it  *)
(* with, so the state space is finite without a bound on time.             *)
(***************************************************************************)
EXTENDS Integers

CONSTANTS
    Base,          \* RECONNECT_BACKOFF_BASE, in ticks
    Cap,           \* RECONNECT_BACKOFF_CAP, in ticks
    ShortLived,    \* RECONNECT_SHORT_LIVED_WINDOW, in ticks
    ConnectTicks,  \* the time a call of driver.connect() may block for
    MaxFailures    \* bound on the failure streak (the code saturates a u32)

ASSUME ScheduleAssumption ==
    /\ Base \in Nat \ {0} /\ Cap \in Nat /\ Base <= Cap
    /\ ShortLived \in Nat \ {0}
    /\ ConnectTicks \subseteq Nat /\ ConnectTicks # {}
    /\ MaxFailures \in Nat \ {0}

VARIABLES
    attemptAge,   \* age of last_attempt; Never for None
    failures,     \* consecutive_failures
    connectAge,   \* age of connected_at; Never for None
    linkUp,       \* the driver reports a live connection
    upFor,        \* time since connect() returned (history)
    streak,       \* failed dials and young deaths in a row (history)
    lastEnd       \* how the last connection or dial ended (history)

vars == <<attemptAge, failures, connectAge, linkUp, upFor, streak, lastEnd>>

Never == -1

Smaller(a, b) == IF a < b THEN a ELSE b

Older(age, d) == IF age = Never THEN Never ELSE Smaller(age + d, Cap + ShortLived)

(* 1 << exponent, the exponent being f - 1 clamped at 8. *)
Doubling(f) == <<1, 2, 4, 8, 16, 32, 64, 128, 256>>[Smaller(f, 9)]

CurrentDelay == IF failures = 0 THEN 0 ELSE Smaller(Base * Doubling(failures), Cap)

ShouldAttempt == attemptAge = Never \/ attemptAge >= CurrentDelay

-----------------------------------------------------------------------------
Init ==
    /\ attemptAge = Never /\ failures = 0 /\ connectAge = Never
    /\ linkUp = FALSE /\ upFor = 0 /\ streak = 0 /\ lastEnd = "none"

(* ensure_connected reads the clock, calls connect(), which blocks for d   *)
(* ticks and fails, and passes the time it read BEFORE to record_failure.  *)
DialFails(d) ==
    /\ ~linkUp /\ ShouldAttempt /\ failures < MaxFailures
    /\ attemptAge' = Smaller(d, Cap + ShortLived)
    /\ failures' = failures + 1
    /\ connectAge' = Never
    /\ streak' = streak + 1 /\ lastEnd' = "failed"
    /\ UNCHANGED <<linkUp, upFor>>

(* The same call succeeding: record_success with the earlier reading. *)
DialSucceeds(d) ==
    /\ ~linkUp /\ ShouldAttempt
    /\ attemptAge' = Smaller(d, Cap + ShortLived)
    /\ connectAge' = Smaller(d, Cap + ShortLived)
    /\ linkUp' = TRUE /\ upFor' = 0
    /\ UNCHANGED <<failures, streak, lastEnd>>

(* Mutant: a frame proves the connection but keeps the streak. *)
FrameKeepsStreak ==
    /\ linkUp
    /\ connectAge' = Never
    /\ streak' = 0
    /\ UNCHANGED <<failures, attemptAge, linkUp, upFor, lastEnd>>

(* A data frame arrives: record_frame. *)
FrameArrives ==
    /\ linkUp
    /\ failures' = 0 /\ connectAge' = Never
    /\ streak' = 0
    /\ UNCHANGED <<attemptAge, linkUp, upFor, lastEnd>>

(* Three mutants of record_disconnect: a young death is forgiven; a healthy *)
(* one takes one off the streak instead of clearing it; a call made while   *)
(* the link is down already counts again and restarts the delay.            *)
DiesForgiven ==
    /\ linkUp /\ linkUp' = FALSE
    /\ connectAge' = Never
    /\ LET young == connectAge # Never /\ connectAge < ShortLived
       IN  /\ failures' = IF young THEN failures ELSE 0
           /\ streak'  = IF young THEN Smaller(streak + 1, MaxFailures) ELSE 0
           /\ lastEnd' = IF young THEN "young" ELSE "healthy"
    /\ UNCHANGED <<attemptAge, upFor>>

DiesDecaying ==
    /\ linkUp /\ linkUp' = FALSE
    /\ connectAge' = Never
    /\ failures' = failures - 1 /\ streak' = 0 /\ lastEnd' = "healthy"
    /\ UNCHANGED <<attemptAge, upFor>>

DiesEvenWhenDown ==
    /\ linkUp' = FALSE /\ connectAge' = Never
    /\ failures' = Smaller(failures + 1, MaxFailures) /\ attemptAge' = 0
    /\ streak' = failures' /\ lastEnd' = "young"
    /\ UNCHANGED upFor

(* mark_disconnected on a live connection: record_disconnect. A connection *)
(* that delivered a frame has no connected_at left and changes nothing.    *)
Dies ==
    /\ linkUp /\ linkUp' = FALSE
    /\ connectAge' = Never
    /\ \/ connectAge = Never /\ UNCHANGED <<failures, attemptAge>>
       \/ /\ connectAge # Never /\ connectAge < ShortLived
          /\ failures < MaxFailures
          /\ failures' = failures + 1 /\ attemptAge' = 0
       \/ /\ connectAge # Never /\ connectAge >= ShortLived
          /\ failures' = 0 /\ UNCHANGED attemptAge
    /\ LET young == connectAge # Never /\ upFor < ShortLived
       IN  /\ streak'  = IF young THEN streak + 1 ELSE 0
           /\ lastEnd' = IF young THEN "young" ELSE "healthy"
    /\ UNCHANGED upFor

Tick ==
    /\ attemptAge' = Older(attemptAge, 1)
    /\ connectAge' = Older(connectAge, 1)
    /\ upFor' = IF linkUp THEN Smaller(upFor + 1, ShortLived) ELSE upFor
    /\ UNCHANGED <<failures, linkUp, streak, lastEnd>>

Next ==
    \/ \E d \in ConnectTicks : DialFails(d) \/ DialSucceeds(d)
    \/ FrameArrives \/ Dies \/ Tick

(* The event loop calls next_event every tick, so a dial the schedule      *)
(* allows is made, and time passes.                                        *)
Spec == Init /\ [][Next]_vars

FairSpec ==
    Spec /\ WF_vars(Tick)
         /\ WF_vars(\E d \in ConnectTicks : DialFails(d) \/ DialSucceeds(d))

-----------------------------------------------------------------------------
TypeOK ==
    /\ attemptAge \in {Never} \cup 0..(Cap + ShortLived)
    /\ connectAge \in {Never} \cup 0..(Cap + ShortLived)
    /\ failures \in 0..MaxFailures /\ streak \in Nat
    /\ linkUp \in BOOLEAN /\ upFor \in 0..ShortLived
    /\ lastEnd \in {"none", "failed", "young", "healthy"}

(* A connection that dies within the short-lived window of connecting      *)
(* counts as one more consecutive failure, whatever connect() cost: the    *)
(* streak the code keeps is the streak that really happened (the promise   *)
(* of RECONNECT_SHORT_LIVED_WINDOW and record_disconnect).                 *)
StreakCounted == failures = streak

(* A dead endpoint is never dialled again at once: after a failed dial or  *)
(* a young death the schedule holds at least Base ticks of delay.          *)
CrashLoopBacksOff ==
    ~linkUp /\ lastEnd \in {"failed", "young"} => CurrentDelay >= Base

(* A server that was working and restarts is dialled without delay: no     *)
(* earlier crash loop leaves a penalty behind.                             *)
HealthyRestartIsImmediate ==
    ~linkUp /\ lastEnd = "healthy" => ShouldAttempt

(* The delay never falls while failures accumulate: only a data frame or a *)
(* connection that outlived the window may shorten it.                     *)
DelayNeverShrinksInCrashLoop ==
    [][CurrentDelay' < CurrentDelay => FrameArrives \/ (Dies /\ lastEnd' = "healthy")]_vars

(* The backoff can never wedge: a link that is down is eventually allowed  *)
(* to dial again.                                                          *)
DialAllowedAgain == ~linkUp ~> (linkUp \/ ShouldAttempt)
=============================================================================
