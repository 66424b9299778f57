--------------------------- MODULE ProtocolBackend ---------------------------
(***************************************************************************)
(* The connection, scope and request state machine of the UI-protocol      *)
(* transport: `ProtocolAppUiBackend` in src/src/transport.rs.              *)
(*                                                                         *)
(* One backend talks to one server, over a WebSocket or over the pipes of  *)
(* a `serve --stdio` child it spawns.  The UI thread calls `send` and      *)
(* `next_event`; both may reconnect, and a reconnect sends requests of its *)
(* own (client_hello, capabilities, launch/resolve, session/open for every *)
(* scope the server had confirmed).  Until client_hello is answered, and   *)
(* while a session/open is outstanding, other commands wait in             *)
(* `deferred`.                                                             *)
(*                                                                         *)
(* The handlers call each other (send -> ensure_connected -> send ->       *)
(* flush -> send), so a running handler is a stack of frames, `stack`,     *)
(* whose head is the next piece of code to run; `raised` says that an Err  *)
(* is travelling up it through the `?` operators.                          *)
(*                                                                         *)
(* The UI thread sees the server and the link only when it polls, except   *)
(* that a try_send into the writer's queue may fail at any time.  So what  *)
(* they do is chosen at the poll: the answer to any outstanding request,   *)
(* in any order (a server handles requests concurrently), a skipped frame, *)
(* the end of the link, or nothing yet.  An answer the server has sent and *)
(* the client has not read counts as not given yet, which only makes the   *)
(* set of scopes the client may rely on smaller.                           *)
(***************************************************************************)
EXTENDS Integers, Sequences, FiniteSets

CONSTANTS
    Sessions,       \* session ids
    NoSession,      \* the None of Option<SessionOpenParams>
    LaunchSession,  \* launch.session_id, or NoSession
    Stdio,          \* the driver is a stdio child, not a WebSocket
    Readonly,       \* launch.readonly
    UserKinds,      \* the kinds of command the store issues in this instance
    Answers,        \* how the server may answer: subset of {"ok","err","odd"}
    FrameLoss,      \* whether the stdio reader may skip a frame
    MaxPending,     \* MAX_PENDING_REQUESTS
    MaxCommands,    \* bound: commands the store issues
    MaxConns        \* bound: connections that succeed

(* "reopen" is a session/open that a reconnect issues. *)
Kinds == {"hello", "caps", "resolve", "list", "open", "reopen", "hydrate", "turn"}

ASSUME BackendAssumption ==
    /\ NoSession \notin Sessions
    /\ LaunchSession \in Sessions \cup {NoSession}
    /\ Stdio \in BOOLEAN /\ Readonly \in BOOLEAN /\ FrameLoss \in BOOLEAN
    /\ UserKinds \subseteq Kinds \ {"hello", "caps", "reopen"}
    /\ Answers \subseteq {"ok", "err", "odd"}
    /\ MaxPending \in Nat /\ MaxCommands \in Nat /\ MaxConns \in Nat

VARIABLES
    up,            \* the driver is connected
    conns,         \* connections made so far
    dialable,      \* reconnect.should_attempt(now)
    proven,        \* this connection delivered a data frame
    reported,      \* disconnected_status_reported
    fatal,         \* fatal_error is latched
    hello,         \* request id of client_hello_barrier; 0 for None
    barrier,       \* reconnect_open_barrier
    chain,         \* reconnect_session_scopes, with the order left open
    deferred,      \* deferred_until_reconnect_open
    opening,       \* sending_reconnect_open
    required,      \* session_open_required
    reopen,        \* reopen_session
    confirmed,     \* confirmed_reopen_session
    scopes,        \* confirmed_session_scopes
    reconcile,     \* backend_relaunch_reconcile_pending
    refreshCaps,   \* refresh_capabilities_on_reconnect
    resolveCached, \* pending_launch_resolve is Some
    nextId,        \* protocol.next_request_id; restarts per connection, whose
                   \* loss leaves no earlier id in use
    pending,       \* protocol.pending_requests
    scoped,        \* sessions the server confirmed open on this connection
    stack,         \* the frames of the handler that is running
    raised,        \* an Err is propagating up the stack
    issued,        \* commands the store has issued
    reports,       \* terminal events queued for each command (history)
    selection      \* what the user last opened or hydrated (history)

linkVars    == <<up, conns, dialable, proven, reported, fatal>>
barrierVars == <<hello, barrier, chain, deferred, opening>>
scopeVars   == <<required, reopen, confirmed, scopes>>
replayVars  == <<reconcile, refreshCaps, resolveCached>>
requestVars == <<nextId, pending>>
userVars    == <<issued, reports, selection>>
vars == <<linkVars, barrierVars, scopeVars, replayVars, requestVars,
          scoped, stack, raised, userVars>>

-----------------------------------------------------------------------------
(* Data. A command of the store carries its number as `id`; a command the  *)
(* backend makes up itself carries 0.  Some kinds name a session.          *)
SessionKinds == {"open", "reopen", "hydrate", "turn"}
Command ==
    {c \in [kind : Kinds, sess : Sessions \cup {NoSession}, id : 0..MaxCommands] :
        c.kind \in SessionKinds <=> c.sess # NoSession}

Cmd(k, s, i) == [kind |-> k, sess |-> s, id |-> i]
NoCommand == Cmd("list", NoSession, 0)
HelloCommand == Cmd("hello", NoSession, 0)
CapsCommand == Cmd("caps", NoSession, 0)
ResolveCommand == Cmd("resolve", NoSession, 0)
OpenCommand(s) == Cmd("open", s, 0)
ReopenCommand(s) == Cmd("reopen", s, 0)
IsOpen(c) == c.kind \in {"open", "reopen"}

Request == [id : Nat \ {0}, cmd : Command]

NoBarrier == [id |-> 0, sess |-> NoSession]
Barrier == {NoBarrier} \cup [id : Nat \ {0}, sess : Sessions]

(* The opens of one reconnect: `rest` first, in any order, `last` at the   *)
(* end.                                                                    *)
Plan == [rest : SUBSET Sessions, last : Sessions \cup {NoSession}]
NoPlan == [rest |-> {}, last |-> NoSession]
(* Mutant: the head of an empty plan is taken. *)
PlanHeadsUnchecked(p) == IF p.rest # {} THEN p.rest ELSE {p.last}

PlanHeads(p) == IF p.rest # {} THEN p.rest ELSE {p.last} \ {NoSession}
PlanWithout(p, s) ==
    IF p.rest # {} THEN [p EXCEPT !.rest = @ \ {s}] ELSE NoPlan

(* Mutant: no fallback to the launch session. *)
TargetWithoutLaunch(s) == s

(* The launch session is reopened when nothing was opened yet. *)
Target(s) == IF s # NoSession THEN s ELSE LaunchSession

(* Mutant: a reconnect reopens the last target only. *)
ReopenPlanCurrentOnly == [rest |-> {}, last |-> Target(reopen)]

(* reopen_session_open_commands: every confirmed scope but the current     *)
(* one, then the current one.                                              *)
ReopenPlan ==
    [rest |-> scopes \ {Target(reopen)}, last |-> Target(reopen)]

Ops == {"clock", "gate", "connect", "hello", "caps", "reopen", "reopenNow",
        "opened", "admit", "transmit", "requeue", "flush", "poll", "returned",
        "firstDial", "booted", "halt"}
Frame == [op : Ops, cmd : Command, plan : Plan]
Fr(op) == [op |-> op, cmd |-> NoCommand, plan |-> NoPlan]
FrCmd(op, c) == [op |-> op, cmd |-> c, plan |-> NoPlan]
FrPlan(op, p) == [op |-> op, cmd |-> NoCommand, plan |-> p]

SendFrames(c) == <<FrCmd("gate", c)>>

Idle == stack = <<>>
Running(op) == stack # <<>> /\ ~raised /\ Head(stack).op = op
Return == stack' = Tail(stack)
Call(frames) == stack' = frames \o Tail(stack)
Raise == stack' = Tail(stack) /\ raised' = TRUE

(* Terminal events queued for the commands in C (0 is the backend's own). *)
Report(C) ==
    reports' = [i \in DOMAIN reports |-> IF i \in C THEN reports[i] + 1 ELSE reports[i]]
ReportOne(c) == Report({c.id})

DeferredIds == {deferred[i].id : i \in DOMAIN deferred}
RequestIds(reqs) == {r.cmd.id : r \in reqs}

-----------------------------------------------------------------------------
(* The backoff delay passes (module ReconnectBackoff has its schedule). *)
BackoffElapses ==
    /\ Idle /\ ~up /\ ~dialable
    /\ dialable' = TRUE
    /\ UNCHANGED <<up, conns, proven, reported, fatal, barrierVars, scopeVars,
                   replayVars, requestVars, scoped, stack, raised, userVars>>

-----------------------------------------------------------------------------
(* Mutants: the deferred commands are cancelled but left in the queue; the  *)
(* pending ones are dropped without an event.                              *)
MarkDisconnectedKeepsQueue(reqs, again, lockedOut) ==
    /\ up' = FALSE /\ reported' = TRUE
    /\ fatal' = (fatal \/ lockedOut)
    /\ dialable' = (dialable \/ (up /\ proven))
    /\ hello' = 0 /\ barrier' = NoBarrier /\ chain' = NoPlan
    /\ refreshCaps' = TRUE
    /\ Report(DeferredIds \cup RequestIds(reqs) \cup again)
    /\ pending' = {} /\ nextId' = 0 /\ scoped' = {} /\ proven' = FALSE
    /\ UNCHANGED <<conns, deferred>>

MarkDisconnectedForgetsPending(reqs, again, lockedOut) ==
    /\ up' = FALSE /\ reported' = TRUE
    /\ fatal' = (fatal \/ lockedOut)
    /\ dialable' = (dialable \/ (up /\ proven))
    /\ hello' = 0 /\ barrier' = NoBarrier /\ chain' = NoPlan /\ deferred' = <<>>
    /\ refreshCaps' = TRUE
    /\ Report(DeferredIds \cup again)
    /\ pending' = {} /\ nextId' = 0 /\ scoped' = {} /\ proven' = FALSE
    /\ UNCHANGED conns

(* mark_disconnected, called with `reqs` pending.  It tears the driver     *)
(* down, lets the backoff judge the connection, drops both barriers and    *)
(* the chain, cancels what was deferred or pending with one event each,    *)
(* and reports the loss.  `again` gets a further event from the caller.    *)
MarkDisconnected(reqs, again, lockedOut) ==
    /\ up' = FALSE /\ reported' = TRUE
    /\ fatal' = (fatal \/ lockedOut)
    /\ IF up /\ ~proven THEN dialable' \in BOOLEAN
       ELSE dialable' = (dialable \/ up)
    /\ hello' = 0 /\ barrier' = NoBarrier /\ chain' = NoPlan /\ deferred' = <<>>
    /\ refreshCaps' = TRUE
    /\ pending' = {}
    /\ nextId' = 0 /\ scoped' = {}
    /\ LET cancelled == DeferredIds \cup RequestIds(reqs)
       IN  reports' = [i \in DOMAIN reports |->
              reports[i] + (IF i \in cancelled THEN 1 ELSE 0)
                         + (IF i \in again THEN 1 ELSE 0)]
    /\ proven' = FALSE
    /\ UNCHANGED conns

(* fail_session_open_barrier: the scope is in doubt, so the connection is  *)
(* given up.  The barrier's own request leaves `pending` first, so the     *)
(* disconnect has no event for it: the status only names the failed open,  *)
(* and the next connection opens its session again.  `answered` has the    *)
(* command whose answer is delivered all the same.                         *)
FailSessionOpenBarrier(answered) ==
    /\ MarkDisconnected({r \in pending : r.id # barrier.id}, answered, FALSE)
    /\ UNCHANGED <<opening, scopeVars, reconcile, resolveCached>>

(* defer_until_protocol_barrier, whose queue has the same limit as pending. *)
Defer(c) ==
    IF Len(deferred) >= MaxPending
    THEN ReportOne(c) /\ UNCHANGED deferred
    ELSE deferred' = Append(deferred, c) /\ UNCHANGED reports

-----------------------------------------------------------------------------
(* check_protocol_barrier_timeouts, run first by every top-level call when *)
(* there is a barrier to check.  A nested send runs it too, but any        *)
(* barrier armed then was armed by this same handler and is not due.       *)
ClockFrames ==
    IF hello # 0 \/ barrier # NoBarrier THEN <<Fr("clock")>> ELSE <<>>

ClockQuiet ==
    /\ Running("clock") /\ Return
    /\ UNCHANGED <<linkVars, barrierVars, scopeVars, replayVars, requestVars,
                   scoped, raised, userVars>>

(* Mutants: a negotiation that timed out releases nothing; an open has a    *)
(* deadline only until the connection served a frame.                      *)
HelloExpiresQuietly ==
    /\ Running("clock") /\ hello # 0
    /\ hello' = 0
    /\ pending' = {r \in pending : r.id # hello}
    /\ UNCHANGED <<linkVars, barrier, chain, deferred, opening, scopeVars,
                   replayVars, nextId, scoped, stack, raised, userVars>>

OpenExpiresUnserved ==
    /\ Running("clock") /\ barrier # NoBarrier /\ ~proven
    /\ FailSessionOpenBarrier({})
    /\ Return
    /\ UNCHANGED <<raised, issued, selection>>

HelloExpires ==
    /\ Running("clock") /\ hello # 0
    /\ hello' = 0
    /\ pending' = {r \in pending : r.id # hello}
    /\ stack' = <<Fr("flush")>> \o stack
    /\ UNCHANGED <<linkVars, barrier, chain, deferred, opening, scopeVars,
                   replayVars, nextId, scoped, raised, userVars>>

OpenExpires ==
    /\ Running("clock") /\ barrier # NoBarrier
    /\ FailSessionOpenBarrier({})
    /\ Return
    /\ UNCHANGED <<raised, issued, selection>>

-----------------------------------------------------------------------------
(* send: the gates before ensure_connected. *)
ReadonlyAllows(c) == c.kind # "turn"

GateRefuses ==
    /\ Running("gate")
    /\ LET c == Head(stack).cmd
       IN  /\ \/ Readonly /\ ~ReadonlyAllows(c)
              \/ Cardinality(pending) >= MaxPending
              \/ c.kind = "turn"     \* the preflight finds it over the frame cap
           /\ ReportOne(c)
    /\ Return
    /\ UNCHANGED <<linkVars, barrierVars, scopeVars, replayVars, requestVars,
                   scoped, raised, issued, selection>>

GatePasses ==
    /\ Running("gate")
    /\ LET c == Head(stack).cmd
       IN  /\ Readonly => ReadonlyAllows(c)
           /\ Cardinality(pending) < MaxPending
           /\ Call((IF up THEN <<>> ELSE <<Fr("connect")>>) \o <<FrCmd("admit", c)>>)
    /\ UNCHANGED <<linkVars, barrierVars, scopeVars, replayVars, requestVars,
                   scoped, raised, userVars>>

(* ensure_connected. *)
AlreadyConnected ==
    /\ Running("connect") /\ up
    /\ Return
    /\ UNCHANGED <<linkVars, barrierVars, scopeVars, replayVars, requestVars,
                   scoped, raised, userVars>>

DialRefused ==
    /\ Running("connect") /\ ~up /\ (fatal \/ ~dialable)
    /\ Raise
    /\ UNCHANGED <<linkVars, barrierVars, scopeVars, replayVars, requestVars,
                   scoped, userVars>>

DialFails ==
    /\ Running("connect") /\ ~up /\ ~fatal /\ dialable
    /\ dialable' = FALSE
    /\ Raise
    /\ UNCHANGED <<up, conns, proven, reported, fatal, barrierVars, scopeVars,
                   replayVars, requestVars, scoped, userVars>>

(* The opens to replay are fixed before mark_connected clears `reported`;  *)
(* a stdio child that replaces a reported loss latches the reconcile.      *)
Dials ==
    /\ Running("connect") /\ ~up /\ ~fatal /\ dialable
    /\ conns < MaxConns
    /\ up' = TRUE /\ conns' = conns + 1
    /\ proven' = FALSE /\ reported' = FALSE
    /\ reconcile' = (reconcile \/ (reported /\ Stdio))
    /\ LET plan == IF reported THEN ReopenPlan ELSE NoPlan
       IN  Call((IF Stdio THEN <<Fr("hello")>> ELSE <<>>)
                \o (IF refreshCaps THEN <<Fr("caps")>> ELSE <<>>)
                \o <<FrPlan("reopen", plan)>>)
    /\ UNCHANGED <<dialable, fatal, barrierVars, scopeVars, refreshCaps,
                   resolveCached, requestVars, scoped, raised, userVars>>

(* start_stdio_client_hello. *)
HelloSent ==
    /\ Running("hello")
    /\ LET r == [id |-> nextId + 1, cmd |-> HelloCommand]
       IN  /\ pending' = pending \cup {r}
           /\ hello' = r.id /\ nextId' = r.id
    /\ Return
    /\ UNCHANGED <<linkVars, barrier, chain, deferred, opening, scopeVars,
                   replayVars, scoped, raised, userVars>>

HelloSendFails ==
    /\ Running("hello")
    /\ MarkDisconnected(pending, {}, FALSE)
    /\ Raise
    /\ UNCHANGED <<opening, scopeVars, reconcile, resolveCached, issued, selection>>

(* refresh_capabilities_after_reconnect. Its send cannot return an Err:    *)
(* the link is up, so ensure_connected returns at once.                    *)
RefreshCapabilities ==
    /\ Running("caps")
    /\ refreshCaps' = FALSE
    /\ Call(SendFrames(CapsCommand))
    /\ UNCHANGED <<linkVars, barrierVars, scopeVars, reconcile, resolveCached,
                   requestVars, scoped, raised, userVars>>

(* Send the next open of plan p; `opening` lets it cross a barrier.  The   *)
(* code keeps the scopes in the order they were confirmed; any order of    *)
(* those before the current one is allowed here.                           *)
OpenNext(p) ==
    \E s \in PlanHeads(p) :
        /\ chain' = PlanWithout(p, s)
        /\ opening' = TRUE
        /\ Call(SendFrames(ReopenCommand(s)) \o <<Fr("opened")>>)

(* The cached launch/resolve is replayed before the session reopen. *)
ReplayResolve ==
    /\ Running("reopen")
    /\ LET plan == Head(stack).plan
       IN  /\ plan # NoPlan /\ resolveCached
           /\ Call(SendFrames(ResolveCommand) \o <<FrPlan("reopenNow", plan)>>)
    /\ UNCHANGED <<linkVars, barrierVars, scopeVars, replayVars, requestVars,
                   scoped, raised, userVars>>

ReopenStarts ==
    /\ Running("reopenNow") \/ (Running("reopen") /\ ~resolveCached)
    /\ OpenNext(Head(stack).plan)
    /\ UNCHANGED <<linkVars, hello, barrier, deferred, scopeVars, replayVars,
                   requestVars, scoped, raised, userVars>>

(* queue_pending_backend_relaunch_reconcile, with no scope to wait for. *)
NothingToReopen ==
    /\ Running("reopen")
    /\ Head(stack).plan = NoPlan
    /\ reconcile' = FALSE
    /\ Return
    /\ UNCHANGED <<linkVars, barrierVars, scopeVars, refreshCaps, resolveCached,
                   requestVars, scoped, raised, userVars>>

ReopenSent ==
    /\ Running("opened")
    /\ opening' = FALSE
    /\ Return
    /\ UNCHANGED <<linkVars, hello, barrier, chain, deferred, scopeVars,
                   replayVars, requestVars, scoped, raised, userVars>>

-----------------------------------------------------------------------------
(* send, after ensure_connected. *)
(* Mutant: a hydrate crosses the barrier of an open. *)
MayCrossHydrate(c) == opening \/ c.kind \in {"caps", "hydrate"}

MayCross(c) == opening \/ c.kind = "caps"
MustWait(c) == hello # 0 \/ (barrier # NoBarrier /\ ~MayCross(c))
NeedsScope(c) == c.kind \in {"hydrate", "turn"}
UnknownHydrate(c) == c.kind = "hydrate" /\ c.sess \notin scopes

AdmitDefers ==
    /\ Running("admit")
    /\ MustWait(Head(stack).cmd) /\ Defer(Head(stack).cmd)
    /\ Return
    /\ UNCHANGED <<linkVars, hello, barrier, chain, opening, scopeVars, replayVars,
                   requestVars, scoped, raised, issued, selection>>

(* reject_command_without_confirmed_open: a rejected open left no scope. *)
AdmitRejects ==
    /\ Running("admit")
    /\ LET c == Head(stack).cmd
       IN  ~MustWait(c) /\ required /\ NeedsScope(c) /\ ReportOne(c)
    /\ Return
    /\ UNCHANGED <<linkVars, barrierVars, scopeVars, replayVars, requestVars,
                   scoped, raised, issued, selection>>

(* open_before_unknown_hydrate: a hydrate of a session no open confirmed   *)
(* is preceded by an open of it and then waits at the head of the queue.   *)
AdmitOpensFirst ==
    /\ Running("admit")
    /\ LET c == Head(stack).cmd
       IN  /\ ~MustWait(c) /\ ~(required /\ NeedsScope(c)) /\ UnknownHydrate(c)
           /\ Call(SendFrames(OpenCommand(c.sess)) \o <<FrCmd("requeue", c)>>)
    /\ UNCHANGED <<linkVars, barrierVars, scopeVars, replayVars, requestVars,
                   scoped, raised, userVars>>

Requeue ==
    /\ Running("requeue")
    /\ LET c == Head(stack).cmd
       IN  IF barrier # NoBarrier /\ Len(deferred) < MaxPending
           THEN deferred' = <<c>> \o deferred /\ UNCHANGED reports
           ELSE ReportOne(c) /\ UNCHANGED deferred
    /\ Return
    /\ UNCHANGED <<linkVars, hello, barrier, chain, opening, scopeVars, replayVars,
                   requestVars, scoped, raised, issued, selection>>

(* record_reopen_target and the launch/resolve cache, written before the   *)
(* request is built.  Only what the user asked for moves the selection.    *)
RecordTarget(c) ==
    /\ reopen' = IF IsOpen(c) \/ c.kind = "hydrate" THEN c.sess ELSE reopen
    /\ confirmed' = IF c.kind = "hydrate" THEN c.sess ELSE confirmed
    /\ resolveCached' = (resolveCached \/ c.kind = "resolve")
    /\ selection' = IF c.kind \in {"open", "hydrate"} THEN c.sess ELSE selection

MayTransmit(c) ==
    ~MustWait(c) /\ ~(required /\ NeedsScope(c)) /\ ~UnknownHydrate(c)

(* The request is tracked and an open arms the barrier. *)
Track(c) ==
    LET r == [id |-> nextId + 1, cmd |-> c]
    IN  /\ RecordTarget(c)
        /\ nextId' = r.id
        /\ pending' = pending \cup {r}
        /\ barrier' = IF IsOpen(c) THEN [id |-> r.id, sess |-> c.sess] ELSE barrier

(* The driver takes the text. *)
Transmits ==
    /\ Running("admit") /\ up
    /\ MayTransmit(Head(stack).cmd) /\ Track(Head(stack).cmd)
    /\ Return
    /\ UNCHANGED <<linkVars, hello, chain, deferred, opening, required, scopes,
                   reconcile, refreshCaps, scoped, raised, issued, reports>>

(* The driver refuses it.  send_text calls mark_disconnected while the     *)
(* request is still pending, so it is cancelled there; send then reports   *)
(* transport_send for it too, after a second mark_disconnected that finds  *)
(* nothing left to do.                                                     *)
TransmitFails ==
    /\ Running("admit") /\ up
    /\ LET c == Head(stack).cmd
           r == [id |-> nextId + 1, cmd |-> c]
       IN  /\ MayTransmit(c)
           /\ RecordTarget(c)
           /\ MarkDisconnected(pending \cup {r}, {c.id}, FALSE)
    /\ Return
    /\ UNCHANGED <<opening, required, scopes, reconcile, raised, issued>>

(* The link can be down here: a request of the reconnect itself failed and *)
(* ensure_connected still returned Ok.  send_text then calls it once more, *)
(* with this request already tracked.                                      *)
TransmitReconnects ==
    /\ Running("admit") /\ ~up
    /\ MayTransmit(Head(stack).cmd) /\ Track(Head(stack).cmd)
    /\ Call(<<Fr("connect"), FrCmd("transmit", Head(stack).cmd)>>)
    /\ UNCHANGED <<linkVars, hello, chain, deferred, opening, required, scopes,
                   reconcile, refreshCaps, scoped, raised, issued, reports>>

TransmitsLate ==
    /\ Running("transmit") /\ up
    /\ Return
    /\ UNCHANGED <<linkVars, barrierVars, scopeVars, replayVars, requestVars,
                   scoped, raised, userVars>>

TransmitFailsLate ==
    /\ Running("transmit")
    /\ MarkDisconnected(pending, {Head(stack).cmd.id}, FALSE)
    /\ Return
    /\ UNCHANGED <<opening, scopeVars, reconcile, resolveCached, raised, issued,
                   selection>>

(* No link: the request is taken back, then transport_send is its report. *)
ReconnectForTransmitFails ==
    /\ stack # <<>> /\ raised /\ Head(stack).op = "transmit"
    /\ LET c == Head(stack).cmd
       IN  MarkDisconnected({r \in pending : r.cmd # c}, {c.id}, FALSE)
    /\ raised' = FALSE
    /\ Return
    /\ UNCHANGED <<opening, scopeVars, reconcile, resolveCached, issued, selection>>

-----------------------------------------------------------------------------
(* flush_deferred_after_protocol_barrier: send what waited, in order, and  *)
(* stop when one of those sends arms a barrier again.  (No barrier is      *)
(* armed when it is called.)  Its branch for a send that returns an Err is *)
(* not here: the link is up when a flush starts, and a send that loses it  *)
(* cancels the rest of the queue, so FlushNeverRaises holds.               *)
FlushSends ==
    /\ Running("flush")
    /\ deferred # <<>> /\ hello = 0 /\ barrier = NoBarrier
    /\ deferred' = Tail(deferred)
    /\ stack' = SendFrames(Head(deferred)) \o stack
    /\ UNCHANGED <<linkVars, hello, barrier, chain, opening, scopeVars, replayVars,
                   requestVars, scoped, raised, userVars>>

FlushEnds ==
    /\ Running("flush")
    /\ deferred = <<>> \/ hello # 0 \/ barrier # NoBarrier
    /\ Return
    /\ UNCHANGED <<linkVars, barrierVars, scopeVars, replayVars, requestVars,
                   scoped, raised, userVars>>

-----------------------------------------------------------------------------
(* next_event: read_next_transport_event and the handling of what it read. *)
PollsNothing ==
    /\ Running("poll")
    /\ Return
    /\ UNCHANGED <<linkVars, barrierVars, scopeVars, replayVars, requestVars,
                   scoped, raised, userVars>>

(* ensure_connected failed: the loss is marked (again), quietly. *)
ReadFindsNoLink ==
    /\ stack # <<>> /\ raised /\ Head(stack).op = "poll"
    /\ MarkDisconnected(pending, {}, FALSE)
    /\ raised' = FALSE
    /\ Return
    /\ UNCHANGED <<opening, scopeVars, reconcile, resolveCached, issued, selection>>

(* The driver's task ended: the socket closed, a read or write failed, the *)
(* child exited, perhaps because another serve owns the data directory.    *)
ReadsLinkEnd(lockedOut) ==
    /\ Running("poll")
    /\ lockedOut => Stdio /\ ~proven
    /\ MarkDisconnected(pending, {}, lockedOut)
    /\ Return
    /\ UNCHANGED <<opening, scopeVars, reconcile, resolveCached, raised, issued,
                   selection>>

(* The stdio reader dropped a line over the cap or not UTF-8, which may    *)
(* have answered anything: every pending request is cancelled, the link    *)
(* and the barriers stay.                                                  *)
ReadsSkip ==
    /\ Running("poll") /\ FrameLoss /\ Stdio
    /\ pending' = {} /\ Report(RequestIds(pending))
    /\ Return
    /\ UNCHANGED <<linkVars, barrierVars, scopeVars, replayVars, nextId, scoped,
                   raised, issued, selection>>

(* A data frame: it proves the connection to the backoff. *)
ReadsFrame ==
    /\ Running("poll")
    /\ proven' = TRUE
    /\ UNCHANGED <<up, conns, dialable, reported, fatal>>

(* A notification, or the answer to a request no longer pending. *)
ReadsNotification ==
    /\ ReadsFrame
    /\ Return
    /\ UNCHANGED <<barrierVars, scopeVars, replayVars, requestVars, scoped, raised,
                   userVars>>

AnswersHello(r) == r.id = hello
AnswersOpen(r) == r.id = barrier.id

(* Request r gets the answer ans, and its command is settled. *)
ReadsAnswer(r, ans) ==
    /\ ReadsFrame
    /\ r \in pending /\ ans \in Answers
    /\ pending' = pending \ {r} /\ ReportOne(r.cmd)

(* Nothing more than the reply event; a launch/resolve result clears the   *)
(* cached copy.                                                            *)
PlainAnswer(r, ans) ==
    /\ ReadsAnswer(r, ans) /\ ans # "odd"
    /\ ~AnswersHello(r) /\ ~AnswersOpen(r)
    /\ resolveCached' = (resolveCached /\ ~(r.cmd.kind = "resolve" /\ ans = "ok"))
    /\ scoped' = IF IsOpen(r.cmd) /\ ans = "ok" THEN scoped \cup {r.cmd.sess} ELSE scoped
    /\ Return
    /\ UNCHANGED <<barrierVars, scopeVars, reconcile, refreshCaps, nextId, raised,
                   issued, selection>>

(* client_hello answered, or refused by a server that does not know it. *)
HelloAnswered(r, ans) ==
    /\ ReadsAnswer(r, ans) /\ ans # "odd" /\ AnswersHello(r)
    /\ hello' = 0
    /\ Call(<<Fr("flush")>>)
    /\ UNCHANGED <<barrier, chain, deferred, opening, scopeVars, replayVars, nextId,
                   scoped, raised, issued, selection>>

(* The expected session opened: the candidate becomes the confirmed target *)
(* and a remembered scope.                                                 *)
OpenConfirmed(r) ==
    /\ ReadsAnswer(r, "ok") /\ AnswersOpen(r)
    /\ barrier' = NoBarrier /\ required' = FALSE
    /\ confirmed' = reopen /\ scopes' = scopes \cup ({reopen} \ {NoSession})
    /\ scoped' = scoped \cup {barrier.sess}

OpenConfirmedMidChain(r) ==
    /\ OpenConfirmed(r) /\ OpenNext(chain)
    /\ UNCHANGED <<hello, deferred, reopen, replayVars, nextId, raised, issued,
                   selection>>

(* Mutants: the deferred commands are not released; they are released with  *)
(* the reconcile still owed.                                               *)
OpenConfirmedNoFlush(r) ==
    /\ OpenConfirmed(r) /\ chain = NoPlan
    /\ reconcile' = FALSE
    /\ Return
    /\ UNCHANGED <<hello, chain, deferred, opening, reopen, refreshCaps,
                   resolveCached, nextId, raised, issued, selection>>

OpenConfirmedOwesReconcile(r) ==
    /\ OpenConfirmed(r) /\ chain = NoPlan
    /\ Call(<<Fr("flush")>>)
    /\ UNCHANGED <<hello, chain, deferred, opening, reopen, replayVars, nextId,
                   raised, issued, selection>>

(* The reconcile is queued before the deferred commands are released. *)
OpenConfirmedLast(r) ==
    /\ OpenConfirmed(r) /\ chain = NoPlan
    /\ reconcile' = FALSE
    /\ Call(<<Fr("flush")>>)
    /\ UNCHANGED <<hello, chain, deferred, opening, reopen, refreshCaps,
                   resolveCached, nextId, raised, issued, selection>>

(* A definite rejection: the link is kept, scoped work fails closed, the   *)
(* target goes back to the confirmed one.                                  *)
OpenRejected(r) ==
    /\ ReadsAnswer(r, "err") /\ AnswersOpen(r)
    /\ barrier' = NoBarrier /\ required' = TRUE /\ chain' = NoPlan
    /\ reopen' = confirmed
    /\ selection' = IF selection = barrier.sess THEN Target(confirmed) ELSE selection
    /\ reconcile' = FALSE
    /\ Call(<<Fr("flush")>>)
    /\ UNCHANGED <<hello, deferred, opening, confirmed, scopes, refreshCaps,
                   resolveCached, nextId, scoped, raised, issued>>

(* A success that names another session or cannot be decoded is the answer *)
(* the store gets; a frame that is neither result nor error is an error    *)
(* event that names no command.  The connection, which the frame has just  *)
(* proved, is given up.                                                    *)
OpenGarbled(r) ==
    /\ Running("poll") /\ r \in pending /\ "odd" \in Answers /\ AnswersOpen(r)
    /\ \E answered \in {{}, {r.cmd.id}} : FailSessionOpenBarrier(answered)
    /\ dialable' = TRUE
    /\ Return
    /\ UNCHANGED <<raised, issued, selection>>

-----------------------------------------------------------------------------
(* An Err leaves the frames above its handler; sending_reconnect_open is   *)
(* reset on the way, whatever the open returned.                           *)
Unwind ==
    /\ stack # <<>> /\ raised
    /\ Head(stack).op \notin {"poll", "transmit", "returned", "firstDial", "booted"}
    /\ opening' = (opening /\ Head(stack).op # "opened")
    /\ Return
    /\ UNCHANGED <<linkVars, hello, barrier, chain, deferred, scopeVars, replayVars,
                   requestVars, scoped, raised, userVars>>

(* The event loop's send_command: a send that returned an Err becomes a    *)
(* send_failed event for that command.                                     *)
SendReturns ==
    /\ stack # <<>> /\ Head(stack).op = "returned"
    /\ raised' = FALSE
    /\ Report(IF raised THEN {Head(stack).cmd.id} ELSE {})
    /\ Return
    /\ UNCHANGED <<linkVars, barrierVars, scopeVars, replayVars, requestVars,
                   scoped, issued, selection>>

(* bootstrap: a first dial that fails ends the program, unless readonly. *)
FirstDialReturns ==
    /\ stack # <<>> /\ Head(stack).op = "firstDial" /\ ~raised
    /\ Return
    /\ UNCHANGED <<linkVars, barrierVars, scopeVars, replayVars, requestVars,
                   scoped, raised, userVars>>

FirstDialFailsReadonly ==
    /\ stack # <<>> /\ Head(stack).op = "firstDial" /\ raised /\ Readonly
    /\ MarkDisconnected(pending, {}, FALSE)
    /\ stack' = <<>> /\ raised' = FALSE
    /\ UNCHANGED <<opening, scopeVars, reconcile, resolveCached, issued, selection>>

BootstrapFails ==
    /\ stack # <<>> /\ raised
    /\ Head(stack).op = "booted" \/ (Head(stack).op = "firstDial" /\ ~Readonly)
    /\ stack' = <<Fr("halt")>> /\ raised' = FALSE
    /\ UNCHANGED <<linkVars, barrierVars, scopeVars, replayVars, requestVars,
                   scoped, userVars>>

Booted ==
    /\ Running("booted") /\ Return
    /\ UNCHANGED <<linkVars, barrierVars, scopeVars, replayVars, requestVars,
                   scoped, raised, userVars>>

Halted == Running("halt") /\ UNCHANGED vars

-----------------------------------------------------------------------------
(* The two calls of the event loop. *)

(* A command of the store reaches send_command. *)
UserSends(k, s) ==
    /\ Idle /\ issued < MaxCommands
    /\ k \in UserKinds
    /\ k \in SessionKinds <=> s # NoSession
    /\ issued' = issued + 1
    /\ LET c == Cmd(k, s, issued + 1)
       IN  stack' = ClockFrames \o SendFrames(c) \o <<FrCmd("returned", c)>>
    /\ UNCHANGED <<linkVars, barrierVars, scopeVars, replayVars, requestVars,
                   scoped, raised, reports, selection>>

(* drain_backend_events calls next_event on every tick of the event loop. *)
NextEvent ==
    /\ Idle
    /\ stack' = ClockFrames \o <<Fr("connect"), Fr("poll")>>
    /\ UNCHANGED <<linkVars, barrierVars, scopeVars, replayVars, requestVars,
                   scoped, raised, userVars>>

Init ==
    /\ up = FALSE /\ conns = 0 /\ dialable = TRUE
    /\ proven = FALSE /\ reported = FALSE /\ fatal = FALSE
    /\ hello = 0 /\ barrier = NoBarrier /\ chain = NoPlan
    /\ deferred = <<>> /\ opening = FALSE
    /\ required = FALSE
    /\ reopen = NoSession /\ confirmed = NoSession /\ scopes = {}
    /\ reconcile = FALSE /\ refreshCaps = FALSE /\ resolveCached = FALSE
    /\ nextId = 0 /\ pending = {}
    /\ scoped = {}
    /\ stack = <<Fr("connect"), Fr("firstDial")>> \o SendFrames(CapsCommand)
               \o (IF LaunchSession # NoSession
                   THEN SendFrames(OpenCommand(LaunchSession)) ELSE <<>>)
               \o <<Fr("booted")>>
    /\ raised = FALSE
    /\ issued = 0 /\ reports = [i \in 1..MaxCommands |-> 0]
    /\ selection = LaunchSession

Clock == ClockQuiet \/ HelloExpires \/ OpenExpires
Gate == GateRefuses \/ GatePasses
EnsureConnected ==
    \/ AlreadyConnected \/ DialRefused \/ DialFails \/ Dials
    \/ HelloSent \/ HelloSendFails \/ RefreshCapabilities
    \/ ReplayResolve \/ ReopenStarts \/ NothingToReopen \/ ReopenSent
Admit ==
    \/ AdmitDefers \/ AdmitRejects \/ AdmitOpensFirst \/ Requeue
    \/ Transmits \/ TransmitFails
    \/ TransmitReconnects \/ TransmitsLate \/ TransmitFailsLate
    \/ ReconnectForTransmitFails
Flush == FlushSends \/ FlushEnds
Read ==
    \/ PollsNothing \/ ReadFindsNoLink \/ ReadsSkip \/ ReadsNotification
    \/ \E lockedOut \in BOOLEAN : ReadsLinkEnd(lockedOut)
    \/ \E r \in pending : OpenConfirmedMidChain(r) \/ OpenConfirmedLast(r)
                         \/ OpenRejected(r) \/ OpenGarbled(r)
    \/ \E r \in pending, ans \in Answers : PlainAnswer(r, ans) \/ HelloAnswered(r, ans)
Returns ==
    \/ Unwind \/ SendReturns
    \/ FirstDialReturns \/ FirstDialFailsReadonly \/ BootstrapFails \/ Booted

(* One step of the handler that is running. *)
Handler == Clock \/ Gate \/ EnsureConnected \/ Admit \/ Flush \/ Read \/ Returns

EventLoop ==
    \/ \E k \in UserKinds, s \in Sessions \cup {NoSession} : UserSends(k, s)
    \/ NextEvent

Next == Handler \/ BackoffElapses \/ EventLoop \/ Halted

Spec == Init /\ [][Next]_vars

(* The event loop ticks for ever and a handler runs to its end.  A barrier *)
(* that stays armed is found due by some clock check: deadlines are wall   *)
(* clock times.                                                            *)
Fairness ==
    /\ WF_vars(Handler) /\ WF_vars(NextEvent)
    /\ SF_vars(HelloExpires) /\ SF_vars(OpenExpires)

FairSpec == Spec /\ Fairness

-----------------------------------------------------------------------------
TypeOK ==
    /\ up \in BOOLEAN /\ conns \in 0..MaxConns /\ dialable \in BOOLEAN
    /\ proven \in BOOLEAN /\ reported \in BOOLEAN /\ fatal \in BOOLEAN
    /\ hello \in Nat /\ barrier \in Barrier /\ chain \in Plan
    /\ deferred \in Seq(Command) /\ opening \in BOOLEAN
    /\ required \in BOOLEAN
    /\ reopen \in Sessions \cup {NoSession}
    /\ confirmed \in Sessions \cup {NoSession}
    /\ scopes \subseteq Sessions
    /\ reconcile \in BOOLEAN /\ refreshCaps \in BOOLEAN
    /\ resolveCached \in BOOLEAN
    /\ nextId \in Nat /\ pending \subseteq Request
    /\ scoped \subseteq Sessions
    /\ stack \in Seq(Frame) /\ raised \in BOOLEAN
    /\ issued \in 0..MaxCommands /\ reports \in [1..MaxCommands -> Nat]
    /\ selection \in Sessions \cup {NoSession}

(* A connection that is gone leaves nothing behind: between calls no       *)
(* barrier, deferred or pending request of it can reach its replacement.   *)
(* (A chain can be left, by an open that failed with the link down; the    *)
(* next reconnect overwrites it.)                                          *)
DownIsClean ==
    Idle /\ ~up =>
        hello = 0 /\ barrier = NoBarrier /\ deferred = <<>> /\ pending = {}

(* Whatever waits has someone to release it: between calls, a deferred     *)
(* command, a chain still to open or a reconcile still to deliver on a     *)
(* live link implies that a barrier is armed, and barriers have deadlines. *)
WaitersHaveABarrier ==
    Idle /\ up /\ (deferred # <<>> \/ chain # NoPlan \/ reconcile)
        => hello # 0 \/ barrier # NoBarrier

(* The open in flight is the candidate it will promote: nothing admitted   *)
(* while a barrier is armed can replace the target the reply confirms.     *)
BarrierCoversCandidate == barrier # NoBarrier => reopen = barrier.sess

(* The branch of the flush that puts a failed command back is never taken. *)
FlushNeverRaises == raised => \A i \in DOMAIN stack : stack[i].op # "flush"

(* The fate of a command.  It is held by a frame of its send, by the queue, *)
(* or by the Err that its caller is about to report.                       *)
Op(i) == stack[i].op
Id(i) == stack[i].cmd.id
HoldOps == {"gate", "admit", "requeue"}
HeldIds == {Id(i) : i \in {j \in DOMAIN stack : Op(j) \in HoldOps}}
Failing(c) == raised /\ stack # <<>> /\ Op(1) = "returned" /\ Id(1) = c

FateOf(i) ==
    CASE i > issued -> "new"
      [] i <= issued /\ reports[i] > 0 -> "settled"
      [] i <= issued /\ reports[i] = 0 /\ i \in RequestIds(pending) -> "sent"
      [] OTHER -> IF i \in HeldIds \cup DeferredIds \/ Failing(i) THEN "held" ELSE "dropped"

(* The open in flight, when its session is the one a reconnect would open. *)
RememberedIds ==
    {r.cmd.id : r \in {q \in pending :
        q.id = barrier.id /\ IsOpen(q.cmd) /\ q.cmd.sess = reopen}}

(* The backend implements CommandFate: each command of the store is held,  *)
(* sent on at most one connection and settled, in that order.  The only    *)
(* one that may end in no handler, queue or pending request and without an *)
(* event is an open that was sent and not answered for in time, and only   *)
(* while its session is the one the next connection opens by itself        *)
(* (fail_session_open_barrier: "reconnect will retry the remembered        *)
(* session").                                                              *)
Fate == INSTANCE CommandFate
            WITH Commands <- 1..MaxCommands,
                 fate <- [i \in 1..MaxCommands |-> FateOf(i)],
                 remembered <- RememberedIds \ {0}
ImplementsCommandFate == Fate!Spec

(* What was reported lost stays lost: no request reaches a server after    *)
(* its command was reported to the store, which may have staged it again.  *)
NeverSentAfterReport ==
    [][\A r \in pending' \ pending : r.cmd.id # 0 => reports[r.cmd.id] = 0]_vars

(* Work for a session that was once opened goes only to a connection whose *)
(* server has confirmed its scope: a replacement never receives a turn or  *)
(* a hydrate for a session that was not reopened on it.                    *)
ScopedWork ==
    [][\A r \in pending' \ pending :
          NeedsScope(r.cmd) /\ r.cmd.sess \in scopes => r.cmd.sess \in scoped]_vars

(* The store clears the dead child's turns before it can see a turn of the *)
(* new child: no turn/start goes out while a reconcile is still owed.      *)
ReconcileBeforeWork ==
    [][(\E r \in pending' \ pending : NeedsScope(r.cmd)) => ~reconcile]_vars

(* Each command is answered for once (what send's comment on removing the  *)
(* pending entry promises).                                                *)
ReportedOnce == \A i \in 1..issued : reports[i] <= 1

(* While the link is down the target to reopen is the user's selection.    *)
ReopenFollowsSelection == ~up => Target(reopen) = selection

(* A launch/resolve that was not answered is outstanding on every live     *)
(* connection: each reconnect issues it again (field pending_launch_resolve*)
(* says it is "replayed BEFORE the session reopen on a real reconnect").   *)
ResolveOutstanding ==
    Idle /\ up /\ resolveCached =>
        \/ \E r \in pending : r.cmd.kind = "resolve"
        \/ \E i \in DOMAIN deferred : deferred[i].kind = "resolve"

(* The session a reconnect would reopen (the last one opened, else the      *)
(* launch session) is open on the connection in use whenever nothing is     *)
(* being negotiated; also after a readonly start without a server.  (Stated *)
(* for a server that refuses no open.)                                      *)
TargetInScope ==
    LET target == IF reopen # NoSession THEN reopen ELSE LaunchSession
    IN  Idle /\ up /\ hello = 0 /\ barrier = NoBarrier /\ ~required /\ target # NoSession
            => target \in scoped

(* Every barrier is released, by an answer, a deadline or a disconnect.    *)
BarriersRelease == (hello # 0 \/ barrier # NoBarrier) ~> (hello = 0 /\ barrier = NoBarrier)

(* Every deferred command is sent or reported in the end.                  *)
DeferredDrains == deferred # <<>> ~> deferred = <<>>
=============================================================================
