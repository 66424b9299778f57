---------------------------- MODULE PromptTurns ----------------------------
(***************************************************************************)
(* The life of a prompt in the terminal client's store (src/store.rs and    *)
(* the AppState it owns, src/model.rs): typed, staged on its session's      *)
(* queue or submitted as a turn or steered into the live one, gated until   *)
(* its turn starts, settled by a terminal, re-staged when its submission    *)
(* dies.                                                                    *)
(*                                                                          *)
(* app is the part of AppState the handlers below read and write. Each      *)
(* handler is an operator from a store state to the next one, so that the   *)
(* calls it makes (release the gate, re-stage, drain the queue) compose as  *)
(* they do in the code; an action of the model is one whole handler, run by *)
(* the event loop to its end, together with the environment step that       *)
(* caused it. The environment is the transport, seen through the behaviour  *)
(* ProtocolBackend models (commands in order, one cancellation for each     *)
(* request a dead stdio child leaves unanswered, the epoch marker before    *)
(* the first frame of the replacement and the reconcile before the deferred *)
(* commands), and an octos server.                                          *)
(*                                                                          *)
(* Left out: readonly mode, approvals and questions (so run_state is never  *)
(* Blocked), profiles, the composer and every rendered row. Times are kept  *)
(* as the order they allow: a gate or a marker is fresh, then old.          *)
(***************************************************************************)
EXTENDS Integers, Sequences, FiniteSets

CONSTANTS
    Sessions,       \* the open sessions
    Home,           \* the one selected at the start
    Servers,        \* the servers to be checked, with their bounds: see ServerType
    Hydrates,       \* the server advertises session/hydrate
    SlowStarts,     \* a turn/start may take longer than PRE_TOKEN_TURN_TTL
    BusyBoots,      \* prompts also go out while there is no child, or it boots
    Interrupts      \* the user interrupts turns

FaultKinds == {"death", "drop", "refusal", "rejection", "no steer", "error", "cap"}
Misleading == {"own", "minted", "refusal", "error", "cap"}

(* What a server advertises, "off", "echo" (turn/steer) or "settles" (also   *)
(* event.turn_steer_dropped.v1); whether it may run two turns of a session   *)
(* at once; the faults that can happen beside it; and bounds on the prompts  *)
(* the user types, the faults, and the turns the server starts by itself.    *)
ServerType == [steering : {"off", "echo", "settles"}, twins : BOOLEAN,
               kinds : SUBSET FaultKinds, prompts : Nat, faults : Nat, own : Nat]

ASSUME ConstantsAssumption ==
    /\ Home \in Sessions /\ IsFiniteSet(Sessions)
    /\ \A v \in Servers : v \in ServerType
    /\ {Hydrates, SlowStarts, BusyBoots, Interrupts} \subseteq BOOLEAN

VARIABLES
    app,        \* the store
    wire,       \* requests the transport holds unanswered, in order
    inbox,      \* events the transport has queued for the store
    link,       \* "up", "down" or "booting": a child is up, its scope is not
    accepted,   \* turns whose turn/start the server has answered
    running,    \* turns the server runs
    over,       \* turns the server ran
    inputs,     \* steers a running turn has accepted and not yet consumed
    typed,      \* the session each prompt was typed in; prompts are numbered
    answered,   \* prompts the server has started, or ended, a turn for, or
                \* consumed as a steer
    server,     \* the one of Servers the client talks to
    faults, own,\* faults, and turns of the server's own, so far
    misled      \* what has happened that hides a submission from the store: an
                \* "own" turn of the server, one "minted" for a steer, a fault

serverVars == <<accepted, running, over, inputs>>
budgetVars == <<server, faults, own, misled>>
vars == <<app, wire, inbox, link, accepted, running, over, inputs, typed,
          answered, server, faults, own, misled>>

None == 0                       \* no turn, no prompt
NoGate == [turn |-> None, prompt |-> None, old |-> FALSE, set |-> FALSE]
InFlight(t, p) == [turn |-> t, prompt |-> p, old |-> FALSE, set |-> TRUE]
Backoff == [turn |-> None, prompt |-> None, old |-> FALSE, set |-> TRUE]

Cmd(kind, s, t, p) == [kind |-> kind, sess |-> s, turn |-> t, prompt |-> p]

Prompts == 1..Len(typed)
Turns == 1..Len(app.turns)
PromptsOf(steers) == [i \in DOMAIN steers |-> steers[i].prompt]

(* The entries of seq at the places kept, in their order. *)
Entries(seq, kept) ==
    LET Nth(k) == CHOOSE i \in kept : Cardinality({j \in kept : j <= i}) = k
    IN [k \in 1..Cardinality(kept) |-> seq[Nth(k)]]

(* SelectSeq, written so that a proof can expand it. *)
Select(seq, Test(_)) == Entries(seq, {i \in DOMAIN seq : Test(seq[i])})

-----------------------------------------------------------------------------
(* Run state and gate helpers.                                             *)

Live(a) == a.live[a.sel]
TurnSession(a, t) == a.turns[t].sess

(* The user stopped the turn on screen and its terminal is still to come. *)
Frozen(a) == Live(a) # None /\ a.interrupted[a.sel] = Live(a)

(* Mutant: work shows again under a turn the user stopped. *)
WorkThaws(a) == [a EXCEPT !.run = "working"]

(* set_run_state_in_progress, the chokepoint of every source. *)
Work(a) == IF Frozen(a) THEN a ELSE [a EXCEPT !.run = "working"]

TurnInProgress(a) == Live(a) # None \/ a.run = "working"

(* Mutant: the gate keeps its prompt, with no turn to wait for.              *)
ReleaseGateTurnOnly(a, t) ==
    [a EXCEPT !.gate[TurnSession(a, t)].turn = IF @ = t THEN None ELSE @]

(* release_staged_gate. *)
ReleaseGate(a, t) ==
    [a EXCEPT !.gate[TurnSession(a, t)] = IF @.turn = t THEN NoGate ELSE @]

(* restage_dead_staged_submit for the gates of the sessions ss, each left as *)
(* the gate g: the prompt of a gate in flight returns to the queue's front.  *)
RestageGates(a, ss, g) ==
    LET gated == {s \in ss : a.gate[s].set}
        Back(s) == IF s \in gated /\ a.gate[s].turn # None
                     THEN <<a.gate[s].prompt>> ELSE <<>>
    IN [a EXCEPT !.queue = [s \in Sessions |-> Back(s) \o @[s]],
                 !.pre = [s \in Sessions |-> IF s \in gated THEN "none" ELSE @[s]],
                 !.gate = [s \in Sessions |-> IF s \in gated THEN g ELSE @[s]],
                 !.run = IF /\ @ = "working" /\ Live(a) = None
                            /\ a.sel \in gated /\ a.pre[a.sel] # "none"
                           THEN "idle" ELSE @]

(* Mutant: a prompt typed while idle arms no gate. *)
StartUngated(a, p) ==
    LET t == Len(a.turns) + 1
    IN [Work(a) EXCEPT !.turns = Append(@, [sess |-> a.sel, prompt |-> p]),
                       !.pre[a.sel] = "fresh",
                       !.out = Append(@, Cmd("start", a.sel, t, p))]

(* start_prompt_turn, and the gate both of its callers arm. *)
Start(a, p) ==
    LET t == Len(a.turns) + 1
    IN [Work(a) EXCEPT !.turns = Append(@, [sess |-> a.sel, prompt |-> p]),
                       !.pre[a.sel] = "fresh",
                       !.gate[a.sel] = InFlight(t, p),
                       !.out = Append(@, Cmd("start", a.sel, t, p))]

(* submit_next_pending_if_idle. A gate blocks the drain until it is old; an *)
(* old one gives its prompt back first. A working run state blocks it too,  *)
(* unless the marker says that state is the old submission's own.           *)
(* Mutant: the drain asks for a live reply only. *)
DrainAsksReplyOnly(a) == Live(a) # None

DrainBlocked(a) ==
    LET g == a.gate[a.sel]
    IN \/ Live(a) # None
       \/ a.run = "working" /\ ~(g.set /\ g.old /\ a.pre[a.sel] # "none")
       \/ g.set /\ ~g.old

SubmitHead(a) ==
    IF a.queue[a.sel] = <<>> THEN a
    ELSE Start([a EXCEPT !.queue[a.sel] = Tail(@)], Head(a.queue[a.sel]))

Drain(a) ==
    IF DrainBlocked(a) THEN a
    ELSE SubmitHead(RestageGates(a, {a.sel}, NoGate))

-----------------------------------------------------------------------------
(* What the user does. *)

(* try_steer_live_turn's gates. *)
Steerable(a) ==
    /\ a.steering # "off"
    /\ a.queue[a.sel] = <<>>
    /\ Live(a) # None /\ ~Frozen(a)

Steer(a, p) ==
    [a EXCEPT !.stash = Append(@, [turn |-> Live(a), prompt |-> p]),
              !.out = Append(@, Cmd("steer", a.sel, Live(a), p))]

(* Mutant: the idle check asks for a live reply only. *)
PromptWhenNoReply(a, p) ==
    IF Steerable(a) THEN Steer(a, p)
    ELSE IF Live(a) # None THEN [a EXCEPT !.queue[a.sel] = Append(@, p)]
    ELSE Start(a, p)

(* queue_or_start_prompt_turn. *)
Prompt(a, p) ==
    IF TurnInProgress(a)
      THEN IF Steerable(a) THEN Steer(a, p)
           ELSE [a EXCEPT !.queue[a.sel] = Append(@, p)]
      ELSE Start(a, p)

(* phantom_in_progress: a working run state with nothing behind it. *)
Phantom(a) ==
    /\ a.run = "working"
    /\ Live(a) = None
    /\ a.pre[a.sel] # "fresh"
    /\ ~a.gate[a.sel].set

(* phantom_terminal_evidence. *)
Evidence(a) == a.started[a.sel] \in a.done

ResetPhantom(a) ==
    Drain([a EXCEPT !.probed = @ \ {a.sel}, !.pre[a.sel] = "none", !.run = "idle"])

CanProbe(a) == Hydrates /\ a.sel \notin a.probed \cup a.hydrating

(* hydrate_session_state_command for the probe of a phantom. *)
Probe(a) ==
    [a EXCEPT !.probed = @ \cup {a.sel}, !.hydrating = @ \cup {a.sel},
              !.out = Append(@, Cmd("hydrate", a.sel, None, None))]

(* interrupt_with_restore, reconcile_phantom_on_user_interrupt. *)
Interrupt(a) ==
    IF Live(a) # None
      THEN [a EXCEPT !.interrupted[a.sel] = Live(a),
                     !.run = IF @ = "working" THEN "idle" ELSE @,
                     !.out = Append(@, Cmd("interrupt", a.sel, Live(a), None))]
    ELSE IF ~Phantom(a) THEN a
    ELSE IF ~Evidence(a) /\ CanProbe(a) THEN Probe(a)
    ELSE ResetPhantom(a)

(* switch_selected_session_locally and refresh_run_state_from_selection. *)
Switch(a, s) ==
    LET b == [a EXCEPT !.sel = s,
                       !.pre = [x \in Sessions |->
                                  IF @[x] = "aged" THEN "none" ELSE @[x]]]
        c == [b EXCEPT !.run = IF /\ ~Frozen(b)
                                  /\ Live(b) # None \/ b.pre[s] = "fresh"
                                 THEN "working" ELSE "idle"]
    IN Drain(c)

(* The tick: drain_staged_backstop, then reconcile_phantom_run_state with   *)
(* due once the phantom has lasted PHANTOM_RUN_STATE_PROBE_SECS.            *)
Watchdog(a, due) ==
    IF ~Phantom(a) THEN [a EXCEPT !.probed = @ \ {a.sel}]
    ELSE IF ~due THEN a
    ELSE IF Evidence(a) THEN ResetPhantom(a)
    ELSE IF CanProbe(a) THEN Probe(a) ELSE a

(* Mutants: the tick has no backstop; it has no watchdog. *)
TickWithoutDrain(a, due) == Watchdog(a, due)
TickWithoutWatchdog(a, due) == Drain(a)

TickOf(a, due) == Watchdog(Drain(a), due)

-----------------------------------------------------------------------------
(* What the store makes of the events of the transport. *)

(* commit_pending_live_reply_for_turn_switch: a turn that becomes live      *)
(* finalizes the one it replaces.                                           *)
SwitchCommit(a, s, t) ==
    IF a.live[s] \in {None, t} THEN a
    ELSE [a EXCEPT !.switched = @ \cup {a.live[s]}, !.live[s] = None]

(* Bind the session's live reply to t, stamped with the connection epoch. *)
Bind(a, t) ==
    LET s == TurnSession(a, t)
        b == [SwitchCommit(a, s, t) EXCEPT !.live[s] = t, !.epoch[s] = a.conn]
    IN IF s = a.sel THEN Work(b) ELSE b

(* TurnStarted. *)
Started(a, t) ==
    LET s == TurnSession(a, t)
    IN IF t \in a.done THEN a
       ELSE Bind([ReleaseGate(a, t) EXCEPT !.started[s] = t, !.pre[s] = "none"], t)

(* Mutant: a late delta binds the turn it belongs to. *)
DeltaUnguarded(a, t) ==
    LET s == TurnSession(a, t)
    IN IF a.interrupted[s] = t THEN [a EXCEPT !.withheld = @ \cup {t}]
       ELSE IF a.live[s] = t THEN a
       ELSE Bind(a, t)

(* append_live_reply_delta. *)
Delta(a, t) ==
    LET s == TurnSession(a, t)
    IN IF t \in a.done THEN a
       ELSE IF a.interrupted[s] = t THEN [a EXCEPT !.withheld = @ \cup {t}]
       ELSE IF a.live[s] = t THEN a
       ELSE Bind(a, t)

(* ToolStarted, ToolProgress. *)
Tool(a, t) ==
    IF t \in a.done \/ TurnSession(a, t) # a.sel THEN a ELSE Work(a)

(* Mutant: the steers return although the server settles them itself. *)
RestageSteersAlways(a, ts) ==
    LET Of(s) == Select(a.retained, LAMBDA r : r.turn \in ts /\ TurnSession(a, r.turn) = s)
    IN [a EXCEPT !.retained = Select(@, LAMBDA r : r.turn \notin ts),
                 !.queue = [s \in Sessions |-> PromptsOf(Of(s)) \o @[s]]]

(* restage_unconfirmed_steers, for the turns ts. *)
RestageSteers(a, ts) ==
    LET Of(s) == Select(a.retained, LAMBDA r : r.turn \in ts /\ TurnSession(a, r.turn) = s)
    IN [a EXCEPT !.retained = Select(@, LAMBDA r : r.turn \notin ts),
                 !.queue = [s \in Sessions |->
                              IF a.steering = "settles" THEN @[s]
                              ELSE PromptsOf(Of(s)) \o @[s]]]

(* What both terminals do before they look at the turn. *)
Settle(a, t) ==
    LET s == TurnSession(a, t)
    IN RestageSteers([ReleaseGate(a, t) EXCEPT
                         !.pre[s] = "none",
                         !.withheld = @ \ {t},
                         !.interrupted[s] = IF @ = t THEN None ELSE @], {t})

(* commit_live_reply. The run state it leaves depends on the answer: shown  *)
(* ("success"), missing ("error") or waiting on a fleet ("idle").           *)
Commit(a, t, outcome) ==
    LET s == TurnSession(a, t)
        b == Settle(a, t)
        c == [b EXCEPT !.done = @ \cup {t}]
        current == c.live[s] \in {None, t}
        d == [c EXCEPT !.live[s] = IF @ = t THEN None ELSE @,
                       !.run = IF ~current \/ s # a.sel THEN @
                               ELSE IF t \in a.withheld THEN "idle" ELSE outcome]
    IN IF t \in a.done THEN Drain(b)
       ELSE IF t \in b.switched THEN [c EXCEPT !.switched = @ \ {t}]
       ELSE Drain(d)

(* fail_live_reply. A turn finalized by a switch still shows its failure. *)
Fail(a, t, interrupt) ==
    LET s == TurnSession(a, t)
        b == Settle(a, t)
        failed == b.live[s] \in {None, t}
        surfaced == failed \/ t \in b.switched
        c == [b EXCEPT !.done = @ \cup {t}, !.switched = @ \ {t},
                       !.live[s] = IF @ = t THEN None ELSE @,
                       !.run = IF ~surfaced \/ s # a.sel THEN @
                               ELSE IF interrupt /\ failed THEN "idle" ELSE "error"]
    IN IF t \in a.done THEN Drain(b) ELSE Drain(c)

(* apply_turn_steered_event: the answer to the oldest steer in the stash.   *)
(* into is the turn the server steered into, or the one it minted instead.  *)
SteeredInto(a) ==
    [a EXCEPT !.retained = Append(@, Head(a.stash)), !.stash = Tail(@)]

SteerStartedTurn(a) ==
    LET s == TurnSession(a, Head(a.stash).turn)
        b == [a EXCEPT !.stash = Tail(@), !.pre[s] = "fresh"]
    IN IF s = a.sel THEN Work(b) ELSE b

(* Mutant: its entry stays in the stash. *)
SteerFailedKeeps(a) ==
    [a EXCEPT !.queue[TurnSession(a, Head(a.stash).turn)] =
                  Append(@, Head(a.stash).prompt)]

(* apply_non_hydrate_error for a turn/steer: the prompt goes to the back. *)
SteerFailed(a) ==
    [a EXCEPT !.stash = Tail(@),
              !.queue[TurnSession(a, Head(a.stash).turn)] =
                  Append(@, Head(a.stash).prompt)]

(* apply_turn_steer_dropped: turn t returns the prompts ps. *)
SteersDropped(a, t, ps) ==
    LET Back(r) == r.turn = t /\ r.prompt \in ps
    IN [a EXCEPT !.retained = Select(@, LAMBDA r : ~Back(r)),
                 !.queue[TurnSession(a, t)] =
                     PromptsOf(Select(a.retained, Back)) \o @]

(* apply_user_row_echo: the row proves a steer of that text landed. *)
Echo(a, p) == [a EXCEPT !.retained = Select(@, LAMBDA r : r.prompt # p)]

(* The other arms of apply_non_hydrate_error that reach the turn life cycle:*)
(* a dead turn/start re-stages every gate, a send-layer refusal the gate of *)
(* the session on screen; both leave a backoff, and every error repaints    *)
(* the run state.                                                           *)
Failed(a) == [a EXCEPT !.run = "error"]
StartCancelled(a) == Failed(RestageGates(a, Sessions, Backoff))
SendRefused(a) == Failed(RestageGates(a, {a.sel}, Backoff))

(* reconcile_after_backend_relaunch. The loop that fails the latched turns  *)
(* runs a drain after each; once the gates are gone a drain that submits    *)
(* nothing changes nothing and only the session on screen drains, so the    *)
(* loop is one step over the sessions that hold a dead turn.                *)
(* Mutant: the turns of the replacement are taken for dead ones. *)
LatchedOfAnyEpoch(a) == {s \in Sessions : a.live[s] # None}

Latched(a) == {s \in Sessions : a.live[s] # None /\ a.epoch[s] < a.conn}

(* Mutant: the latched turns of the dead child stay. *)
FailLatchedNot(a) == a

FailLatched(a) ==
    LET ss == {s \in Latched(a) : a.live[s] \notin a.done}
        ts == {a.live[s] : s \in ss}
    IN [RestageSteers(a, {a.live[s] : s \in Latched(a)}) EXCEPT
            !.pre = [s \in Sessions |-> IF s \in Latched(a) THEN "none" ELSE @[s]],
            !.done = @ \cup ts,
            !.switched = @ \ ts,
            !.live = [s \in Sessions |-> IF s \in ss THEN None ELSE @[s]],
            !.run = IF a.sel \in ss THEN "error" ELSE @]

Relaunched(a) ==
    LET b == [a EXCEPT !.hydrating = {}, !.withheld = {},
                       !.interrupted = [s \in Sessions |-> None]]
        c == FailLatched(RestageGates(b, Sessions, NoGate))
        d == IF Latched(b) = {} THEN c ELSE Drain(c)
        idle == [d EXCEPT !.run = IF @ = "working" /\ Live(d) = None THEN "idle" ELSE @]
    IN IF d.out # a.out THEN d ELSE Drain(idle)

(* An answered session/hydrate: ended lists the turns it calls terminal,    *)
(* active those it calls live. One that still calls a turn live whose       *)
(* terminal the store has seen is asked for again, once per connection.     *)
Refresh(a, s, t) ==
    IF ~Hydrates \/ <<t, a.conn>> \in a.refreshed
      THEN [a EXCEPT !.hydrating = @ \ {s}]
      ELSE [a EXCEPT !.refreshed = @ \cup {<<t, a.conn>>},
                     !.hydrating = @ \cup {s},
                     !.out = Append(@, Cmd("hydrate", s, None, None))]

(* Mutant: a live turn is finalized whatever the snapshot says of it. *)
FinalizeAnyLive(a, s, ended) ==
    IF a.live[s] = None THEN a
    ELSE Drain([ReleaseGate(a, a.live[s]) EXCEPT
                   !.live[s] = None, !.done = @ \cup {a.live[s]}])

(* finalize_stale_hydrated_live_turn. *)
FinalizeStale(a, s, ended) ==
    IF a.live[s] \notin ended THEN a
    ELSE Drain([ReleaseGate(a, a.live[s]) EXCEPT
                   !.live[s] = None, !.done = @ \cup {a.live[s]}])

(* apply_session_hydrate_result; landed are the prompts the history holds. *)
Hydrated(a, s, ended, active, landed) ==
    LET b == [a EXCEPT !.hydrating = @ \ {s},
                       !.retained = Select(@, LAMBDA r :
                          ~(TurnSession(a, r.turn) = s /\ r.prompt \in landed))]
        c == FinalizeStale(b, s, ended)
    IN IF active = {} /\ s = a.sel /\ Phantom(c) THEN ResetPhantom(c) ELSE c

-----------------------------------------------------------------------------
(* The event loop: an event or a key is handled to the end and the commands *)
(* it left are handed to the transport, which refuses them while it has no  *)
(* child. (The refusals of two commands leave what the first one left, and   *)
(* the number of a turn that was never sent is used again.)                 *)
Run(a, w) ==
    LET b == [a EXCEPT !.out = <<>>]
    IN /\ app' = IF link = "down" /\ a.out # <<>>
                   THEN [SendRefused(b) EXCEPT !.turns = app.turns] ELSE b
       /\ wire' = IF link = "down" THEN w ELSE w \o a.out

Keeps(a) == Run(a, wire)

(* The user and the clock act on the store alone, and only when every queued *)
(* event is read. Bounds, unless BusyBoots: no prompt goes out while a       *)
(* replacement boots nor, with steering, while there is no child.           *)
Acts(a) ==
    /\ inbox = <<>>
    /\ \/ BusyBoots \/ link = "up" \/ (link = "down" /\ a.steering = "off")
       \/ \A i \in DOMAIN a.out : a.out[i].kind \notin {"start", "steer"}
    /\ Keeps(a)
    /\ UNCHANGED <<serverVars, budgetVars, inbox, link, answered>>

TypePrompt ==
    /\ Len(typed) < server.prompts
    /\ typed' = Append(typed, app.sel)
    /\ Acts(Prompt(app, Len(typed) + 1))

(* One unanswered interrupt of a turn at a time (a bound). *)
MayInterrupt ==
    /\ Interrupts
    /\ \A i \in DOMAIN wire : wire[i] # Cmd("interrupt", app.sel, Live(app), None)

UserInterrupts ==
    /\ MayInterrupt
    /\ Interrupt(app) # app
    /\ Acts(Interrupt(app)) /\ UNCHANGED typed

(* send_pending_now_command. *)
SendPendingNow ==
    /\ MayInterrupt
    /\ Live(app) # None /\ ~Frozen(app)
    /\ ~\E i \in DOMAIN app.stash : TurnSession(app, app.stash[i].turn) = app.sel
    /\ \/ app.queue[app.sel] # <<>>
       \/ \E i \in DOMAIN app.retained : app.retained[i].turn = Live(app)
    /\ Acts(Interrupt(app)) /\ UNCHANGED typed

UserSwitches(s) ==
    /\ s # app.sel
    /\ Acts(Switch(app, s)) /\ UNCHANGED typed

Tick(due) ==
    /\ TickOf(app, due) # app
    /\ Acts(TickOf(app, due)) /\ UNCHANGED typed

InTransit(t) ==
    \/ t \in accepted
    \/ \E i \in DOMAIN wire : wire[i].kind = "start" /\ wire[i].turn = t

(* PRE_TOKEN_TURN_TTL passes. *)
MarkerAges(s) ==
    /\ inbox = <<>> /\ app.pre[s] = "fresh"
    /\ SlowStarts \/ ~\E t \in Turns : TurnSession(app, t) = s /\ InTransit(t)
    /\ app' = [app EXCEPT !.pre[s] = "aged"]
    /\ UNCHANGED <<wire, inbox, link, serverVars, typed, answered, budgetVars>>

(* STAGED_SUBMIT_GATE_TTL passes, or, for a gate in flight, the longer      *)
(* STAGED_SUBMIT_IN_FLIGHT_TTL: only a submission the server dropped or     *)
(* refused is still in flight by then.                                      *)
GateAges(s) ==
    /\ inbox = <<>> /\ app.gate[s].set /\ ~app.gate[s].old
    /\ app.pre[s] # "fresh" /\ ~InTransit(app.gate[s].turn)
    /\ app' = [app EXCEPT !.gate[s].old = TRUE]
    /\ UNCHANGED <<wire, inbox, link, serverVars, typed, answered, budgetVars>>

-----------------------------------------------------------------------------
(* The server, and the events of its own the client reads in order. A child *)
(* whose scope is not open yet is sent nothing, but may already run turns.  *)

Fault(kind) ==
    /\ kind \in server.kinds /\ faults < server.faults
    /\ faults' = faults + 1 /\ misled' = misled \cup ({kind} \cap Misleading)

Listens == link # "down" /\ inbox = <<>>
Takes(kind) == link = "up" /\ inbox = <<>> /\ wire # <<>> /\ Head(wire).kind = kind
SessionIdle(s) == server.twins \/ \A u \in running : TurnSession(app, u) # s

AcceptStart ==
    /\ Takes("start")
    /\ accepted' = accepted \cup {Head(wire).turn}
    /\ wire' = Tail(wire)
    /\ UNCHANGED <<app, inbox, link, running, over, inputs, typed, answered, budgetVars>>

DropStart ==
    /\ Takes("start") /\ Fault("drop")
    /\ wire' = Tail(wire)
    /\ UNCHANGED <<app, inbox, link, serverVars, typed, answered, server, own>>

(* An error response to a turn/start. *)
RefuseStart ==
    /\ Takes("start") /\ Fault("refusal")
    /\ Run(Failed(app), Tail(wire))
    /\ UNCHANGED <<inbox, link, serverVars, typed, answered, server, own>>

AcceptSteer ==
    /\ Takes("steer") /\ Head(wire).turn \in running
    /\ inputs' = Append(inputs, [turn |-> Head(wire).turn, prompt |-> Head(wire).prompt])
    /\ Run(SteeredInto(app), Tail(wire))
    /\ UNCHANGED <<inbox, link, accepted, running, over, typed, answered, budgetVars>>

(* The turn is over: the server starts one for the input, or says no. *)
StartForSteer ==
    /\ Takes("steer") /\ Head(wire).turn \notin running
    /\ LET t == Len(app.turns) + 1
           a == [app EXCEPT !.turns = Append(@, [sess |-> Head(wire).sess,
                                                 prompt |-> Head(wire).prompt])]
       IN /\ accepted' = accepted \cup {t}
          /\ Run(SteerStartedTurn(a), Tail(wire))
    /\ misled' = misled \cup {"minted"}
    /\ UNCHANGED <<inbox, link, running, over, inputs, typed, answered, server, faults, own>>

RefuseSteer ==
    /\ Takes("steer") /\ Fault("no steer")
    /\ Run(SteerFailed(app), Tail(wire))
    /\ UNCHANGED <<inbox, link, serverVars, typed, answered, server, own>>

TakeInterrupt ==
    /\ Takes("interrupt")
    /\ wire' = Tail(wire)
    /\ UNCHANGED <<app, inbox, link, serverVars, typed, answered, budgetVars>>

(* The snapshot may still call a turn live whose terminal was sent before    *)
(* the answer.                                                              *)
AnswerHydrate(stale) ==
    /\ Takes("hydrate")
    /\ LET s == Head(wire).sess
           Mine(ts) == {t \in ts : t # None /\ TurnSession(app, t) = s}
           active == Mine(running \cup {stale})
           told == active \cap app.done
       IN Run(IF told # {} THEN Refresh(app, s, CHOOSE t \in told : TRUE)
              ELSE Hydrated(app, s, Mine(over \ {stale}), active, answered),
              Tail(wire))
    /\ UNCHANGED <<inbox, link, serverVars, typed, answered, budgetVars>>

StartTurn(t) ==
    /\ link = "up" /\ inbox = <<>> /\ t \in accepted
    /\ SessionIdle(TurnSession(app, t))
    /\ accepted' = accepted \ {t} /\ running' = running \cup {t}
    /\ answered' = answered \cup {app.turns[t].prompt}
    /\ Keeps(Started(app, t))
    /\ UNCHANGED <<inbox, link, over, inputs, typed, budgetVars>>

(* A continuation the server starts itself. *)
StartOwnTurn(s) ==
    /\ Listens /\ own < server.own /\ SessionIdle(s)
    /\ own' = own + 1
    /\ LET t == Len(app.turns) + 1
           a == [app EXCEPT !.turns = Append(@, [sess |-> s, prompt |-> None])]
       IN /\ running' = running \cup {t}
          /\ \/ Keeps(Started(a, t))
             \/ server.twins /\ Keeps(a)    \* its turn/started is not delivered
    /\ misled' = misled \cup {"own"}
    /\ UNCHANGED <<inbox, link, accepted, over, inputs, typed, answered, server, faults>>

(* Deltas and tool events; background work still streams after a terminal.  *)
Stream(t) ==
    /\ Listens /\ t \in running \cup (over \cap app.done)
    /\ \E a \in {Delta(app, t), Tool(app, t)} : a # app /\ Keeps(a)
    /\ UNCHANGED <<inbox, link, serverVars, typed, answered, budgetVars>>

(* A turn takes an accepted steer into its conversation; the echo of the    *)
(* row may be lost when the server settles steers before the terminal.      *)
ConsumeSteer ==
    /\ Listens /\ inputs # <<>> /\ Head(inputs).turn \in running
    /\ answered' = answered \cup {Head(inputs).prompt}
    /\ inputs' = Tail(inputs)
    /\ \/ Keeps(Echo(app, Head(inputs).prompt))
       \/ app.steering = "settles" /\ Keeps(app)
    /\ UNCHANGED <<inbox, link, accepted, running, over, typed, budgetVars>>

PendingInputs(t) == {i \in DOMAIN inputs : inputs[i].turn = t}

(* turn/steer_dropped, before the terminal. *)
DropSteers(t) ==
    /\ Listens /\ app.steering = "settles" /\ PendingInputs(t) # {}
    /\ inputs' = Select(inputs, LAMBDA r : r.turn # t)
    /\ Keeps(SteersDropped(app, t, {inputs[i].prompt : i \in PendingInputs(t)}))
    /\ UNCHANGED <<inbox, link, accepted, running, over, typed, answered, budgetVars>>

Ends(t) ==
    /\ Listens /\ t \in running
    /\ app.steering = "settles" => PendingInputs(t) = {}
    /\ running' = running \ {t} /\ over' = over \cup {t}
    /\ inputs' = Select(inputs, LAMBDA r : r.turn # t)
    /\ UNCHANGED <<inbox, link, accepted, typed, answered, budgetVars>>

Complete(t, outcome) == Ends(t) /\ Keeps(Commit(app, t, outcome))
Abort(t) == Ends(t) /\ Keeps(Fail(app, t, app.interrupted[TurnSession(app, t)] = t))

(* A submission the server ends before it starts. *)
RejectTurn(t) ==
    /\ link = "up" /\ inbox = <<>> /\ t \in accepted /\ Fault("rejection")
    /\ accepted' = accepted \ {t}
    /\ answered' = answered \cup {app.turns[t].prompt}
    /\ Keeps(Fail(app, t, FALSE))
    /\ UNCHANGED <<inbox, link, running, over, inputs, typed, server, own>>

(* A request this module does not follow fails ("error") or is refused at   *)
(* the cap of pending requests ("cap").                                     *)
OtherRequestFails(kind) ==
    /\ Listens /\ kind \in {"error", "cap"} /\ Fault(kind)
    /\ Keeps(IF kind = "cap" THEN SendRefused(app) ELSE Failed(app))
    /\ UNCHANGED <<inbox, link, serverVars, typed, answered, server, own>>

-----------------------------------------------------------------------------
(* The stdio child. The transport looks at it when it has no event queued.  *)

(* It dies: every unanswered or deferred request is cancelled by name. *)
LinkDies ==
    /\ Listens /\ Fault("death")
    /\ link' = "down"
    /\ inbox' = inbox \o [i \in DOMAIN wire |-> [event |-> "cancelled", cmd |-> wire[i]]]
    /\ wire' = <<>>
    /\ accepted' = {} /\ running' = {} /\ inputs' = <<>>
    /\ over' = over \cup running
    /\ UNCHANGED <<app, typed, answered, server, own>>

Signal(event) == [event |-> event, cmd |-> Cmd(event, Home, None, None)]

LinkBoots ==
    /\ link = "down" /\ inbox = <<>>
    /\ link' = "booting"
    /\ inbox' = Append(inbox, Signal("epoch"))
    /\ UNCHANGED <<app, wire, serverVars, typed, answered, budgetVars>>

(* The replacement's scope is open; the reconcile precedes what was waiting. *)
LinkOpens ==
    /\ link = "booting" /\ inbox = <<>>
    /\ link' = "up"
    /\ inbox' = Append(inbox, Signal("relaunched"))
    /\ UNCHANGED <<app, wire, serverVars, typed, answered, budgetVars>>

Cancelled(a, c) ==
    CASE c.kind = "start" -> StartCancelled(a)
      [] c.kind = "steer" -> SteerFailed(a)
      [] c.kind = "hydrate" -> Failed([a EXCEPT !.hydrating = @ \ {c.sess}])
      [] c.kind = "interrupt" -> Failed(a)

ReadInbox ==
    /\ inbox # <<>>
    /\ inbox' = Tail(inbox)
    /\ LET e == Head(inbox)
       IN Keeps(CASE e.event = "cancelled" -> Cancelled(app, e.cmd)
                  [] e.event = "epoch" -> [app EXCEPT !.conn = @ + 1]
                  [] e.event = "relaunched" -> Relaunched(app))
    /\ UNCHANGED <<link, serverVars, typed, answered, budgetVars>>

-----------------------------------------------------------------------------
Init ==
    /\ server \in Servers
    /\ app = [sel |-> Home, queue |-> [s \in Sessions |-> <<>>],
           gate |-> [s \in Sessions |-> NoGate],
           live |-> [s \in Sessions |-> None],
           epoch |-> [s \in Sessions |-> 0], conn |-> 0,
           pre |-> [s \in Sessions |-> "none"], run |-> "idle",
           interrupted |-> [s \in Sessions |-> None], withheld |-> {},
           done |-> {}, switched |-> {}, started |-> [s \in Sessions |-> None],
           probed |-> {}, hydrating |-> {}, refreshed |-> {},
           stash |-> <<>>, retained |-> <<>>, steering |-> server.steering,
           turns |-> <<>>, out |-> <<>>]
    /\ wire = <<>> /\ inbox = <<>> /\ link = "up"
    /\ accepted = {} /\ running = {} /\ over = {} /\ inputs = <<>>
    /\ typed = <<>> /\ answered = {} /\ faults = 0 /\ own = 0 /\ misled = {}

ServerSteps ==
    \/ AcceptStart \/ DropStart \/ RefuseStart
    \/ AcceptSteer \/ StartForSteer \/ RefuseSteer
    \/ TakeInterrupt \/ \E stale \in (over \cap app.done) \cup {None} : AnswerHydrate(stale)
    \/ \E t \in accepted : StartTurn(t) \/ RejectTurn(t)
    \/ \E s \in Sessions : StartOwnTurn(s)
    \/ ConsumeSteer
    \/ \E t \in running \cup over : Stream(t)
    \/ \E t \in running : DropSteers(t) \/ Abort(t)
    \/ \E t \in running, o \in {"success", "error", "idle"} : Complete(t, o)
    \/ \E kind \in {"error", "cap"} : OtherRequestFails(kind)

User ==
    \/ TypePrompt \/ UserInterrupts \/ SendPendingNow
    \/ \E s \in Sessions : UserSwitches(s)

Clock ==
    \/ \E due \in BOOLEAN : Tick(due)
    \/ \E s \in Sessions : MarkerAges(s) \/ GateAges(s)

Next == User \/ Clock \/ ServerSteps \/ LinkDies \/ LinkBoots \/ LinkOpens \/ ReadInbox

Spec == Init /\ [][Next]_vars

-----------------------------------------------------------------------------
(* Fairness: the event loop polls for ever, its clocks run on, the          *)
(* transport restarts its child, and the server answers and ends what it    *)
(* took. The user owes nothing.                                             *)
Fairness ==
    /\ WF_vars(ReadInbox) /\ WF_vars(LinkBoots) /\ WF_vars(LinkOpens)
    /\ WF_vars(Tick(TRUE))
    /\ \A s \in Sessions : WF_vars(MarkerAges(s)) /\ WF_vars(GateAges(s))
    /\ WF_vars(AcceptStart) /\ WF_vars(AcceptSteer) /\ WF_vars(StartForSteer)
    /\ WF_vars(TakeInterrupt) /\ WF_vars(AnswerHydrate(None))
    /\ WF_vars(\E t \in accepted : StartTurn(t))
    /\ WF_vars(ConsumeSteer)
    /\ WF_vars(\E t \in running : Complete(t, "success"))

FairSpec == Spec /\ Fairness

-----------------------------------------------------------------------------
PromptNo == Nat \ {None}
GateType == {g \in [turn : Nat, prompt : Nat, old : BOOLEAN, set : BOOLEAN] :
                (g.turn = None) = (g.prompt = None) /\ (g.set \/ g = NoGate)}
SteerType == [turn : Nat, prompt : PromptNo]
TurnType == [sess : Sessions, prompt : Nat]
CmdType == [kind : {"start", "steer", "interrupt", "hydrate", "epoch", "relaunched"},
            sess : Sessions, turn : Nat, prompt : Nat]
EventType == [event : {"cancelled", "epoch", "relaunched"}, cmd : CmdType]

Queues == [Sessions -> Seq(PromptNo)]
Gates == [Sessions -> GateType]
Marks == [Sessions -> Nat]
Markers == [Sessions -> {"none", "fresh", "aged"}]
RunStates == {"idle", "working", "success", "error"}
Steerings == {"off", "echo", "settles"}
Refreshes == SUBSET (Nat \X Nat)
Stashes == Seq(SteerType)
TurnTables == Seq(TurnType)
Outputs == Seq(CmdType)

AppType ==
    [sel : Sessions, queue : Queues, gate : Gates, live : Marks, epoch : Marks,
     conn : Nat, pre : Markers, run : RunStates, interrupted : Marks,
     withheld : SUBSET Nat, done : SUBSET Nat, switched : SUBSET Nat,
     started : Marks, probed : SUBSET Sessions, hydrating : SUBSET Sessions,
     refreshed : Refreshes, stash : Stashes, retained : Stashes,
     steering : Steerings, turns : TurnTables, out : Outputs]

TypeOK ==
    /\ app \in AppType /\ app.out = <<>> /\ app.steering = server.steering
    /\ wire \in Seq(CmdType) /\ inbox \in Seq(EventType)
    /\ link \in {"up", "down", "booting"}
    /\ accepted \cup running \cup over \subseteq Nat
    /\ inputs \in Seq([turn : Nat, prompt : Nat])
    /\ typed \in Seq(Sessions) /\ answered \subseteq Nat
    /\ server \in Servers /\ faults \in 0..server.faults
    /\ own \in 0..server.own /\ misled \subseteq Misleading

Has(seq, p) == \E i \in DOMAIN seq : seq[i].prompt = p

Held(p) ==
    \/ \E s \in Sessions : \/ app.gate[s].prompt = p
                          \/ \E i \in DOMAIN app.queue[s] : app.queue[s][i] = p
    \/ Has(app.stash, p) \/ Has(app.retained, p)

(* The store keeps a copy of every prompt the server has not started ("the  *)
(* gate is the only surviving copy", "the text must never be lost"), except *)
(* of a steer for which the server has accepted a turn of its own, and       *)
(* unless the server runs two turns of a session at once.                   *)
PromptKept ==
    ~server.twins => \A p \in Prompts :
        \/ p \in answered \/ Held(p)
        \/ app.steering # "off" /\ \E t \in accepted : app.turns[t].prompt = p

Carriers(p) == {t \in Turns : app.turns[t].prompt = p /\ (InTransit(t) \/ t \in running)}

(* A prompt is never on its way, or running, as two turns, until the store  *)
(* takes a submission that is alive for dead: a turn of the server's own    *)
(* ends beside it, or any request is refused at the cap of pending requests. *)
SubmittedOnce ==
    misled \cap {"own", "cap"} = {} => \A p \in Prompts : Cardinality(Carriers(p)) <= 1

(* A prompt the server has started is not submitted, or staged, again.      *)
AnsweredOnce ==
    \A p \in answered \ {None} :
        /\ \A s \in Sessions : \A i \in DOMAIN app.queue[s] : app.queue[s][i] # p
        /\ \A i \in DOMAIN wire : wire[i].kind = "start" => wire[i].prompt # p

Sent(i) == i \in DOMAIN wire' /\ Len(app.turns) < wire'[i].turn

(* A turn/start never goes out beside another turn of its session: a second *)
(* one "corrupts run-state bookkeeping and races the server"; until the     *)
(* store is misled, which an error response to any request is enough for.   *)
NoConcurrentSubmit ==
    [][\A i \in DOMAIN wire' :
          wire'[i].kind = "start" /\ Sent(i) /\ misled' = {} =>
              \A t \in Turns : TurnSession(app, t) = wire'[i].sess =>
                  ~InTransit(t)' /\ t \notin running']_vars

(* The prompts of a session start in the order they were typed.             *)
InOrder ==
    [][\A p \in answered' \ answered : \A q \in 1..(p - 1) :
          typed[q] = typed[p] => q \in answered']_vars

(* A turn whose terminal the store has seen never stays or becomes the live *)
(* one: no other terminal would come to clear it.                           *)
LiveIsOpen == \A s \in Sessions : app.live[s] \notin app.done

(* The store calls no turn finished that its server still runs.             *)
DoneIsOver == app.done \cap running = {}

(* Once the events are read, a live reply belongs to a turn that runs.      *)
LatchIsLive ==
    link = "up" /\ inbox = <<>> =>
        \A s \in Sessions : app.live[s] # None => app.live[s] \in running

(* The stash answers to the steers under way, in their order: a response    *)
(* carries no prompt and pops the oldest entry.                             *)
SteersUnderWay ==
    LET Steers(q) == Select(q, LAMBDA c : c.kind = "steer")
    IN Steers([i \in DOMAIN inbox |-> inbox[i].cmd]) \o Steers(wire)
StashMatches == PromptsOf(app.stash) = PromptsOf(SteersUnderWay)

(* After a stop, the spinner of the stopped turn does not come back.        *)
StoppedStaysIdle ==
    [][Frozen(app) /\ Frozen(app)' /\ app'.sel = app.sel /\ Live(app)' = Live(app)
          /\ app'.run = "working" => app.run = "working"]_vars

(* Every prompt is answered in the end (the user types finitely many), by a *)
(* server that runs one turn of a session at a time.                        *)
PromptsDrain == <>[](server.twins \/ Prompts \subseteq answered)

(* A working run state with nothing behind it is cleared.                   *)
PhantomEnds == Phantom(app) ~> ~Phantom(app)
=============================================================================
