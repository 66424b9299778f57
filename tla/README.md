# A TLA+ model of octoscode

octoscode is the terminal client of the Octos UI protocol. It draws, edits and
remembers; a server (`octos serve`, spawned as a stdio child or reached over a
WebSocket) runs the agent. This directory holds TLA+ models of the parts of the
client whose correctness depends on the order in which things happen, the TLC
runs that check them on small instances, and TLAPS proofs for all instances.

## The system

| Part | Source | State it keeps | Operations | Hard because | Model |
|---|---|---|---|---|---|
| Transport state machine | `src/transport.rs`, `ProtocolAppUiBackend` | link, client_hello and session/open barriers, deferred queue, chain of reopens, confirmed scopes, reopen target, pending requests, replay flags | `bootstrap`, `send`, `next_event` | handlers call each other through reconnects; any answer may be late, lost, refused or garbled; everything is cancelled when the link goes | `ProtocolBackend`, `CommandFate` |
| Reconnect schedule | `src/transport.rs`, `ReconnectBackoff` | last attempt, failure streak, connect time | `should_attempt`, `record_*` | a spawn that dies at once "succeeds"; the connect call itself takes time | `ReconnectBackoff` |
| Transport drivers | `src/transport.rs`, drivers, `CappedLineReader`, `StderrRing` | bounded channels, a line buffer, a ring of stderr lines | reader, writer, stderr and exit tasks | several tasks race when a child dies | planned |
| Event loop | `src/event_loop.rs` | dirty flags, input batch | tick, key, drain, send | a send may fail; hand-off of the terminal | its calls into the transport in `ProtocolBackend`, its order of events, keys and ticks in `PromptTurns` |
| Store: turns | `src/store.rs`, `src/model.rs` | per session: live turn, queued prompts, staged-submit gate, marker of a turn without a token; stash and retained steers; run state | type, stop, send now, switch, tick; started, delta, terminal, steer answers, errors, hydrate, epoch, reconcile | events of dead and live children interleave with local state and a time-to-live | `PromptTurns` |
| Store: hydrate and selection | `src/store.rs` | hydrate markers, selected session, per-session transcripts | open, hydrate, replay | late results for a session no longer selected | planned |
| Store: approvals, questions | `src/store.rs` | pending modal, queue of others, response in flight | request, respond, decide, cancel | the server may decide while the answer is on its way | planned |
| Store: goals, loops, agents, peers | `src/store.rs`, `src/autonomy.rs` | per-session autonomy state, hydration queue | commands and notifications | duplicated and late notifications | planned |
| Outer duty lock | `src/outer_duty.rs`, `src/cmd/outer_duty.rs` | kernel lock on one file, metadata beside it, the agent as a child | `hold`, `check` | a wrapper or its child dies between fork, coupling and exec; a probe takes the very lock it asks about | `OuterDuty`, `DutyAuthority` |
| Shared instance | `src/shared_instance.rs` | discovery record, startup lock, ownership lock, spawned child | `discover` on every connect | clients start at once, are killed between two steps, find the record of a dead server; a server starts slowly | `SharedInstance`, `SharedServer` |
| OLP-MCP server | `src/olp_mcp.rs` | count of questions per process; a mailbox of files shared by all of them and the outer loop | `ask_outer`, `report_blocked` | an answer is half written, late, or meets a killed server; nothing locks the files | `OuterLoopMailbox` |
| Composer history, viewport | `src/history.rs`, `src/viewport.rs` | cursor, flushed lines | navigation, flush | index arithmetic | planned |
| Rendering, menus, command line, provisioning | rest | | | layout, forms and I/O | not modelled |

How they interact: the event loop calls `send` with the commands the store
produced and `next_event` on every tick; each event goes to the store, whose
follow-up commands go back to `send`. The transport is single-threaded: the
UI thread runs its handlers to the end, and sees the driver's tasks only through
a channel it polls. The server answers requests concurrently, so answers come
in any order. When the transport dials a shared WebSocket server it first
calls the discovery of `shared_instance`; other clients on the machine run the
same discovery and share the files. The duty lock is a separate subcommand whose
processes meet only through the lock and the kernel.

## Modules

* `ReconnectBackoff`: the schedule. Time is counted in half-second ticks; an
  `Instant` is an age that stops growing once no comparison can tell it from a
  larger one. `upFor`, `streak` and `lastEnd` record what really happened, so
  that properties can compare it with what the code believes.
* `ProtocolBackend`: the transport. One variable per field of
  `ProtocolAppUiBackend` that control depends on. A running handler is a stack of
  frames (`stack`), because `send` calls `ensure_connected`, which calls `send`,
  which may flush, which calls `send`; `raised` is an `Err` on its way up through
  the `?` operators. One action is one piece of handler code between two calls.
  The answers of the server and the end of the link are chosen when the client
  polls, which is when the code can first notice them. `scoped` (sessions open on
  this connection), `reports` (terminal events per command), `issued` and
  `selection` are history.
* `CommandFate`: what the transport promises about one command: new, held, sent,
  settled, in that order and never back. One command at most may be dropped instead, without
  an event: the open in flight whose session the transport remembers to reopen.
  `fail_session_open_barrier` (`transport.rs:2439-2456`) takes such an open out of the
  pending requests when its deadline passes or its answer does not decode, and queues only the
  `Status` of the connection; the next connection opens the session in its place, unless
  another open has replaced the target by then (`ReopenFollowsSelection`, below).
  `ProtocolBackend` maps its state to it (`FateOf`, `RememberedIds`) and implements it.
* `PromptTurns`: a prompt from the key that submits it to the terminal of its turn.
  See the next section.
* `OuterDuty`: the wrappers, checks and children around the duty lock, and the
  kernel below them. `DutyAuthority`: what they promise.
* `SharedInstance`: clients that search for the server of a runtime directory, the
  servers, the locks and the record. `SharedServer`: what the search promises.
* `OuterLoopMailbox`: the servers of the OLP-MCP mailbox and the outer loop that answers.
* `MC...`: the values TLC uses.
* `...Proofs`: theorems and their proofs.

What the transport model abstracts: JSON, the text of messages, resume cursors and
workspace roots (they travel inside a request and decide nothing here), the
`local/shell_exec` arm, which never reaches the server, ping and pong. The backoff
is one Boolean, `dialable`, whose schedule is `ReconnectBackoff`. A command over the
frame cap is a nondeterministic refusal of a `turn`. Request ids restart with each
connection, whose loss leaves no earlier id in use.

### The store's turns

`app` is one record with the fields of `AppState` and `Store` that the turn life cycle
reads: `queue` (`staged_messages`), `gate` (`staged_submit_gates`), `live` and `epoch`
(`live_reply` and the connection it is stamped with), `pre` (`pre_token_turns`),
`run` (`run_state` of the session on screen), `interrupted` and `withheld` (the marks of
a local stop), `done` and `switched` (turns whose terminal was seen, turns finalized by a
switch), `started`, `probed`, `hydrating` and `refreshed` (what the watchdog and the hydrate
remember), `stash` and `retained` (steers under way, steers accepted), `steering` (the
capability the server advertises). `turns` numbers the turns ever created and `out` holds
the commands a handler returns.

A handler of the store is an operator from one such record to the next, so that the calls
inside it compose as they do in the code: a terminal (`Commit`, `Fail`) settles the gate,
re-stages steers and ends in `Drain`; the reconcile (`Relaunched`) re-stages gates, fails the
latched turns and drains. An action is one handler run to its end, with the step of the user,
the clock, the transport or the server that caused it; `Run` then hands the returned commands
to the transport, which refuses them while it has no child. `wire` is what the transport holds
unanswered, `inbox` the events it has queued; `drain_backend_events` empties that queue before a
key or a tick is looked at, so every action of the user and the clock asks for an empty inbox.

| Action | Code |
|---|---|
| `TypePrompt`, `SendPendingNow`, `UserInterrupts`, `UserSwitches` | `queue_or_start_prompt_turn`, `send_pending_now_command`, `interrupt_command`, `switch_selected_session` |
| `Tick` | `drain_staged_backstop`, then `reconcile_phantom_run_state` |
| `MarkerAges`, `GateAges` | the two times-to-live, kept as an order: fresh, then old |
| `StartTurn`, `StartOwnTurn`, `Stream`, `Complete`, `Abort`, `RejectTurn` | `TurnStarted`, deltas and tools, `commit_live_reply`, `fail_live_reply` |
| `AcceptSteer`, `StartForSteer`, `RefuseSteer`, `ConsumeSteer`, `DropSteers` | `apply_turn_steered_event` (both answers), the steer arm of `apply_non_hydrate_error`, `apply_user_row_echo`, `apply_turn_steer_dropped` |
| `AnswerHydrate` | `apply_session_hydrate_result` with a snapshot that may be older than a terminal |
| `RefuseStart`, `DropStart`, `OtherRequestFails` | an error response, a start without an effect, the other arms of `apply_non_hydrate_error` |
| `LinkDies`, `LinkBoots`, `LinkOpens`, `ReadInbox` | the cancellations, the epoch marker and the reconcile the transport queues, in the order `ProtocolBackend` gives them |

The server is modelled from how the store handles its notifications: it takes requests in
order, starts what it accepted, may start turns of its own, and ends each turn once. What it
may do beyond that is in its record in `Servers`: the kinds of faults beside it, whether it runs
two turns of a session at once and may not deliver a `turn/started` (`twins`), and how many
faults, prompts and turns of its own there are. A run checks several such servers, each
behaviour with one of them (`server`).

Left out of the store: readonly mode, approvals and questions (so the run state is never
`Blocked`), the restoring of a stopped prompt to the composer, clearing the staged messages, the
snapshot replay of a reopened session, the caps of the sets of finished turns, the queue that
delays a follow-up command, and a death of the child that only a send discovers. Profiles and
rendered rows decide nothing here.

### The duty lock

A wrapper (`wrapper[w]`) is at one place of `run_hold` and `acquire`, its child
(`child[w]`) at one place between fork and exec in `spawn_holder_child`, a probe
(`check[c]`) at one place of `check`. `owner` is the open file description that has
the lock, named after the process that opened it: a child shares it from fork to
exec, so the kernel frees the lock only when both have closed it. A process that
is killed closes its descriptors first and then hands its child over and sends the
signal it asked for ("dying", then "gone"), which is the order that makes the
re-check of the parent necessary. `late` and `met` say whether the two seconds of
retries are over and who had the lock at each failed attempt.

| Action | Code |
|---|---|
| `Acquire`, `Retry`, `DeadlinePasses` | `acquire` and its retry every 20 ms |
| `Fork`, `Couple`, `CheckParent`, `Exec`, `ChildFails`, `SpawnFails`, `Spawned` | `spawn_holder_child`: fork, `setpgid` and `prctl`, `getppid`, exec, and their failures |
| `AgentExits`, `WaitReturns` | the wait in `run_hold` |
| `Probe`, `ProbeEnds` | `check` |
| `WrapperDies`, `HandsOver`, `ChildDies` | the operator's kill, and the kernel |

`DutyAuthority` knows a holder and whether its agent acts. A probe's instant with the
lock is mapped to nobody.

### The shared server

A client (`place[c]`) is at one place of `discover`: waiting for the startup lock, reading
the record, asking the server it names, probing the ownership lock, holding it for an
instant, spawning, polling. `late` clients have used up their sixty seconds, `polling` ones
are past the probe, `child` is what a search spawned, `asked` and `answer` what it read and
heard. `record` is the server that wrote it, or `Bad` for a file that `read_instance` or
`validate_record` rejects. `left` and `lostTo` are history: servers nobody waited for while
they began, and who owned the directory when a server found it taken. A server is another
program; what it may do is what the code expects of one, including dying, never answering,
being started by hand and leaving its port to another process.

| Action | Code |
|---|---|
| `Discover`, `Locks`, `Busy` | `discover` up to the startup lock |
| `ReadInstance`, `Verify`, `VerifyFails` | `read_instance`, `validate_record`, `verify` |
| `Probe`, `Unlock`, `Spawn`, `Poll`, `Fails`, `DeadlinePasses` | the probe of the ownership lock, `spawn`, the loop that waits for a server |
| `Killed` | a client killed between two steps |
| `ByHand`, `Owns`, `Loses`, `Serves`, `Dies`, `Answers` | the servers |

Left out: resolving the directory and the command line, and the startup lock's descriptor
that a spawned child has until its exec.

### The mailbox

A server (`pc[s]`) is at one place of `serve` or of the loop of `ask_outer`; `count[s]` is its
thread-local `ASK_STATE`, which a new process has at zero, `current[s]` the question it waits on,
`late[s]` whether that question's deadline has passed. `questions`, `answers` and `consumed` are the
three directories; an answer's file is absent, half written or whole. Questions are numbered, where
the code draws an id from the clock, the process and the count, which is taken to be unique. `dispatched`, `refused`, `written`, `given` and `outcome` are history.

| Action | Code |
|---|---|
| `Starts`, `Ends` | `serve` |
| `Asks`, `Refuses` | `ask_outer` up to its wait (with `short_uuid`), and its quota |
| `Checks`, `Reads`, `Archives`, `DropsQuestion`, `DropsAnswer`, `Replies`, `Degrades` | the loop that polls, the archive, the two removals, the reply, the degraded guidance |
| `Killed` | the caller ends the process anywhere |
| `BeginsAnswer`, `FinishesAnswer` | the outer loop, which writes in place |

Left out: `report_blocked` and the audit lines, which only append to the board; refusals of an empty
field, and requests that answer from constants.

## Runs

| Run | Checks | Instance |
|---|---|---|
| `backoff` | a crash loop backs off, a healthy restart does not, the schedule never wedges: the schedule of a stdio child | the real constants, in half-second ticks, streaks to 7 (past the cap) |
| `backend_stdio` | the safety of a stdio child: nothing left behind, nothing sent after it was reported, reconcile before work; `CommandFate` is implemented, so every command ends with an event but the one remembered open | 2 sessions, 3 commands, 3 connections, queue limit 3, every kind of answer |
| `backend_websocket` | the session a reconnect would reopen is open, also after a readonly start without a server | readonly WebSocket, 2 sessions, 3 commands of every kind, 3 connections, no refused open |
| `backend_live` | barriers release, the deferred queue drains; work only in reopened scopes | 2 commands, 3 connections, no refused open, fairness |
| `backend_rejected_scope` | violated: `ScopedWork` when a reopen is refused | 3 commands, 2 connections |
| `turns_store` | what the store holds as live or under way is what the server runs or was sent; a stop stays a stop; until the store is misled, a prompt is carried by one turn at most and never goes out beside another | 2 sessions, stops; 3 prompts and 2 deaths or rejections, or 1 prompt and any 2 faults of 7 kinds, also beside a turn of the server's own and with steering |
| `turns_live` | a copy of each unstarted prompt exists, an answered prompt is not sent again, no running turn is called finished; every prompt is answered, a phantom ends | 1 session; 3 prompts and 2 deaths or dropped submissions, or 2 refused steers with either kind of steering server; 2 prompts beside a server that runs two turns at once; fairness |
| `turns_boot_doubles` | violated: `SubmittedOnce` when a prompt is typed while the replacement boots | 1 prompt, 1 death |
| `outer_duty` | one agent acts, under the lock; no child outlives its wrapper unsignalled; a lone check is no conflict; `DutyAuthority` is implemented; the authority of a dead wrapper comes back | 2 wrappers, 2 checks, kills at every step, fairness |
| `shared_instance` | servers compete only after one was left; `SharedServer` is implemented; every search ends | 2 clients that search again and again, 2 servers, fairness |
| `mailbox` | no question or answer leaves the mailbox before its exchange is over; every question comes to an end | 2 servers, 3 questions, quota 3, 1 kill or failed write, fairness |
| `mailbox_quota` | violated: `FullQuota`, on the third question | 1 server, 4 questions, no fault |

Bounds of the transport: two sessions give a chain of reopens of length two, the shortest
in which a reopen can be in mid-chain; three connections allow a loss during a reconnect and
a further reconnect; a queue limit of three is reached by the requests of one
reconnect, so the refusals at `MAX_PENDING_REQUESTS` happen. A limit of one would
refuse the client's own handshake, which the real limit of 256 cannot. Without a hello a WebSocket
sends the requests of a reconnect at once, so `backend_websocket` has a limit of five: with less,
a reopen would be refused for lack of room. `backend_live` and `backend_websocket` leave out
refused opens, because with them `ScopedWork` and `TargetInScope` do not hold (below);
`backend_stdio` has every kind of answer.

Bounds of the turns: one prompt in flight, one behind it on the queue and one more to be
re-staged in front of or behind them need three prompts; two faults let the second hit the recovery from the first; a second session is the one
whose events arrive while it is not on screen. `BusyBoots = FALSE` keeps prompts from going out
while a replacement boots: with it the loss of exactly-once that `turns_boot_doubles` shows is
reached first. A user may stop a turn again only once the earlier stop is answered. These
systems stop when the user, the faults and the server's own turns are used up, so the `turns`
runs do not check deadlock; what must not stop is the liveness of `turns_live`. With a second turn of its own whose start is not delivered, a server whose snapshots
are out of date three times in a row would exhaust the watchdog's probe and its retries.

`turns_live` pairs each kind of server with the faults after which no prompt is lost, because
the losses of prompts and steers below happen with some kinds of server and some faults only.
Some statements hold up to a point, and say so themselves. `misled` records what may
hide a submission from the store: `SubmittedOnce` holds until the server starts a turn by itself or a
request is refused at the cap; `NoConcurrentSubmit` until one of these, a turn the server
mints for a steer, or an error response to any request, which repaints the run state the idle check
reads; `PromptKept` and `PromptsDrain` with a server that runs one turn of a session at a time.
The table below has the counterexamples past these points.

Bounds of the locks: two wrappers and two checks give a holder, a contender and two probes that
overlap; each runs once, and a process that is started again is another one. Two clients and two
servers give a search that waits behind another, two servers that compete, and the record of
a server that died beside one that lives; a third server would be needed for the competition of
two beside the record of a third, which the theorems below cover. Both systems stop when all their
processes have been used, so deadlock is not checked; what must not stop is `AuthorityReturns` and
`DiscoveryEnds`.

Bounds of the mailbox: two servers share the files, and a third question comes after one server
has been killed and followed by another; two faults, because a server that fails to archive an answer
and is then killed does lose it. The history `unarchived` and `unremoved` ties that exception of
`AnswerKept`, and the one of `PairTaken`, to the very question whose write or removal failed. The quota is the real one. The system
does not stop, because servers end and start again for ever, so deadlock is checked.

Fairness of the transport (`ProtocolBackend!FairSpec`): the event loop ticks for ever (`WF` of
`NextEvent`), a handler runs to its end (`WF` of `Handler`; it is straight-line code), and a
barrier that stays armed is found due by some clock check (`SF` of the two expiries: deadlines
are wall-clock times, and the check runs on every tick).

Fairness of the turns (`PromptTurns!FairSpec`): the event loop reads queued events and ticks for
ever, times-to-live pass, the transport restarts its child, and the server answers requests and
starts and ends the turns it accepted. The user owes nothing, and no fault, interrupt, stream
or turn of the server's own is owed.

Fairness of the locks: processes that are not killed run on, clocks reach their deadlines and the
kernel finishes what it began with a dead process. No wrapper has to be killed, no agent has to
exit and no server owes anything: `DiscoveryEnds` holds by the deadline alone.

Fairness of the mailbox: a server that waits runs on and its clock reaches the deadline; the outer
loop owes no answer. The script that appends audit lines to the board is assumed to return:
`board_append` waits for it without a deadline (`src/olp_mcp.rs:146`).

## Findings

Three runs end in a violation of what the source's own comments say; PROJECT.json quotes them:
a rejected reopen lets later work reach scopes that were not reopened
(`backend_rejected_scope`), and a prompt that is typed while the replacement of a dead child
boots runs twice, because the reconcile re-stages the gate of a submission that waits for that
very child (`turns_boot_doubles`). A process that may ask the outer loop three questions refuses the
third, because the function that draws an id from the count of questions raises it as well
(`src/olp_mcp.rs:366`, `mailbox_quota`); `QuotaIsHalved` proves that this is so for every quota.

TLC finds more of them in instances of the same modules; each line names the property that
fails and the smallest instance seen. They are left out of the listed runs, whose instances
exclude what causes them, and are the reason for the bounds above.

| Property | Instance | What happens |
|---|---|---|
| `StreakCounted` | `ReconnectBackoff`, `ConnectTicks = 0..6`, a WebSocket | `ensure_connected` reads the clock before a connect that may block for 3 s (`src/transport.rs:1805`), so a connection that dies at once looks old and clears the streak. |
| `ReportedOnce` | `ProtocolBackend`, stdio, 1 command, 1 connection | A refused `send_text` has marked the link lost, which cancelled the entry, before `send` removes it (`src/transport.rs:3052`): the store gets two terminal events for one command. |
| `ReopenFollowsSelection` | stdio, 2 commands, 2 connections | Every replayed open is recorded as the reopen target (`src/transport.rs:2998`); a link lost in mid-chain leaves a scope there that is not the selection. |
| `ResolveOutstanding` | WebSocket, no launch session, 1 command, 2 connections | Without a session to reopen a reconnect does not replay the launch/resolve (`src/transport.rs:1853`). With a launch session the same happens to a stdio child that dies before its hello is answered. |
| `PromptKept` | `PromptTurns`, 2 prompts, 1 `"refusal"` | An error response to a turn/start leaves its gate in flight and the run state not in progress, so the next prompt starts and replaces the gate (`src/store.rs:726`), the only copy of the first. |
| `PromptKept` | 2 prompts, 2 sessions, 1 `"drop"` or 1 death | The marker of a submission the server dropped lives 10 s (`src/model.rs:11368`, which says that it mirrors the gate's time-to-live), its gate 120 s (`src/store.rs:96-113`). Between the two the user leaves the session and comes back: the switch prunes the marker and shows the session idle, and the gate of the next prompt replaces the old one, the only copy of the first (`src/store.rs:726`), which `src/store.rs:15339-15342` says must not happen. |
| `PromptKept` | 2 prompts, 1 death, steering | A steer the server answers with a turn of its own leaves the stash and arms no gate (`src/store.rs:1285`); the child dies before that turn starts. |
| `NoConcurrentSubmit` | 2 prompts, 1 turn of the server's own, without the condition on `misled` | That turn starts and ends while a turn/start is under way, clears marker and run state (`src/store.rs:706`), and the next prompt starts beside the first. |
| `NoConcurrentSubmit` | 2 prompts, 1 `"error"`, without that condition | An error response to any other request repaints the run state as an error (`src/model.rs:10104`, called from `src/store.rs:8027`), so the store takes a session whose turn/start is under way for idle, and the next prompt starts beside it. With two sessions a refused turn/start of the one does that to the other. With four prompts, a steer that reaches the server after its turn ended gets a turn of its own beside the next turn/start, and the terminal of that turn leaves the run state idle. |
| `NoConcurrentSubmit` | 2 prompts, 2 sessions, `SlowStarts` | The server takes longer than `PRE_TOKEN_TURN_TTL` to start a turn, and the user leaves its session and comes back: the switch forgets the aged marker (`src/model.rs:10318`) and repaints the run state as idle, and the next prompt starts beside the first. |
| `InOrder` | 2 prompts, 1 death | A prompt typed while an earlier one waits behind a backoff gate is started at once, fails, and is put in front of it (`src/store.rs:15382`). |
| `SubmittedOnce` | 1 prompt, 1 `"cap"`, without the condition on `misled` | `too_many_pending_requests` for any other request re-stages the gate on screen, whose turn/start is alive (`src/store.rs:8211`). |
| `LiveIsOpen` | 2 turns of the server's own, `twins` | After a switch from one turn to the other and a delta that switches back, the first one's terminal is taken for that of a finalized turn (`src/store.rs:14634`) and it stays live for ever. |
| `StashMatches` | 2 prompts, 1 death, steering, `BusyBoots` | A turn/steer refused while there is no child is not recognised as a steer (`src/store.rs:8082`), and its stash entry answers for the next one. |
| `ScopedWork` | WebSocket, 2 sessions, 3 connections | A send whose link is lost during its own reconnect dials again in `send_text` (`TransmitReconnects`) and sends its hydrate or turn right behind the reopen, without waiting for the answer; the deferral was decided before that second dial. |
| `TargetInScope` | `"err"` in `Answers` | A rejected reopen falls back to the confirmed target, which that connection has not opened. |
| "HELD means a holder exists" (`src/outer_duty.rs:42`) | `OuterDuty`, 2 checks | Two overlapping checks: the one that meets the other's probe prints HELD though nobody holds the duty. |
| "VACANT means nobody works" (`docs/OUTER_LOOP_PROTOCOL.md:97-98`) | 1 wrapper, 1 check | Between the kernel's closing of a killed wrapper's descriptors and the signal to its agent a check prints VACANT while the agent still runs. |
| "The wrapper's exit already released the lock" (`src/outer_duty.rs:366`) | 1 wrapper | Not while its child is between fork and exec: the child still has the descriptor, and the lock stays taken until it fails or is signalled. `AuthorityReturns` shows that it ends. |
| Checks cause no conflict (comment at `src/outer_duty.rs:178`) | 1 wrapper, 2 checks | One check cannot make `acquire` give up, but several that follow each other can (`ConflictIsReal` says exactly that). |
| "No competing server was started" (`src/shared_instance.rs:251`) | `SharedInstance`, 2 clients, 2 servers | Client A spawns a server and is killed or gives up before it took the ownership lock; B probes the lock free and unlocks, A's server takes it, B's own server finds it taken and exits, and B's search fails although a server serves; only the next search finds it. `CompetitorsWereLeft` says that this is the only way. |
| Sixty seconds to start a server | 2 clients | The deadline counts from before the startup lock (`Discover`), so a client that waited long for it spawns a server and gives up on it at the first poll. |

## Proofs

`ReconnectBackoffProofs`: `TypeOK` for all constants; for a driver whose connect does
not block (`ConnectTicks = {0}`), `StreakCounted`, `CrashLoopBacksOff`,
`HealthyRestartIsImmediate` and `DelayNeverShrinksInCrashLoop`. The inductive invariant
`StreakInv` adds to the streak the reason it is right: the age the code judges a
connection by equals the time it has been up, unless a frame proved it. Without the
assumption on the driver `StreakCounted` is false, as the table above shows.

`ProtocolBackendSafety`: `TypeOK` for all constants, one step per piece of handler code; it
carries two facts the code relies on: only opens and scoped work name a session, and an armed
barrier always names one. Then `DownIsClean`, `BarrierCoversCandidate` and `FlushNeverRaises` for all
constants, from the inductive invariant `SafeInv`. What makes these three true is which handler
may be called from which, so the invariant speaks of the stack: nothing above a flush dials
(`FlushFrames`), a `client_hello` is the first thing on a new link (`HelloFrames`), nothing above
a replayed open carries a hydrate or releases what waits (`OpeningFrames`), and bootstrap has no
reopen (`BootFrames`). With it, `DownClean` says what a lost link may still hold in the middle of a
handler: only the request for which `send_text` dials again. Two lemmas say what a return and a
call do to these frames (`ReturnFrames`, `CallFrames`); each handler then needs to name the frames
it pushes.

`ProtocolBackendFate`: the transport implements `CommandFate`, and `NeverSentAfterReport`, for all
constants. `SafeInv` says nothing of single commands, so a second inductive invariant, `PlaceInv`,
says where each of them is: in the frame of a `send` that has neither queued nor sent it, in the
deferred queue, among the pending requests, or in an `Err` on its way up, never in
two of these (`Apart`), and in none before it is issued (`Known`). A command of the store in none of
them has had its event (`Live`, `CarriedLive`), unless it is the open that was dropped; that
there is one of these at most, and that its session is the one remembered, is `BarrierOpens`: the
request a barrier waits for is the open of the barrier's session. That an `Err` does not lose a
command rests on the nesting of handlers: the frame of a command lies directly on the
event loop's call, which reports an `Err`, or above a flush, above which no `Err` leaves a send
(`Owned`, with `SafeInv`). That a deadline of the negotiation drops no command is `HelloIds`.
`Progress` says what one step may do to reports and requests. Quiet steps, returns, calls, losses,
queueing, tracking and flushing have a lemma each, and every handler is one of these.

`OuterDutyProofs`: `TypeOK`, `ActsUnderLock`, `OrphanIsDoomed`, `ConflictIsReal` and the step
simulation of `DutyAuthority`, for every number of wrappers and checks. The inductive invariant
adds that the lock is held by those who use it (`LockHeldByItsUsers`), that there is a child only
after the fork (`ChildAfterFork`), and, for conflicts, that what a wrapper met was really there.

`SharedInstanceProofs`: `TypeOK`, `CompetitorsWereLeft` and the step simulation of `SharedServer`,
for every number of clients and servers. The invariant `SearchInv` adds that a server that owns has
the lock (`OwnersHold`), that a server that begins is waited for by the one client under the startup
lock unless it was left (`StartersAreWaitedFor`), and that whoever owns while a search is about to
spawn was left (`OnlyLeftIntrude`): the gap between the probe and the spawn is covered by the
startup lock, not by the ownership lock.

`OuterLoopMailboxProofs`: `TypeOK` and `MailboxKept` for every number of servers, questions and
faults, and `QuotaIsHalved`. The inductive invariant says what a server holds of the question it
waits on (`Serving`: from reading the answer to removing it the answer is whole, and what it removes
is archived unless that write failed), that no two servers wait on one question
(`Exclusive`, which is what makes the unlocked files safe), and that the count is
twice the questions asked (`CountIsDouble`).

`PromptTurnsProofs`, for all sessions, servers, faults and bounds, unless it says otherwise:

* `TypeOK`, and `StashMatches` when no prompt goes out while there is no child
  (`BusyBoots = FALSE`; with it the table above has the counterexample). The inductive invariant
  `Sound` says that every turn the store, the requests or the server name is in the table of turns,
  which only grows (`Fit`, `Extends`), that a request under way is a request and an event what its
  kind says (`Lines`), and that the steers queued for cancellation and those on the wire, in this order, are
  what the stash holds (`Match`). That a cancelled steer answers the oldest entry rests on the
  cancellations being read before anything else is sent.
* `DoneIsOver`. `TurnsRan` says that a turn is to be started, accepted, running or over, in one of
  these at most, and that the store calls only the last kind finished. The hard step is the
  reconcile, which finishes what it finds latched: it may do so because a latch of the present epoch is
  left alone and a running turn is of the present epoch, which needs `Phase`: no turn runs from a
  child's death until the epoch marker of its replacement is read.
* `LiveIsOpen` and `LatchIsLive` for servers that run one turn of a session at a time (`twins` is
  false for all of `Servers`; with interleaved turns the first does not hold, see the table). `LatchesHold` adds
  that no running turn was finalized by a switch and that a live turn that does not run waits for the
  reconcile of its child's replacement (`Waits`). It needs that one turn of a session runs
  (`SoloRun`), a fact about the server, kept by `SessionIdle`.
* `StoppedStaysIdle`, as an action property: `NextCalm` goes through every handler. A drain that submits
  finds no live turn, so it cannot show work under a frozen one; whatever else shows work asks whether
  the live turn is the stopped one; the reconcile forgets every stop.
* `NoConcurrentSubmit` (`OneTurnAtATime`), for every kind of server, those that run two turns of a session
  at once included, when no prompt goes out while there is no child or it boots and a turn starts before
  its marker ages (neither `BusyBoots` nor `SlowStarts`; the table above has the counterexample to the second). As a property of a step it is not
  inductive; `Single` is. Until the store is misled, it waits for every turn that is on the wire or
  accepted (`Awaits`: the gate of its session is in flight for this turn and has not expired, the marker is
  fresh, no turn is live, and a session on screen shows work), it shows every turn that runs, every start on
  the wire names its turn's session, and none of this outlives the child. A session waits for one turn
  and shows one, never both, so a start that goes out beside another turn would contradict `Single` in the
  next state. `Minds` says what a handler preserves of this: whoever was waited for or shown still is, but
  for the turn the handler is about, and a new turn is waited for. The hard steps are the drain, which may
  submit only when nothing is waited for, the switch, which repaints the run state from marker and live
  reply, and the reconcile, which forgets all gates and may because no turn outlives its child.

`PromptTurnsPlaces`, for all sessions, servers, faults and bounds, as long as no prompt goes out
while there is no child or it boots:

* `SubmittedOnce` (`OneTurnPerPrompt`), and `AnsweredOnce` until a turn of the server's own or a refusal
  at the cap made the store take a live submission for dead (`StartedIsNotStaged`); for servers and
  clients without these two, `AnsweredOnce` throughout (`AnsweredForGood`). Neither property is
  inductive: the store has a prompt in a queue, in a gate, in the stash of steers or among the retained
  ones, the requests and the server have it as a turn, and nothing names the prompt across these.
  `At` says in which of these places a prompt is. A gate that is in flight and the turn it waits for are one
  place, for the store puts the prompt back only when it has given the turn up. `Unique`: a prompt is in at most
  one place. `Loose` is a prompt that a handler may stage; an answered one never is (`Stored`), except in
  places from which no handler takes it again (`Shield`). `Fed`: a steer the server has taken is retained
  until the server reports it, so a steer that was consumed cannot be submitted. `Told`: a start on the wire
  carries the prompt of its turn, and so do the steers. `Placed` is all this, and it holds while the store is not
  misled (`Clear`); `Firm` is what `PromptTurnsProofs` has shown. A handler moves each prompt from one place to
  another (`Shifts`) or forgets some (`Fewer`), and one lemma per handler says which; the reconcile, which moves
  all gates, all stashed steers and all retained ones of a server that does not settle them at once, is
  a sequence of such moves.
* `PromptKept` until the store is misled at all, if turns start before their markers age: with one
  session, through any number of deaths, drops, rejections and refused steers (`NoPromptLost`), and with
  any number of sessions, switches and hydrates while the child lives and the server drops nothing
  (`NoPromptLostAnywhere`, whose condition on the servers is `Lasting`). For a server that takes no
  steers, starts no turn of its own and sends no error response (`Truthful`), and one session, nothing
  misleads the store and `PromptKept` holds throughout (`PromptsAreKept`).
  `Saves` says of a handler that each prompt it finds in the store it leaves there, in whatever place;
  the one handler that can fail to is the prompt typed into a session taken for idle, whose gate takes
  the place of the old one. So `Safe` (every prompt is answered or in the store, and every
  retained steer of a server that settles them is answered or still an input of its turn, `Settling`)
  needs `Guarded`: a gate in flight is beside no live reply, and on screen beside a working run state.
  `Guarded` is not inductive, and its two strengthenings are the two theorems. With many sessions
  `Expected`: while nothing kills or drops a submission, every gate in flight waits for a turn that is
  under way, and `Single` of `PromptTurnsProofs` says how the store looks while it waits. With one session
  `Lone`: a gate in flight and a working run state without a live reply come together, whatever became of
  the submission; since an answered or cancelled interrupt repaints the run state, a gate is still
  followed on the wire, or among the cancellations, by the start that will re-stage it (`Followed`),
  and the watchdog never takes the session for a phantom, so no hydrate is under way (`Unhydrated`).
  The conditions are those of the counterexamples above: `misled = {}` of `src/store.rs:726`, `Lasting` or
  one session of the switch that loses a dropped submission, and `Outlived` of `src/store.rs:15203`, where the reconcile takes what
  a server that settles steers retained for consumed.

Every handler of the store has one lemma that says what it does to the parts the invariants speak of
(`DrainData`, `CommitData`, `RelaunchedData` and so on, with named relations like `Drained`,
`Concluded`, `Reconciled`); the invariants are proved from these relations, never from the handlers'
records. `Entries` and `Select` take the place of `SelectSeq`, which the provers do not expand;
`EntriesAppend` and `EntriesTail` say how they meet the ends of a sequence, and `MCPromptTurns` has TLC
compare `Select` with `SelectSeq`.

All rest on the named assumptions of the modules' constants and on the conditions a theorem names. Everything
else is model-checked only: liveness under fairness is out of the prover's reach;
`WaitersHaveABarrier` does not hold for every limit (a reopen refused at the cap leaves a chain
without a barrier on a WebSocket), and neither does `ReconcileBeforeWork` (with a limit of one,
TLC finds the reopen refused at the cap, so nothing holds the next turn back; with the limits of
the runs it holds); and `TargetInScope` holds only while no open is refused (the table above).
`PromptKept` is proved up to the point where it stops being true; beside a server whose turns start
late (`SlowStarts`), and for what happens after the store was misled, only the runs speak.

## Plan

1. `Approvals`: one slot for the approval on screen (`src/model.rs:9277`), the stash of others, the
   answer under way, and the run state `Blocked`. Reading the code for it has shown where its
   properties will need restrictions: the slot is overwritten by a second request, a stale stash
   entry can be promoted (`src/store.rs:16107`), an answer after an interrupt leaves the session
   blocked (`src/store.rs:7401`), terminals do not clear the slot, and a refused answer does
   not bring the request back.
2. `PromptTurns`: the restoring of a stopped prompt, the snapshot replay of a reopened session; an
   abstract specification of one prompt's fate, as `CommandFate` is for a command.
3. The tasks of a stdio child and their channels; goals, loops and peers; history and viewport.
4. Proofs: `WaitersHaveABarrier` for a stdio child; `ReconcileBeforeWork` for the transport under a limit a reconnect's own requests cannot reach.

## Not modelled

Most of the source lays out text (rendering, transcript, menus, view models), fills in forms
(onboarding, profiles, configuration) or translates values to and from JSON. These are pure
functions or sequential dialogues whose correctness is their output's wording and shape; a
model of them would repeat them. `PROJECT.json` lists every component with its status.

Small paths of modelled components are left out as well:

* `OuterDuty`: an `acquire` that fails for another reason than a held lock (the wrapper reports it and
  ends, holding nothing), and the kill of a check, or of a child before its `exec`, as an
  action of its own;
* `SharedInstance`: two errors of the lock files other than a held lock, which end the search;
* `PromptTurns`: the `invalid_result` arm of a steer, whose prompt is then neither taken back
  nor staged, and `frame_too_large`, which leaves the run state as it is.
