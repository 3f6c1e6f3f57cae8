# Clayrune in TLA+

Clayrune is a "mission control" for AI coding agents: a Flask server
(`src/server.py`, `src/app.py`, `src/mc/`) starts agent CLIs, steers their
conversations, lets agents delegate work to child agents, and promises that
what a child finished reaches the agent that asked for it, through crashes,
restarts, deletions and people pressing buttons. This directory holds TLA+
models of the parts of that program where such promises are hard to keep, the
TLC configurations that check them, and TLAPS proofs of the central ones.

`PROJECT.json` indexes the project: components, runs, mutants, the source lines
each definition stands for, findings, hazards and theorems.

## 1. Inventory of the system

| Component | Source | State it keeps | Operations | Interaction | What is hard | What makes it correct |
|---|---|---|---|---|---|---|
| Delivery store | `mc/delegation_delivery.py`, `mc/delegation_settlement.py` | SQLite tables `completion_sources`, `outbox`, `inbox`, `revocations`, `project_generations`, settlement columns | record source, enqueue, accept, claim, finish, retry, resolve, revoke, recreate, reconcile, settlement evidence | called by the loop, HTTP routes, stream readers, deletion routes | transactions of several threads in any order, lapsed leases, late calls after a deletion | deleted data never reappears; a row is moved only by its own claim; verdicts are final |
| Delivery loop and handoff | `mc/delegation_delivery.py` `drain_once`, `agent_routes.py` `_deliver_outbox`, `_process_inbox` | one thread's progress, leases and fence tokens, the parent's `_report_attempt` | drain, POST, admit under the manager lock, revive, call the follow-up handler, classify the failure | store, HTTP to itself, session registry, CLI stdin | crash between writing to the parent and recording it; time-outs racing late answers; two concurrent drains | at most one copy of a report per reviewed attempt; every report comes to a verdict |
| Settlement and waker | `mc/delegation_settlement.py`, `mc/delegation_transcript_reconcile.py`, `mc/delegation_wake.py` | evidence of the last handoff, one resend allowance | transcript scan, resend, park, wake blocked rows | reads the parent's transcript | absence today is not absence tomorrow when a writer is still alive | resend only when no copy can still arrive |
| Delivery lifecycle | `agent_routes.py:9246-9384` | current loop thread, its stop event, shutdown flag | start, stop | server boot and shutdown, tests | join with a time-out, a stop that comes from the loop itself, start while stopping | never two live loops |
| Execution lifecycle | `mc/execution_lifecycle.py`, `mc/runtime_attempt_owner.py`, `mc/conversation_store.py` | requests, attempts, owners, evidence, snapshots | claim, transition, reconcile, delete, snapshot | the runtime that executes a turn | a stale owner reporting after a new one took over | a terminal outcome is final; late evidence moves nothing |
| Agent shim | `mc/agent_shim*.py` | sequence numbers, owner, spool, lifetime, checkpoints | HELLO, SEND, ACK, adopt, expire, checkpoint, replay completion | server and shim are two processes joined by a socket | reconnects, duplicated sends, ownership races, a server that died between two steps | every line reaches the CLI once, in order; every completion is stamped |
| Background jobs | `mc/agent_jobs.py`, `mc/bg_job_liveness.py` | job table | start, poll, finish, reap | notices ride the delivery store | lost processes, reused pids | a finished job is announced once |
| Mid-turn sends, rollover | `mc/mid_turn_send.py`, `mc/midturn_rollover.py` | queued messages, rollover phase | queue, flush, roll over | session registry | a message arriving while a turn ends | no message is lost or doubled |
| Questions | `mc/question_channel.py`, `mc/question_callback.py` | open questions | ask, answer, expire | rides the inbox | an answer racing an expiry | one answer per question |
| Scheduler, workflows | `mc/workflows.py`, `blueprints/scheduler_routes.py` | triggers, run state | tick, start, resume | starts agents | missed and doubled ticks | a run advances once per step |
| Hivemind, worktrees | `mc/hivemind_*.py`, `mc/agent_worktree.py` | worker branches, cycle state | dispatch, integrate, review | git | partial failure of a merge | no branch is lost |
| Allowance, budgets, clock | `mc/allowance_state.py`, `mc/api_credits_budget.py`, `mc/turn_clock.py` | counters and windows | reserve, commit, expire | gate of dispatch | boundaries, clock jumps | spending stays within the cap |
| Remote access | `mc_remote/`, `control_plane/`, `beacon/` | tunnel state, enrolment | supervise, reconnect | cloud service | reconnect storms | one tunnel |
| Steward | `steward/` | policy | classify a command | agents | text classification | out of scope |
| Chat window stream | `static/js/resume-preview.js`, `static/js/conversation.js`, `static/index.html`, `agent_stream` and `agent_status` of `agent_routes.py` | the window's copy of a session's log and the cursor into it; EventSource, retries, timers, requests on their way; the status pill | stream events, status poll, reconciler, fallback poll, freshness tick, reset replay | the browser and the server over HTTP; four paths write one buffer | sockets that die silently, answers that land late and out of order, a session purged and revived with a shorter log | every line once; nothing shown is taken away; the pill comes true; a running session gets its stream back |
| Memory, views, sync, the rest of the front end, installer, tools | the rest | data and files | I/O | | | out of scope |

## 2. Modules

| Module | What it is |
|---|---|
| `DeliveryStore` | the tables and every transaction on them, one action per transaction |
| `DeliveryStoreCalls` | the store as a component of its own: every operation, any argument, any order; its promises |
| `ReportDelivery` | what delivery promises of a report, without tables, claims, leases or requests: the abstract specification of the next ones |
| `DelegationDelivery` | the system: children, the loop, HTTP, the handoff, the parent's CLI, settlement, people, crashes; built on `DeliveryStore`'s actions |
| `MCDelegationDelivery`, `MCDeliveryStoreCalls` | instances for TLC |
| `DeliveryStoreProofs` | what each operation of the store does to the rows (TLAPS); both of the next rest on it |
| `DeliveryStoreSafety` | the safety promises of `DeliveryStoreCalls`, and that it implements `ReportDelivery` (TLAPS) |
| `DelegationDeliveryProofs` | the safety promises of `DelegationDelivery`, and that it implements `ReportDelivery` (TLAPS) |
| `DeliveryLifecycle` | who owns the delivery thread: start, stop, rewiring, joins that time out |
| `DeliveryLifecycleProofs` | there is one loop and a stopped one stays fenced (TLAPS) |
| `ShimChannel` | the stdin channel of an agent shim: numbered sends, reconnects, ownership, blocking writes |
| `MCShimChannel` | its instance for TLC |
| `ShimChannelProofs` | sockets, connections, writer and owner stay wired as typed (TLAPS) |
| `ShimChannelSafety` | lines reach the CLI in order and once; the two counts agree (TLAPS) |
| `ShimLifetime` | how a shim ends: its main loop, the thread that waits for the CLI, expiry, owners that come and go |
| `ShimLifetimeProofs` | a shim leaves only after its CLI and the record of its exit (TLAPS) |
| `ChatStream` | how a session's lines reach an open chat window: stream, poll, reconciler, fallback, and the session's turns, purge and revival |
| `ChatStreamProofs` | the window's buffer is the log it counted, and never shrinks (TLAPS) |

### 2.1 How the modules correspond to the code

**DeliveryStore.** One function per table (`sources`, `outbox`, `inbox`), each
mapping an event id to its row; an absent row has `state = "absent"` (or
`present = FALSE`). `generation`, `projectTomb`, `sessionTombs` and `eventTombs`
are `project_generations` and the three kinds of `revocations`. SQLite runs each
public method of `DelegationDeliveryStore` in one `BEGIN IMMEDIATE`
transaction, so each is one action. Time is abstracted: `lease` is TRUE until
`LeaseLapses`, and a row in back-off may be claimed at any moment (so
`next_attempt_at` and the waker's `_wake_pending` need no state of their own).
`MaxAttempts` is the code's `max_attempts`, `MaxGeneration` a bound.

**DeliveryStoreCalls.** The store's interface without its callers: every method,
with every argument, in any order, and tokens that are never reused (`issued`).
What it promises therefore holds for every present or future caller.
`revoke_event` has no caller in the repository and appears only here.

**DelegationDelivery.** The callers:

| Actor | Actions | Code |
|---|---|---|
| a child | `Dispatch`, `ChildEnds`, `Note`, `NoteOutbox`, `LogRow`, `RecoverFromLog` | completion boundary, `_notify_agent_spawner`, agent-log row, start-up recovery |
| a drain, sending | `StartPass`, `RecoverSource`, `SendOutbox`, `SendTimesOut`, `EndSend` | `drain_once`, `recover_sources`, `_deliver_outbox` |
| the HTTP receiver | `Receive` | the `delegation/inbox` route and `accept` |
| a drain, handing over | `TakeInbox`, `FirstCheck`, `Admit`, `Revive`, `SetBoundary`, `CallParent`, `RecordAnswer`, `EndAttempt` | `_process_inbox` under the project's manager lock |
| the parent's CLI | `Reads`, `Loses`, `LateWrite`, `TurnEnds` | stdin writer, stream reader, result event |
| settlement | `SettleDelivered`, `SettleAbsent`, `Wake` | transcript scan, `authorize_absence`, `delegation_wake` |
| people | `Retry`, `RetrySend`, `MarkHandled`, `UserTurn`, `ParentStops`, `ParentRemoved`, deletions, `Recreate` | the routes of the same names |
| the server | `Shutdown`, `Crash` | `stop_delegation_delivery`; a kill followed by a boot |

What is abstracted, and why it loses nothing the properties see:

- The transcript scan's text matching becomes "the report's header is in the
  transcript". `transcript`, `pipe` and `late` count copies of a report: read by
  the CLI, in its stdin, or in a writer that outlived its time-out.
- A fence token is a uuid4. `DelegationDelivery` reuses a token nothing refers
  to any more (at most four of the five are in use, so a fresh one is always
  there); `DeliveryStoreCalls` never reuses one.
- `agent_session_delete` holds the lock twice: `ParentStops`, then `ParentRemoved`.
- Before it settles a report the code also asks that no writer be pending, that the
  transcript be the parent's own and that no question be open. `SettleDelivered` and
  `SettleAbsent` do not, so they settle more often than the code.
- `Crash` keeps the database, the agent log and the transcript; a parent is
  adopted through its shim with the unread part of its stdin, or is gone.
- The wake-up test on the status-block prefix and the waker's once-only memory
  are left out; the model wakes at least whenever the code does.
- `closing` is cleared only by a restart here. Its life inside one process is
  `DeliveryLifecycle`'s subject.

Assumptions about external programs, each named where it is used: a CLI has
read its stdin before it ends a turn (`TurnEnds`); an HTTP answer that refuses a
followup (4xx, or a failed acknowledgement) means that nothing was written.

**ReportDelivery.** The promise, per report: where it stands (`none`, `open`,
`waits`, `waived`, `closed`, `deleted`), how many copies of it were put to the
parent and may still reach it, and how many replays a person asked for. The
detailed modules implement it under the mapping `Standing` (in `DeliveryStore`:
the inbox row speaks for the report once there is one, as in
`delegation_waiting.py:121`) and `Copies` (in `DelegationDelivery`):

| Promise | Done by |
|---|---|
| `Record` | the first of completion source, outbox row |
| `Answer` | submitting, parking, the pass over lapsed claims |
| `Review` | a person's retry |
| `Reopen` | the waker, the automatic resend, a late acceptance; never with a copy out that nobody asked for |
| `Close`, `Waive` | mark handled and the transcript's confirmation; `Waive` while only the outbox row exists |
| `Recall` | a late request accepted after `Waive`: the finding of run `resolved`, here as a step of its own, so that nothing else may do it |
| `Delete` | the three scopes of deletion |
| `Hand`, `Lose` | the parent being called, revived, or gone |

It says in one formula what the properties of the runs say in pieces, and also
what none of them says: that a drain moves no report past an answer, that a copy
goes only to a report that is recorded and neither waived nor deleted, and that
it may still arrive after a person closed a report whose attempt had lost its
lease (`Hand` allows `closed`; without that, TLC shows the attempt).
The tables alone (`DeliveryStoreCalls`) hand nothing over and review nothing, so
there copies and reviews are zero (`Tables`).

**DeliveryLifecycle.** `wire`, `start_delegation_delivery` and both ends of
`stop_delegation_delivery` run under `_delivery_lifecycle_lock` and are one
action each; the join in between holds no lock and is a step of its own that may
time out. A loop reads its stop event, enters the iteration gate, drains, may
call stop on itself from inside a drain (the code has a branch for it), and ends.
A stop whose join timed out leaves starts refused until a later stop sees the
thread end; the docstring asks for that, and no property calls it a fault.

**ShimChannel.** Server processes and one shim, joined by connections. A
connection has two queues of messages and a handler thread at the shim's end
(`_serve`).

| Actor | Actions | Code |
|---|---|---|
| `ShimClient` in a server | `Attach`, `Send`, `Dial`, `DialFails`, `Refused`, `Greeted`, `Answered`, `ReadFails` | `connect`, `send` with its two attempts |
| server processes | `Boot`, `Die` | external |
| a handler | `Greet`, `Take`, `Displaced`, `Admit`, `Decline`, `Write`, `WriteFails`, `Leave` | `_claim_owner`, `_serve`, `_do_send`, `_release_owner` |
| the main loop | `IdleClose` | `_close_stdin` of an orphan |

`client[s].why` is what a connect is for: nothing yet (`attach`, adoption at
boot), the first attempt of a send, or the second. `conn[c].link` is `open` from
the shim's OK on, `cut` once `_claim_owner` shut it down in favour of another,
`shut` when its handler is gone. `Admit` to `Write` is `cli.stdin.write`, which
may take any time under `_send_lock` while owners change. `IdleClose` acts on an
owner looked for before the process tree was measured, so it asks only that the
first owner has died at some time (`ShimLifetime` splits the two steps). The number of a line
and the line itself are different things here, as they are in the code: only
that makes "taken for a repetition" expressible. A claim and its OK are one
step (no other handler can act for the claimant in between); `not_owner` is
never seen by a client since its connection is shut down already, so it is the
end of the handler and no message.

**ShimLifetime.** The same shim seen from its end. The owner's connection is
reduced to what `_attached` and `_send_lock` see of it (`ownerConn`, `oldWriter`:
the handler of a displaced connection that still sits in a write). The main loop
is split where other threads can come in between: `Observe` (the event and
`_attached`), one `Decide...` per branch of `LifetimePolicy.tick`, the close that
waits for `_send_lock`, the expiry's check and its kill. Likewise the wait
thread: `Reap` (`cli.wait` returns), `Flag` (under `_cli_lock`), `Record`,
`Announce`. Clocks hold the threshold they passed, not seconds; the idle test
(a silent log and a process tree that does nothing) is the parameter `idle`.
The servers that attach here are entitled to (`Greet` decides that in
`ShimChannel`), and a CLI ends when it wants to or is killed.

**ChatStream.** One session of the stdin kind and one visible window with its
chat in front. A line is a number; `log` is the session's `log_lines`, `buf`,
`cursor` and `dom` are `agentOutputBuffers`, `agentServerLines` and what the
output node holds; `cache` and `hist` are the two places a status is kept
(`agentStatusCache`, `agentHistory`); `hold` is a replay being collected.

| Actor | Actions | Code |
|---|---|---|
| the server | `Produce`, `EndTurn`, `StartTurn`, `Exit`, `Purge`, `Revive`, `Launch`, `EndTerminal` | reader thread, `agent_followup`, the scheduler's purge, revival from the agent log, the terminal routes |
| the stream | `GenSlice`, `GenYield`, `GenStatus`, `Drop` | `agent_stream`'s loop: the slice, a yield per line, the status; the network |
| its events | `OnOutput`, `OnReset`, `OnTurnStart`, `OnEnd`, `OnError` | `onmessage`, `onerror` |
| timers | `CheckLands`, `Retry`, `Watchdog`, `FreshnessTick`, `ReconcileTimer`, `SettleReplay` | `_checkServerRestart().then`, `connectAgentStream`, the 5 s tick of `index.html`, `_settleHistoryReplay` |
| requests | `AskPoll`, `Resurface`, `FallbackAsks`, `PollLands`, `ReconcileLands`, `FallbackLands`, `LoseAnswer` | `fetchAgentStatus`, `_reconcileAgentBuffer`, the 15 s poll |

A request and the server's reading of it are one step, the landing of its answer
another: what the answer holds may be old by then. Polls may overtake one another
(`poll` is the set of those on their way). The code lets one reconcile run at a
time; that one fallback request is under way at a time is the model's. A line may
be appended between two yields, and the last yield counts it as sent. Answers list
the log without the lines of ended terminals (`Listed`), and a poll puts the task's
prompt in front of a log that has none (`Shown`, `Task`). `checks` counts the
restart checks `onerror` waits for, `stale` those whose status entry a poll has
replaced since (they write to the old object), `retryDue` the timers that will
reconnect.

What the code does to the buffer without knowing where a line belongs is recorded
in three flags that only the properties read: `guessed` (a merge anchored on a line
the screen has more than once, a recovered slice with two equal lines, an older
answer that was taken whole because the made-up prompt makes it as long as the
buffer), `adopted` (the fallback replaced the buffer), and `misfiled` (a check gave
up through a replaced status entry). Section 5 says what each of them costs.

## 3. Runs

| Run | Question | Bounds | Distinct states |
|---|---|---|---|
| `store` | Do the tables keep their promises, and the one of `ReportDelivery`, whatever is called, in any order? | one report, parent and child, 2 claims, 1 attempt, generations to 3 | 49 thousand |
| `handoff` | Can two drains, lapsed leases, late writers, a swallowed message, the automatic resend, a reviewed retry, a shutdown and a restart give a parent a report twice, or lead it along a way `ReportDelivery` does not have? | one report waiting, 2 drains (symmetric), 2 attempts, 1 review, 1 loss, 1 shutdown | 1.3 million |
| `restart` | Does a completion survive store faults and a crash at any step, and come to a verdict without a copy too many, as `ReportDelivery` has it with its liveness? | one child from dispatch, 1 drain, 1 attempt, 1 crash, 1 review, failing store operations | 469 thousand |
| `deletion` | Does a committed deletion stop two drains at every step of the handoff, and is a child's report stored in the generation its work belongs to, across deletion and recreation, all of it as `ReportDelivery` allows? | one child from dispatch, 2 drains (symmetric), 1 attempt, 1 deletion, generations to 3 | 1.5 million |
| `two` | Do a child's report and a job's notice for the same parent both come to a verdict? | two reports waiting, 1 drain, 1 user turn | 142 thousand |
| `loops` | Can overlapping stops, time-outs, failed starts and a rewiring leave two delivery loops, an unowned one, or one that never ends? | 3 loops, 2 callers of start and stop | 2.5 thousand |
| `channel` | Can reconnects, take-overs, buffered sends and writes that block across a take-over lose, repeat, reorder or swallow a line? | 2 servers of 2 lines, 3 connections, 2 time-outs | 810 thousand |
| `lifetime` | Does an orphaned shim end on its own timers, with its CLI and the record of its exit, its expiry fenced from the wait thread, although the CLI may stop reading for good? | 2 attaching servers | 20 thousand |
| `chat` | Do silent drops, a slice sent line by line, late answers with a terminal's line left out or a made-up prompt, repeated lines, retries, a purge and a revival leave a window with every line once, a true status and a live stream, and take nothing away? | 3 lines to begin with, none a prompt, the last of them may be said again; lines, terminals, purges, revivals, losses and polls 2 together; 1 retry | 864 thousand |
| `chat_unseen` | Is a chat that is being streamed kept on screen while polls land beside the stream? | 2 events, a prompt, no terminal, no repetition | violated |
| `given_up` | Does a send that returns mean that its line was written, also after another was given up? | 1 server | violated |
| `resolved` | Does a report a person marked as handled stay handled? | one child | violated |

Why the bounds are enough for what they are asked:

- *One report.* Rows of different events share no state but the generation, the
  tombstones, the manager lock and the parent's `_report_attempt`. `two` puts two
  reports of different kinds on one parent, where the last two matter.
- *Two drains* are one more than production runs; `drain_once` is declared safe to
  call concurrently, and an attempt whose lease ran out is a second drain too.
- *Two attempts* separate "first failure, back off" from "last failure, park"; one
  is enough where only the verdict counts.
- *Three generations*: 0 is a project never deleted or not stamped, 1 the first
  stamp, 2 the one a deletion opens and 3 the one a recreation opens, which lets
  work of all ages meet in one state.
- *One* crash, deletion, review, loss: each property is about what one of them
  does to everything under way, and the run puts it between any two steps.
- *Three loops*: the one being stopped, the one that replaces it, and a third to
  be disowned or doubled by the end of a stop that belongs to the first.
- *Two servers, three connections*: a server that reconnects uses two, the one
  that takes over from it a third, with the buffered lines and the blocked write
  of both predecessors still there. Connections are interchangeable (symmetry).
- *Two events, one retry* in the chat: three lines are on screen at the start, one of
  them a tool line that a revival's transcript does not give back; two events make
  the shortest stories of a purge with its revival, a drop with a line missed, two
  lines in a row, a line written while the generator yields, a line and a poll,
  polls that overtake one another. What the stream, the timers, the reconciler and
  the fallback do is not counted. A second retry repeats the first (the code
  retries three times). A poll after a terminal's end takes three events, which
  TLC was given for section 5 only. With every line allowed to be repeated the
  run passes too, in four minutes (1.4 million states); with the prompt in the log
  its safety properties do (2.1 million). `WindowShowsLog` and
  `HistoryStays` are proved for any number of events and for every choice of
  `Repeats`, `Terminals` and `Unseeded`.
- *Two attaching servers* in the lifetime run: one whose handler is stuck in a
  write, and one that displaced it.

Deadlock checking is on in the passing delivery runs, and none deadlocks: the
bounds stop people and faults, not the loop. It is off in the shim's runs, where
the system really ends: a shim that finished, or servers that are all dead with
their lines used up.

### 3.1 Fairness

`restart` and `two` check `EveryReportIsSettled`, `restart` also
`KeepsLivePromise` (no report stays open), and `loops` checks
`StoppedLoopEnds`. They assume, and the code gives, the following:

- the loop thread drains every five seconds, and each step of a drain is plain
  code: weak fairness on every step of `drain_once` and of the handoff;
- `urlopen` gives up after ten seconds, so a request is answered or times out;
- leases last thirty seconds and then lapse;
- a CLI that is fed reads, and ends its turns;
- strong fairness on taking one row: claims go oldest first, and a row that
  failed backs off for `min(300, 2^(n-1))` seconds, so it cannot keep another
  from its turn for ever.

Nothing is assumed of people, children, settlement, the waker or crashes. In
`DeliveryLifecycle` only the loop threads are fair; callers of start and stop are
obliged to nothing, not even to return from a join.

`lifetime` checks that orphans end (`FreeOrphanEnds`). It assumes that the shim's
two threads run, that time passes for its clocks, that a CLI which reads takes
what was written (`WriteEnds` is enabled only then, or when the CLI is gone), and
that the kernel closes the sockets of a dead server, so its handler reads the end
of input unless it is stuck in a write. Nothing is assumed of servers, nor that a
CLI ever ends by itself.

`chat` checks `CatchesUp`, `PillRests` and `StreamReturns`. They assume that the
generator's loop runs, that the browser delivers the events and errors it has,
that the timers of the page fire and its restart checks come back, that the
freshness tick and the fallback ask again and again, and that what was asked is
answered or fails. Nothing is assumed of the agent, of people, of the network (which may drop
any connection, bounded in number), nor that anyone polls.

## 4. Proofs

Every invariant and action property that a passing run checks is also a
theorem; the liveness properties are not (below). TLC looks at one or two
reports, two drains, three loops, two servers of two lines and a log of a few
lines; the theorems hold for any set of events, sessions, drains, tokens, loops,
servers, connections and callers, and any number of lines, attempts, generations,
crashes, deletions, losses and reviews. The assumptions are `DeliveryAssumption`,
`DrainAssumption`, `LoopAssumption`, `LifetimeAssumption`, `ChannelAssumption` and
`ChatAssumption` (the sentinels are not members of the sets they complete, every
event has a parent, bounds are natural numbers), which TLC evaluates in the runs.
One theorem, `ReportsAreKept`, has a hypothesis of its own on the constants; it is
discussed where it is named below.

| Theorem | Property | Run |
|---|---|---|
| `CallsTypeCorrect` | `CallsTypeOK` | `store` |
| `StoreInvariant` | `StoreInv` (supports the rest) | |
| `ReceiptsAreTrusted` | `ReceiptIsTrusted` | `store` |
| `DeletionsHold` | `DeletedIsGone` | `store` |
| `VerdictsAreFinal` | `VerdictIsFinal` | `store` |
| `RemovalsLeaveTombstones` | `RemovalLeavesTombstone` | `store` |
| `AllowancesAreSpentOnce` | `AllowanceIsSpentOnce` | `store` |
| `StoreKeepsPromise` | `TablesKeepPromise` | `store` |
| `ControlInvariant` | `ControlInv` (supports the rest) | |
| `TypeCorrect` | `DelegationDelivery`'s `TypeOK` | `handoff` |
| `DeliveryInvariant` | `DeliveryInv` (supports the rest) | |
| `NoDuplicates` | `NoUnreviewedDuplicate` | `handoff`, `restart`, `two` |
| `EvidenceStaysCurrent` | `EvidenceIsCurrent` | `handoff` |
| `AcknowledgedIsReceived` | `DeliveredIsReceived` | `restart` |
| `ResendsWhenGone` | `ResendOnlyWhenGone` | `handoff` |
| `DeletionsStopHandoffs` | `NoHandoffAfterDeletion` | `deletion` |
| `PromiseIsKept` | `KeepsPromise` | `handoff`, `deletion` |
| `ReportsAreKept` (where nothing fails) | `ReportIsKept` | `deletion` |
| `LifecycleInvariant` | `LifecycleInv` (supports the rest) | |
| `LoopIsUnique` | `OneLoop` | `loops` |
| `StoppedLoopsAreFenced` | `StoppedLoopIsFenced` | `loops` |
| `WiredAlways` | `Wired` (supports the rest) | |
| `ChannelTypeCorrect` | `ShimChannel`'s `TypeOK` | `channel` |
| `OrderInvariant` | `OrderInv` (supports the next) | |
| `LinesStayInOrder` | `LinesInOrder` | `channel` |
| `AgreeInvariant` | `AgreeInv` (supports the next two) | |
| `CompletionsAreWritten` | `DoneUnlessGivenUp` | `channel` |
| `NumbersStayEqual` | `NumbersAgree` | `channel` |
| `EndInvariant` | `EndInv` (supports the rest) | |
| `ShimTypeCorrect` | `ShimLifetime`'s `TypeOK` | `lifetime` |
| `ExitIsRecorded` | `GoneIsRecorded` | `lifetime` |
| `ExpiryHoldsItsFence` | `ExpiryIsFenced` | `lifetime` |
| `ChatTypeCorrect` | `ChatStream`'s `TypeOK` | `chat` |
| `HistoryStays` | `HistoryIsKept` | `chat` |
| `WindowShowsLog` | `BufferIsLog` | `chat` |

*The store.* The promises are not inductive alone: a row that is absent might, as
far as types go, carry a spent allowance or a token that the next report of the
event would inherit. `StoreInv == CallsTypeOK /\ AbsentIsEmpty` excludes that.
`CallSplits` sorts the calls once: a call that moves one event's rows along
(`RowsContinue`), one that files a child's report (`ChildCall`), one that
removes rows and leaves tombstones (`Removal`), and one that renews the project. Each theorem then takes these
few cases instead of twenty calls, and opens a single call only where it
matters: for the allowance (`authorize_absence` and the retries).

*The refinement.* `StoreKeepsPromise` maps every call to a step of
`ReportDelivery` or to none. Every call but the project's touches the row of one
report (`OnlyRowOf`), so `OneReportSteps` reduces it to the pair of standings it
takes that report between (`Step`), and what is left per call is a fact about one
row; it needs the types and no more. The pass over lapsed claims and the
deletions move several reports to one standing (`MoveOfSet`, `PurgeSteps`).

*The delivery loop.* `ControlInv` comes first: the types, the two store
invariants, and who holds what. `LoopInv` says that one drain has the parents'
lock, that no two drains have one fence token, and that a request whose sender
waits is its only one; `ParentInv` that a parent's record names an attempt made on
it, and that a parent about to be called has no turn running. With these, a step
is a step of one handoff or leaves the handoffs alone (`AsideStep`), and makes one
call of the store at most, which `DeliveryStoreProofs` has dealt with.

`NoUnreviewedDuplicate` is far from inductive: that no copy too many goes out
depends on what a row in the inbox proves of an attempt made long before.
`RowInv` collects that. A settled row belongs to the last attempt
(`SettledIsLast`), the attempt in progress has settled nothing before its parent
answered (`OwnRowUnsettled`), and the boundary beside it is its own, without a
completion before the call (`OwnBoundary`; job notices have none,
`JobsHaveNoBoundary`). `HandedIsStored` says that a copy in a drain's hand has a
row under it, `ReceiptInv` that whoever was told of an acceptance left an inbox
row behind. `RoomInv` then counts: no more copies are out than were asked for
(`OutIsBounded`), a row that may be claimed, or a claim that may be given back,
has room for one more (`ClaimHasRoom`), and a submission that is settled was read,
is still in the CLI's stdin, or is lost and so has room (`EvidenceHolds`, with the
completion that rules out the second). The last clause is what makes the automatic
resend safe, and it is where the fence tokens and the boundary's order in the
transcript are used. `DeliveryInv` is the conjunction. `ResendOnlyWhenGone`,
`NoHandoffAfterDeletion` and the refinement follow from it step by step; for
`KeepsPromise` the copies and reviews of `ReportDelivery` are those of the model,
and a step maps to at most one of its moves (`PromiseStep`). TLC checked
`DeliveryInv` on the instances of `handoff`, `restart`, `deletion` and `two`
(2.5, 0.47, 2.9 and 0.14 million states, without symmetry) before the proof.

`ReportsAreKept` assumes `StoreFaults = FALSE`, `Jobs = {}`, `MaxStops = 0` and
`MaxShutdowns = 0`, as the `deletion` instance has them. The code does not keep
every report without that: a failed store operation, a crash or a shutdown
between a child's completion and its enqueueing leaves a report to the agent log
and its replay (which `restart` checks, as liveness), and a job's notice without a
generation is refused after a recreation (section 5). Deletions of conversations
and of the project, and its recreation, are not restricted. Its `KeepingInv` says that no
child is stamped with a generation still to come (`StampsAreReached`) and that a
recorded completion is stored (`RecordedIsStored`); TLC checked it on that
instance (1.5 million states).

*The stdin channel.* `Wired` ties the client's socket, the connection, the blocked
writer and the owner together; every other proof starts from it, and
`ServerMoves` and `ShimMoves` say once what a step of a server and one of the shim
may change. `LinesInOrder` needs the history of a line: sent (`CarriedAreSent`),
queued behind its predecessors (`QueuesAscend`), written after them
(`WritingIsNew`), given (`GivenAreSent`). A line of a first attempt is nowhere yet
(`UnsentIsNew`), every copy of the current line has the number of its send
(`CurrentNumber`), and so a command behind a line that was given already is one
whose number is counted, and is dropped as a repetition (`NoRepeats`). Only the owner
is served, and a greeted server owns (`OwnerInv`). That makes `OrderInv`.

`NumbersAgree` and `DoneUnlessGivenUp` are about servers that gave no send up (one
that did loses the count by design, run `given_up`). `Agrees` describes such a
server: only the command of the send under way can still be counted
(`StaleAreCounted`), there is one of it (`OneAtATime`), the server's count is the
shim's or about to be (`CountIsShims`), a send in doubt has the next number, or
the last if its line was given (`NumberIsNext`), and what is awaited is its own
answer (`AwaitsOwnAnswer`). A verdict then says what happened. TLC checked both
invariants on two servers, three connections, two lines and one break (191
thousand states) before the proofs.

*The lifecycle.* `OneLoop` alone does not survive a step: the end of a stop could
disown a thread it did not see end. `LifecycleInv` adds that a joined loop is dead
(`JoinedIsDead`), that a stop only ever aims at a loop that was started
(`TargetsStarted`), that a loop never started has not been asked to stop (`NewIsUnasked`) and that the owned loop was started
(`OwnerStarted`). With them every step is a first-order fact.

*The shim's end.* The main loop leaves on what it observed, so `GoneIsRecorded`
is a chain: the wait thread knows of an exit only after it (`WaiterKnows`), it
announces it only after exit.json was tried (`AnnouncedIsRecorded`), the loop sees
only what was announced (`SeenIsAnnounced`) and leaves only on what it saw
(`FinishedHasSeen`). `EndInv` is their conjunction with the types and with
`KillIsAllowed` (an expiry about to kill keeps the flag away), from which
`ExpiryIsFenced` follows; each step disturbs at most one of them.

*The chat window.* `HistoryIsKept` and the types need to know what the window's
loops over lines return. Such a loop is a recursive function (`Kept`), and the
library's induction theorems cannot be instantiated here; the proofs take the
least position at which a run of the loop would fail to exist, or to have a
property, from `WFMin` (`LoopRuns`, `KeptIsWhole`). So a slice in which no line
comes twice is recovered whole (`RecoveryIsWhole`). `BufferIsLog` is inductive only
together with all the copies of the log that are on their way: answers read
earlier are beginnings of it (`AnswersBegin`), the stream carries its lines at
their positions and never a reset (`StreamTells`), nothing is being replayed, no
line is the made-up prompt (`NoTask`), and the buffer is what the cursor counts, at
an offset of one if that prompt stands before it (`Starts`). A copy that is not
shorter is taken whole and is at such an offset itself; a shorter one brings
nothing as long as the buffer's last line stands in it once (`NoTail`). `FirstLog`
is their conjunction, under the conditions `Plain`, which no step restores
(`PlainBefore`). TLC checked `FirstLogInv` on logs with equal lines, terminals and
no prompt (723 thousand states) before the proof. The theorem holds for logs with
equal lines; only a copy that was placed by a guess on them is excepted.

*Only model-checked.* The liveness properties (`EveryReportIsSettled`,
`KeepsLivePromise`, `StoppedLoopEnds`, `FreeOrphanEnds`, `CatchesUp`, `PillRests`,
`StreamReturns`): the prover has neither fairness nor `ENABLED`. The
properties that runs show to be violated have no theorems, of course.

## 5. Findings

1. **A resolved report can come back** (run `resolved`). The comment at
   `delegation_delivery.py:530` says that a resolved report must not reappear, and
   the delivery contract calls resolutions terminal. `accept` (line 357) compares
   the outbox row's routing and payload but not its state: a request that
   outlived its sender's time-out is accepted after a person resolved the outbox
   copy, and the drain delivers it.
2. **A send after one that gave up can be swallowed** (run `given_up`). When both
   attempts of a send time out on a CLI that does not read, the client keeps its
   count and uses the number again for the next line. Meanwhile the first line
   gets written under that number, so the next one is answered as a repetition:
   `send` returns as if it had been written. A server that never gave up is safe
   (`DoneUnlessGivenUp`, `NumbersAgree`).
3. **A polled line stays off screen while the stream is open** (run
   `chat_unseen`). `fetchAgentStatus` takes over the answer's lines and moves the
   cursor, and repaints only without a stream (`conversation.js:6210`); the
   stream's own copy of such a line is then dropped as a repetition. The comment
   at line 6204 says the streaming chat is kept in sync. The buffer is right
   (`BufferIsLog`), the screen is not, until something repaints.

More the models show, without a run of their own; for those of the chat the
exception that a property makes says what happens, and TLC finds the property
violated without it:

- *A background job's notice* carries no generation, hence 0
  (`agent_routes.py:1803`); in a project deleted and created anew it is refused
  for ever. With `Jobs = {e1}` and `Waiting = {}` in the `deletion` instance,
  `ReportIsKept` is violated.
- *A handler blocked in `cli.stdin.write`* of a CLI that stopped reading never
  clears `owner.conn`, so `_attached` (`agent_shim.py:646`) holds and
  `orphan_max_s` never applies although the server is dead. `FreeOrphanEnds`
  shows that nothing else keeps an orphan alive.
- *A line written while the stream sends is lost to it.* The generator yields the
  lines of a copied slice and then sets `sent = len(lines)` (`agent_routes.py:13403`):
  a line appended meanwhile is never streamed, and while the stream is healthy
  neither its watchdog nor the freshness tick fetches it, the buffer being taken
  for current (`index.html:4025`). It comes with the next line, whose position
  shows the gap, or after the turn (`CatchesUp`). Two events suffice against "a
  stream that stays live brings every line".
- *An ended terminal shifts the count.* `agent_status` leaves the lines of ended
  terminals out (line 15326); the window takes the answer's length for a position in
  the log (`conversation.js:6180` calls it the server's authoritative count), and a
  line behind the marker enters the buffer twice. `BufferIsLog` without
  `terminal # "gone"`, three events.
- *A repeated line is skipped and another doubled.* The slice recovery finds a
  line's position by its text (`resume-preview.js:609`), although positions exist
  because repeated messages are legitimate (`agent_routes.py:13395`).
  *The made-up prompt* makes an older answer as long as the buffer
  (`conversation.js:6166`), so when two polls overtake one another the older can
  take the last line away, while the cursor keeps counting it. `BufferIsLog` without
  `~guessed`, the instance of `chat`.
- *The fallback shortens the history.* It replaces the buffer of a session that is
  over (`index.html:3955`), past the guard of `resume-preview.js:639`; where the
  log lacks the prompt, the user's first message disappears. `HistoryIsKept`
  without `FallbackLands`, and `BufferIsLog` without `~adopted`, one event.
- *A restart check that gives up* after a poll replaced the status entry marks only
  the rail entry stopped (`resume-preview.js:1303`). The window then believes the
  session is running, its fallback no longer asks, and a running session stays
  without a stream until somebody polls: `StreamReturns`
  without `misfiled`, three events and no retry left.

## 6. Hazards

The hazards are listed in `PROJECT.json` with the line where each bites and the
property that guards it. Eight have no property, each with its reason: the CLI
reading its stdin before its result (assumed of an external program), the crash
between saving a project and renewing its generation, and the identity of a
session object across the two halves of its deletion; in the shim, an owner that
attaches between the main loop's look and its act; in the chat, a stream that is
continued by position into a rebuilt log, since it carries no epoch, and three
that break what one would promise, so that the properties name them as their
exceptions: the lines of ended terminals, equal lines in one recovered slice, and
the fallback's replacement. Six are covered but for a case their note names.

## 7. Not modelled

`ack_inbox`, `check_status`, turn allocation and desk campaigns are left out of
the store: nothing the modelled properties speak of reads them. Question callbacks
share the inbox but not its handoff. Of the shim's protocol, malformed commands,
tokens and `STATUS` are left out, and pids of servers are not reused. Its spawn
recipe, one-shot mode, log tail and adoption are planned (below). Of the chat
window, the local echo and the send path, questions and plan approvals, the
2000-line caps, several sessions sharing the browser's connections and the reload
after a server restart are left out. The components
of the table in section 1 that have no module here are either planned (below), or
a matter of I/O, data or external programs (the other views of the front end, installer, memory, views,
sync, steward).

## 8. Plan

1. *Done.* Delivery: `DeliveryStore`, `DeliveryStoreCalls`, `DelegationDelivery`,
   `DeliveryLifecycle`, and the proofs of all their safety properties.
2. Agent shim. *Done:* `ShimChannel`, `ShimLifetime`, and the proofs of their
   safety properties. Left: `ShimCompletion` (adoption, checkpoints and replay,
   joined with `DelegationDelivery`'s crash).
3. `ExecutionLifecycle` (the reducer and its store) and `RuntimeLaunch` (prepare,
   authorise, spawn, bind): a terminal outcome is final, authority lost is not
   regained, one process per attempt.
4. *Done:* `ReportDelivery`, implemented by the store and by `DelegationDelivery`
   (both proved; its liveness checked), and `ChatStream` with its proofs.
5. The chat window's send path (local echo against the streamed copy of the
   message); agent jobs and their reaping, mid-turn sends and rollover, questions,
   workflow runs, the spending windows.

The runs of each step keep to one or two actors of a kind and one fault of a
kind; each pure reducer gets its proofs with its module.
