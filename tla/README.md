# felo-backend in TLA+

A verification development for the server in `src/`: TLA+ specifications of its
concurrent parts, TLC configurations that check them on small instances, and
theorems about them whose proofs TLAPS checks.

## The system

The repository is *felo-backend*: a Node server (`tsx src/index.ts`) on top of a
vendored copy of OpenClaw. What `src/src/index.ts` reaches is the
backend proper: a few thousand lines in `src/src/index.ts`, `src/src/routes/`,
`src/src/lib/` and the vendored relay `src/src/browser/extension-relay.ts`. The
rest of `src/src/` (gateway, channels, reply pipeline, session store) is OpenClaw,
which felo-backend neither starts nor imports, apart from what the relay needs; two
self-contained parts of it, the heartbeats and the outbound delivery queue, are
modelled as well.

Everything runs on one event loop per process. Concurrency is what happens
between two `await`s, two socket events or two timers; several processes share
the (Supabase) database, and a browser extension and a language model are at the
other end of sockets and HTTP calls.

```
  user ──HTTP──► routes/tasks.ts ──► runTaskInBackground ──► agent (lib/agent-extension.ts)
                     │   ▲                                     │ CDP via Playwright
  scheduler.ts ──────┘   │ drainQueueForUser                   ▼
     (timers, rows)      │                        extension-relay.ts, one per user's port
                     index.ts connection handler ◄── bridge ──► │ (/extension, /cdp, /json)
                         ▲
                         └── WebSocket ── browser extension of the user
```

### Inventory

| Component | Source | State it keeps | Operations | Hard behaviour | What makes it correct |
|---|---|---|---|---|---|
| Extension relay | `browser/extension-relay.ts` | extension socket, CDP clients, target cache, pending map and id counter, reconnect waiters, two timers | upgrade and close of either kind of socket, extension messages, CDP commands, JSON routes, `stop()` | reconnects before the old close; wake-ups; answers racing timers and closes | every command settled once and to its asker; clients' picture of the tabs agrees with the cache; nobody closed while an extension is live, nobody kept for good when none is |
| Relay registry | `browser/extension-relay.ts` | `relayRuntimeByPort`, start-up promises | ensure, stop | two starts at a time, a stop in between | one server per port |
| Extension bridge | `index.ts` | connections, pending maps, port tables, bridges | connection handler with three awaits, close handlers, `sendCdpCommand`, `sendExtensionMessage` | late closes, overlapping reconnects, two id spaces on one socket | a user has one connection, one port, one bridge; answers go home |
| Task runner | `routes/tasks.ts`, `index.ts` | per-user flags, abort controllers, task timers; rows of `tasks` and `permission_requests` | create, confirm, run, stop, drain | agents that outlive their timeout, stops and drains interleaved with runs | one run per user, no destructive run without consent, no user locked out, no row left "running" |
| Agent | `lib/agent-extension.ts`, `lib/compaction.ts` | its conversation, its counters; the row of its task and its permission requests | open a tab, iterate, call tools, plan, ask for permission, retry | failing tools in the middle of an answer, histories cut short, polls for answers that others write, stops at any moment | calls and answers stay paired; goes on only with approval; ends |
| Scheduler | `lib/scheduler.ts`, `routes/tasks.ts` | entries, running set, one timer; rows | load, timer, run, create, delete | timer refires during runs, crashes, several processes | a task goes on being run, never twice at once, with its backoff |
| Loop detection | `routes/tasks.ts`, `lib/loop-detection.ts` | a task's latest calls | pure functions | thresholds | loops are found |
| Skills, language-model helpers, task log, accounts, integrations | `lib/`, `routes/` | rows | one call of a remote service each | – | – |
| Heartbeat wake | `infra/heartbeat-wake.ts`, `infra/heartbeat-runner.ts` (vendored) | pending wake-ups per target, a timer, flags, a handler and its generation; the runner's agents and its own timer | request, batch, retry, replace and dispose of a handler, reconfigure | a handler replaced during a batch, batches that hang, timers that give way to others | no wake-up lost or demoted, heartbeats go on |
| Follow-up queue | `auto-reply/reply/queue/` (vendored) | per-session queues | enqueue, drain | items added or queue replaced during an await | nothing lost or delivered twice |
| Outbound delivery queue | `infra/outbound/delivery-queue.ts`, `infra/outbound/deliver.ts` (vendored) | files | enqueue, ack, fail, recover | crash between send and ack, recovery next to live sends | nothing lost, nothing repeated without need, retries bounded |
| Gateway, locks, pairing, reply pipeline, sessions, browser control | vendored | – | – | – | – |

`PROJECT.json` lists the components with their status, and under `hazards` every
place in this code that is hard to test, with the properties that cover it.

## Modules

| Module | What it is |
|---|---|
| `CdpCommandService` | what the relay promises to a CDP client: a command is settled at most once, and dropped only if its socket has gone |
| `RelaySockets` | what the relay of a port promises to those who connect as its extension: one open socket at a time, and no two messages with one number |
| `ExtensionRelay` | the relay server |
| `ExtensionBridge` | the connection handler of `index.ts`, the ports and the bridges |
| `TaskRunner` | creating, confirming, running, stopping and draining tasks |
| `AgentLoop` | one agent: its iterations, its history, its tool calls, its questions |
| `Scheduler` | recurring tasks |
| `DeliveryQueue` | the write-ahead queue of outgoing messages |
| `HeartbeatWake` | wake-ups, their batches, and the runners that make heartbeats of them |
| `MC…` | constants of the instances for TLC, one module for each of the above |
| `…Proofs` | the theorems, one module for each of the above but the two abstract ones |

How they compose: `ExtensionRelay` implements `CdpCommandService` (property
`ServiceSpec`, by an `INSTANCE` with a refinement mapping). `AgentLoop` implements the
agent that `TaskRunner` lets act as it likes between two rows (`RunnerSteps`, an
`INSTANCE` of `TaskRunner` with one task and one run): what is shown there of runs,
flags and rows holds of the agent in detail. `ExtensionBridge` is
one level above: the relay of each port is reduced to what it does to a bridge
socket, namely accept one live socket at a time and give each message a larger number than
any before, passing some over. That is `RelaySockets`, which both implement: the relay (`SocketsSpec`) and, on every port, the
bridges of whichever users the port is handed to (`RelaysKept`). `Scheduler` hands a task to
`TaskRunner` in two ways, running it or marking its row "queued"; the two are
separate modules since they share nothing but the row's status, which
`TaskRunner` owns. A run of the scheduler is in `Scheduler` a call with an
outcome, and a queued row is in `TaskRunner` an initial state (`Queued`).
`DeliveryQueue` and `HeartbeatWake` stand alone.

### Conventions

* **Steps.** An action is what the event loop does between two points where
  something else may happen: an `await` of I/O, a timer, a socket event.
  Code between two such points is one action, with every call it makes.
* **Time.** In all modules but the scheduler's a timer may fire at any moment while
  it is armed, so no result depends on how long anything takes. The scheduler's
  properties are about time and it has discrete ticks.
* **Database rows.** Only the columns that steer the code: a task's status and the
  status of its permission request; for the scheduler whether it recurs, its error
  count and whether `running_at` is set. Output texts are left out. A write that
  the code awaits takes effect in the action that issues it together with what
  follows, except in the scheduler, where what follows is a step of its own
  because a crash between the two matters.
* **Failing queries.** Supabase reports an error as a value, and most of the code does
  not look at it. What fails here: storing a permission request and polling for its answer
  (`DbMayFail`), loading the schedules, and the scheduler's writes of a run's outcome, of
  the lock, of a queued task and of old markers. Other writes are taken to succeed: those of
  a task's status by `TaskRunner`, and the row of a schedule that is created or deleted.
* **Bounds** are constants: sets of sockets, commands and messages "that may ever
  be", `Stops`, `MaxRuns`, `MaxRelayId`, `MaxCalls`, `MaxAsks`, `MaxCrashes`, `MaxErrors`,
  `Runners`, `Batches`. Where a
  bound does not restrict the program's behaviour once it is large enough, the
  comment at its declaration says from which value on.
* **Mutants.** Definitions marked "Mutant of X" are wrong versions of X, such as a
  plausible slip in the code would give. Nothing uses them; `PROJECT.json` names
  for each property one that breaks it.

### `ExtensionRelay`

| State | Code |
|---|---|
| `extensionWs`, `extState` | `extensionWs` and the `readyState` of every extension socket: the two differ between a disconnect and its close event, which is where the hazards are |
| `asked` | messages on their way to or held by the extension |
| `disconnectTimer` | `extensionDisconnectCleanupTimer` |
| `cdpClients`, `cliState` | the set and the `readyState`s; "leaving" is a client that goes, "closing" one the relay closes (it may still send) |
| `connectedTargets` | the cache, without titles and order |
| `pendingExtension`, `nextExtensionId` | same |
| `cmd`, `req` | where the handler of each command or HTTP request is: "waiting" in `extensionReconnectWaiters`, "woken" with its microtask queued, "pending" in the map |
| `view`, `autoAttached` | history: what each open client has been told |

A promise that is resolved does not run its continuation at once but before the
next event: `Route` is that continuation, and every action that begins an event has
the guard `MicrotasksDone`. Commands are records of what matters about them, a kind
(answered locally, `setAutoAttach`, attach, forwarded) and the session and target
they name. The JSON routes are the three patterns there are: two messages of which
the first may fail (`snapshot`), two of which it may not (`debugger`), and one whose
answer is not looked at (`action`). Each of their messages takes an id before the code looks
whether the extension is connected, so that ids are passed over while it is not; the second
message of `debugger` is sent without looking. The current socket is heard until its close
is, also while it is closing.

### `ExtensionBridge`

`step` is the program counter of each connection handler ("auth" → "relay" →
"pause" → "ready"); the close and message handlers are in place from "ready" on,
so a close before that is not heard. A pending map is named after the socket it was
made for; `relayBridges` maps a user to the handler that made the bridge. A bridge may end
at any time: the relay turned it away (409, 401), was never started (which is only logged), or
the socket broke off. `relayId` is the relay's next number, which requests without an
extension pass over (`RelaySkips`). Answers are heard on a socket that is closing as well,
and looked for in the map of the socket that replaced it.
`hurried` is a history variable, the users whose extension reconnected before its old
socket and the bridge of that were done, or whose pause of 500 ms ended before the old
bridge had closed: the two properties about bridges depend on nobody doing so.

### `TaskRunner`

A *run* is one call of `runTaskInBackground`. It has two threads of control: `main`,
the call itself, and `agent`, the agent it races against the 240 s timer, which
nobody stops when the timer wins. Besides there are the creating request (`creation`, with its
poll of at most 300 rounds), the stopping request (`stop`, three steps), and the
drains. A stop may be of any task and in any user's name (`stopper`): the route never
looks whose the task is, signals its run, writes its row if it is the named user's and lowers
the named user's flag; `Stops` bounds which of them come. With `DbMayFail` a request for
permission may not be stored and a poll may fail, which the agent takes for a yes
(`Approved`). `Late` are the tasks whose agent may need longer than 240 s.

### `Scheduler`

`nextRunAt` and the timer count down to 0. A *call* is one of `runScheduledTask`; a
slot per call and task makes a doubled call visible, instead of overwriting the first.
The delete route reads, cancels and writes in three steps. The task function is a
parameter of the scheduler (`setRunTaskFn`), which may return or throw; the one
felo-backend passes it never throws, see the observations. `boot` says how far a process
has come in loading its tasks; it is "blind" for good if their query failed. `rest` and
`missed` are history variables: how long a process must let a task rest that it saw fail,
and the tasks of which the outcome of a run could not be written to the row.

### `AgentLoop`

`pc` is where the agent is between two awaits; a progress message is two steps, since
the row is read before it is written (`next` is where the agent goes on then).
Messages of the history are records of what pairs them: a message of the model says how
many calls it makes, an answer names the message and the call it belongs to, and the
summary that compaction puts in place of what it cuts is a message of the user. `sent`
is what of the history the model was asked with. Of the tools it matters whether they
report, fail, end the agent or ask; the browser tools fall into three kinds
("browse", "quiet", "garbled"). `permissions` are all requests of the task, since the
polls read the latest, or a pending one. They take a yes from no row and from a query that
failed as well; a request that could not be stored leaves the polls with the rows there are
(`DbMayFail`). `granted` and `misled` are history variables: the requests `ask_permission` took for
answered, and whether the database has failed one or a poll.

### `DeliveryQueue`

A delivery has two workers, its own call and the recovery of the process: they share the
file and nothing else. `work` is the program counter of each, with how many payloads it
has dealt with and, for `failDelivery`, the entry it read. `queue` and `failed` are the
files, `retryCount` what they say. A crash (`Restart`) clears everything else. Recovery skips
entries it cannot read. `sent`, `aborted`, `troubled` and `attempts` are history; `aborted`
are the deliveries whose call ended with an error named `AbortError`, which the code takes for
its caller's wish whoever threw it.

### `HeartbeatWake`

`pendingWakes` maps a target to the priority of what is pending for it, one more than in
`REASON_PRIORITY`; the timer is known by its kind. A batch is the `for` loop of a timer that has fired: whose handler
it calls, what was in it, what is left, and what it awaits. It is named by a slot, so that
a batch of a replaced handler, which nobody ends, goes on next to a new one. A runner is
a handler and a timer of its own (`beat`); it has agents to care for, or not. `due`
is a history variable: at which priority a target must still be called for.

## Runs

Each run asks one question of the system. Runs marked ✗ end in a violation, which is a
finding (below).

| Run | Instance | What it shows |
|---|---|---|
| `relay_tabs` | 2 clients, 2 commands, 2 extensions in succession, 2 sessions, 2 targets | `ClientsSeeTheCache`: attaches, detaches, prunes, reconnects and grace periods never leave an open client with a tab the relay has dropped, nor an auto-attached one without a tab it has. `LossIsWatched`: tabs outlive the extension only while a timer is armed. `ServiceSpec`: the relay implements `CdpCommandService`. |
| `relay_sockets` | 1 client, 2 commands, 1 HTTP request, 2 extensions, handshakes may fail | `OneOpenExtension`, `NoWaitWhileConnected`, `PendingOwned`, `AnswersFindTheirAsker`, `ClientsSurviveReconnect`: replaced sockets, late closes, timers and `stop()` neither lose nor mix up anything. `SocketsSpec`: the relay implements `RelaySockets` |
| `relay_live` | 1 client, 1 command, 1 HTTP request, 2 extensions, no failing handshake | `CommandsServed`, `RequestsSettle`, `ClientsReleased`: everything is settled without any help of the extension. `EventLoop`: what the proofs of these start from follows from the fairness of the run |
| `bridge` | 2 users (one connects twice), 1 port | `OnlyRegisteredOpen`, `PortsAccounted`, `NewerConnectionKept`, `MessagesSettle` hold whatever overlaps, however bridges end, and with too few ports; `OneBridgePerUser`, `BridgeOnOwnPort` for users that are not in a hurry |
| `bridge_crosstalk` ✗ | 2 users, 2 ports, one message each way | `AnswersGoHome` |
| `tasks` | a destructive and a queued task of one user, a drain, a stop of the first in another user's name and of the second in their own, failing permission queries, agents that may be late for the first | `OneRunPerUser`: unless something was stopped in the user's name, one run at a time; `NeverLockedOut`: the flag is up only during a run; `ConsentFirst`; `TasksSettle`: the row of the second does not stay "running" |
| `tasks_draft` ✗ | one task | `ApprovalHonoured` |
| `schedule_crash` | two tasks, one process that may crash, failures, also of loads and writes | `TimerInTime`, `OneRunPerProcess`, `BackoffRespected`; `ErrorsAgree`: unless the last write of an outcome failed |
| `schedule_live` | a created task, two crashes, failures, also of loads and writes, deletion | `KeepsRunning`: unless a process stays that could not load its tasks |
| `agent` | 2 iterations, 2 attempts, 2 calls per message, 2 tries of a busy model, 3 messages kept and 2 if need be, 2 permission requests, failing permission queries | `HistoryPaired`: calls and answers stay paired whatever fails; `LatestAnswersSent`: compaction never cuts what the model waits for; `OneYesPerQuestion`: unless the database fails, no answer is to more than the latest request, and what was granted was approved and stays so; `RunnerSteps`: the agent is one of `TaskRunner`'s; `AgentTerminates` |
| `deliveries` | 2 deliveries, of two payloads and of one (best-effort), 2 retries, any number of restarts of the process | `NothingLost`, `NoNeedlessRepeat`, `RetriesBounded` |
| `wakes` | 2 targets, requests of the highest priority beside those of the interval, 2 runners, 2 batches | `WakesWatched`, `WakesKept`, `BeatGoesOn`, `OneBatch` |

The type invariants are not in the runs: they are theorems, except that TLC evaluates
those of the constants (`ASSUME`).

### Bounds, and why they are enough

* Two extension sockets are what a replacement needs: one old, one new. The relay
  compares a socket with the current one only, so a third old socket meets the same
  test as the second. Two commands give a waiter and a pending entry at the same
  time, and two pending entries with different ids. Two sessions and two targets give
  every overlap of a session's and a target's attachments. The safety results about
  sockets and waiters are also proved for any number.
* `relay_tabs` takes four shapes of commands: an auto-attach with and without a
  session, an attach, and a forwarded command that names a session and a target
  that need not belong together. HTTP requests do not touch the cache and are left
  to the other runs; so are failing handshakes.
* Bridges: a user with two sockets and one with one show the sharing of ports and
  ids, and with one port between them one user has to wait for the other's. One message of the server and one of each relay are enough for a clash of ids.
* Tasks: `MaxRuns` is the number of runs the tasks can start in each instance, so it
  bounds nothing. Two runs are what the properties about a user's flag compare, and
  the two start in the two ways that wait: after a confirmation and from a drain. Two stops are
  one by the task's user and one in the name of somebody else. Two drains of one row, three tasks,
  tasks of more than one user and all other stops are left to the proofs, which have
  no bounds: all three safety properties of `tasks` are theorems.
* Scheduler: a period of 3, a refire gap of 1, a longest delay of 2 and a backoff of
  2 and 4 put every order of the quantities that the code compares within reach: a
  backoff shorter and one longer than a period, a delay below and above both
  clamps. `MaxErrors` is the length of the backoff table, where the code's own
  clamp begins. A stagger of 1 for one of the tasks keeps the two apart.
* Agent: at its second iteration the model may be asked with five messages, of which
  compaction keeps fewer at either stage (the prompt's first and 3 or 2 of four others, instead
  of 10 or 3, in the same order); what more iterations add is left to the proofs, which have
  no bound. Two calls per message are what may be paired wrongly, two tries and two attempts what
  may be counted wrongly; two requests, an earlier and a later one.
* Deliveries: a delivery with two payloads can be sent in part, and two of them have an
  order. `MAX_RETRIES` is 2, so that an entry has a first, a second and no third try.
  There is no bound on restarts, failures and attempts of live calls.
* Wakes: two targets make a batch with something left in it; two runners an old and a
  new one, started and stopped in either order; two batches one of each.
* `TimerInTime` is stated for tasks that exist when the process starts
  (`Existing = Task`) and without deletions. It does not hold otherwise: a task
  created while the process still loads its rows is scheduled twice, the second
  time over an entry a run may have set, and a run that puts a cancelled entry back
  arms no timer.

The relay, bridge, task and agent configurations say `CHECK_DEADLOCK FALSE`: their sockets,
commands and tasks are used up, and then nothing is left to do. The scheduler,
the queue, which may be restarted, and the wake-ups never stop, and their runs check for
deadlock.

### Fairness

* Relay: armed timers fire, closing sockets report their close, continuations run.
  The event loop and TCP give these. Nothing is assumed of the extension, of
  clients or of HTTP peers: they may stay silent for ever.
* Bridge: the timers of pending messages fire.
* Tasks: awaited database calls answer; the polls for consent end (300 rounds in the
  routes, ten minutes in the agent), so one of their outcomes is taken; an agent has
  a bounded number of iterations, so it cannot report or ask for ever (strong
  fairness of `AgentEnds`, which is enabled again and again between reports).
* Agent: calls of the model, the browser and the database answer or fail, and the polls
  for permission end; nothing is assumed of what they answer. The loop awaits the model
  without a timer of its own and relies on those of the client libraries and of the tools.
* Scheduler: time passes, timers fire on time, awaited calls answer, a crashed
  process is started again, and the lock query does not fail for ever (strong
  fairness of `LockTaken`, an alternative to `LockFailed`). Crashes are finite.

## Findings

Each is a run that TLC ends with a counterexample; `PROJECT.json` quotes the line of
the repository that says otherwise.

1. `bridge_crosstalk` – the server's and the relay's message ids both count from 1 on
   one socket; an answer to the relay settles a message of the server.
2. `tasks_draft` – a denied draft vanishes from the poll's query and is taken for
   approved.

### Observations

These came up while modelling, by relaxing a constant or an antecedent of the runs
above, or by reading what a module leaves out. They have no run of their own; where
TLC shows one, it says how.

* *Grace.* The upgrade handler drops the stale extension socket before the handshake.
  If the handshake breaks off, the stale socket's close finds itself replaced and arms
  no timer: CDP clients stay open for good. (`relay_live` with `HandshakeMayFail = TRUE`
  violates `ClientsReleased`.)
* *Two bridges.* Both close handlers delete the user's bridge entry whoever it belongs
  to; overlapping reconnects leave two live bridges. (`bridge` violates `OneBridgePerUser` without its condition on `hurried`.)
* *Stop.* `/stop` lowers the user's flag while the run is still active, or while another
  one is; it signals the run of any task, and lowers the flag of any user, a request names.
  (`OneRunPerUser` without `NeverStopped` is violated in `tasks`.)
* *Late agents.* The 240 s timeout does not stop the agent, which writes "running" over
  "error". (`tasks` violates `TasksSettle` for tasks in `Late`.)
* *Drain.* A drain starts queued tasks without waiting; the second one finds the flag
  up and becomes an error. (Two tasks in `Queued`: a run of a drain gets to "refused".)
* *Cancel.* A run under way puts a cancelled task's entry back. (`schedule_live`:
  after `DeleteWrites`, `Rescheduled` leaves an entry whose row does not recur.)
* *Deletion's write.* The route cancels the task in memory and then writes the row, without a
  look at the result. If that fails the task is not run any more, until the next restart finds
  its row recurring. (The model takes this write to succeed.)
* *Failed load.* If the query for the recurring tasks fails, `loadScheduledTasks` returns with
  nothing scheduled (`lib/scheduler.ts:435`) and is not called again: the process runs none of
  the tasks, until it is restarted. (`LoadFails`; `schedule_live` violates `KeepsRunning` without
  its condition on "blind".)
* *Unwritten outcomes.* The row's update after a run is not looked at either (323, 344). A count
  that did not reach the row is forgotten by a restart. (`schedule_crash` violates `ErrorsAgree` without
  its condition on `missed`.)
* *Lock.* `lib/scheduler.ts:262` calls the update of `running_at` a "distributed lock",
  and line 270 warns that the task "may already be running". An update that matches no
  row, since another process holds the lock (267), is no error: `lockError` (269) stays
  unset and both processes run the task. (`LockTaken` has no guard; with two processes in
  `Proc` two calls of one task run at once.)
* *Loading.* A task created while a process loads its schedules may be scheduled twice,
  with its error count reset.
* *Compaction.* `lib/agent-extension.ts:759` says of the message trimming that it "keeps
  tool pairs intact"; `compactMessages` cuts anywhere, so that an answer may be sent
  without the message that made the call. (Such a `sent` is a reachable state of
  `agent`.)
* *Loop detection.* `detectLoop` counts only calls with a result; it is asked before the
  call has one, and what it says afterwards is dropped.
* *Permission polls.* That of `ask_permission` takes an answer without a row, thus also a failed
  query, for an approval (1487), and that of `draft_content` does too. A request that could not
  be stored is not noticed (1453), and its poll then reads an earlier one, or none, which
  is a yes. (`agent` violates `OneYesPerQuestion` without its condition on `misled`.)
  `/confirm` answers whatever is pending when it arrives, so that a click sent twice may
  approve a later request.
* *Stops.* The signal is not looked at between the tries of a busy model; arguments that
  do not parse end the agent with a raw error, since `JSON.parse` (1007) is outside the
  `try`.
* *Best effort in recovery.* `recoverPendingDeliveries` passes no `onError`, so payloads
  that fail are not noticed and the entry is acknowledged: they are lost.
* *Abort errors.* An error named `AbortError` is acknowledged like a success
  (`deliver.ts:221`, 512), though the queue is to "remove after success" (468) and the error may
  be a channel's own, of a time-out for instance: the delivery is then neither sent nor tried
  again. (`Abort` covers both, and `NothingLost` excepts both.)
* *Recovery and live sends.* Recovery picks up entries whose live call is still sending, and
  sends them a second time; a `failDelivery` that has read its file before the other
  worker's `ackDelivery` puts it back. Both write the same temporary file. Nothing is
  retried before the next restart.
* *Batches of a replaced handler.* Their `finally` lowers `running` although the new
  handler's batch is under way, and a second one may start. (`wakes` violates `OneBatch`
  without `started = 1`.) What such a batch held and did not call for is lost.
* *Retry cooldown.* `heartbeat-wake.ts:113` calls it "a hard minimum delay"; a normal
  timer that is already armed for sooner is kept instead (119), and retries.
* *Busy heartbeats.* A heartbeat skipped since the lane is busy still advances its agent's
  schedule, so that its retry, if its reason is the interval, finds it not due.
* *Switching heartbeats off* while the interval fires ends them until the next
  `updateConfig`: `run` returns before `scheduleNext`.
* *Backoff.* `runTaskInBackground` catches everything, so the error branch is never
  taken by the server as it is. (`RunEnds` with `throws` is for other task functions.)

The passing runs delimit these: `OneBridgePerUser` does hold if reconnects do not
overlap, `OneRunPerUser` until something is stopped in the user's name, `TasksSettle` if agents are in time,
and the backoff works for a function that throws.

## Proofs

`…Proofs` modules hold the theorems; they assume only the `ASSUME` of the module
they extend, which fixes the kinds of the constants and no sizes. Three theorems about
the scheduler have hypotheses on its constants besides, which say what may happen and
not how much: `FixedSchedules`, that no schedule is created or deleted while processes
run, and `LoneProcess`. Without the first a run under way may put an entry back, or
loading overwrite one (see the observations), and the timer, the error count and the
backoff go wrong; without the second another process writes the row's count.

| Theorem | Statement | Argument |
|---|---|---|
| `ExtensionRelayProofs!TypeCorrect` | `Spec => []TypeOK` | inductive as it stands; one lemma per group of actions |
| `OneExtension` | `Spec => []OneOpenExtension` | inductive with the type invariant: a socket is only opened when none is connected, and `extensionWs` only moves away from a socket that is not open |
| `NoLostWakeUp` | `Spec => []NoWaitWhileConnected` | a command starts to wait only if the extension is away, and the step that brings it back wakes all |
| `LossesAreWatched` | `Spec => []LossIsWatched` | inductive with the types: whatever takes the extension away arms the timer or empties the cache |
| `ClientsAreKept` | `Spec => ClientsSurviveReconnect` | only `stop()` and the grace timer close clients, and that timer looks at the connection first |
| `PendingsAreOwned` | `Spec => []PendingOwned` | inductive with the types; two lemmas say what making and removing an entry does to the map (`EntryMade`, `EntryRemoved`) |
| `AnswersAreNotMixedUp` | `Spec => []AnswersFindTheirAsker` | `IdsKept`: the ids any socket holds, and those of the map, are below the next one, so that a new entry never takes an old id |
| `ViewsFollowTheCache` | `Spec => []ClientsSeeTheCache` | `ViewInv`: adds that a client that has not connected was told nothing |
| `RelayServes` | `Spec => ServiceSpec` | the initial state maps to the service's; a step takes, settles or drops commands and moves the lives of sockets as the service allows (`CmdsMove`, `SocketsMove`), with `PendingOwned` to know that what an entry settles was outstanding |
| `RelayKeepsSockets` | `Spec => SocketsSpec` | `IdsKept`: numbers are passed over by any step but only grow; the new one is that of a message only if the extension is connected, in a step that leaves its socket alone; an opening socket finds no other open |
| `CommandsAreServed` | `Spec /\ EventLoop => CommandsServed` | the handler of a command moves onward only, from a wait for the extension through its continuation to a wait for the answer, and each of the three has an event of its own that ends it |
| `RequestsAreSettled` | `Spec /\ EventLoop => RequestsSettle` | likewise; a first message is followed by a second or by the end |
| `ClientsAreReleased` | `Spec /\ EventLoop => ClientsReleased`, if no handshake breaks off | a closing socket arms the grace timer unless it was replaced; open clients are on the list that the timer closes (`ClientsListed`) |
| `ExtensionBridgeProofs!TypeCorrect` | `Spec => []TypeOK` | as part of `BridgeInv` |
| `PortsStayAccounted` | `Spec => []PortsAccounted` | inductive with the types; the case of interest is that the close handler of a user without a port frees none of another's |
| `OneRegisteredSocket` | `Spec => []OnlyRegisteredOpen` | needs `BridgeInv`; the step that registers a socket also closes the one before |
| `LateCloseKeepsConnection` | `Spec => NewerConnectionKept` | an action property, by cases on the step |
| `BridgesKeepTheirPort` | `Spec => []BridgeOnOwnPort` | `CalmInv`: a user not in a hurry has one handler that is not over, no old bridge beside a new one or while the new handler is before its relay, its bridge is listed, and the port of a live bridge is held |
| `BridgesAreSingle` | `Spec => []OneBridgePerUser` | from `CalmInv`: two live bridges would be two handlers that are not over |
| `MessagesAreSettled` | `FairSpec /\ []TimersCanFire => MessagesSettle` | a message that waits has an entry in some map, whatever happened to the socket the map was made for, and the entry's timer finds it |
| `BridgesUseOneRelay` | `Spec => RelaysKept` | each step opens, ends or leaves the bridge sockets of a port as `RelaySockets` does; only the step that asks makes a message, of an open bridge and with the relay's next number, and a socket that changes its port has been asked nothing yet |
| `TaskRunnerProofs!TypeCorrect` | `Spec => []TypeOK` | as part of `TaskInv`, which adds that an active run has a task |
| `NoUserLockedOut` | `Spec => []NeverLockedOut` | the flag goes up with a run and down with it; all other steps lower it |
| `OneRunAtATime` | `Spec => []OneRunPerUser` | strengthened by `FlagUpWhileActive`: as long as nothing was stopped in a user's name, an active run's user has the flag up. `/stop` is what breaks it, hence the condition; the name a stop was in is never taken back |
| `ConsentComesFirst` | `Spec => ConsentFirst` | `ConsentInv`: a destructive task has no run before its creation is over, "approved" in the poll means approved in the row, and it is never queued, in the table or in what a drain has read |
| `RunningRowsAreOwned` | `Spec => []RunningIsOwned` | a row that says running has a run that will write it, or a request or drain about to begin one; with `AgentsRaced`, that an agent in time works only while its run waits for it |
| `RunsEnd` | `FairSpec /\ []AllStepsCanHappen => \A r \in Run : EndsInTheEnd(r)` | a run moves onward only; during the race its agent works again and again, and so ends, by strong fairness |
| `RowsAreSettled` | `Spec /\ []EverythingGoesOn /\ []EverythingCanGoOn => \A t \in Task \ Late : IsSettled(t)` | `RunningIsOwned` names an owner; a request or a drain begins a run, a stop in between only writes the row sooner; and a run keeps the row until it writes it (`OwnersWrite`), which it does since it ends |
| `SchedulerProofs!TypeCorrect` | `Spec => []TypeOK` | inductive as it stands |
| `RunsAreNotDoubled` | `Spec => []OneRunPerProcess` | `CallInv`: a call under way has its task in `runningTasks` of its process, and is the only one there |
| `TimersAreInTime` | `Spec /\ FixedSchedules => []TimerInTime` | `TimeInv`: a process that is not ready has neither entries nor calls, and a task in a call stays due until its next time is set, so the timer is within the refire gap meanwhile and is armed anew after |
| `ErrorsAreKept` | `Spec /\ FixedSchedules /\ LoneProcess => []ErrorsAgree` | `KnowInv`: the rows being loaded, the calls and the entries know the row's count, except while a call has written the row and not yet set its entry, and except of tasks whose last write failed (`missed`), which a call takes out again only with the right count |
| `BackoffsAreRespected` | `Spec /\ FixedSchedules => BackoffRespected` | `Resting`: the rest a task has left is at most the time to its next run, in the entry or in the call about to set it |
| `MarksAreOfCalls` | `Spec => []MarkedByCalls` | inductive with `CallInv`: whatever ends a call takes its mark out, and a crash empties the set |
| `CallsEnd` | `FairSpec /\ []CallsCanGoOn => \A c \in Call : IsOver(c)` | a call moves onward only (`Following`), or goes with its process |
| `TasksAreReleased` | `Spec /\ []CallsAreFair /\ []CallsCanGoOn => \A p \in Proc, t \in Task : IsReleased(p, t)` | the two before it: the mark is that of a call, which ends |
| `RecurringTasksAreWatched` | `Spec => []RecurringIsWatched` | a process is "ready" only if it could read its rows. `RememberInv`: between reading and scheduling them it has the task among those it read; afterwards the entry stays, and so does the timer, which is armed anew whenever it fires or entries are made or taken out |
| `AgentLoopProofs!TypeCorrect`, `HistoryIsPaired` | `Spec => []TypeOK`, `Spec => []HistoryPaired` | `CallsInv`: every message is the prompt's, the model's or an answer to a call of an earlier one (`AllBelong`); while calls are carried out, the answers so far are those to the first calls of the last message, and the rest is `todo` (`CallsUnderWay`); else every message of the model is answered in full (`CallsDone`); an answer is as far behind its message as its call is in it (`Belongs`), and a second plan in mid-action means the agent is ending (`Once`) |
| `AgentIsRunners` | `Spec => RunnerSteps` | `PermissionInv`: while the agent asks there is a request, and only the last can be pending. With it, one lemma per action of `TaskRunner`'s agent; all other steps leave the mapped variables alone |
| `LatestAnswersArrive` | `Spec => []LatestAnswersSent` | `SentInv`: while the model is asked, what is sent is the history compacted; by `CallsInv` there are at most `MaxCalls` messages behind the last one that is no answer, and compaction keeps as many from the end |
| `OneYesServesOneQuestion` | `Spec => []OneYesPerQuestion` | `QuestionInv`, with `PermissionInv`: a request is added only while none is pending, since the agent asks only when it goes on, and it goes on only from an answer; `/confirm` changes pending ones only, so that what was granted stays approved; and the requests granted are among those made |
| `AgentRunsDown`, `NoEndlessDescent` | `Spec => RunsDown`; the order it runs down in is well-founded | `Variant`: the attempt, the iterations left, the place in the iteration, the tries of the model or the calls left, how far the call is, and the report being written; compared in this order, one lemma per group of actions. That a second attempt is the last, and that a call under way is one of those left, comes from `CallsInv` |
| `AgentKeepsRunningDown` | `FairSpec /\ []CanStep => \A v \in Amounts : GetsOn(v)` | from the lemmas of `AgentRunsDown` and weak fairness |
| `DeliveryQueueProofs!TypeCorrect` | `Spec => []TypeOK` | inductive as it stands |
| `NoDeliveryLost` | `Spec => []NothingLost` | `LostInv`: all payloads up to where a worker is have been sent (`Progress`), and a worker that acknowledges is at the end (`AckedAtTheEnd`), so removing the file loses nothing |
| `NothingRepeated` | `Spec => []NoNeedlessRepeat` | `RepeatInv`: only its own call works at an untroubled delivery, its file is there only while that call is sending or clearing it, and nothing past where the call stands has been sent (`Smooth`) |
| `RecoveriesGiveUp` | `Spec => []RetriesBounded` | `RetryInv`: the recovery has read an entry once (`OncePending`), and the attempts written down are at most what the file, or a copy of it somebody holds, says (`Counted`) |
| `HeartbeatWakeProofs!TypeCorrect` | `Spec => []TypeOK` | inductive as it stands |
| `WakesAreWatched` | `Spec => []WakesWatched` | `WakeInv`: adds that batches belong to runners that were started, and that the handler is the newest of them |
| `NoWakeLost` | `Spec => []WakesKept` | with `WakeInv`; per target, as what is due moves between `pendingWakes` and a batch |
| `HeartbeatsGoOn` | `Spec => []BeatGoesOn` | `Beating`: if the newest runner has agents and is not stopped, its timer is armed, or the main target has a wake pending, or a batch is under way that will beat |
| `OneBatchAtATime` | `Spec => []OneBatch` | `Single`: with no runner there is no batch; with one, there is at most one, and `running` is up while there is |

Why the strengthenings are needed: `OneRunPerProcess` alone says nothing of the
running set, so a timer that fires next to a call could start a second one;
`ConsentFirst` is about one step, and what allows it was done in steps long before;
`OneRunPerUser` depends on a flag it does not mention; `NothingLost` says nothing of a
worker about to remove the file; `HistoryPaired` holds of the history when the model is
asked, and is made in the steps before, when it does not.

So every safety property and every refinement that the passing runs check is a theorem,
and so are the liveness properties of the relay and of the bridge.

### Fairness in the proofs

The provers have no rules for `ENABLED`, which `WF` and `SF` are made of. The liveness
theorems get around it in two ways:

* The relay's start from `EventLoop`, which says of each timer, closing socket and
  continuation that it does not stay due for ever without its event. This needs no
  `ENABLED`, and run `relay_live` checks that the fairness of `FairSpec` implies it.
  A timer's event has to wait until the microtask queue is empty; `EventLoop` says that it
  does not wait for ever, though new commands keep filling the queue.
* The others start from `WF` and `SF` and name, as a hypothesis, the facts about `ENABLED`
  they rest on: `TimersCanFire`, `AllStepsCanHappen`, `EverythingCanGoOn`,
  `CallsCanGoOn`, `CanStep`. Each says of every state that an action
  which is due can happen, such as "an agent that reports can have its report written". They
  are plain state predicates, true in every reachable state of the instances of `bridge`,
  `tasks`, `schedule_live`, `schedule_crash` and `agent`, as TLC shows when they are added
  to the invariants of those configurations. Of the five only `EverythingCanGoOn` depends on
  a bound of the instance: it fails where `MaxRuns` leaves a queued request no run to be
  started as.

`RowsAreSettled` and `TasksAreReleased` ask for fairness with a box before it. A
behaviour is fair in this sense exactly if it is fair, since fairness is a matter of what
happens infinitely often; the provers take it as a hypothesis because `\A` and `[]` may
not be swapped by them.

### Only model-checked

* `TasksSettle`. Proved is that no row stays at running (`RowsAreSettled`). That it is
  not set running again and again needs that runs are finitely many: an induction over
  the set of runs with a temporal formula in it.
* `AgentTerminates`. Proved is that the agent always ends or gets on in a well-founded
  order. What is missing is the rule that concludes from this that it ends, which is again
  an induction with a temporal formula, and those the provers cannot instantiate.
* `KeepsRunning`. Proved are its safety part (`RecurringTasksAreWatched`) and that calls end
  and release their tasks; between them time counts a timer down, an induction over the
  ticks.

Only proved are `RelaysKept`, `RunningIsOwned`, `MarkedByCalls`, `RecurringIsWatched` and
`RunsDown`: they are what the liveness properties rest on, and TLC checks those.

## Not modelled, and why

* Authentication, the relay's tokens and origin checks, rate limits, HTTP parsing: no
  interplay with the state above.
* The extension itself: external; modelled as something that may answer anything to
  what it was asked, in any order, or nothing.
* The language model, Playwright, Supabase: external; a call that answers or fails.
* What the agent's browser tools do to a page, and its loop detectors: the page is no
  state of the server, and the detectors change no step (see the observations).
* A restart of the server in `TaskRunner`: the code restores nothing of a run, so all
  there is to say is that rows stay as they were.
* Skills, task log, accounts and integrations: single rows and remote calls.
* The follow-up queue: its drain and drop policies are in `utils/queue-helpers`, which the
  sources import and the repository does not have.
* The rest of the vendored gateway, channels and session store: not part of the running
  server.
* Of the heartbeats: which agent is due when, what a heartbeat does, and the switch
  `setHeartbeatsEnabled`. Of the deliveries: entries written by older versions, how a
  channel cuts a payload, and a restart of the gateway within its process (`server.impl.ts`),
  which starts a recovery while the calls, and perhaps a recovery, of before are still at work.
  Nothing is claimed of that: two recoveries that overlap may together go past
  `MAX_RETRIES`, so `RetriesBounded` is about one at a time.

## Plan

Done, in the order of importance to the running system: `CdpCommandService`,
`ExtensionRelay`, `ExtensionBridge`, `TaskRunner`, `Scheduler`, `AgentLoop`, then the
vendored `HeartbeatWake` and `DeliveryQueue`, each with its proofs. What is left:

1. `RelayRegistry` – `relayRuntimeByPort`, start-up promises, `stop`, the probe of a
   port in use. Property: at most one server per port, and no caller is handed a
   server that has been stopped.
2. The gateway's managers of pending requests (`exec-approval-manager`,
   `node-registry`) and the reply dispatcher.

Proofs: of what the runs check, `TasksSettle`, `AgentTerminates` and `KeepsRunning` are
proved up to an induction. Of these `KeepsRunning` has most left: that a timer that is
armed comes to fire, tick by tick, and that what it finds due is run. `ErrorsAgree` for
several processes would need a claim that says whose count an entry may lag behind.
