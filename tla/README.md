# Think-Agentic: runs, pages, sandboxes, transactions, generation jobs and streams, specified, model-checked and proved

This directory specifies the parts of Think-Agentic that are hard to test. In the
agent: what happens to a chat session and to the messages of its user while
requests, runners, stops, follow-up messages and restarts interleave, what a browser
page shows of it, what happens to the container its tools work in, and what an
`async with uow` block means when its exit is cancelled. In LibreChat: the life of
a generation job with its human approvals, the resumable stream over Redis, and the
leader election of a cluster. All paths below are relative to the repository; `api/`
stands for `src/agentic/api/app/`, `web/` for `src/agentic/web/src/`, `lc/` for
`src/LibreChat/`.

## 1. The system

The repository holds three products: `src/agentic` (the agent: a FastAPI service
`api/`, a web client `web/`, and a sandbox container service), `src/LibreChat` (a
chat server with its own agents, kept in the repository at a snapshot), and
`src/llmops` (an older, separate LLM platform with its own task engine). They share
no state with each other.

### Inventory of the agent

| Component | State it keeps | Operations | Talks to |
|---|---|---|---|
| Session row, `api/repositories/db_session_repository.py`, `api/core/entities/session.py` | one PostgreSQL row: `status`, `task_id`, `next_message`, `archived_at`, `events`, memories, files, title | claim a run, write handles, put / cancel / claim / consume / reset the next message, start a run-next, archive, resolve an interaction, branch, add an event | everything below, each call in one transaction with the row locked |
| `AgentService`, `api/services/agent_service.py` | none across awaits except its coroutine's locals | `chat`, `run_next_message`, `stop_session`, `resolve_interaction` / `continue_interaction`, `_finalize_orphaned_run`, `_create_task` | row, task registry, streams |
| `RedisStreamTask`, `api/core/task/redis_stream_task.py` | a class-level registry of tasks; per task an asyncio task and two stream names | create, get, invoke, cancel, `_execute_task` | runner, streams |
| `AgentTaskRunner`, `api/core/agent/agent_task_runner.py` | its coroutine's position and the event in hand | the loop of `invoke`, `_accept_next_message`, the handlers for cancellation and failure | row, streams, flow |
| `PlannerReActFlow`, `api/core/flows/planner_react.py` | plan, step, flow status, agents' memories | `invoke`: read the status, roll memories back, write RUNNING, plan, execute, update, ask, finish | row, models, tools |
| Redis streams, `api/core/message_queue/redis_stream_message_queue.py` | an input and an output stream per task | put, get (blocking), pop (under a lock with expiry), is_empty | |
| Unit of work, `api/repositories/db_uow.py` | one database session at a time | enter, commit / roll back on exit, swallow a cancellation met while committing | row |
| Session service, `api/services/session_service.py` | none | queue and cancel the next message, archive, branch, delete, read | row |
| Lazy sandbox, `api/core/sandbox/runtime.py` | a container handle guarded by locks | ensure, claim, sync, destroy | Docker, row |
| Agent memory and human-in-the-loop, `api/core/agent/base.py`, `api/core/entities/memory.py` | message list per agent | add, roll back, compact, resume a tool call | row |
| Trace, skills, tools, MCP/A2A, accounts, files, settings | projections and adapters | | external services |
| Session page, `web/composables/useSessionDetail.ts`, `web/components/SessionDetailView.vue` | the events shown and their ids, the last event id, its own idea of the status, one message stream, one listening stream, a reconnection timer, an epoch | send, resolve, run the next message (each opens a message stream), queue, load a snapshot, listen, reconnect | API |

### Inventory of LibreChat (the parts modelled)

| Component | State it keeps | Operations | Talks to |
|---|---|---|---|
| Generation jobs, `lc/packages/api/src/stream/GenerationJobManager.ts`, `implementations/RedisJobStore.ts`, `agents/hitl` approvals | one Redis hash per conversation (`status`, `createdAt`, the pending action); a map of runtimes and abort controllers per process | create, pause, claim and expire an approval (compare-and-set), complete, abort, sweep | controllers, stream |
| Controllers, `lc/api/server/controllers/agents/` | their coroutine's locals; a counter of pending requests per user in Redis | a turn, a resume, an abort; admission and its eleven releases | jobs, model runs |
| Event transport, `lc/.../RedisEventTransport.ts` | a counter in Redis; per replica a channel, the handlers of its SSE clients, a reorder buffer with a timer | publish, subscribe, reorder, sync, abort signal, cleanup | Redis pub/sub, jobs |
| Leader election, `lc/packages/api/src/cluster/LeaderElection.ts` | a key with a lease in Redis; a timer per process | isLeader, elect, renew, resign | Redis |

### What is hard

* **Two transactions where a reader sees one.** A start makes the row RUNNING in
  one transaction and writes the task id in a second; a queued message is claimed
  in one and consumed in another. Anything may run in between.
* **Cancellation.** A stop cancels the runner's asyncio task. The cancellation
  arrives at whatever await the runner is at: before its first step, in a
  transaction that swallows it, between a put and a commit, in a handler.
* **Late writers.** A runner that was stopped still has a handler to run, and the
  handler writes the session's row.
* **Stale reads.** `stop` and `chat` read the row, leave the transaction, and act
  on the registry with the snapshot.
* **Crashes.** The registry and all coroutines go, the row stays.
* **Two sources for one view.** The page assembles what it shows from streams and
  from snapshots, and a snapshot is read at one moment and applied at another.
* **Ids reused by design.** LibreChat's stream id is the conversation's: a turn that
  was replaced writes where its successor works.
* **Pub/sub.** Messages get lost and, in a cluster, overtake each other; a counter is
  not the same as what has been published.
* **Clients that vanish.** A chat request is a generator; it can be closed at any
  await between claiming the session and spawning the runner.

### What makes each part correct

Row and slot: a message in the slot has exactly one end, and one that was
cancelled or replaced never runs. Runs: one runner per session; the row says
RUNNING and names the task exactly while it works; a run ends; an accepted
message is run; one DoneEvent per task; an archived session is at rest; only a
session without a runner is finalized as an orphan. Page: it shows no gap, it never
stops listening to a run it believes in, and it ends with the row's status and log.
Sandbox: one container per session, none leaked. Unit of work: a block is one
transaction. Generation jobs: an approval is decided once, a generation has one
driver, what has ended stays ended, and every admission is given back. Stream: live
events arrive in order, a first subscriber misses nothing, the end is heard. Leader:
whoever is told that it leads holds the key, and does not lose it to bad timing.

The hazards, each at its line with the properties that would catch it, are in
`PROJECT.json`.

## 2. Modules

| Module | What it is |
|---|---|
| `SessionRow` | the row, and each repository operation as an operator from row to row with its guard |
| `SessionRuns` | requests, task registry, runners, input streams and the row, interleaved; the properties |
| `NextMessageSlot` | the abstract promise of the next-message queue: a mailbox for one message |
| `SessionRunsInv` | the inductive invariant |
| `MCSessionRuns` | small instances for TLC |
| `SessionRuns_proofs` | the row operations and types, the theorems, the refinement |
| `LazySandbox` | the runtimes of a session's tasks, their callers, Docker, and the handle in the row |
| `LazySandboxInv` | its inductive invariants |
| `MCLazySandbox` | small instances for TLC |
| `LazySandbox_proofs` | the theorems |
| `UnitOfWork` | a coroutine's `async with uow` blocks, the finalize tasks behind them, and database sessions |
| `AtomicBlocks` | the abstract promise of a block: one transaction |
| `SessionPage` | one browser page, the readers that serve it, the runner's writes to stream, log and status |
| `SessionPageInv` | its inductive invariants: not deaf, without a gap, listening from an event that is in a stream |
| `SessionPage_proofs`, `SessionPageWhole_proofs` | the theorems of the first; those of the other two |
| `GenerationJobs` | the job row of one LibreChat conversation, its drivers, approvals, aborts and sweeps |
| `GenerationJobsInv`, `GenerationJobs_proofs` | the inductive invariant and the theorems |
| `ResumableStream` | the stream of one generation over several replicas, with its inductive invariant |
| `ResumableStreamInv`, `ResumableStream_proofs` | what holds in the owner's lane while nobody disturbs it, the theorems |
| `LeaderElection`, `LeaderElection_proofs` | the election with its inductive invariant, the theorems |
| `UnitOfWorkInv`, `MCUnitOfWork`, `UnitOfWork_proofs` | the inductive invariant, an instance for TLC, the theorems |

### How `SessionRuns` corresponds to the code

The API runs on one asyncio loop in one process (`uvicorn` without workers), so a
step is the code between two awaits at which something else may interfere. Every
transaction is one step (each takes the row lock with `FOR UPDATE` or is one
UPDATE).

* `row` — the session's row. `registry` — `RedisStreamTask._task_registry`.
* `rpc`, `rlocal` — each request's coroutine: position and local variables, among
  them the *snapshot* of the row it acts on later. A chat goes
  `StartChat` (claim) → `ChatLookup` or straight to `CreateTask` → `WriteHandles`
  → `PutInput` → `InvokeTask`; a run-next skips the input and turns into a
  subscription; a stop goes `ReadSession` → `StopLookup` → `StopSession`; a chat
  or a stop or a subscription that finds a running row without a task goes through
  `FinalizeOrphan`, and a chat then claims again.
* `pc`, `cur` — each runner's position in `AgentTaskRunner.invoke` and the message
  it holds: `BeginRun`, then the loop `PopEvent` / `InputIsEmpty`, the transaction
  `finish_or_claim_next_message` in its three outcomes, `ConsumeQueued`,
  `PrepareFlow` (the status read that opens the flow), `SetRunning`, and the four
  ways a flow ends (`FlowDone`, `FlowWaits`, `FlowFails`, `RunnerRaises`), then the
  final event, the handlers and the cleanup.
* `cancelled` — cancellations requested and not delivered. `DeliverCancel` takes
  effect at the runner's await; `SwallowCancel` is `DBUnitOfWork.__aexit__`.
  A runner with a cancellation pending takes no other step of its try block.
* `Crash`, `Disconnect`, `CreateFails`, `RunnerRaises` — the faults.
* `fate`, `ran`, `resolution` — history: where each message is, how many flows
  were started on it, which ones answer an interaction.

What is abstracted: message contents, titles, unread counts, files, memories and
the events of the output streams other than DoneEvent; of the event log only
whether an interaction is pending. Each runner handler is one step, its
transaction with the event it puts. A cancellation that interrupts
`HandleCancelled` does not occur (a second stop finds the task out of the
registry). A database error *inside* a handler is not modelled. An exception
between `_create_task` and `invoke` (a full disk in Redis) has the effect of
`Disconnect` there. `ensure_session_active`, which the route calls before a chat,
is merged with the claim that repeats its check. `AgentService.shutdown` is
called by nobody. After a crash the streams of the dead tasks remain in Redis
under ids no new task gets: the model empties them.

### How `LazySandbox` corresponds to the code

Each task has a `LazySandboxRuntime`; a caller is a coroutine in `get_sandbox`
(a tool call through `LazySandboxProxy`), and two runtimes of one session overlap
when a stopped runner is still at work beside its successor.

* `handle` — `sessions.sandbox_id`, written only by `claim_sandbox_id`
  (`update_runtime_handles` is never called with a sandbox id). `docker`,
  `inside` — the containers and the attachments uploaded into them.
* `known`, `box`, `ready`, `manifest`, `materialized`, `prepared`, `lock` — the
  attributes of a runtime and its materializer; `prepared` stands for the equality
  of the manifest's and the prepared version.
* `pc` — where a caller suspends in `get_sandbox`: `waiting` for the lock;
  `creating`, in the thread of `docker run`, or `undoing`, when it was cancelled
  there and waits to destroy the container (`_create_candidate`); `claim`, in the
  transaction; `ensure`; `upload`. The restore of a known container calls Docker
  without suspending, so entering the lock and restoring are one step; what follows
  the claim without an await (`ClaimWins`, `ClaimLoses`) belongs to the claim.
* `Faults` — what may go wrong, each by name: the model takes every step that the
  faults of an instance allow, and the theorems hold for any of them.
* `abandoned` — history: the containers a fault took (a `docker run` whose
  inspection failed, a removal that failed, a crash before the claim). `NoLeak`
  says that *only* faults lose containers. `result` — history: what the last call
  returned.

Abstracted: `DockerSandbox.destroy` is one step (its `aclose` does not suspend for
a client that was never used; when `LazySandboxRuntime.destroy` is interrupted the
effect is that of a failed removal). A caller is cancelled once: a stop takes its
task out of the registry; a second cancellation inside `_create_candidate` would
leave the container. A crash during `docker run` leaves a container that
no property speaks of. The background commit of a cancelled claim
(`DBUnitOfWork.__aexit__`) lets the caller go on, so its step is `ClaimWins` or
`ClaimLoses`; that this commit may still fail afterwards is not modelled. A new manifest arrives only between flows, when no tool call of the
runtime is under way. The browser with its lock, the activation observer and the
fixed `SANDBOX_ADDRESS` mode, which has no containers, are left out.

### How `UnitOfWork` corresponds to the code

`SessionRuns` and `LazySandbox` take each `async with uow` block as one step. This
module opens the block. `__aexit__` runs `_finalize` as a task, shields it, and
swallows a cancellation of the coroutine, which then goes on while the task works.

* `db` — `self.db_session` of each `DBUnitOfWork`. A session is named by the block
  that opened it; the repositories of a block keep that session.
* `pc`, `raised`, `seen` — the coroutine's place in a block, whether the body
  raised, and how the coroutine went on: told of success, told of an error, or
  `swallowed`, told of nothing.
* `fin`, `target`, `failed` — the finalize task: what it awaits, on which session,
  and whether it will raise. It reads `self.db_session` anew at each call
  (`CallNext`). Its first call is made in the step of `Exit`: a task starts before
  anything that could wake the coroutine.
* `txn`, `closed` — SQLAlchemy's sessions (external): a session opens a transaction
  at its first statement, also after a close; close discards what is not committed,
  and fails or not while somebody else uses the session.

`Undisturbed` is the condition under which the code is right: a block whose exit may
be cancelled has an object of its own. `LazySandboxRuntime._claim_sandbox_id` and
`AgentService._safe_update_unread_count` are written so, the latter with a comment
that gives this reason; `AgentTaskRunner`, `BaseAgent`, `PlannerReActFlow`,
`AgentService` and `SessionService` use one object for all their blocks, and a stop
cancels the first three anywhere. **What follows for `SessionRuns`:** after a
`SwallowCancel` it lets the runner's transactions be atomic still. The code may also
lose the next one (the last item of section 6), in which case the row stays as it was before it.

### How `SessionPage` corresponds to the code

`SessionRuns` knows who may run what; this module knows what a user sees of it. It
keeps the writes of a run in the order of the code: an event is put into the output
stream and then committed to the log (`Put`, `Commit`), a run that ends well writes
"completed" before its DoneEvent (`FinishOrClaim`, `Puts`), a question or an error of
the flow is put before the transaction with the status (`FlowWaits`, `FlowFails`,
`Settle`), a runner that raises the other way round (`RunnerRaises`).

* `evs` — every event, named by its place. `src` says where its id comes from: an
  output stream, an input stream, or a uuid (the error of an orphan check or of
  `chat`, and a resolved interaction: they are only in the log). Stream ids are times,
  so places compare as they do.
* `conn` — the two requests of the page with the generator that serves each and the
  events on their way. A message goes `claim` → `put` → `add` → `get`; a listening
  stream `open` → `get`, or `idle` for thirty seconds; in `get`, `Get` is an XREAD that
  answers, `Misses` one that times out, and `AsksTask` looks at the task only then.
* `page` — `events`, `lastEventId`, `session.status`, `next_message`, `isSendMessage`,
  `emptyReconnectTimer` and `runStreamEpoch` of the composable. Its functions are
  operators from page to page (`AppendEvent`, `StartEmptyStream`, `ApplySnapshot`, ...).
  The watcher of the session compares a fresh array each time, so it runs at every
  assignment of `session.value` (`Assigned`, `Watch`); Vue runs it at the end of the
  task, the model at once.
* `loads` — snapshot requests: read by the server in one step, applied in another.
* `Ops`: `ask` (a flow may end in a question), `queue`, `next` (the user queues a follow-up,
  runs a queued one). `Faults`, `MaxFaults` of them in a behaviour: `drop` (a connection breaks), `reload`, `crash` (the process restarts),
  `lost` (a snapshot request fails), `fails` (the flow reports an error), `raise`.

Abstracted: the flow's own events are one kind ("step", which makes the page
running), an interaction and the wait after it are one event, and the answer to it
is a run like any other (the run `resolution` shows that it is cut short). The user
loses or leaves no request before its run has started (`Untouched`): `SessionRuns`
has those. Claim and creation of a run, and the orphan check, are one step each,
as `SessionRuns` shows what is between. An idle stream ends only when no timer and no
snapshot of the page is pending: thirty seconds against fifteen and thirty, in that
order. A stop, drafts, and a page that turns to another session are left out.

### How `GenerationJobs` corresponds to the code

`streamId` is the conversation's id: every turn of a conversation, and every resume of
a turn that paused, works on the same row and the same entry of the runtime map.

* `job`, `keep` — the Redis hash; `gen` is its `createdAt` (two turns do not start in
  the same millisecond). `rt`, `aborted` — `runtimeState` of the one process that is
  modelled and the controllers whose signal is aborted; aborts from another replica
  are in `ResumableStream`.
* `pc`, `gen`, `ctl`, `want`, `how` — a driver: a turn's or a resume's background
  task, where it awaits Redis and what it holds in locals. `slot`, `pending` — what it
  owes to the user's counter, and the counter.
* `CasHolds` — `transitionStatus`, one Lua script. `updateJob` (a completion or an
  abort) is a write by key without it, in a step of its own (`Complete` and
  `StoreTerminal`).
* `expired`, `sweep` — an approval's window and the sweep, which reads a row in one
  step and expires it in another.

Redis errors are modelled where the code has a path for them: admission, creation, a
refused pause, a failed claim; not a command that took effect and whose reply is
lost. The counter expires a minute after its last increment (`CounterExpires`). What
a turn saves, billing, titles and checkpoints are left out.

### How `ResumableStream` corresponds to the code

* `ctr`, `job`, `drv`, `abt` — the counter, the row's status, the driver on the owning
  replica, and an abort request. An event gets its number from INCR (`Number...`) and is
  PUBLISHed in another step, which may be lost. `drv.how` says how the generation ends:
  *done*; *aborted*, when the controller was aborted before the agent was through
  (`request.js:676, 779-799`: an unfinished answer is sent and the row kept as an error); or
  by an *error* that the catch (`Caught`, 833-871) announces, unless it takes it for an abort.
* `SendFails` — the INCR or the PUBLISH of a final event throws
  (`RedisEventTransport.ts:541-563`), and Redis may have taken the PUBLISH all the same
  (`Throws`): `emitDone`'s error goes into the catch, which sends an error event in its
  place; that one's goes out of it, to the `.catch` that completes the job (880-887).
  `AbortFails` is the same for the abort request, which fails and leaves the row as it is.
* `net` — messages on their way to each replica's subscriber connection; any of them may
  be delivered next. `disturbed` remembers that one was delivered out of turn, that the
  run was aborted, or that the agent or the sending of its end failed.
* `tr` — the transport at a replica: handlers, expected number, buffered messages,
  timer, channel. `cur`, `subbed`, `dead`, `early` — its runtime entries with the events
  emitted before anybody subscribed.
* `pc`, `home`, `ref`, `count`, `seen`, `got` — a client's request, from the look at the
  row through SUBSCRIBE, replay and the read of the counter to live events.

GET and INCR share a connection and are answered in order (`Pipelined`); between the
reply to SUBSCRIBE and the replay is one microtask (`Settled`). The content snapshot that
a resumed client gets is left out, and so are messages at replicas that concern nobody, and
an INCR of a chunk that fails.
`Spec` ends before the first cleanup; `SweptSpec` has the cleanup of each minute.

### How `LeaderElection` corresponds to the code

* `key`, `lease` — the Redis key and its remaining time, in ticks of five seconds.
  `timer`, `due`, `attempt` — a process's renewal timer; the delay between two attempts
  is shorter than a tick.
* `pc`, `said` — each call of `isLeader` and its answer; a reply is read in a step after
  the command took effect, and may be lost.
* `stalled`, `up`, `resigned` — a process whose event loop is blocked, that is alive, that
  was told to shut down. `Tick` passes time only when every process that is not stalled has
  done what is due: what is between two steps of a live process is shorter than a tick.
* `tardy` — history: a process that stalled with a reply unread. A restarted process has
  a new UUID and is another server.

## 3. Runs

| Run | Instance | Checks |
|---|---|---|
| `onetab` | one request in flight, two tasks, two messages; every operation, every fault | `IInv` (with the types), `DiscardedNeverRuns`, `RunAtMostOnce`, `ClaimIsHeld`, `ImplementsMailbox` |
| `calm` | one request in flight, three tasks, no stop, no fault, weak fairness | `StatusIsAuthoritative`, `OneDone`, `ArchivedIsAtRest`, `RunEnds`, `AcceptedIsRun` |
| `sandbox` | two runtimes, three callers of which two share a runtime and its lock, two containers, one attachment; every fault but `getFails`; fairness | `SandboxInv`, `OneSandbox`, `NoLeak`, `FilesAreThere`, `HandleOutlivesItsContainer`, `CallsEnd` |
| `uow` | two blocks in turn on one object, a third that may be cancelled on its own; bodies, commits, rollbacks and closes fail; fairness | `UowInv`, `BackgroundCloses`, `ImplementsAtomic`, `SessionsEnd` |
| `page` | two runs, two flow events; one broken connection, lost snapshot, reload, restart, failing flow or raising runner; fairness | `NoHole`, `ResumesFromOutput`, `Converges` |
| `page_queue` | two runs that may end in a question, a follow-up that is queued, claimed or run later; one restart or raising runner | `PageInv` (`TypeOK`, `NotDeaf` and what makes them inductive), `DoneIsTrue` |
| `jobs` | two turns of a conversation, a resume, an abort, a limit of two | `JobsInv`, `SoleDriver`, `SlotsNotLeaked`, `TerminalIsFinal` |
| `hitl` | one turn, two resumes, an abort; fairness | `OneOutcome`, `PausedEnds`, `DriversEnd` |
| `stream` | two replicas, a first and a resuming client, two chunks (one if it may be aborted, none if an abort and a failure meet), a buffer of two | `StreamLaneInv` (`StreamInv` and the lane of the owner), `LiveInOrder`, `FirstSeesAll`, `DoneIsHeard` |
| `leader` | two servers, a call each, a lease of five ticks renewed every two, two faults; fairness | `LeaderInv`, `NoLapse`, `ToldHolds`, `LeaderEmerges` |
| `resolution`, `late_subscriber` | expected violations | one documented statement each, see section 6 |

`onetab`, `calm` and `resolution` instantiate `MCSessionRuns`, `sandbox`
`MCLazySandbox`, `uow` `MCUnitOfWork`; the other configurations instantiate their
modules themselves, `jobs` and `hitl` `GenerationJobsInv`, `page_queue` `SessionPageInv`.

**Why these instances.** The slot's promises hold under every interleaving and
fault: TLC checks them for one client, the theorems for any number of them. The
promises about *runs* hold only when nobody stops a run and one client is at work:
with a stop, or with two tabs, the code breaks them (section 6). `calm` is the
largest instance in which they hold. A page is checked over one fault: after two in
a row (a broken stream and the loss of the snapshot that would have repaired it) a
page may miss an event, or think of a run that is waiting, until its user reloads it.
With both a failed flow and a restart it may say completed beside a row that runs,
when the process dies between the flow's error and the status
(`agent_task_runner.py:541-545`). `Converges` does not ask for two things: a DoneEvent
or an ErrorEvent, whose status the page has (a snapshot that is read between the put and
the commit of the event removes it from the page, section 6), and, after a restart, the
events of the dead task, since nobody reads its stream any more.
`page` has no questions and no follow-ups and `page_queue` no flow events, for the size
of the instance. With questions beside the flow events, `NoHole` and
`ResumesFromOutput` hold in 7.1 million states (and in every instance of one fault without
follow-ups, section 4), and `Converges` with questions and no flow events in 0.6 million;
with follow-ups they do not hold (section 6).

**Bounds.** `Tasks` bounds how many runs a behaviour may start (`TaskLeft`), and
`Messages` how many messages the clients send (a message is sent while its fate is
"fresh"); `Requests` bounds the requests in flight, not in total. Two tasks and two
messages are what the hazards need: a claim by one task lost to another, a replaced
message and its replacement, a run and the run that succeeds it. `calm` has a third
task so that a run may follow a run that followed an interaction.
In the sandbox model `ContainerLeft` starts a call only while a container is left for
every call that may create one: two are what a race and a replacement need; the
theorems have no such bound. In the unit of work each block runs once, and three are a
pair that shares an object and one that does not. A page starts `MaxRuns` runs, with
`MaxSteps` flow events, `MaxQueues` follow-ups and `MaxFaults` faults. In the jobs model each turn, resume and abort happens once: two turns are a
replacement, two resumes the race for an approval. A stream has one owner and one other
replica, a client that is replayed and one that resumes, routed to one replica
(`Sticky`) so that they share its buffer; a buffer of two overflows. A generation
that may be aborted has at most `NAborted` chunks, and where the agent or the sending of an
end fails besides, `NFailing` (here none): these two only bound the instance, and the
theorems hold for every value of them. A lease of five
ticks and an interval of two are the code's 25 and 10 seconds.

**Polite.** The web client posts `/chat` on a session it sees idle and queues the
message otherwise (`SessionDetailView.vue:588`). `Polite = TRUE` assumes it of the
clients; `onetab` does not.

**Fairness.** Weak fairness for each request's and each runner's coroutine: asyncio
resumes every coroutine whose await is over. That a *flow* ends is an assumption on
model calls, which have timeouts, and on the flow's loop, which has a maximum of
iterations. There is none for clients: nobody is obliged to send, cancel, or run
anything. `RunEnds` says that the row leaves RUNNING, `AcceptedIsRun` that what
entered an input stream, or was consumed, reaches a flow. In the sandbox model the
holder of a runtime's lock proceeds (WF: Docker and the database answer,
`ensure_sandbox` gives up after thirty tries) and whoever waits for the lock gets
it (SF on `EnterLock`: the lock is free again and again, and `asyncio.Lock` wakes
its waiters in order). Nothing is assumed of tasks, containers or faults. In the unit of work bodies come to
their end, the database answers, and the coroutine is resumed. Of a page: coroutines
are resumed and flows end, the browser runs its callbacks and timers, the oldest
snapshot request is answered; nothing of its user. Of a job: drivers that were started
go on, approval windows close, the sweep comes round. Of a leader: awake processes run
their timers and calls, stalls end, somebody asks again and again, and time passes (SF
on `Tick`: a process does not do infinitely much within one).

**Deadlock** is checked in every run: a client can always open another stream or
stop the session, so a state without a successor would be an error of the model.
The exceptions say so in their cfg: blocks (`uow`), requests (`jobs`, `hitl`),
clients (`stream`, `late_subscriber`) and runs (`page`, `page_queue`) are used up, and a cluster whose servers are all dead (`leader`) stays so.

## 4. Theorems

All theorems hold for every set of requests, tasks and messages, every choice of
operations and faults, polite clients or not. They rest on `NoneIsNoId` (`None` is
no task, message or status) and `RunsAssumption` (the constants are what they say).

* `TypeCorrect`, `DiscardedNeverRun`, `RunOnce`, `ClaimHeld`: `Spec => []...`.
* `InductiveInvariant`: `Spec => []IInv`.
* `SlotImplementsMailbox`: `Spec => ImplementsMailbox`, the refinement.

**The argument.** `fate` names one place for each message, and the invariant says
the message is there and nowhere else: in one request's locals (`HeldInv`), in one
entry of one input stream (`InputInv`), in the slot (`SlotInv`), or in one runner's
hands (`HandInv`). `RunAtMostOnce` is not inductive by itself: a flow must not be
started on a message that has been run, and that follows only if no second runner,
stream entry or request holds it. `RanInv` then says that only popped and consumed
messages have been run; with it `DiscardedNeverRuns` follows, since a discarded
message has another fate and never leaves it. `RequestInv` says what each request
carries where. `ClaimInv` strengthens `ClaimIsHeld` with the cancellation flag: a
claimer may lose its claim silently only to a delivered cancellation, so the
invariant has to say that a claimer with a pending cancellation is one whose stop
has not yet run its last transaction, which will reset the claim.

For the refinement, each action that touches the slot is one action of the mailbox
(`ClaimQueued` a Claim, `ConsumeQueued` a Consume, `SetRunning` of a consumed
message a Serve, each reset a Release), and every other step, by `IInv`, moves no
message in or out of the slot's fates: a stutter.

**A calm client.** `CalmInvariant`, `StatusAlwaysAuthoritative`, `OneDoneAlways` and
`ArchivedStaysAtRest` hold for any tasks and messages under `Calm`: one request in
flight, from a polite client that does not stop, and no runner that raises outside its
flow. Process crashes, disconnected clients and failing starts are allowed, which is more
than the run `calm` has (its liveness would not hold with them; `CalmInv` does, in its
instance with these faults added, in 20,466 states). Each hypothesis is needed: a stop
or a second tab may end the run of another (section 6), a client that is not polite
joins a run that is ending, and a runner that raises after it completed the row
completes it again under its successor. The argument is `StartInv`, a request that
starts a run holds a running row with no runner at work until its own is spawned, and
`ListenInv`, the task that a listener read is the one at work, if any: only then is what
`_finalize_orphaned_run` ends an orphan. `DoneInv` needs that no task is invoked twice.

Layout of `SessionRuns_proofs`: what each row operation returns and what it leaves
alone; types, one step per action; one lemma per part of the invariant and kind of step;
the refinement; the calm client.

**The sandbox.** For any runtimes, callers, containers and files, from
`SandboxAssumption`:

* `AttachmentsThere`: `Spec => []FilesAreThere`, whatever faults occur.
* `SandboxInvariant`, `OneSandboxAlways`, `NothingLeaks`, `HandleKept`: under the
  assumption that `"getFails"` is not among the faults. It is needed:
  `DockerSandbox.get` answers None for an API error as for a missing container
  (`docker_sandbox.py:283`), and the runtime then replaces a container that runs.

The argument for the first: who works holds the lock (`LockInv`), so nobody else
changes the cached sandbox under it; `FilesInv` says that what the materializer
remembers is inside that sandbox, and nothing is remembered without one. For the
others: containers do not come back, so an id that names a dead container stays
harmless. `KnownInv` says that every remembered id is the session's or a dead one;
`ReplacingInv` that whoever creates a container has found its known one dead. A
claim succeeds only if the row names that known one, hence only over a dead
container, and `KnownInv` survives it. `CreatedInv` keeps a fresh id apart from all
that are remembered. TLC checks both invariants in the runs.

**The unit of work.** From `UowAssumption` and `Undisturbed`, for any blocks, objects
and failures: `BlocksAreAtomic` (the refinement: a block is one transaction, never
reopened, and committed when its coroutine is told that it returned), `RaisedUndone`,
`BackgroundClosesOwn`, and `UowInvariant` behind them. The argument is `OwnInv`: a
finalize task at work finds its own session in the object, since whoever could have
replaced it is, by `AloneInv`, still waiting for that task, or, when its wait was
cancelled, has no other block with the object.

* `UploadInvariant`: `Spec => []UploadInv`, with failing lookups too.

**Generation jobs.** From `JobsAssumption`, for any turns, resumes, aborts and limit:
`JobsInvariant`, `OneOutcomeAlways`, `SoleDriverAlways`, `SlotsNeverLeak`,
`TerminalStaysFinal`. The compare-and-set compares the status and the action, and that is
enough because an action is made once (`ActionsAreMade`: whoever is named by one has
paused and drives no more) and leaves the row when it is decided (`Decided`).
`SoleDriver` needs `PausedIsIdle`, nobody drives a generation whose row awaits its
approval, and `WantsOwn`, a resume that holds the live action holds its generation. A
driver that pauses the row of a *newer* generation (`client.js:1275` compares only the
status) breaks this; such generations are set apart by `mispaused`.

**Leader election.** From `LeaseAssumption` (the interval is shorter than the lease):
`LeaderInvariant`, `LeadersDoNotLapse`, `TheToldHoldTheKey`. `Margin` says that a leader's
lease exceeds the time to its next renewal by what a renewal leaves in hand; `FreshWon`
and `UnreadHolds` carry it over the moment between a command and the reading of its
reply.

**The resumable stream.** From `StreamAssumption`, for any replicas, clients, chunks,
buffer size and starting counter, sticky routing or not: `StreamInvariant`,
`OrderAlways`, `DoneAlwaysHeard`, `StreamLane`, `FirstAlwaysSeesAll`. They are theorems of
`Spec`, which ends before the first cleanup: a cleanup breaks them, and `late_subscriber`
shows how. `LiveInOrder` says
that what a client was shown ascends; it is inductive only with `GotInv` (all of it is
below the number its replica expects), and that survives a step because the buffer holds
nothing below this number (`BufferInv`), no two events share one (`NumberInv`), and a
handler set is that of the clients that listen (`HandlerInv`), so that an arrival is
written to exactly them. `DoneIsHeard` follows from `OwedInv`: a final event owed to a
client is on its way to its replica or buffered there, at or beyond the expected number,
until the client is told. What it promises is no more than this: a client that was live
when a final event got its number has been told an end once nothing is on its way to its
replica and no timer runs there, unless that event is still unpublished, its PUBLISH failed,
or the replica has passed over its number. The last is what the sync of a late subscriber
does to itself and to others (`late_subscriber`). `UnsentInv` fixes what a driver or an abort holds between
INCR and PUBLISH. The buffer's functions are proved once as lemmas: what delivery,
overflow, the timer and a resynchronisation lose, hold back and write, and that none
lowers the expected number or takes it beyond what was allotted. Actions
fall into five kinds: messages that pass on (or are not sent: what was owed of them is
owed no more), events that get a number, buffers that
deliver, clients that attach, clients that leave.

`FirstAlwaysSeesAll` needs more: that no hole opens between the early buffer and the
channel. `StreamLaneInv` adds to `StreamInv` what holds at the owner while nobody aborts,
neither the agent nor the sending of its end fails, and no message overtakes another
(`Undisturbed`; each of these sets `disturbed` for good). There the reorder buffer, the
connection and the driver are one lane, in which numbers ascend (`LaneInv`) and keep their distance to the chunks' places
(`PlaceInv`); the final event has the last number. The early buffer holds exactly what was
emitted since the last chunk a first subscriber may have been replayed (`EntryInv`). A
client that was replayed everything has each chunk, or will be given it when the buffer
comes to its number (`NoHoleFor`). What could break this is another client's
`syncReorderBuffer`, which moves the buffer to the counter when nothing waits:
`AskerInv` and `WholeInv` show that any other client that asks holds the *second* entry of
the owner, which is made once the generation is over. Its sync may pass over the final
event, so that the browser is never told the end (`PassedOver`), but then it is not told a
false one either. Every step does one of six things to the lane (`LaneKinds`): nothing, it
clears the buffer when nobody listens, a number is taken, a message is published or lost,
the buffer is run, a message finds no transport.

**The page.** From `PageAssumption`, for any number of runs, events, follow-ups and
faults, any operations and any of the faults: `PageInvariant` and `DoneAlwaysTrue`. TLC
checks one fault in a behaviour; the theorems say that however many connections and
snapshots are lost, however often the server restarts or the page is reloaded, the page
is not deaf and its DoneEvents are true. The parts of the invariant:

* `RunInv` is the runner's: what it has put and not committed is in its hand, a DoneEvent
  is its last output and is put when the row is completed. `DoneIsTrue` follows from it.
* `ConnInv` is the streams': a message stream serves the run of the row, nothing comes
  after a DoneEvent or an ErrorEvent in it, and what it carries of a run is in the log or
  in that run's output.
* `HearsInv` is `NotDeaf` made inductive. A sending page has its message stream and no
  listening one; a message stream whose page does not send has ended and is empty, so
  that its end will come; a snapshot that continues a stream's end belongs to this epoch
  only if the page does not send. The induction fails without `SettledInv`: a DoneEvent
  closes a message stream without a snapshot and is *dropped* when the page shows it
  already, so that a page which had been told "running" in between would wait for ever.
  `Settled` excludes this: who shows the DoneEvent of the row's run, or will once a
  snapshot arrives, shows every event of that run that says "running", those still on
  their way included, and does not believe in the run.
* A new epoch has only the stream that was opened for it, and every snapshot under way is
  of an older one. Until its run has a row (`Opening`) nothing needs to be settled.

Each callback of the page is proved to stay within its epoch (`WithinEpoch`) and to leave
the page informed (`Informed`); one lemma (`WithinEpochKeeps`) turns both into the
invariant. The functions of the composable are described by lemmas of their own
(`AppendEventIs`, `ApplyIs`, `ContinuedIs`, `BrokenIs`, `OpenIs`).

*No gap.* `NoHoleWhenSmooth` and `NoHoleWithOneFault`, in `SessionPageWhole_proofs`. A
set of events is `Whole` if it has, with an output of a run, the earlier ones of that run.
The page stays whole because each thing that may tell it more is whole in front of it
(`PageWhole`): a stream's reader starts at a place up to which the page, with what is in
the channel, has everything (`From`), the channel has no event without the earlier ones
(`StreamWhole`), and a snapshot under way is whole and may be continued after its last
event (`LoadWhole`). That rests on the server: `TurnInv` (the log is whole; a runner's
ending is its last output; runs of the past have nothing but their ending to put; a run's
message comes before its outputs), `StreamInv` (the streams read the output of the row's
run, and a message stream ends when nothing more will come of that output), and on which
snapshots the page would still apply (`LoadsInv`: it does not send then). `From` speaks of
the output of one run, while the cursor may be an event of another: after an old run's late
DoneEvent the events of the present run before it would be lost. `LateInv` says when two
outputs may mix: not before the first fault, and after it only while the page sends or the
run is through, when nothing is read from that cursor.

The two hypotheses are needed, section 6 has the behaviours. `[]~Refuses`: no follow-up was
refused, whose snapshot is applied by a page with an open stream. `Smooth`: at most one
fault so far, or outputs that do not mix (`InTurn`); two faults can bring the cursor behind
such a DoneEvent. Without a follow-up nothing is refused, which gives the second theorem:
what the run `page` checks, for any number of runs and events, with questions beside them.

*Listening from a stream's event.* `ResumesWithOneFault`, under the conditions of the second
theorem. The cursor of the page does become an event that no stream has (`Uuid`: the
resolved interaction, the error of an orphan check), so the invariant must say why nothing
listens from it. A page that sends with such a cursor will be given the run's message before
it listens (`Foretold`, `MessageSound`): on the message stream the API's event comes first,
and what the user wrote is behind it or still to be put. A page that does not send believes
the session completed, or has met its one fault and has no listening stream and no timer
(`PageSound`); a snapshot that would be applied to it and says that the session goes on ends
with a stream's event (`LoadSound`), because the log ends with one of the API's only while
the row is completed or the run's message is on its way (`RowSound`). The theorem needs
`NoHoleWithOneFault`'s invariant: that an orphan is not taken for a run that is about to
start is `TurnInv` and `StreamInv`. It covers questions, which `page` leaves out.

TLC agrees with all of these invariants (`TurnInv`, `StreamInv`, `WholeInv`, `RowSound`,
`CursorInv`) on the instance of `page` with questions added, in 7.1 million states.

**Only model-checked:** liveness (`RunEnds`, `AcceptedIsRun`, `CallsEnd`,
`SessionsEnd`, `Converges`, `PausedEnds`, `DriversEnd`,
`LeaderEmerges`: fairness is out of the prover's reach). `NoHole` and `ResumesFromOutput`
are proved under the hypotheses above and are no theorems of `Spec` alone: with follow-ups
that are refused, or after several faults, the page breaks them (section 6).

## 5. Reading a property against the code

* `DiscardedNeverRuns` / `RunAtMostOnce`: a stop may take the claim from a runner
  that is about to consume, the client may then cancel the message, and the runner
  may go on if its cancellation is swallowed: `consume_next_message` must notice.
* `ClaimIsHeld`: no path leaves the slot "processing" with nobody to consume or
  reset it. A runner cancelled before its first step has claimed nothing; one
  cancelled in the error handler has a stop behind it that will reset the slot.
* `OneSandbox`: a runtime may hold the id of a container that another has replaced;
  what excludes two live ones is that a claim compares with the id that was *looked
  up*, not with the id read at the claim.
* `NoHole` / `CanApply`: a snapshot replaces what is shown. Within one epoch the page
  asks for one only when its message stream is over, and listens again from the last
  event of the snapshot; the epoch keeps an old one from a new run.
* `NotDeaf`: a message stream may end in six ways, a listening one in five; after each
  the page has something pending that will tell it more.
* `SlotsNotLeaked`: eleven paths give an admission back; none forgets it, and a claim
  whose compare-and-set raises is one of them.
* `FirstSeesAll`: the early buffer is replayed, and live events are taken from the number
  it ended with on; chunks go on coming in between.
* `StatusIsAuthoritative` is what `finish_or_claim_next_message`, stop and the
  orphan check rely on; it implies that a session has one runner.

## 6. Disagreements between the code and what is said of it

Two of these have a run whose counterexample is the evidence.

1. `resolution`: `continue_interaction` goes through `chat`, whose claim writes
   RUNNING; the flow then refuses an interaction response because the session is
   not WAITING (`planner_react.py:142-144`). The answer to a question is never run.
2. `late_subscriber`: a client that attaches while the final event has its number and is
   not yet published expects the number after it; it is never told the end, and the
   cleanup drops its handlers without a word (`RedisEventTransport.ts:185`).

The others are reasons for the conditions a property is checked under. Those of the page
are counterexamples of `SessionPage` in larger instances:

* A follow-up that is refused with 409 refreshes the page while its message stream is
  open (`SessionDetailView.vue:597`). The snapshot, read before an event was committed
  and applied after it was shown, removes it, and the stream does not bring it again.
  The design names the race and trusts deduplication by id. (`NoHole`, one run, one
  step, two follow-ups, `Ops = {"queue"}`.)
* The same between the put and the commit of a last event: the page's own snapshot after
  the stream's end removes the ErrorEvent of a runner that raised. It keeps the status
  and shows no error. (`Converges` with "error" among what it asks for.)
* The design resumes listening "from the last known output event"; the code takes the
  last event it knows (`useSessionDetail.ts:92, 237`): after an orphan check an error with
  a uuid, after an answer the resolved interaction. XREAD refuses it, `chat` logs an error,
  and the page takes the run for failed while it goes on. (`ResumesFromOutput`, two runs, a
  follow-up, `Ops = {"ask", "queue"}`; without a follow-up by two faults: the message stream
  of an answer breaks after the resolved interaction, before the user's message, and the
  snapshot that follows is lost.)
* A runner writes COMPLETED and puts its DoneEvent later; the next run may have begun by
  then, so that the DoneEvent of the first run is the last event of the log while the second
  goes on. A page that is reloaded then listens to the second run from there and misses
  what that run put before. (`NoHole`, two runs, a step, two reloads.)
* A turn that fails after it was replaced emits its error on the stream of the job that
  replaced it, and completes that job with an error (`request.js:860`); the guard of the
  normal end is missing there.
* When the final event and then the error event in its place fail to be sent, the job is
  completed in silence; when the agent's error has "abort" in its message, the catch takes
  it for one that `abortJob` has announced (`request.js:842-846`) and leaves the row running
  with nobody behind it. An open response then waits for the cleanup (`DoneIsHeard` speaks
  only of events whose PUBLISH did not fail).
* When the last SSE client of the generating replica leaves, the channel is unsubscribed
  on which that replica listens for aborts (`RedisEventTransport.ts:480`).
* A stopped runner's late handler writes COMPLETED for a session that another run may
  have taken (`agent_task_runner.py:549-553`).
* Between the claim of a run and the transaction with its task id the row looks like an
  orphan's; a second tab finalizes it and the run starts anyway
  (`agent_service.py:352-358`).
* A stop while the final DoneEvent is being persisted makes the handler put another.
* A stop that meets a commit is swallowed, the runner enters its next block on the same
  object, and the background task closes the session of *that* block (`db_uow.py:79`):
  its transaction is lost without an error.

A session that was stopped and archived while its runner swallowed the cancellation,
a message put into the stream of a runner that has just decided to finish, and a
session whose starting client vanished are further consequences that the hazards
list; the properties they touch are checked in the instances without them. The notes of
the hazards say what an instance does not meet: `calm` has neither the second request nor
the late handler that would break `StatusIsAuthoritative`, nor the failed creation that
would break `RunEnds`; generations paused by another turn are exempt from `SoleDriver`; and
`FilesAreThere` notices missing files, not a container that was replaced or leaked.

## 7. Not modelled

* `PlannerReActFlow`'s plan, the agents' memory and the resumed tool call: data
  between the model calls of one coroutine. What they share with others, the row's
  status, is in `SessionRuns`.
* Branching (copies a session under one row lock and returns the branch of a repeated
  idempotency key), deletion, files and titles: one transaction each. A deletion
  beside a running task makes its later transactions fail, which is not modelled.
* The lock around `pop`: each input stream has one consumer.
* Trace, skills, tools, MCP and A2A adapters, accounts, settings, the container service:
  projections and I/O no run decision reads.
* Of the page: stopping, several pages of one session, a message stream whose answer
  takes more than five minutes (`fetch.ts:250` aborts it, which the page takes for its
  own abort, `web/lib/api/session.ts:179`).
* Of LibreChat: several processes that share one job beyond the abort signal, Redis
  commands that took effect without a reply (except in the election and the PUBLISH of a
  final event), the content
  snapshot of a resumed stream, the duplicate a replayed chunk may have in the window of
  the GET (documented at `RedisEventTransport.ts:161-167`), a counter that a cleanup on
  one replica removes under a new turn, and everything else: data provider, web
  client, provider adapters, MCP connections, skills, files, accounts.
* `src/llmops`: an older, separate service that the agent does not call.
