--------------------------- MODULE SessionRuns ---------------------------
(* The life of the runs of one chat session: the AgentService coroutines   *)
(* that start, follow, stop and resume them, the RedisStreamTask objects of *)
(* the process, the AgentTaskRunner coroutine of each task, and the row of  *)
(* the session they all read and write.  Everything runs on one asyncio     *)
(* loop, so a step is the code from one await that matters to the next.     *)
EXTENDS SessionRow, Sequences, FiniteSets, Naturals

CONSTANTS
  Requests,   \* requests the clients may have in flight at the same time
  Ops,        \* operations the clients use, a subset of AllOps
  Faults,     \* what may go wrong, a subset of AllFaults
  Polite      \* TRUE: a client posts /chat only on a session it sees idle

AllOps    == {"chat", "subscribe", "runNext", "stop", "resolve", "organize"}
AllFaults == {"crash", "disconnect", "createFails", "raise"}

ASSUME RunsAssumption ==
  Ops \subseteq AllOps /\ Faults \subseteq AllFaults /\ Polite \in BOOLEAN

VARIABLES
  row,         \* the session's row in PostgreSQL
  registry,    \* RedisStreamTask._task_registry: the ids registered in it
  pc,          \* pc[t]: where task t's runner coroutine is
  cur,         \* cur[t]: the message t's runner has in hand
  cancelled,   \* tasks with a cancellation requested and not yet delivered
  input,       \* input[t]: the Redis stream task:input:t
  dones,       \* dones[t]: DoneEvents in the Redis stream task:output:t
  rpc,         \* rpc[r]: where request r's coroutine is
  rlocal,      \* rlocal[r]: its local variables
  fate,        \* fate[m]: what has become of message m      (history)
  ran,         \* ran[m]: how many flows were run on m       (history)
  resolution   \* messages that carry an interaction_response

taskVars    == <<pc, cur, cancelled, input, dones>>
requestVars == <<rpc, rlocal>>
history     == <<fate, ran, resolution>>
vars == <<row, registry, taskVars, requestVars, history>>

\* Where a runner is.  "idle": created, never invoked; "spawned": its asyncio
\* task exists and has not taken a step; "lost": its process is gone.
InTry    == {"loop", "finish", "consume", "prepare", "setRunning", "flow",
             "setWaiting", "setFailed", "final", "saveDone"}
InHandler == {"cancelled", "failing"}
TaskPcs   == {"unused", "idle", "spawned", "cleanup", "done", "lost"}
               \cup InTry \cup InHandler

\* A runner that works for the session: it has not yet given the row up.
Active == {"spawned"} \cup (InTry \ {"final", "saveDone"})

RequestPcs == {"idle", "claim", "read", "lookup", "orphan", "reclaim", "create",
               "handles", "restore", "put", "invoke", "stopTx"}

\* `session` is the snapshot the request read, prev the status it replaced.
Locals == [op      : AllOps \cup {None},
           msg     : Messages \cup {None},
           task    : Tasks \cup {None},
           status  : Statuses,
           seen    : Tasks \cup {None},
           prev    : Statuses \cup {None}]

NoLocals == [op |-> None, msg |-> None, task |-> None,
             status |-> "pending", seen |-> None, prev |-> None]

\* "direct": in a request's hands; "refused": the request failed with it;
\* "sent": in an input stream; "taken": popped; "queued": in the row's slot;
\* "consumed": persisted from the slot as a user event.
Fates == {"fresh", "direct", "refused", "sent", "taken", "queued",
          "cancelled", "replaced", "consumed"}

TypeOK ==
  /\ row \in Rows
  /\ registry \in SUBSET Tasks
  /\ pc \in [Tasks -> TaskPcs]
  /\ cur \in [Tasks -> Messages \cup {None}]
  /\ cancelled \in SUBSET Tasks
  /\ input \in [Tasks -> Seq(Messages)]
  /\ dones \in [Tasks -> Nat]
  /\ rpc \in [Requests -> RequestPcs]
  /\ rlocal \in [Requests -> Locals]
  /\ fate \in [Messages -> Fates]
  /\ ran \in [Messages -> Nat]
  /\ resolution \in SUBSET Messages

\* A session is created empty, or as a branch that replays one message.
Init ==
  /\ \/ /\ row = NewSession
        /\ fate = [m \in Messages |-> "fresh"]
     \/ \E m \in Messages :
          /\ row = PutNextMessage(UpdateStatus(NewSession, "completed"), m)
          /\ fate = [n \in Messages |-> IF n = m THEN "queued" ELSE "fresh"]
  /\ registry = {}
  /\ pc = [t \in Tasks |-> "unused"]
  /\ cur = [t \in Tasks |-> None]
  /\ cancelled = {}
  /\ input = [t \in Tasks |-> <<>>]
  /\ dones = [t \in Tasks |-> 0]
  /\ rpc = [r \in Requests |-> "idle"]
  /\ rlocal = [r \in Requests |-> NoLocals]
  /\ ran = [m \in Messages |-> 0]
  /\ resolution = {}

-----------------------------------------------------------------------------
(* Requests *)

Goto(r, label)  == rpc' = [rpc EXCEPT ![r] = label]
Return(r)       == /\ Goto(r, "idle")
                   /\ rlocal' = [rlocal EXCEPT ![r] = NoLocals]
Becomes(m, f)   == fate' = [fate EXCEPT ![m] = f]
Refuse(r) == fate' = IF rlocal[r].msg = None THEN fate
                     ELSE [fate EXCEPT ![rlocal[r].msg] = "refused"]

Opened(op) == [NoLocals EXCEPT !.op = op]

\* The bound on tasks: a request that may create one starts only while a
\* task id is left for it and for every such request in flight.
TaskLeft ==
  Cardinality({t \in Tasks : pc[t] = "unused"}) >
  Cardinality({r \in Requests : rlocal[r].op \in {"chat", "runNext", "resolve"}})

\* The locals of a chat request after claim_execution on the current row.
Claimed(op, m) ==
  [op |-> op, msg |-> m, task |-> None,
   status |-> "running", prev |-> PreviousStatus(row),
   seen |-> IF PreviousStatus(row) = None THEN row.task ELSE None]

\* POST /chat with a message: ensure_session_active and claim_execution, which
\* both refuse an archived session.  A fresh claim needs no registry lookup.
StartChat(r, m) ==
  /\ "chat" \in Ops /\ rpc[r] = "idle" /\ fate[m] = "fresh" /\ TaskLeft
  /\ Polite => row.status \in {"pending", "completed"}
  /\ CanClaimExecution(row)
  /\ row' = ClaimExecution(row)
  /\ rlocal' = [rlocal EXCEPT ![r] = Claimed("chat", m)]
  /\ Goto(r, IF PreviousStatus(row) = None THEN "lookup" ELSE "create")
  /\ Becomes(m, "direct")
  /\ UNCHANGED <<registry, taskVars, ran, resolution>>

\* POST /interactions/{id}/resolve: the resolved event is committed, then
\* continue_interaction opens a chat that carries the response.
ResolvePending(r, m) ==
  /\ "resolve" \in Ops /\ rpc[r] = "idle" /\ fate[m] = "fresh" /\ TaskLeft
  /\ CanResolveInteraction(row)
  /\ row' = ResolveInteraction(row)
  /\ rlocal' = [rlocal EXCEPT ![r] = [Opened("resolve") EXCEPT !.msg = m]]
  /\ Goto(r, "claim")
  /\ Becomes(m, "direct")
  /\ resolution' = resolution \cup {m}
  /\ UNCHANGED <<registry, taskVars, ran>>

\* POST /chat without a message, or the stream a run-next request turns into.
StartSubscribe(r) ==
  /\ "subscribe" \in Ops /\ rpc[r] = "idle"
  /\ ~row.archived
  /\ rlocal' = [rlocal EXCEPT ![r] = Opened("subscribe")]
  /\ Goto(r, "read")
  /\ UNCHANGED <<row, registry, taskVars, history>>

\* POST /stop.
StartStop(r) ==
  /\ "stop" \in Ops /\ rpc[r] = "idle"
  /\ rlocal' = [rlocal EXCEPT ![r] = Opened("stop")]
  /\ Goto(r, "read")
  /\ UNCHANGED <<row, registry, taskVars, history>>

\* POST /next-message/run: start_next_message_run.
StartRunNext(r) ==
  /\ "runNext" \in Ops /\ rpc[r] = "idle" /\ TaskLeft
  /\ CanStartNextMessageRun(row)
  /\ row' = UpdateStatus(row, "running")
  /\ rlocal' = [rlocal EXCEPT ![r] = Opened("runNext")]
  /\ Goto(r, "create")
  /\ UNCHANGED <<registry, taskVars, history>>

\* The unlocked read of stop_session and of a chat without a message.
ReadSession(r) ==
  /\ rpc[r] = "read"
  /\ rlocal' = [rlocal EXCEPT ![r].status = row.status, ![r].seen = row.task]
  /\ Goto(r, "lookup")
  /\ UNCHANGED <<row, registry, taskVars, history>>

\* claim_execution of a resolved interaction ("claim"), or of a chat that has
\* just finalized an orphan ("reclaim"): after an orphan the code creates a task
\* even when the claim reports that somebody else runs the session already.
ClaimAgain(r) ==
  /\ rpc[r] \in {"claim", "reclaim"}
  /\ CanClaimExecution(row)
  /\ row' = ClaimExecution(row)
  /\ rlocal' = [rlocal EXCEPT ![r] = Claimed(rlocal[r].op, rlocal[r].msg)]
  /\ Goto(r, IF rpc[r] = "claim" /\ PreviousStatus(row) = None
             THEN "lookup" ELSE "create")
  /\ UNCHANGED <<registry, taskVars, history>>

ClaimRefused(r) ==
  /\ rpc[r] \in {"claim", "reclaim"}
  /\ ~CanClaimExecution(row)
  /\ Refuse(r)
  /\ Return(r)
  /\ UNCHANGED <<row, registry, taskVars, ran, resolution>>

\* _get_task: the registry is read after the transaction, with its snapshot.
Registered(r) == rlocal[r].seen # None /\ rlocal[r].seen \in registry

LooksOrphaned(r) == rlocal[r].status = "running" /\ ~Registered(r)

ChatLookup(r) ==
  /\ rpc[r] = "lookup" /\ rlocal[r].op \in {"chat", "resolve"}
  /\ IF Registered(r)
     THEN /\ rlocal' = [rlocal EXCEPT ![r].task = rlocal[r].seen, ![r].seen = None]
          /\ Goto(r, "put")
     ELSE /\ rlocal' = [rlocal EXCEPT ![r].seen = None]
          /\ Goto(r, "orphan")
  /\ UNCHANGED <<row, registry, taskVars, history>>

\* A subscriber that finds a task follows its output stream; one that finds
\* none waits and returns.  Neither touches this module's state again.
SubscribeLookup(r) ==
  /\ rpc[r] = "lookup" /\ rlocal[r].op = "subscribe"
  /\ IF LooksOrphaned(r)
     THEN Goto(r, "orphan") /\ rlocal' = [rlocal EXCEPT ![r].seen = None]
     ELSE Return(r)
  /\ UNCHANGED <<row, registry, taskVars, history>>

\* RedisStreamTask.cancel: out of the registry, and cancelled unless done.
StopLookup(r) ==
  /\ rpc[r] = "lookup" /\ rlocal[r].op = "stop"
  /\ Goto(r, IF LooksOrphaned(r) THEN "orphan" ELSE "stopTx")
  /\ IF Registered(r)
     THEN /\ registry' = registry \ {rlocal[r].seen}
          /\ cancelled' = IF pc[rlocal[r].seen] \in {"idle", "done"} THEN cancelled
                          ELSE cancelled \cup {rlocal[r].seen}
     ELSE UNCHANGED <<registry, cancelled>>
  /\ rlocal' = [rlocal EXCEPT ![r].seen = None]
  /\ UNCHANGED <<row, pc, cur, input, dones, history>>

\* The last transaction of stop_session: unconditional, whoever runs by then.
StopSession(r) ==
  /\ rpc[r] = "stopTx"
  /\ row' = EndRun(row)
  /\ Return(r)
  /\ UNCHANGED <<registry, taskVars, history>>

\* _finalize_orphaned_run.
FinalizeOrphan(r) ==
  /\ rpc[r] = "orphan"
  /\ row' = EndRun(row)
  /\ IF rlocal[r].msg # None
     THEN Goto(r, "reclaim") /\ UNCHANGED rlocal
     ELSE Return(r)
  /\ UNCHANGED <<registry, taskVars, history>>

\* _create_task up to its transaction: the new task registers itself.
CreateTask(r, t) ==
  /\ rpc[r] = "create" /\ pc[t] = "unused"
  /\ pc' = [pc EXCEPT ![t] = "idle"]
  /\ registry' = registry \cup {t}
  /\ rlocal' = [rlocal EXCEPT ![r].task = t]
  /\ Goto(r, "handles")
  /\ UNCHANGED <<row, cur, cancelled, input, dones, history>>

\* update_runtime_handles, the second transaction of a start.
WriteHandles(r) ==
  /\ rpc[r] = "handles"
  /\ row' = UpdateRuntimeHandles(row, rlocal[r].task)
  /\ rlocal' = [rlocal EXCEPT ![r].prev = None]
  /\ Goto(r, IF rlocal[r].op = "runNext" THEN "invoke" ELSE "put")
  /\ UNCHANGED <<registry, taskVars, history>>

\* Faulty: the old status is put back though none was replaced.
CreateFailsBlindly(r) ==
  /\ "createFails" \in Faults
  /\ rpc[r] \in {"create", "handles"}
  /\ Goto(r, "restore")
  /\ UNCHANGED <<row, registry, taskVars, rlocal, history>>

\* _create_task raises.  A chat that claimed the session puts the old status
\* back; a chat that claimed nothing and a run-next leave the row as it is.
CreateFails(r) ==
  /\ "createFails" \in Faults
  /\ rpc[r] \in {"create", "handles"}
  /\ IF rlocal[r].prev # None
     THEN Goto(r, "restore") /\ UNCHANGED <<rlocal, fate>>
     ELSE Refuse(r) /\ Return(r)
  /\ UNCHANGED <<row, registry, taskVars, ran, resolution>>

RestoreStatus(r) ==
  /\ rpc[r] = "restore"
  /\ row' = UpdateStatus(row, rlocal[r].prev)
  /\ Refuse(r)
  /\ Return(r)
  /\ UNCHANGED <<registry, taskVars, ran, resolution>>

\* The message event goes into the task's input stream.
PutInput(r) ==
  /\ rpc[r] = "put"
  /\ input' = [input EXCEPT ![rlocal[r].task] = Append(@, rlocal[r].msg)]
  /\ Becomes(rlocal[r].msg, "sent")
  /\ rlocal' = [rlocal EXCEPT ![r].msg = None]
  /\ Goto(r, "invoke")
  /\ UNCHANGED <<row, registry, pc, cur, cancelled, dones, ran, resolution>>

\* RedisStreamTask.invoke starts the coroutine only when it is not running;
\* a run-next request goes on as a chat without a message.
InvokeTask(r) ==
  /\ rpc[r] = "invoke"
  /\ pc' = IF pc[rlocal[r].task] \in {"idle", "done"}
           THEN [pc EXCEPT ![rlocal[r].task] = "spawned"] ELSE pc
  /\ IF rlocal[r].op = "runNext"
     THEN /\ rlocal' = [rlocal EXCEPT ![r] = Opened("subscribe")]
          /\ Goto(r, "read")
     ELSE Return(r)
  /\ UNCHANGED <<row, registry, cur, cancelled, input, dones, history>>

\* The client goes away: the SSE generator is cancelled at its await, which no
\* `except Exception` of the start sees.
Disconnect(r) ==
  /\ "disconnect" \in Faults
  /\ rpc[r] # "idle" /\ rlocal[r].op # "stop"
  /\ Refuse(r)
  /\ Return(r)
  /\ UNCHANGED <<row, registry, taskVars, ran, resolution>>

-----------------------------------------------------------------------------
(* Requests of one transaction *)

QueueNextMessage(m) ==
  /\ fate[m] = "fresh"
  /\ CanPutNextMessage(row)
  /\ row' = PutNextMessage(row, m)
  /\ fate' = [n \in Messages |-> IF n = m THEN "queued"
                                 ELSE IF n = row.next.id THEN "replaced"
                                 ELSE fate[n]]
  /\ UNCHANGED <<registry, taskVars, requestVars, ran, resolution>>

CancelQueued ==
  /\ CanCancelNextMessage(row)
  /\ row' = CancelNextMessage(row)
  /\ Becomes(row.next.id, "cancelled")
  /\ UNCHANGED <<registry, taskVars, requestVars, ran, resolution>>

\* update_organization with archived set.
Organize ==
  /\ "organize" \in Ops
  /\ \/ ~row.archived /\ CanArchive(row) /\ row' = SetArchived(row, TRUE)
     \/ row.archived /\ row' = SetArchived(row, FALSE)
  /\ UNCHANGED <<registry, taskVars, requestVars, history>>

-----------------------------------------------------------------------------
(* The runner of a task: AgentTaskRunner.invoke *)

At(t, label)     == pc[t] = label /\ t \notin cancelled
RunnerTo(t, label) == pc' = [pc EXCEPT ![t] = label]
PutDoneEvent(t)    == dones' = [dones EXCEPT ![t] = @ + 1]
Drop(t)            == cur' = [cur EXCEPT ![t] = None]

\* First step of the coroutine, up to the top of the loop.
BeginRun(t) ==
  /\ At(t, "spawned")
  /\ RunnerTo(t, "loop")
  /\ UNCHANGED <<row, registry, cur, cancelled, input, dones, requestVars, history>>

\* The input stream is not empty: its first entry is popped.
PopEvent(t) ==
  /\ At(t, "loop") /\ input[t] # <<>>
  /\ cur' = [cur EXCEPT ![t] = Head(input[t])]
  /\ input' = [input EXCEPT ![t] = Tail(@)]
  /\ Becomes(Head(input[t]), "taken")
  /\ RunnerTo(t, "prepare")
  /\ UNCHANGED <<row, registry, cancelled, dones, requestVars, ran, resolution>>

InputIsEmpty(t) ==
  /\ At(t, "loop") /\ input[t] = <<>>
  /\ RunnerTo(t, "finish")
  /\ UNCHANGED <<row, registry, cur, cancelled, input, dones, requestVars, history>>

\* finish_or_claim_next_message, in its three outcomes.
FinishConflicts(t) ==
  /\ At(t, "finish") /\ ~MayFinish(row, t) /\ ~MayClaimNext(row, t)
  /\ RunnerTo(t, "failing")
  /\ UNCHANGED <<row, registry, cur, cancelled, input, dones, requestVars, history>>

FinishSession(t) ==
  /\ At(t, "finish") /\ MayFinish(row, t)
  /\ row' = UpdateStatus(row, "completed")
  /\ RunnerTo(t, "final")
  /\ UNCHANGED <<registry, cur, cancelled, input, dones, requestVars, history>>

ClaimQueued(t) ==
  /\ At(t, "finish") /\ MayClaimNext(row, t)
  /\ row' = ClaimNext(row, t)
  /\ cur' = [cur EXCEPT ![t] = row.next.id]
  /\ RunnerTo(t, "consume")
  /\ UNCHANGED <<registry, cancelled, input, dones, requestVars, history>>

\* Faulty: the runner does not notice that its claim was lost.
ConsumeRegardless(t) ==
  /\ At(t, "consume")
  /\ IF CanConsumeNextMessage(row, cur[t], t)
     THEN row' = ConsumeNextMessage(row) /\ Becomes(cur[t], "consumed")
     ELSE UNCHANGED <<row, fate>>
  /\ RunnerTo(t, "prepare")
  /\ UNCHANGED <<registry, cur, cancelled, input, dones, requestVars, ran, resolution>>

\* _accept_next_message: the user event is in the output stream by now; the
\* transaction persists it and empties the slot, if the claim still holds.
ConsumeQueued(t) ==
  /\ At(t, "consume")
  /\ IF CanConsumeNextMessage(row, cur[t], t)
     THEN /\ row' = ConsumeNextMessage(row)
          /\ Becomes(cur[t], "consumed")
          /\ RunnerTo(t, "prepare")
          /\ UNCHANGED cur
     ELSE /\ RunnerTo(t, "failing")
          /\ Drop(t)
          /\ UNCHANGED <<row, fate>>
  /\ UNCHANGED <<registry, cancelled, input, dones, requestVars, ran, resolution>>

\* Faulty: every message needs a waiting session, not only a response.
PrepareForWaitingOnly(t) ==
  /\ At(t, "prepare")
  /\ IF row.status # "waiting"
     THEN RunnerTo(t, "failing") /\ Drop(t)
     ELSE RunnerTo(t, "setRunning") /\ UNCHANGED cur
  /\ UNCHANGED <<row, registry, cancelled, input, dones, requestVars, history>>

\* The Skill runtime and the read that opens PlannerReActFlow.invoke, which
\* raises when an interaction response meets a session that is not waiting.
PrepareFlow(t) ==
  /\ At(t, "prepare")
  /\ IF cur[t] \in resolution /\ row.status # "waiting"
     THEN RunnerTo(t, "failing") /\ Drop(t)
     ELSE RunnerTo(t, "setRunning") /\ UNCHANGED cur
  /\ UNCHANGED <<row, registry, cancelled, input, dones, requestVars, history>>

SetRunning(t) ==
  /\ At(t, "setRunning")
  /\ row' = UpdateStatus(row, "running")
  /\ ran' = [ran EXCEPT ![cur[t]] = @ + 1]
  /\ Drop(t)
  /\ RunnerTo(t, "flow")
  /\ UNCHANGED <<registry, cancelled, input, dones, requestVars, fate, resolution>>

\* Faulty: the flow's own DoneEvent is put into the output stream.
FlowDoneUnheld(t) ==
  /\ At(t, "flow")
  /\ PutDoneEvent(t)
  /\ RunnerTo(t, "loop")
  /\ UNCHANGED <<row, registry, cur, cancelled, input, requestVars, history>>

\* The plan is done; its DoneEvent is held back.
FlowDone(t) ==
  /\ At(t, "flow")
  /\ RunnerTo(t, "loop")
  /\ UNCHANGED <<row, registry, cur, cancelled, input, dones, requestVars, history>>

\* The flow asks the user: a pending InteractionEvent, then a WaitEvent.
FlowWaits(t) ==
  /\ At(t, "flow")
  /\ row' = [row EXCEPT !.interaction = TRUE]
  /\ RunnerTo(t, "setWaiting")
  /\ UNCHANGED <<registry, cur, cancelled, input, dones, requestVars, history>>

\* The flow yields an ErrorEvent.
FlowFails(t) ==
  /\ At(t, "flow")
  /\ RunnerTo(t, "setFailed")
  /\ UNCHANGED <<row, registry, cur, cancelled, input, dones, requestVars, history>>

\* Faulty: an ErrorEvent ends the loop and leaves the status.
SetStoppedIfWaiting(t) ==
  /\ At(t, "setWaiting") \/ At(t, "setFailed")
  /\ row' = IF pc[t] = "setWaiting" THEN UpdateStatus(row, "waiting") ELSE row
  /\ RunnerTo(t, "cleanup")
  /\ UNCHANGED <<registry, cur, cancelled, input, dones, requestVars, history>>

\* The status transaction after a WaitEvent or an ErrorEvent, and the return.
SetStopped(t) ==
  /\ At(t, "setWaiting") \/ At(t, "setFailed")
  /\ row' = UpdateStatus(row, IF pc[t] = "setWaiting" THEN "waiting" ELSE "completed")
  /\ RunnerTo(t, "cleanup")
  /\ UNCHANGED <<registry, cur, cancelled, input, dones, requestVars, history>>

\* The one DoneEvent of a finished session: put, then persisted.
PutDone(t) ==
  /\ At(t, "final")
  /\ PutDoneEvent(t)
  /\ RunnerTo(t, "saveDone")
  /\ UNCHANGED <<row, registry, cur, cancelled, input, requestVars, history>>

SaveDone(t) ==
  /\ At(t, "saveDone")
  /\ RunnerTo(t, "cleanup")
  /\ UNCHANGED <<row, registry, cur, cancelled, input, dones, requestVars, history>>

\* An await inside the try raises: the model, a tool, Redis or PostgreSQL.
RunnerRaises(t) ==
  /\ pc[t] \in InTry /\ t \notin cancelled
  /\ pc[t] = "flow" \/ "raise" \in Faults
  /\ Drop(t)
  /\ RunnerTo(t, "failing")
  /\ UNCHANGED <<row, registry, cancelled, input, dones, requestVars, history>>

\* The exception handlers: one transaction, then an ErrorEvent or a DoneEvent.
\* Nothing in the row depends on the event, so each handler is one step.
HandleFailure(t) ==
  /\ At(t, "failing")
  /\ row' = EndRun(row)
  /\ RunnerTo(t, "cleanup")
  /\ UNCHANGED <<registry, cur, cancelled, input, dones, requestVars, history>>

HandleCancelled(t) ==
  /\ At(t, "cancelled")
  /\ row' = EndRun(row)
  /\ PutDoneEvent(t)
  /\ RunnerTo(t, "cleanup")
  /\ UNCHANGED <<registry, cur, cancelled, input, requestVars, history>>

\* The finally blocks of invoke and _execute_task.
EndTask(t) ==
  /\ pc[t] = "cleanup"
  /\ registry' = registry \ {t}
  /\ cancelled' = cancelled \ {t}
  /\ RunnerTo(t, "done")
  /\ UNCHANGED <<row, cur, input, dones, requestVars, history>>

\* A requested cancellation reaches the coroutine.  Before its first step the
\* coroutine never runs; in the error handler the rest of it is skipped.
DeliverCancel(t) ==
  /\ t \in cancelled
  /\ pc[t] \in {"spawned", "failing"} \cup InTry
  /\ RunnerTo(t, CASE pc[t] = "spawned" -> "done"
                   [] pc[t] = "failing" -> "cleanup"
                   [] OTHER             -> "cancelled")
  /\ Drop(t)
  /\ cancelled' = cancelled \ {t}
  /\ UNCHANGED <<row, registry, input, dones, requestVars, history>>

\* DBUnitOfWork.__aexit__ swallows a cancellation that arrives while it waits
\* for the commit, so a runner in a transaction may carry on.
InTransaction == {"finish", "consume", "prepare", "setRunning", "flow",
                  "setWaiting", "setFailed", "saveDone", "failing"}

SwallowCancel(t) ==
  /\ t \in cancelled /\ pc[t] \in InTransaction
  /\ cancelled' = cancelled \ {t}
  /\ UNCHANGED <<row, registry, pc, cur, input, dones, requestVars, history>>

-----------------------------------------------------------------------------
(* The process dies and a new one starts with an empty registry: the row is   *)
(* what is left.  The streams of the dead tasks stay in Redis, but they are   *)
(* named after task ids that no new task gets, so the model forgets them.     *)
Crash ==
  /\ "crash" \in Faults
  /\ pc' = [t \in Tasks |-> IF pc[t] = "unused" THEN "unused" ELSE "lost"]
  /\ cur' = [t \in Tasks |-> None]
  /\ registry' = {}
  /\ cancelled' = {}
  /\ rpc' = [r \in Requests |-> "idle"]
  /\ rlocal' = [r \in Requests |-> NoLocals]
  /\ fate' = [m \in Messages |-> IF fate[m] = "direct" THEN "refused" ELSE fate[m]]
  /\ input' = [t \in Tasks |-> <<>>]
  /\ dones' = [t \in Tasks |-> 0]
  /\ UNCHANGED <<row, ran, resolution>>

-----------------------------------------------------------------------------
RequestStep(r) ==
  \/ ReadSession(r) \/ ClaimAgain(r) \/ ClaimRefused(r)
  \/ ChatLookup(r) \/ SubscribeLookup(r) \/ StopLookup(r)
  \/ StopSession(r) \/ FinalizeOrphan(r)
  \/ \E t \in Tasks : CreateTask(r, t)
  \/ WriteHandles(r) \/ RestoreStatus(r) \/ PutInput(r) \/ InvokeTask(r)

RunnerStep(t) ==
  \/ BeginRun(t) \/ PopEvent(t) \/ InputIsEmpty(t)
  \/ FinishConflicts(t) \/ FinishSession(t) \/ ClaimQueued(t) \/ ConsumeQueued(t)
  \/ PrepareFlow(t) \/ SetRunning(t)
  \/ FlowDone(t) \/ FlowWaits(t) \/ FlowFails(t) \/ SetStopped(t)
  \/ PutDone(t) \/ SaveDone(t) \/ RunnerRaises(t)
  \/ HandleFailure(t) \/ HandleCancelled(t) \/ EndTask(t)
  \/ DeliverCancel(t) \/ SwallowCancel(t)

\* What the clients and the environment decide to do, at a time of their own.
ClientStep ==
  \/ \E r \in Requests :
       \/ \E m \in Messages : StartChat(r, m) \/ ResolvePending(r, m)
       \/ StartSubscribe(r) \/ StartStop(r) \/ StartRunNext(r)
       \/ CreateFails(r) \/ Disconnect(r)
  \/ \E m \in Messages : QueueNextMessage(m)
  \/ CancelQueued
  \/ Organize
  \/ Crash

Next ==
  \/ \E r \in Requests : RequestStep(r)
  \/ \E t \in Tasks : RunnerStep(t)
  \/ ClientStep

Spec == Init /\ [][Next]_vars

\* Every coroutine on the loop that can go on is resumed; a flow ends, since
\* its model calls have timeouts and its iterations a maximum.  No client owes
\* the system a request.
Fairness ==
  /\ \A r \in Requests : WF_vars(RequestStep(r))
  /\ \A t \in Tasks : WF_vars(RunnerStep(t))

FairSpec == Spec /\ Fairness

-----------------------------------------------------------------------------
(* Properties *)

IsActive(t) == pc[t] \in Active

\* A message the client was told is gone, because it was cancelled or replaced
\* in the slot or because its request failed before it was sent, is never run
\* by a flow, even when a runner had claimed it and lost the claim to a stop.
DiscardedNeverRuns ==
  \A m \in Messages : fate[m] \in {"cancelled", "replaced", "refused"} => ran[m] = 0

\* No message is run by two flows, whichever tasks, restarts and claims it
\* passes through: pop and consume_next_message each hand it out once.
RunAtMostOnce == \A m \in Messages : ran[m] <= 1

\* A claim on the slot is held by a runner that will consume or reset it, or
\* that a stop in progress will reset; only a dead process leaves it behind.
ClaimIsHeld ==
  row.next.state = "processing" =>
    \/ /\ row.next.task \in Tasks
       /\ \/ /\ pc[row.next.task] = "consume"
             /\ cur[row.next.task] = row.next.id
          \/ pc[row.next.task] \in {"cancelled", "failing", "lost"}
    \/ \E r \in Requests : rpc[r] = "stopTx"

\* While a runner works, the row says so and names its task, so that a session
\* has one runner at a time: this is what
\* finish_or_claim_next_message, stop and the orphan check rely on.
StatusIsAuthoritative ==
  \A t \in Tasks : IsActive(t) => row.status = "running" /\ row.task = t

\* A task's output stream carries at most one DoneEvent.
OneDone ==
  \A t \in Tasks : dones[t] <= 1

\* An archived session is at rest: neither running nor waiting, no queued
\* message, no runner at work.
ArchivedIsAtRest ==
  row.archived =>
    /\ row.status \notin {"running", "waiting"}
    /\ row.next.state = "empty"
    /\ \A t \in Tasks : ~IsActive(t)

\* Every run ends: the row does not stay "running" for ever.
RunEnds == (row.status = "running") ~> (row.status # "running")

\* A user message that reached a runner's input stream, or that a runner
\* consumed from the slot, is run by a flow.
AcceptedIsRun ==
  \A m \in Messages :
    (m \notin resolution /\ fate[m] \in {"sent", "consumed"}) ~> (ran[m] > 0)

\* The answer to a pending interaction is run: it resumes the waiting step.
ResolutionIsRun ==
  \A m \in Messages :
    (m \in resolution /\ fate[m] = "sent") ~> (ran[m] > 0)

-----------------------------------------------------------------------------
(* The row's slot, with what happens to the messages that pass through it,   *)
(* implements the mailbox of NextMessageSlot.                                *)
SlotEnds == {"queued", "replaced", "cancelled", "consumed"}

EndInSlot == [m \in Messages |-> IF fate[m] \in SlotEnds THEN fate[m] ELSE "none"]
Served    == [m \in Messages |-> IF fate[m] \in SlotEnds THEN ran[m] ELSE 0]

Mailbox == INSTANCE NextMessageSlot WITH
  slot <- row.next, end <- EndInSlot, served <- Served

\* Every step of the system is a step of the mailbox or leaves it unchanged, so
\* a queued follow-up message is never lost, run twice, or run once cancelled.
ImplementsMailbox == Mailbox!Spec
=============================================================================
