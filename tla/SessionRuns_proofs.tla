------------------------ MODULE SessionRuns_proofs ------------------------
(* IInv is an invariant of SessionRuns, for any number of requests, tasks   *)
(* and messages, any operations and any faults; the slot invariants follow. *)
(* With a calm client CalmInv is one too; the invariants of runs follow.    *)
EXTENDS SessionRunsInv, TLAPS

-----------------------------------------------------------------------------
(* What the repository's operations do to a well-typed row.                 *)

\* The status and handle updates keep a row well typed and leave the slot alone.
LEMMA StatusUpdate ==
  ASSUME NEW r \in Rows, NEW s \in Statuses
  PROVE  /\ UpdateStatus(r, s) \in Rows
         /\ UpdateStatus(r, s).next = r.next
         /\ UpdateStatus(r, s).status = s
         /\ UpdateStatus(r, s).archived = r.archived
         /\ UpdateStatus(r, s).task = r.task
  BY DEF UpdateStatus, Rows

\* update_runtime_handles changes the task id and nothing else.
LEMMA HandlesUpdate ==
  ASSUME NEW r \in Rows, NEW t \in Tasks
  PROVE  /\ UpdateRuntimeHandles(r, t) \in Rows
         /\ UpdateRuntimeHandles(r, t).next = r.next
         /\ UpdateRuntimeHandles(r, t).status = r.status
  BY DEF UpdateRuntimeHandles, Rows

\* NULL in next_message is a value of the slot.
LEMMA EmptySlotType == EmptySlot \in Slots
  BY DEF EmptySlot, Slots

\* put_next_message fills the slot with the message, queued.
LEMMA PutUpdate ==
  ASSUME NEW r \in Rows, NEW m \in Messages
  PROVE  /\ PutNextMessage(r, m) \in Rows
         /\ PutNextMessage(r, m).next = [id |-> m, state |-> "queued", task |-> None]
         /\ PutNextMessage(r, m).status = r.status
  <1>1. [id |-> m, state |-> "queued", task |-> None] \in Slots
    BY DEF Slots
  <1> QED
    BY <1>1 DEF PutNextMessage, Rows

\* cancel_next_message and consume_next_message both empty the slot.
LEMMA EmptyUpdate ==
  ASSUME NEW r \in Rows
  PROVE  /\ CancelNextMessage(r) \in Rows
         /\ CancelNextMessage(r).next = EmptySlot
         /\ ConsumeNextMessage(r) \in Rows
         /\ ConsumeNextMessage(r).next = EmptySlot
  BY EmptySlotType DEF CancelNextMessage, ConsumeNextMessage, Rows

\* A claim keeps the message and names the task.
LEMMA ClaimUpdate ==
  ASSUME NEW r \in Rows, NEW t \in Tasks
  PROVE  /\ ClaimNext(r, t) \in Rows
         /\ ClaimNext(r, t).next = [id |-> r.next.id, state |-> "processing", task |-> t]
  <1>1. r.next \in Slots
    BY DEF Rows
  <1>2. [id |-> r.next.id, state |-> "processing", task |-> t] \in Slots
    BY <1>1 DEF Slots
  <1> QED
    BY <1>2 DEF ClaimNext, Rows

\* The slot after a reset: a claimed message is queued again, with no task.
LEMMA ResetUpdate ==
  ASSUME NEW r \in Rows
  PROVE  /\ ResetProcessing(r) \in Rows
         /\ ResetProcessing(r).next =
              IF r.next.state = "processing"
              THEN [id |-> r.next.id, state |-> "queued", task |-> None]
              ELSE r.next
  <1>1. CASE r.next.state # "processing"
    BY <1>1 DEF ResetProcessing
  <1>2. CASE r.next.state = "processing"
    <2>1. r.next \in Slots
      BY DEF Rows
    <2>2. [id |-> r.next.id, state |-> "queued", task |-> None] \in Slots
      BY <2>1 DEF Slots
    <2> QED
      BY <1>2, <2>2 DEF ResetProcessing, Rows
  <1> QED
    BY <1>1, <1>2

\* However a run is ended, its row is well typed and no claim is left.
LEMMA EndUpdate ==
  ASSUME NEW r \in Rows
  PROVE  /\ EndRun(r) \in Rows
         /\ EndRun(r).next =
              IF r.next.state = "processing"
              THEN [id |-> r.next.id, state |-> "queued", task |-> None]
              ELSE r.next
         /\ EndRun(r).next.state # "processing"
  <1>1. "completed" \in Statuses
    BY DEF Statuses
  <1>2. /\ EndRun(r) \in Rows
        /\ EndRun(r).next =
             IF r.next.state = "processing"
             THEN [id |-> r.next.id, state |-> "queued", task |-> None]
             ELSE r.next
    BY <1>1, ResetUpdate, StatusUpdate DEF EndRun
  <1> QED
    BY <1>2

-----------------------------------------------------------------------------
(* The types *)

\* The locals a request starts with are typed.
LEMMA LocalsTypes ==
  /\ NoLocals \in Locals
  /\ \A op \in AllOps : Opened(op) \in Locals
  BY DEF NoLocals, Opened, Locals, AllOps, Statuses

\* The locals of a request after claim_execution are typed.
LEMMA ClaimedType ==
  ASSUME row \in Rows, NEW op \in AllOps \cup {None}, NEW m \in Messages \cup {None}
  PROVE  Claimed(op, m) \in Locals
  BY DEF Claimed, Locals, PreviousStatus, Rows, Statuses

\* A request that returns leaves typed request variables.
LEMMA ReturnType ==
  ASSUME TypeOK, NEW r \in Requests, Return(r)
  PROVE  rpc' \in [Requests -> RequestPcs] /\ rlocal' \in [Requests -> Locals]
  <1>1. "idle" \in RequestPcs
    BY DEF RequestPcs
  <1> QED
    BY <1>1, LocalsTypes DEF TypeOK, Return, Goto

\* A request that goes on leaves typed program counters.
LEMMA GotoType ==
  ASSUME TypeOK, NEW r \in Requests, NEW l \in RequestPcs, Goto(r, l)
  PROVE  rpc' \in [Requests -> RequestPcs]
  BY DEF TypeOK, Goto

\* A runner that goes on leaves typed program counters.
LEMMA RunnerToType ==
  ASSUME TypeOK, NEW t \in Tasks, NEW l \in TaskPcs, RunnerTo(t, l)
  PROVE  pc' \in [Tasks -> TaskPcs]
  BY DEF TypeOK, RunnerTo

\* Giving a message a fate keeps the fates typed.
LEMMA FateType ==
  ASSUME TypeOK, NEW m \in Messages \cup {None}, NEW f \in Fates, Becomes(m, f)
  PROVE  fate' \in [Messages -> Fates]
  BY DEF TypeOK, Becomes

\* Refusing the message a request carries keeps the fates typed.
LEMMA RefuseType ==
  ASSUME TypeOK, NEW r \in Requests, Refuse(r)
  PROVE  fate' \in [Messages -> Fates]
  BY DEF TypeOK, Refuse, Fates

\* Clients and the environment keep every variable typed.
LEMMA ClientSteps ==
  ASSUME TypeOK, ClientStep
  PROVE  TypeOK'
  <1>1. ASSUME NEW r \in Requests, NEW m \in Messages, StartChat(r, m)
        PROVE  TypeOK'
    <2>1. ClaimExecution(row) \in Rows
      BY StatusUpdate DEF TypeOK, ClaimExecution, Statuses
    <2>2. Claimed("chat", m) \in Locals
      BY ClaimedType DEF TypeOK, AllOps
    <2> QED
      BY <1>1, <2>1, <2>2
      DEF TypeOK, StartChat, taskVars, Goto, Becomes, RequestPcs, Fates
  <1>2. ASSUME NEW r \in Requests, NEW m \in Messages, ResolvePending(r, m)
        PROVE  TypeOK'
    <2>1. ResolveInteraction(row) \in Rows
      BY DEF TypeOK, ResolveInteraction, Rows
    <2>2. [Opened("resolve") EXCEPT !.msg = m] \in Locals
      BY DEF Opened, NoLocals, Locals, AllOps, Statuses
    <2> QED
      BY <1>2, <2>1, <2>2
      DEF TypeOK, ResolvePending, taskVars, Goto, Becomes, RequestPcs, Fates
  <1>3. ASSUME NEW r \in Requests, StartSubscribe(r) \/ StartStop(r)
        PROVE  TypeOK'
    <2>1. Opened("subscribe") \in Locals /\ Opened("stop") \in Locals
      BY LocalsTypes DEF AllOps
    <2> QED
      BY <1>3, <2>1
      DEF TypeOK, StartSubscribe, StartStop, taskVars, history, Goto, RequestPcs
  <1>4. ASSUME NEW r \in Requests, StartRunNext(r)
        PROVE  TypeOK'
    <2>1. Opened("runNext") \in Locals
      BY LocalsTypes DEF AllOps
    <2>2. UpdateStatus(row, "running") \in Rows
      BY StatusUpdate DEF TypeOK, Statuses
    <2> QED
      BY <1>4, <2>1, <2>2 DEF TypeOK, StartRunNext, taskVars, history, Goto, RequestPcs
  <1>5. ASSUME NEW r \in Requests, CreateFails(r)
        PROVE  TypeOK'
    <2>1. CASE rlocal[r].prev # None
      BY <1>5, <2>1, GotoType DEF TypeOK, CreateFails, taskVars, RequestPcs
    <2>2. CASE rlocal[r].prev = None
      BY <1>5, <2>2, ReturnType, RefuseType DEF TypeOK, CreateFails, taskVars
    <2> QED
      BY <2>1, <2>2
  <1>6. ASSUME NEW r \in Requests, Disconnect(r)
        PROVE  TypeOK'
    BY <1>6, ReturnType, RefuseType DEF TypeOK, Disconnect, taskVars
  <1>7. ASSUME NEW m \in Messages, QueueNextMessage(m)
        PROVE  TypeOK'
    <2>1. PutNextMessage(row, m) \in Rows
      BY PutUpdate DEF TypeOK
    <2>2. fate' \in [Messages -> Fates]
      BY <1>7 DEF TypeOK, QueueNextMessage, Fates
    <2> QED
      BY <1>7, <2>1, <2>2 DEF TypeOK, QueueNextMessage, taskVars, requestVars
  <1>8. ASSUME CancelQueued
        PROVE  TypeOK'
    <2>1. CancelNextMessage(row) \in Rows
      BY EmptyUpdate DEF TypeOK
    <2>2. fate' \in [Messages -> Fates]
      BY <1>8 DEF TypeOK, CancelQueued, Becomes, Fates
    <2> QED
      BY <1>8, <2>1, <2>2 DEF TypeOK, CancelQueued, taskVars, requestVars
  <1>9. ASSUME Organize
        PROVE  TypeOK'
    <2>1. \A b \in BOOLEAN : SetArchived(row, b) \in Rows
      BY DEF TypeOK, SetArchived, Rows
    <2> QED
      BY <1>9, <2>1 DEF TypeOK, Organize, taskVars, requestVars, history
  <1>10. ASSUME Crash
         PROVE  TypeOK'
    BY <1>10, LocalsTypes DEF TypeOK, Crash, TaskPcs, RequestPcs, Fates
  <1> QED
    BY <1>1, <1>2, <1>3, <1>4, <1>5, <1>6, <1>7, <1>8, <1>9, <1>10 DEF ClientStep

\* A request keeps every variable typed, given what it carries.
LEMMA RequestSteps ==
  ASSUME TypeOK, RequestInv, NEW r \in Requests, RequestStep(r)
  PROVE  TypeOK'
  <1>1. CASE ReadSession(r)
    <2>1. \A l \in Locals : [[l EXCEPT !.status = row.status] EXCEPT !.seen = row.task]
                             \in Locals
      BY DEF TypeOK, Locals, Rows
    <2>2. rlocal' = [rlocal EXCEPT ![r] =
            [[rlocal[r] EXCEPT !.status = row.status] EXCEPT !.seen = row.task]]
      BY <1>1 DEF TypeOK, ReadSession, Locals
    <2>3. rlocal' \in [Requests -> Locals]
      BY <2>1, <2>2 DEF TypeOK
    <2> QED
      BY <1>1, <2>3 DEF TypeOK, ReadSession, taskVars, history, Goto, RequestPcs
  <1>2. CASE ClaimAgain(r)
    <2>1. ClaimExecution(row) \in Rows
      BY StatusUpdate DEF TypeOK, ClaimExecution, Statuses
    <2>2. Claimed(rlocal[r].op, rlocal[r].msg) \in Locals
      BY ClaimedType DEF TypeOK, Locals
    <2> QED
      BY <1>2, <2>1, <2>2 DEF TypeOK, ClaimAgain, taskVars, history, Goto, RequestPcs
  <1>3. CASE ClaimRefused(r)
    BY <1>3, ReturnType, RefuseType DEF TypeOK, ClaimRefused, taskVars
  <1>4. CASE ChatLookup(r)
    <2>1. \A l \in Locals : /\ [[l EXCEPT !.task = l.seen] EXCEPT !.seen = None] \in Locals
                            /\ [l EXCEPT !.seen = None] \in Locals
      BY DEF Locals
    <2>2. rlocal' \in [Requests -> Locals]
      <3>1. CASE Registered(r)
        <4>1. rlocal' = [rlocal EXCEPT ![r] =
                [[rlocal[r] EXCEPT !.task = rlocal[r].seen] EXCEPT !.seen = None]]
          BY <1>4, <3>1 DEF TypeOK, ChatLookup, Locals
        <4> QED
          BY <2>1, <4>1 DEF TypeOK
      <3>2. CASE ~Registered(r)
        BY <1>4, <2>1, <3>2 DEF TypeOK, ChatLookup
      <3> QED
        BY <3>1, <3>2
    <2> QED
      BY <1>4, <2>2 DEF TypeOK, ChatLookup, taskVars, history, Goto, RequestPcs
  <1>5. CASE SubscribeLookup(r)
    <2>1. CASE LooksOrphaned(r)
      <3>1. \A l \in Locals : [l EXCEPT !.seen = None] \in Locals
        BY DEF Locals
      <3>2. rlocal' \in [Requests -> Locals]
        BY <1>5, <2>1, <3>1 DEF TypeOK, SubscribeLookup
      <3>3. rpc' \in [Requests -> RequestPcs]
        BY <1>5, <2>1 DEF TypeOK, SubscribeLookup, Goto, RequestPcs
      <3> QED
        BY <1>5, <3>2, <3>3 DEF TypeOK, SubscribeLookup, taskVars, history
    <2>2. CASE ~LooksOrphaned(r)
      BY <1>5, <2>2, ReturnType DEF TypeOK, SubscribeLookup, taskVars, history
    <2> QED
      BY <2>1, <2>2
  <1>6. CASE StopLookup(r)
    <2>1. rlocal' \in [Requests -> Locals] /\ rpc' \in [Requests -> RequestPcs]
      BY <1>6 DEF TypeOK, StopLookup, Goto, RequestPcs, Locals
    <2>2. registry' \in SUBSET Tasks /\ cancelled' \in SUBSET Tasks
      BY <1>6 DEF TypeOK, StopLookup, Registered
    <2> QED
      BY <1>6, <2>1, <2>2 DEF TypeOK, StopLookup, history
  <1>7. CASE StopSession(r)
    BY <1>7, ReturnType, EndUpdate DEF TypeOK, StopSession, taskVars, history
  <1>8. CASE FinalizeOrphan(r)
    <2>1. CASE rlocal[r].msg # None
      BY <1>8, <2>1, EndUpdate, GotoType
      DEF TypeOK, FinalizeOrphan, taskVars, history, RequestPcs
    <2>2. CASE rlocal[r].msg = None
      BY <1>8, <2>2, EndUpdate, ReturnType DEF TypeOK, FinalizeOrphan, taskVars, history
    <2> QED
      BY <2>1, <2>2
  <1>9. ASSUME NEW t \in Tasks, CreateTask(r, t)
        PROVE  TypeOK'
    <2>1. [rlocal EXCEPT ![r].task = t] \in [Requests -> Locals]
      BY DEF TypeOK, Locals
    <2> QED
      BY <1>9, <2>1 DEF TypeOK, CreateTask, history, Goto, RequestPcs, TaskPcs
  <1>10. CASE WriteHandles(r)
    <2>1. UpdateRuntimeHandles(row, rlocal[r].task) \in Rows
      BY DEF TypeOK, UpdateRuntimeHandles, Rows, Locals
    <2>2. [rlocal EXCEPT ![r].prev = None] \in [Requests -> Locals]
      BY DEF TypeOK, Locals
    <2> QED
      BY <1>10, <2>1, <2>2 DEF TypeOK, WriteHandles, taskVars, history, Goto, RequestPcs
  <1>11. CASE RestoreStatus(r)
    <2>1. rlocal[r].prev \in Statuses
      BY <1>11 DEF RequestInv, RequestOK, RestoreStatus
    <2>2. UpdateStatus(row, rlocal[r].prev) \in Rows
      BY <2>1, StatusUpdate DEF TypeOK
    <2> QED
      BY <1>11, <2>2, ReturnType, RefuseType DEF TypeOK, RestoreStatus, taskVars
  <1>12. CASE PutInput(r)
    <2> rlocal[r].msg \in Messages /\ rlocal[r].task \in Tasks
      BY <1>12 DEF RequestInv, RequestOK, PutInput
    <2>1. input' \in [Tasks -> Seq(Messages)]
      BY <1>12 DEF TypeOK, PutInput
    <2>2. [rlocal EXCEPT ![r].msg = None] \in [Requests -> Locals]
      BY DEF TypeOK, Locals
    <2> QED
      BY <1>12, <2>1, <2>2 DEF TypeOK, PutInput, Goto, RequestPcs, Becomes, Fates
  <1>13. CASE InvokeTask(r)
    <2>1. pc' \in [Tasks -> TaskPcs]
      BY <1>13 DEF TypeOK, InvokeTask, TaskPcs
    <2>2. rpc' \in [Requests -> RequestPcs] /\ rlocal' \in [Requests -> Locals]
      <3>1. CASE rlocal[r].op = "runNext"
        BY <1>13, <3>1, LocalsTypes DEF TypeOK, InvokeTask, Goto, RequestPcs, AllOps
      <3>2. CASE rlocal[r].op # "runNext"
        BY <1>13, <3>2, ReturnType DEF InvokeTask
      <3> QED
        BY <3>1, <3>2
    <2> QED
      BY <1>13, <2>1, <2>2 DEF TypeOK, InvokeTask, history
  <1> QED
    BY <1>1, <1>2, <1>3, <1>4, <1>5, <1>6, <1>7, <1>8, <1>9, <1>10, <1>11, <1>12, <1>13
    DEF RequestStep

\* A runner keeps every variable typed.
LEMMA RunnerSteps ==
  ASSUME TypeOK, NEW t \in Tasks, RunnerStep(t)
  PROVE  TypeOK'
  <1>1. CASE BeginRun(t) \/ InputIsEmpty(t) \/ FinishConflicts(t) \/ FlowDone(t)
               \/ FlowFails(t) \/ SaveDone(t)
    <2>1. pc' \in [Tasks -> TaskPcs]
      BY <1>1, RunnerToType
      DEF BeginRun, InputIsEmpty, FinishConflicts, FlowDone, FlowFails, SaveDone,
          TaskPcs, InTry, InHandler
    <2> QED
      BY <1>1, <2>1
      DEF TypeOK, BeginRun, InputIsEmpty, FinishConflicts, FlowDone, FlowFails, SaveDone,
          requestVars, history
  <1>2. CASE PopEvent(t)
    <2>1. input[t] \in Seq(Messages) /\ input[t] # <<>>
      BY <1>2 DEF TypeOK, PopEvent
    <2>2. Head(input[t]) \in Messages /\ Tail(input[t]) \in Seq(Messages)
      BY <2>1
    <2>3. pc' \in [Tasks -> TaskPcs] /\ fate' \in [Messages -> Fates]
      BY <1>2, <2>2, RunnerToType, FateType DEF PopEvent, TaskPcs, InTry, Fates
    <2> QED
      BY <1>2, <2>2, <2>3 DEF TypeOK, PopEvent, requestVars
  <1>3. CASE FinishSession(t)
    <2>1. row' \in Rows
      BY <1>3, StatusUpdate DEF TypeOK, FinishSession, Statuses
    <2>2. pc' \in [Tasks -> TaskPcs]
      BY <1>3, RunnerToType DEF FinishSession, TaskPcs, InTry
    <2> QED
      BY <1>3, <2>1, <2>2 DEF TypeOK, FinishSession, requestVars, history
  <1>4. CASE ClaimQueued(t)
    <2>1. row' \in Rows
      BY <1>4, ClaimUpdate DEF TypeOK, ClaimQueued
    <2>2. pc' \in [Tasks -> TaskPcs]
      BY <1>4, RunnerToType DEF ClaimQueued, TaskPcs, InTry
    <2>3. row.next.id \in Messages \cup {None}
      BY DEF TypeOK, Rows, Slots
    <2> QED
      BY <1>4, <2>1, <2>2, <2>3 DEF TypeOK, ClaimQueued, requestVars, history
  <1>5. CASE ConsumeQueued(t)
    <2>1. row' \in Rows
      BY <1>5, EmptyUpdate DEF TypeOK, ConsumeQueued
    <2>2. pc' \in [Tasks -> TaskPcs]
      BY <1>5, RunnerToType DEF ConsumeQueued, TaskPcs, InTry, InHandler
    <2>3. cur' \in [Tasks -> Messages \cup {None}] /\ fate' \in [Messages -> Fates]
      BY <1>5, FateType DEF TypeOK, ConsumeQueued, Drop, Fates
    <2> QED
      BY <1>5, <2>1, <2>2, <2>3 DEF TypeOK, ConsumeQueued, requestVars
  <1>6. CASE PrepareFlow(t)
    <2>1. pc' \in [Tasks -> TaskPcs]
      BY <1>6, RunnerToType DEF PrepareFlow, TaskPcs, InTry, InHandler
    <2> QED
      BY <1>6, <2>1 DEF TypeOK, PrepareFlow, Drop, requestVars, history
  <1>7. CASE SetRunning(t)
    <2>1. row' \in Rows
      BY <1>7, StatusUpdate DEF TypeOK, SetRunning, Statuses
    <2>2. pc' \in [Tasks -> TaskPcs]
      BY <1>7, RunnerToType DEF SetRunning, TaskPcs, InTry
    <2>3. ran' \in [Messages -> Nat]
      <3>1. \A m \in Messages : ran[m] + 1 \in Nat
        BY DEF TypeOK
      <3>2. ran' = [m \in Messages |-> IF m = cur[t] THEN ran[m] + 1 ELSE ran[m]]
        BY <1>7 DEF TypeOK, SetRunning
      <3> QED
        BY <3>1, <3>2 DEF TypeOK
    <2>4. cur' \in [Tasks -> Messages \cup {None}]
      BY <1>7 DEF TypeOK, SetRunning, Drop
    <2> QED
      BY <1>7, <2>1, <2>2, <2>3, <2>4 DEF TypeOK, SetRunning, requestVars
  <1>8. CASE FlowWaits(t)
    <2>1. row' \in Rows
      BY <1>8 DEF TypeOK, FlowWaits, Rows
    <2>2. pc' \in [Tasks -> TaskPcs]
      BY <1>8, RunnerToType DEF FlowWaits, TaskPcs, InTry
    <2> QED
      BY <1>8, <2>1, <2>2 DEF TypeOK, FlowWaits, requestVars, history
  <1>9. CASE SetStopped(t)
    <2>1. row' \in Rows
      BY <1>9, StatusUpdate DEF TypeOK, SetStopped, Statuses
    <2>2. pc' \in [Tasks -> TaskPcs]
      BY <1>9, RunnerToType DEF SetStopped, TaskPcs
    <2> QED
      BY <1>9, <2>1, <2>2 DEF TypeOK, SetStopped, requestVars, history
  <1>10. CASE PutDone(t)
    <2>1. pc' \in [Tasks -> TaskPcs]
      BY <1>10, RunnerToType DEF PutDone, TaskPcs, InTry
    <2>2. dones' \in [Tasks -> Nat]
      BY <1>10 DEF TypeOK, PutDone, PutDoneEvent
    <2> QED
      BY <1>10, <2>1, <2>2 DEF TypeOK, PutDone, requestVars, history
  <1>11. CASE RunnerRaises(t)
    <2>1. pc' \in [Tasks -> TaskPcs]
      BY <1>11, RunnerToType DEF RunnerRaises, TaskPcs, InHandler
    <2> QED
      BY <1>11, <2>1 DEF TypeOK, RunnerRaises, Drop, requestVars, history
  <1>12. CASE HandleFailure(t) \/ HandleCancelled(t)
    <2>1. row' \in Rows
      BY <1>12, EndUpdate DEF TypeOK, HandleFailure, HandleCancelled
    <2>2. pc' \in [Tasks -> TaskPcs]
      BY <1>12, RunnerToType DEF HandleFailure, HandleCancelled, TaskPcs
    <2>3. dones' \in [Tasks -> Nat]
      <3>1. \A u \in Tasks : dones[u] + 1 \in Nat
        BY DEF TypeOK
      <3>2. \/ dones' = dones
            \/ dones' = [u \in Tasks |-> IF u = t THEN dones[u] + 1 ELSE dones[u]]
        BY <1>12 DEF TypeOK, HandleFailure, HandleCancelled, PutDoneEvent
      <3> QED
        BY <3>1, <3>2 DEF TypeOK
    <2> QED
      BY <1>12, <2>1, <2>2, <2>3
      DEF TypeOK, HandleFailure, HandleCancelled, requestVars, history
  <1>13. CASE EndTask(t)
    <2>1. pc' \in [Tasks -> TaskPcs]
      BY <1>13, RunnerToType DEF EndTask, TaskPcs
    <2> QED
      BY <1>13, <2>1 DEF TypeOK, EndTask, requestVars, history
  <1>14. CASE DeliverCancel(t)
    <2>1. pc' \in [Tasks -> TaskPcs]
      BY <1>14 DEF TypeOK, DeliverCancel, RunnerTo, TaskPcs, InTry, InHandler
    <2> QED
      BY <1>14, <2>1 DEF TypeOK, DeliverCancel, Drop, requestVars, history
  <1>15. CASE SwallowCancel(t)
    BY <1>15 DEF TypeOK, SwallowCancel, requestVars, history
  <1> QED
    BY <1>1, <1>2, <1>3, <1>4, <1>5, <1>6, <1>7, <1>8, <1>9, <1>10, <1>11, <1>12,
       <1>13, <1>14, <1>15
    DEF RunnerStep

\* Every step keeps every variable typed.
LEMMA TypeStep ==
  ASSUME TypeOK, RequestInv, [Next]_vars
  PROVE  TypeOK'
  <1>1. CASE Next
    BY <1>1, RequestSteps, RunnerSteps, ClientSteps DEF Next
  <1>2. CASE UNCHANGED vars
    BY <1>2 DEF TypeOK, vars, taskVars, requestVars, history
  <1> QED
    BY <1>1, <1>2

-----------------------------------------------------------------------------
(* What a step leaves alone *)

\* A runner touches no request.
LEMMA RunnerLeavesRequests ==
  ASSUME NEW t \in Tasks, RunnerStep(t)
  PROVE  UNCHANGED requestVars
  BY DEF RunnerStep, BeginRun, PopEvent, InputIsEmpty, FinishConflicts, FinishSession,
         ClaimQueued, ConsumeQueued, PrepareFlow, SetRunning, FlowDone, FlowWaits,
         FlowFails, SetStopped, PutDone, SaveDone, RunnerRaises, HandleFailure,
         HandleCancelled, EndTask, DeliverCancel, SwallowCancel

-----------------------------------------------------------------------------
(* RequestInv *)

\* A step of one request leaves what the others carry as it was.
LEMMA RequestFrame ==
  ASSUME NEW r \in Requests, TypeOK, RequestInv, RequestOK(r)',
         \A s \in Requests \ {r} : rpc'[s] = rpc[s] /\ rlocal'[s] = rlocal[s]
  PROVE  RequestInv'
  BY DEF RequestInv, RequestOK

\* A request that returned carries nothing.
LEMMA ReturnFrame ==
  ASSUME NEW r \in Requests, TypeOK, RequestInv, Return(r)
  PROVE  RequestInv'
  <1>1. RequestOK(r)'
    BY DEF TypeOK, Return, Goto, RequestOK
  <1> QED
    BY <1>1, RequestFrame DEF TypeOK, Return, Goto

\* A request carries at its next program point what it needs there.
LEMMA RequestInvOfRequest ==
  ASSUME TypeOK, RequestInv, NEW r \in Requests, RequestStep(r)
  PROVE  RequestInv'
  <1>1. CASE ReadSession(r)
    <2>1. rlocal[r].op \in {"subscribe", "stop"}
      BY <1>1 DEF RequestInv, RequestOK, ReadSession
    <2>2. rlocal'[r].op = rlocal[r].op /\ rpc'[r] = "lookup"
      BY <1>1 DEF TypeOK, Locals, ReadSession, Goto
    <2>3. RequestOK(r)'
      BY <2>1, <2>2 DEF RequestOK
    <2> QED
      BY <1>1, <2>3, RequestFrame DEF TypeOK, ReadSession, Goto
  <1>2. CASE ClaimAgain(r)
    <2>1. RequestOK(r)'
      BY <1>2 DEF TypeOK, RequestInv, RequestOK, ClaimAgain, Claimed, Goto
    <2> QED
      BY <1>2, <2>1, RequestFrame DEF TypeOK, ClaimAgain, Goto
  <1>3. CASE ClaimRefused(r) \/ StopSession(r) \/ RestoreStatus(r)
    BY <1>3, ReturnFrame DEF ClaimRefused, StopSession, RestoreStatus
  <1>4. CASE ChatLookup(r)
    <2>1. CASE Registered(r)
      <3>1. rlocal'[r].msg = rlocal[r].msg /\ rlocal'[r].task = rlocal[r].seen
        BY <1>4, <2>1 DEF TypeOK, Locals, ChatLookup
      <3>2. RequestOK(r)'
        BY <1>4, <2>1, <3>1 DEF TypeOK, RequestInv, RequestOK, ChatLookup, Registered, Goto
      <3> QED
        BY <1>4, <2>1, <3>2, RequestFrame DEF TypeOK, ChatLookup, Goto
    <2>2. CASE ~Registered(r)
      <3>1. RequestOK(r)'
        BY <1>4, <2>2 DEF TypeOK, RequestOK, ChatLookup, Goto
      <3> QED
        BY <1>4, <2>2, <3>1, RequestFrame DEF TypeOK, ChatLookup, Goto
    <2> QED
      BY <2>1, <2>2
  <1>5. CASE SubscribeLookup(r)
    <2>1. CASE LooksOrphaned(r)
      <3>1. RequestOK(r)'
        BY <1>5, <2>1 DEF TypeOK, RequestOK, SubscribeLookup, Goto
      <3> QED
        BY <1>5, <2>1, <3>1, RequestFrame DEF TypeOK, SubscribeLookup, Goto
    <2>2. CASE ~LooksOrphaned(r)
      BY <1>5, <2>2, ReturnFrame DEF SubscribeLookup
    <2> QED
      BY <2>1, <2>2
  <1>6. CASE StopLookup(r)
    <2>1. rlocal'[r].op = "stop" /\ rpc'[r] \in {"orphan", "stopTx"}
      BY <1>6 DEF TypeOK, Locals, StopLookup, Goto
    <2>2. RequestOK(r)'
      BY <2>1 DEF RequestOK
    <2> QED
      BY <1>6, <2>2, RequestFrame DEF TypeOK, StopLookup, Goto
  <1>7. CASE FinalizeOrphan(r)
    <2>1. CASE rlocal[r].msg # None
      <3>1. RequestOK(r)'
        BY <1>7, <2>1 DEF TypeOK, Locals, RequestOK, FinalizeOrphan, Goto
      <3> QED
        BY <1>7, <2>1, <3>1, RequestFrame DEF TypeOK, FinalizeOrphan, Goto
    <2>2. CASE rlocal[r].msg = None
      BY <1>7, <2>2, ReturnFrame DEF FinalizeOrphan
    <2> QED
      BY <2>1, <2>2
  <1>8. ASSUME NEW t \in Tasks, CreateTask(r, t)
        PROVE  RequestInv'
    <2>1. /\ rlocal'[r].op = rlocal[r].op /\ rlocal'[r].msg = rlocal[r].msg
          /\ rlocal'[r].task = t
      BY <1>8 DEF TypeOK, Locals, CreateTask
    <2>2. RequestOK(r)'
      BY <1>8, <2>1 DEF TypeOK, RequestInv, RequestOK, CreateTask, Goto
    <2> QED
      BY <1>8, <2>2, RequestFrame DEF TypeOK, CreateTask, Goto
  <1>9. CASE WriteHandles(r)
    <2>1. /\ rlocal'[r].op = rlocal[r].op /\ rlocal'[r].msg = rlocal[r].msg
          /\ rlocal'[r].task = rlocal[r].task
      BY <1>9 DEF TypeOK, Locals, WriteHandles
    <2>2. RequestOK(r)'
      BY <1>9, <2>1 DEF TypeOK, RequestInv, RequestOK, WriteHandles, Goto
    <2> QED
      BY <1>9, <2>2, RequestFrame DEF TypeOK, WriteHandles, Goto
  <1>10. CASE PutInput(r)
    <2>1. rlocal'[r].task = rlocal[r].task
      BY <1>10 DEF TypeOK, Locals, PutInput
    <2>2. RequestOK(r)'
      BY <1>10, <2>1 DEF TypeOK, RequestInv, RequestOK, PutInput, Goto
    <2> QED
      BY <1>10, <2>2, RequestFrame DEF TypeOK, PutInput, Goto
  <1>11. CASE InvokeTask(r)
    <2>1. CASE rlocal[r].op = "runNext"
      <3>1. RequestOK(r)'
        BY <1>11, <2>1 DEF TypeOK, RequestOK, InvokeTask, Opened, NoLocals, Goto
      <3> QED
        BY <1>11, <2>1, <3>1, RequestFrame DEF TypeOK, InvokeTask, Goto
    <2>2. CASE rlocal[r].op # "runNext"
      BY <1>11, <2>2, ReturnFrame DEF InvokeTask
    <2> QED
      BY <2>1, <2>2
  <1> QED
    BY <1>1, <1>2, <1>3, <1>4, <1>5, <1>6, <1>7, <1>8, <1>9, <1>10, <1>11
    DEF RequestStep

\* A request that starts, fails or is cut off carries what it must.
LEMMA RequestInvOfClient ==
  ASSUME TypeOK, RequestInv, ClientStep
  PROVE  RequestInv'
  <1>1. ASSUME NEW r \in Requests, NEW m \in Messages, StartChat(r, m)
        PROVE  RequestInv'
    <2>1. RequestOK(r)'
      BY <1>1 DEF TypeOK, RequestOK, StartChat, Claimed, Goto
    <2> QED
      BY <1>1, <2>1, RequestFrame DEF TypeOK, StartChat, Goto
  <1>2. ASSUME NEW r \in Requests, NEW m \in Messages, ResolvePending(r, m)
        PROVE  RequestInv'
    <2>1. RequestOK(r)'
      BY <1>2 DEF TypeOK, RequestOK, ResolvePending, Opened, NoLocals, Goto
    <2> QED
      BY <1>2, <2>1, RequestFrame DEF TypeOK, ResolvePending, Goto
  <1>3. ASSUME NEW r \in Requests, StartSubscribe(r) \/ StartStop(r) \/ StartRunNext(r)
        PROVE  RequestInv'
    <2>1. RequestOK(r)'
      BY <1>3
      DEF TypeOK, RequestOK, StartSubscribe, StartStop, StartRunNext, Opened, NoLocals, Goto
    <2> QED
      BY <1>3, <2>1, RequestFrame
      DEF TypeOK, StartSubscribe, StartStop, StartRunNext, Goto
  <1>4. ASSUME NEW r \in Requests, CreateFails(r)
        PROVE  RequestInv'
    <2>1. CASE rlocal[r].prev # None
      <3>1. RequestOK(r)'
        BY <1>4, <2>1 DEF TypeOK, Locals, RequestOK, CreateFails, Goto
      <3> QED
        BY <1>4, <2>1, <3>1, RequestFrame DEF TypeOK, CreateFails, Goto
    <2>2. CASE rlocal[r].prev = None
      BY <1>4, <2>2, ReturnFrame DEF CreateFails
    <2> QED
      BY <2>1, <2>2
  <1>5. ASSUME NEW r \in Requests, Disconnect(r)
        PROVE  RequestInv'
    BY <1>5, ReturnFrame DEF Disconnect
  <1>6. ASSUME (\E m \in Messages : QueueNextMessage(m)) \/ CancelQueued \/ Organize
        PROVE  RequestInv'
    BY <1>6
    DEF RequestInv, RequestOK, QueueNextMessage, CancelQueued, Organize, requestVars
  <1>7. ASSUME Crash
        PROVE  RequestInv'
    BY <1>7 DEF RequestInv, RequestOK, Crash
  <1> QED
    BY <1>1, <1>2, <1>3, <1>4, <1>5, <1>6, <1>7 DEF ClientStep

-----------------------------------------------------------------------------
(* The places of a message: SlotInv, HeldInv, InputInv, HandInv, RanInv      *)

MessageInv == SlotInv /\ HeldInv /\ InputInv /\ HandInv /\ RanInv

\* A step that moves no message: requests and runners may at most let go of
\* one, and a claim may at most be reset.
SlotStays ==
  \/ row'.next = row.next
  \/ /\ row.next.state = "processing"
     /\ row'.next = [id |-> row.next.id, state |-> "queued", task |-> None]

HandsStay ==
  /\ \A t \in Tasks : Preparing(t)' => Preparing(t) /\ cur'[t] = cur[t]
  /\ \A t \in Tasks : pc'[t] = "consume" => cur'[t] \in Messages

LocalsStay ==
  \A r \in Requests : rlocal'[r].msg = rlocal[r].msg \/ rlocal'[r].msg = None

QuietStep ==
  SlotStays /\ HandsStay /\ LocalsStay /\ UNCHANGED <<fate, ran, input>>

\* A slot that stays, or is reset, still agrees with the fates.
LEMMA SlotStaysInv ==
  ASSUME TypeOK, SlotInv, SlotStays, UNCHANGED fate
  PROVE  SlotInv'
  BY NoneIsNoId DEF SlotInv, SlotStays, EmptySlot

\* A step that moves no message keeps every message in its one place.
LEMMA QuietInv ==
  ASSUME TypeOK, MessageInv, QuietStep
  PROVE  MessageInv'
  <1>1. SlotInv'
    BY SlotStaysInv DEF MessageInv, QuietStep
  <1>2. HeldInv'
    BY DEF MessageInv, QuietStep, HeldInv, LocalsStay
  <1>3. InputInv'
    BY DEF MessageInv, QuietStep, InputInv
  <1>4. HandInv'
    BY DEF MessageInv, QuietStep, HandInv, HandsStay
  <1>5. RanInv'
    BY DEF MessageInv, QuietStep, RanInv
  <1> QED
    BY <1>1, <1>2, <1>3, <1>4, <1>5 DEF MessageInv

\* Input streams hold messages; a change of fate that spares the sent ones
\* leaves InputInv alone.
LEMMA InputEntries ==
  ASSUME TypeOK, NEW t \in Tasks, NEW i \in 1 .. Len(input[t])
  PROVE  input[t][i] \in Messages
  <1>1. input[t] \in Seq(Messages)
    BY DEF TypeOK
  <1> QED
    BY <1>1

\* The entries of unchanged streams stay "sent".
LEMMA InputFrame ==
  ASSUME TypeOK, InputInv, UNCHANGED input,
         \A m \in Messages : fate[m] = "sent" => fate'[m] = "sent"
  PROVE  InputInv'
  BY InputEntries DEF InputInv

\* A request fails with the message it carries, if it carries one.
LEMMA RefuseInv ==
  ASSUME TypeOK, MessageInv, NEW r \in Requests, Refuse(r), Return(r),
         SlotStays, UNCHANGED <<pc, cur, input, ran>>
  PROVE  MessageInv'
  <1>1. \A s \in Requests :
          rlocal'[s].msg = IF s = r THEN None ELSE rlocal[s].msg
    BY DEF TypeOK, Return, NoLocals
  <1>2. CASE rlocal[r].msg = None
    <2>1. LocalsStay /\ HandsStay /\ fate' = fate
      BY <1>1, <1>2 DEF LocalsStay, HandsStay, Refuse, Preparing, MessageInv, HandInv
    <2> QED
      BY <2>1, QuietInv DEF QuietStep
  <1>3. CASE rlocal[r].msg # None
    <2> DEFINE m == rlocal[r].msg
    <2>1. m \in Messages /\ fate[m] = "direct"
      BY <1>3 DEF TypeOK, Locals, MessageInv, HeldInv
    <2>2. /\ fate'[m] = "refused"
          /\ \A n \in Messages \ {m} : fate'[n] = fate[n]
      BY <1>3, <2>1 DEF Refuse, TypeOK
    <2>3. SlotInv'
      <3>1. \A n \in Messages : fate'[n] = "queued" <=> fate[n] = "queued"
        BY <2>1, <2>2
      <3> QED
        BY <3>1, NoneIsNoId DEF MessageInv, SlotInv, SlotStays, EmptySlot
    <2>4. HeldInv'
      <3>1. \A s \in Requests : rlocal'[s].msg # None => rlocal[s].msg # m
        BY <1>1, <1>3 DEF MessageInv, HeldInv
      <3>2. \A s \in Requests : rlocal[s].msg # None => rlocal[s].msg \in Messages
        BY DEF TypeOK, Locals
      <3> QED
        BY <1>1, <2>2, <3>1, <3>2 DEF MessageInv, HeldInv
    <2>5. InputInv'
      BY <2>1, <2>2, InputFrame DEF MessageInv
    <2>6. HandInv'
      BY <2>1, <2>2 DEF MessageInv, HandInv, Preparing
    <2>7. RanInv'
      BY <2>1, <2>2 DEF MessageInv, RanInv
    <2> QED
      BY <2>3, <2>4, <2>5, <2>6, <2>7 DEF MessageInv
  <1> QED
    BY <1>2, <1>3

\* A request takes a fresh message into its hands.
LEMMA TakeInv ==
  ASSUME TypeOK, MessageInv, NEW r \in Requests, NEW m \in Messages,
         fate[m] = "fresh", Becomes(m, "direct"), SlotStays,
         rlocal'[r].msg = m, \A s \in Requests \ {r} : rlocal'[s] = rlocal[s],
         UNCHANGED <<pc, cur, input, ran>>
  PROVE  MessageInv'
  <1>1. /\ fate'[m] = "direct"
        /\ \A n \in Messages \ {m} : fate'[n] = fate[n]
    BY DEF Becomes, TypeOK
  <1>2. SlotInv'
    <2>1. \A n \in Messages : fate'[n] = "queued" <=> fate[n] = "queued"
      BY <1>1
    <2> QED
      BY <2>1, NoneIsNoId DEF MessageInv, SlotInv, SlotStays, EmptySlot
  <1>3. HeldInv'
    <2>1. \A s \in Requests : rlocal[s].msg # m
      BY NoneIsNoId DEF MessageInv, HeldInv
    <2>2. \A s \in Requests : rlocal[s].msg # None => rlocal[s].msg \in Messages
      BY DEF TypeOK, Locals
    <2> QED
      BY <1>1, <2>1, <2>2 DEF MessageInv, HeldInv
  <1>4. InputInv'
    BY <1>1, InputFrame DEF MessageInv
  <1>5. HandInv'
    BY <1>1 DEF MessageInv, HandInv, Preparing
  <1>6. RanInv'
    BY <1>1 DEF MessageInv, RanInv
  <1> QED
    BY <1>2, <1>3, <1>4, <1>5, <1>6 DEF MessageInv

\* The program points a request step may move a runner to are none that matter.
LEMMA QuietRequest ==
  ASSUME TypeOK, MessageInv, SlotStays, LocalsStay, UNCHANGED <<pc, cur, fate, ran, input>>
  PROVE  MessageInv'
  <1>1. HandsStay
    BY DEF HandsStay, Preparing, MessageInv, HandInv
  <1> QED
    BY <1>1, QuietInv DEF QuietStep

\* The status and handle updates leave the slot; ending a run may reset it.
LEMMA RowUpdatesKeepSlot ==
  ASSUME TypeOK
  PROVE  /\ \A s \in Statuses : UpdateStatus(row, s).next = row.next
         /\ \A t \in Tasks : UpdateRuntimeHandles(row, t).next = row.next
         /\ ClaimExecution(row).next = row.next
         /\ row' = EndRun(row) => SlotStays
  <1>1. \A s \in Statuses : UpdateStatus(row, s).next = row.next
    BY StatusUpdate DEF TypeOK
  <1>2. \A t \in Tasks : UpdateRuntimeHandles(row, t).next = row.next
    BY HandlesUpdate DEF TypeOK
  <1>3. ClaimExecution(row).next = row.next
    BY <1>1 DEF ClaimExecution, Statuses
  <1>4. row' = EndRun(row) => SlotStays
    BY EndUpdate DEF TypeOK, SlotStays
  <1> QED
    BY <1>1, <1>2, <1>3, <1>4

\* A request's step keeps every message in its one place.
LEMMA MessageInvOfRequest ==
  ASSUME TypeOK, RequestInv, MessageInv, NEW r \in Requests, RequestStep(r)
  PROVE  MessageInv'
  <1>1. CASE ReadSession(r)
    <2>1. LocalsStay
      BY <1>1 DEF TypeOK, Locals, LocalsStay, ReadSession
    <2> QED
      BY <1>1, <2>1, QuietRequest DEF ReadSession, SlotStays, taskVars, history
  <1>2. CASE ClaimAgain(r)
    <2>1. LocalsStay
      BY <1>2 DEF TypeOK, LocalsStay, ClaimAgain, Claimed
    <2>2. SlotStays
      BY <1>2, RowUpdatesKeepSlot DEF ClaimAgain, SlotStays
    <2> QED
      BY <1>2, <2>1, <2>2, QuietRequest DEF ClaimAgain, taskVars, history
  <1>3. CASE ClaimRefused(r)
    BY <1>3, RefuseInv DEF ClaimRefused, SlotStays, taskVars
  <1>4. CASE ChatLookup(r)
    <2>1. LocalsStay
      <3>1. rlocal'[r].msg = rlocal[r].msg
        <4>1. CASE Registered(r)
          BY <1>4, <4>1 DEF TypeOK, Locals, ChatLookup
        <4>2. CASE ~Registered(r)
          BY <1>4, <4>2 DEF TypeOK, Locals, ChatLookup
        <4> QED
          BY <4>1, <4>2
      <3>2. \A s \in Requests \ {r} : rlocal'[s] = rlocal[s]
        BY <1>4 DEF TypeOK, ChatLookup
      <3> QED
        BY <3>1, <3>2 DEF LocalsStay
    <2> QED
      BY <1>4, <2>1, QuietRequest DEF ChatLookup, SlotStays, taskVars, history
  <1>5. CASE SubscribeLookup(r)
    <2>1. LocalsStay
      <3>1. CASE LooksOrphaned(r)
        <4>1. rlocal'[r].msg = rlocal[r].msg
          BY <1>5, <3>1 DEF TypeOK, Locals, SubscribeLookup
        <4>2. \A s \in Requests \ {r} : rlocal'[s] = rlocal[s]
          BY <1>5, <3>1 DEF TypeOK, SubscribeLookup
        <4> QED
          BY <4>1, <4>2 DEF LocalsStay
      <3>2. CASE ~LooksOrphaned(r)
        BY <1>5, <3>2 DEF TypeOK, LocalsStay, SubscribeLookup, Return, NoLocals
      <3> QED
        BY <3>1, <3>2
    <2> QED
      BY <1>5, <2>1, QuietRequest DEF SubscribeLookup, SlotStays, taskVars, history
  <1>6. CASE StopLookup(r)
    <2>1. LocalsStay
      BY <1>6 DEF TypeOK, Locals, LocalsStay, StopLookup
    <2> QED
      BY <1>6, <2>1, QuietRequest DEF StopLookup, SlotStays, history
  <1>7. CASE StopSession(r) \/ FinalizeOrphan(r)
    <2>1. LocalsStay
      BY <1>7 DEF TypeOK, LocalsStay, StopSession, FinalizeOrphan, Return, NoLocals
    <2>2. SlotStays
      BY <1>7, RowUpdatesKeepSlot DEF StopSession, FinalizeOrphan
    <2> QED
      BY <1>7, <2>1, <2>2, QuietRequest DEF StopSession, FinalizeOrphan, taskVars, history
  <1>8. ASSUME NEW t \in Tasks, CreateTask(r, t)
        PROVE  MessageInv'
    <2>1. LocalsStay
      BY <1>8 DEF TypeOK, Locals, LocalsStay, CreateTask
    <2>2. HandsStay
      BY <1>8 DEF TypeOK, HandsStay, Preparing, CreateTask, MessageInv, HandInv
    <2> QED
      BY <1>8, <2>1, <2>2, QuietInv DEF QuietStep, CreateTask, SlotStays, history
  <1>9. CASE WriteHandles(r)
    <2>1. LocalsStay
      BY <1>9 DEF TypeOK, Locals, LocalsStay, WriteHandles
    <2>2. rlocal[r].task \in Tasks
      BY <1>9 DEF RequestInv, RequestOK, WriteHandles
    <2>3. SlotStays
      BY <1>9, <2>2, RowUpdatesKeepSlot DEF WriteHandles, SlotStays
    <2> QED
      BY <1>9, <2>1, <2>3, QuietRequest DEF WriteHandles, taskVars, history
  <1>10. CASE RestoreStatus(r)
    <2>1. rlocal[r].prev \in Statuses
      BY <1>10 DEF RequestInv, RequestOK, RestoreStatus
    <2>2. SlotStays
      BY <1>10, <2>1, RowUpdatesKeepSlot DEF RestoreStatus, SlotStays
    <2> QED
      BY <1>10, <2>2, RefuseInv DEF RestoreStatus, taskVars
  <1>11. CASE PutInput(r)
    <2> DEFINE m == rlocal[r].msg
               t == rlocal[r].task
    <2>1. m \in Messages /\ t \in Tasks
      BY <1>11 DEF RequestInv, RequestOK, PutInput
    <2>2. m # None /\ fate[m] = "direct"
      BY <2>1, NoneIsNoId DEF MessageInv, HeldInv
    <2>3. /\ fate'[m] = "sent"
          /\ \A n \in Messages \ {m} : fate'[n] = fate[n]
      BY <1>11, <2>1 DEF PutInput, Becomes, TypeOK
    <2>4. \A s \in Requests : rlocal'[s].msg = IF s = r THEN None ELSE rlocal[s].msg
      BY <1>11 DEF TypeOK, Locals, PutInput
    <2>5. row' = row /\ pc' = pc /\ cur' = cur /\ ran' = ran
      BY <1>11 DEF PutInput
    <2>6. SlotInv'
      <3>1. \A n \in Messages : fate'[n] = "queued" <=> fate[n] = "queued"
        BY <2>2, <2>3
      <3> QED
        BY <2>5, <3>1 DEF MessageInv, SlotInv
    <2>7. HeldInv'
      <3>1. \A s \in Requests : rlocal'[s].msg # None => rlocal[s].msg # m
        BY <2>2, <2>4 DEF MessageInv, HeldInv
      <3>2. \A s \in Requests : rlocal[s].msg # None => rlocal[s].msg \in Messages
        BY DEF TypeOK, Locals
      <3> QED
        BY <2>3, <2>4, <3>1, <3>2 DEF MessageInv, HeldInv
    <2>8. InputInv'
      <3>1. input[t] \in Seq(Messages)
        BY <2>1 DEF TypeOK
      <3>2. /\ input'[t] = Append(input[t], m)
            /\ \A u \in Tasks \ {t} : input'[u] = input[u]
        BY <1>11, <2>1 DEF TypeOK, PutInput
      <3>3. /\ Len(input'[t]) = Len(input[t]) + 1
            /\ \A i \in 1 .. Len(input[t]) : input'[t][i] = input[t][i]
            /\ input'[t][Len(input[t]) + 1] = m
            /\ Len(input[t]) \in Nat
        BY <2>1, <3>1, <3>2
      <3>4. \A u \in Tasks, i \in Nat : i \in 1 .. Len(input'[u]) =>
              \/ i \in 1 .. Len(input[u]) /\ input'[u][i] = input[u][i]
              \/ u = t /\ i = Len(input[t]) + 1 /\ input'[u][i] = m
        <4>1. ASSUME NEW i \in Nat, i \in 1 .. Len(input'[t])
              PROVE  i \in 1 .. Len(input[t]) \/ i = Len(input[t]) + 1
          BY <3>3, <4>1
        <4> QED
          BY <3>2, <3>3, <4>1
      <3>5. \A u \in Tasks : \A i \in 1 .. Len(input[u]) :
              input[u][i] \in Messages \ {m}
        BY <2>1, <2>2, InputEntries DEF MessageInv, InputInv
      <3>6. SUFFICES ASSUME NEW u \in Tasks, NEW i \in 1 .. Len(input'[u])
                     PROVE  /\ fate'[input'[u][i]] = "sent"
                            /\ \A v \in Tasks : \A j \in 1 .. Len(input'[v]) :
                                 input'[v][j] = input'[u][i] => v = u /\ j = i
        BY DEF InputInv
      <3>7. fate'[input'[u][i]] = "sent"
        BY <2>3, <3>4, <3>5 DEF MessageInv, InputInv
      <3>8. ASSUME NEW v \in Tasks, NEW j \in 1 .. Len(input'[v]),
                   input'[v][j] = input'[u][i]
            PROVE  v = u /\ j = i
        BY <3>4, <3>5, <3>8 DEF MessageInv, InputInv
      <3> QED
        BY <3>7, <3>8
    <2>9. HandInv'
      BY <2>2, <2>3, <2>5 DEF MessageInv, HandInv, Preparing
    <2>10. RanInv'
      BY <2>2, <2>3, <2>5 DEF MessageInv, RanInv
    <2> QED
      BY <2>6, <2>7, <2>8, <2>9, <2>10 DEF MessageInv
  <1>12. CASE InvokeTask(r)
    <2>1. LocalsStay
      <3>1. CASE rlocal[r].op = "runNext"
        <4>1. rlocal'[r].msg = None
          BY <1>12, <3>1 DEF TypeOK, InvokeTask, Opened, NoLocals
        <4>2. \A s \in Requests \ {r} : rlocal'[s] = rlocal[s]
          BY <1>12, <3>1 DEF TypeOK, InvokeTask
        <4> QED
          BY <4>1, <4>2 DEF LocalsStay
      <3>2. CASE rlocal[r].op # "runNext"
        <4>1. rlocal' = [rlocal EXCEPT ![r] = NoLocals]
          BY <1>12, <3>2 DEF InvokeTask, Return
        <4> QED
          BY <4>1 DEF TypeOK, LocalsStay, NoLocals
      <3> QED
        BY <3>1, <3>2
    <2>2. HandsStay
      BY <1>12 DEF TypeOK, HandsStay, Preparing, InvokeTask, MessageInv, HandInv
    <2> QED
      BY <1>12, <2>1, <2>2, QuietInv DEF QuietStep, InvokeTask, SlotStays, history
  <1> QED
    BY <1>1, <1>2, <1>3, <1>4, <1>5, <1>6, <1>7, <1>8, <1>9, <1>10, <1>11, <1>12
    DEF RequestStep

\* A client's step keeps every message in its one place.
LEMMA MessageInvOfClient ==
  ASSUME TypeOK, MessageInv, ClientStep
  PROVE  MessageInv'
  <1>1. ASSUME NEW r \in Requests, NEW m \in Messages, StartChat(r, m)
        PROVE  MessageInv'
    <2>1. rlocal'[r].msg = m /\ \A s \in Requests \ {r} : rlocal'[s] = rlocal[s]
      BY <1>1 DEF TypeOK, StartChat, Claimed
    <2>2. SlotStays
      BY <1>1, RowUpdatesKeepSlot DEF StartChat, SlotStays
    <2> QED
      BY <1>1, <2>1, <2>2, TakeInv DEF StartChat, taskVars
  <1>2. ASSUME NEW r \in Requests, NEW m \in Messages, ResolvePending(r, m)
        PROVE  MessageInv'
    <2>1. rlocal'[r].msg = m /\ \A s \in Requests \ {r} : rlocal'[s] = rlocal[s]
      BY <1>2 DEF TypeOK, ResolvePending, Opened, NoLocals
    <2>2. SlotStays
      BY <1>2 DEF TypeOK, Rows, ResolvePending, ResolveInteraction, SlotStays
    <2> QED
      BY <1>2, <2>1, <2>2, TakeInv DEF ResolvePending, taskVars
  <1>3. ASSUME NEW r \in Requests, StartSubscribe(r) \/ StartStop(r) \/ StartRunNext(r)
        PROVE  MessageInv'
    <2>1. rlocal'[r].msg = None /\ \A s \in Requests \ {r} : rlocal'[s] = rlocal[s]
      BY <1>3
      DEF TypeOK, StartSubscribe, StartStop, StartRunNext, Opened, NoLocals
    <2>2. LocalsStay
      BY <2>1 DEF LocalsStay
    <2>3. SlotStays
      BY <1>3, RowUpdatesKeepSlot
      DEF StartSubscribe, StartStop, StartRunNext, SlotStays, Statuses
    <2> QED
      BY <1>3, <2>2, <2>3, QuietRequest
      DEF StartSubscribe, StartStop, StartRunNext, taskVars, history
  <1>4. ASSUME NEW r \in Requests, CreateFails(r)
        PROVE  MessageInv'
    <2>1. CASE rlocal[r].prev # None
      BY <1>4, <2>1, QuietRequest DEF CreateFails, SlotStays, LocalsStay, taskVars
    <2>2. CASE rlocal[r].prev = None
      BY <1>4, <2>2, RefuseInv DEF CreateFails, SlotStays, taskVars
    <2> QED
      BY <2>1, <2>2
  <1>5. ASSUME NEW r \in Requests, Disconnect(r)
        PROVE  MessageInv'
    BY <1>5, RefuseInv DEF Disconnect, SlotStays, taskVars
  <1>6. ASSUME NEW m \in Messages, QueueNextMessage(m)
        PROVE  MessageInv'
    <2>1. row'.next = [id |-> m, state |-> "queued", task |-> None]
      BY <1>6, PutUpdate DEF TypeOK, QueueNextMessage
    <2>2. /\ row.next.id # m
          /\ fate[m] = "fresh" /\ fate'[m] = "queued"
          /\ \A n \in Messages \ {m} :
               fate'[n] = IF n = row.next.id THEN "replaced" ELSE fate[n]
          /\ \A n \in Messages : fate[n] = "queued" <=> row.next.id = n
      BY <1>6 DEF MessageInv, SlotInv, QueueNextMessage
    <2>3. rlocal' = rlocal /\ input' = input /\ pc' = pc /\ cur' = cur /\ ran' = ran
      BY <1>6 DEF QueueNextMessage, taskVars, requestVars
    <2>4. SlotInv'
      BY <2>1, <2>2 DEF SlotInv
    <2>5. HeldInv'
      <3>1. \A s \in Requests : rlocal[s].msg # None => rlocal[s].msg \in Messages
        BY DEF TypeOK, Locals
      <3> QED
        BY <2>2, <2>3, <3>1 DEF MessageInv, HeldInv
    <2>6. InputInv'
      <3>1. \A n \in Messages : fate[n] = "sent" => fate'[n] = "sent"
        BY <2>2
      <3> QED
        BY <2>3, <3>1, InputFrame DEF MessageInv
    <2>7. HandInv'
      BY <2>2, <2>3 DEF MessageInv, HandInv, Preparing
    <2>8. RanInv'
      BY <2>2, <2>3 DEF MessageInv, RanInv
    <2> QED
      BY <2>4, <2>5, <2>6, <2>7, <2>8 DEF MessageInv
  <1>7. ASSUME CancelQueued
        PROVE  MessageInv'
    <2> DEFINE m == row.next.id
    <2>1. row'.next = EmptySlot
      BY <1>7, EmptyUpdate DEF TypeOK, CancelQueued
    <2>2. m \in Messages /\ fate[m] = "queued"
      BY <1>7 DEF MessageInv, SlotInv, CancelQueued, CanCancelNextMessage
    <2>3. /\ fate'[m] = "cancelled"
          /\ \A n \in Messages \ {m} : fate'[n] = fate[n] /\ fate[n] # "queued"
      BY <1>7, <2>2 DEF CancelQueued, Becomes, TypeOK, MessageInv, SlotInv
    <2>4. rlocal' = rlocal /\ input' = input /\ pc' = pc /\ cur' = cur /\ ran' = ran
      BY <1>7 DEF CancelQueued, taskVars, requestVars
    <2>5. SlotInv'
      BY <2>1, <2>3, NoneIsNoId DEF SlotInv, EmptySlot
    <2>6. HeldInv'
      <3>1. \A s \in Requests : rlocal[s].msg # None => rlocal[s].msg \in Messages
        BY DEF TypeOK, Locals
      <3> QED
        BY <2>2, <2>3, <2>4, <3>1 DEF MessageInv, HeldInv
    <2>7. InputInv'
      BY <2>2, <2>3, <2>4, InputFrame DEF MessageInv
    <2>8. HandInv'
      BY <2>2, <2>3, <2>4 DEF MessageInv, HandInv, Preparing
    <2>9. RanInv'
      BY <2>2, <2>3, <2>4 DEF MessageInv, RanInv
    <2> QED
      BY <2>5, <2>6, <2>7, <2>8, <2>9 DEF MessageInv
  <1>8. ASSUME Organize
        PROVE  MessageInv'
    <2>1. SlotStays
      BY <1>8 DEF TypeOK, Rows, Organize, SetArchived, SlotStays
    <2> QED
      BY <1>8, <2>1, QuietRequest
      DEF Organize, LocalsStay, taskVars, requestVars, history
  <1>9. ASSUME Crash
        PROVE  MessageInv'
    <2>1. \A m \in Messages : \/ fate'[m] = fate[m]
                              \/ fate[m] = "direct" /\ fate'[m] = "refused"
      <3>1. fate' = [m \in Messages |-> IF fate[m] = "direct" THEN "refused" ELSE fate[m]]
        BY <1>9 DEF Crash
      <3> QED
        BY <3>1
    <2>2. row' = row /\ ran' = ran
      BY <1>9 DEF Crash
    <2>3. SlotInv'
      BY <2>1, <2>2 DEF MessageInv, SlotInv
    <2>4. HeldInv'
      BY <1>9 DEF HeldInv, Crash, NoLocals
    <2>5. InputInv'
      <3>1. \A t \in Tasks : Len(input'[t]) = 0
        BY <1>9 DEF Crash
      <3> QED
        BY <3>1 DEF InputInv
    <2>6. HandInv'
      BY <1>9 DEF HandInv, Preparing, Crash
    <2>7. RanInv'
      BY <2>1, <2>2 DEF MessageInv, RanInv
    <2> QED
      BY <2>3, <2>4, <2>5, <2>6, <2>7 DEF MessageInv
  <1> QED
    BY <1>1, <1>2, <1>3, <1>4, <1>5, <1>6, <1>7, <1>8, <1>9 DEF ClientStep

\* A runner's step keeps every message in its one place.
LEMMA MessageInvOfRunner ==
  ASSUME TypeOK, MessageInv, NEW t \in Tasks, RunnerStep(t)
  PROVE  MessageInv'
  <1>1. rlocal' = rlocal
    BY RunnerLeavesRequests DEF requestVars
  <1>2. LocalsStay
    BY <1>1 DEF LocalsStay
  <1>3. \A s \in Requests : rlocal[s].msg # None => rlocal[s].msg \in Messages
    BY DEF TypeOK, Locals
  <1>4. CASE BeginRun(t) \/ InputIsEmpty(t) \/ FinishConflicts(t) \/ FlowDone(t)
               \/ FlowFails(t) \/ PutDone(t) \/ SaveDone(t) \/ EndTask(t)
    <2>1. HandsStay
      BY <1>4
      DEF TypeOK, HandsStay, Preparing, MessageInv, HandInv, RunnerTo, BeginRun,
          InputIsEmpty, FinishConflicts, FlowDone, FlowFails, PutDone, SaveDone, EndTask
    <2> QED
      BY <1>2, <1>4, <2>1, QuietInv
      DEF QuietStep, SlotStays, BeginRun, InputIsEmpty, FinishConflicts, FlowDone,
          FlowFails, PutDone, SaveDone, EndTask, history
  <1>5. CASE FinishSession(t) \/ SetStopped(t) \/ FlowWaits(t)
    <2>1. HandsStay
      BY <1>5
      DEF TypeOK, HandsStay, Preparing, MessageInv, HandInv, RunnerTo, FinishSession,
          SetStopped, FlowWaits
    <2>2. SlotStays
      BY <1>5, RowUpdatesKeepSlot
      DEF TypeOK, Rows, Statuses, FinishSession, SetStopped, FlowWaits, SlotStays
    <2> QED
      BY <1>2, <1>5, <2>1, <2>2, QuietInv
      DEF QuietStep, FinishSession, SetStopped, FlowWaits, history
  <1>6. CASE HandleFailure(t) \/ HandleCancelled(t)
    <2>1. HandsStay
      BY <1>6
      DEF TypeOK, HandsStay, Preparing, MessageInv, HandInv, RunnerTo, HandleFailure,
          HandleCancelled
    <2>2. SlotStays
      BY <1>6, RowUpdatesKeepSlot DEF HandleFailure, HandleCancelled
    <2> QED
      BY <1>2, <1>6, <2>1, <2>2, QuietInv
      DEF QuietStep, HandleFailure, HandleCancelled, history
  <1>7. CASE PrepareFlow(t) \/ RunnerRaises(t)
    <2>1. HandsStay
      BY <1>7
      DEF TypeOK, HandsStay, Preparing, MessageInv, HandInv, RunnerTo, Drop, At,
          PrepareFlow, RunnerRaises
    <2> QED
      BY <1>2, <1>7, <2>1, QuietInv
      DEF QuietStep, SlotStays, PrepareFlow, RunnerRaises, history
  <1>8. CASE DeliverCancel(t) \/ SwallowCancel(t)
    <2>1. HandsStay
      BY <1>8
      DEF TypeOK, HandsStay, Preparing, MessageInv, HandInv, RunnerTo, Drop,
          DeliverCancel, SwallowCancel
    <2> QED
      BY <1>2, <1>8, <2>1, QuietInv
      DEF QuietStep, SlotStays, DeliverCancel, SwallowCancel, history
  <1>9. CASE PopEvent(t)
    <2> DEFINE m == Head(input[t])
    <2>1. input[t] \in Seq(Messages) /\ input[t] # <<>>
      BY <1>9 DEF TypeOK, PopEvent
    <2>2. /\ m \in Messages /\ m = input[t][1] /\ Len(input[t]) \in Nat
          /\ 1 \in 1 .. Len(input[t])
      BY <2>1
    <2>3. fate[m] = "sent"
      BY <2>2 DEF MessageInv, InputInv
    <2>4. /\ fate'[m] = "taken"
          /\ \A n \in Messages \ {m} : fate'[n] = fate[n]
      BY <1>9, <2>2 DEF TypeOK, PopEvent, Becomes
    <2>5. row' = row /\ ran' = ran
      BY <1>9 DEF PopEvent
    <2>6. SlotInv'
      <3>1. \A n \in Messages : fate'[n] = "queued" <=> fate[n] = "queued"
        BY <2>3, <2>4
      <3> QED
        BY <2>5, <3>1 DEF MessageInv, SlotInv
    <2>7. HeldInv'
      BY <1>1, <1>3, <2>3, <2>4 DEF MessageInv, HeldInv
    <2>8. InputInv'
      <3>1. \A u \in Tasks \ {t} : input'[u] = input[u]
        BY <1>9 DEF TypeOK, PopEvent
      <3>2. input'[t] = Tail(input[t])
        BY <1>9 DEF TypeOK, PopEvent
      <3>3. /\ Len(input'[t]) = Len(input[t]) - 1
            /\ \A i \in 1 .. Len(input'[t]) : input'[t][i] = input[t][i + 1]
        BY <2>1, <3>2
      <3>4. \A i \in 1 .. Len(input'[t]) : i + 1 \in 1 .. Len(input[t]) /\ i + 1 # 1
        BY <2>2, <3>3
      <3> DEFINE At1(u, i) == IF u = t THEN i + 1 ELSE i
      <3>5. ASSUME NEW u \in Tasks, NEW i \in 1 .. Len(input'[u])
            PROVE  /\ At1(u, i) \in 1 .. Len(input[u])
                   /\ input'[u][i] = input[u][At1(u, i)]
                   /\ u = t => At1(u, i) # 1
        BY <3>1, <3>3, <3>4
      <3>6. ASSUME NEW u \in Tasks, NEW i \in 1 .. Len(input'[u])
            PROVE  fate'[input'[u][i]] = "sent"
        <4>1. input[u][At1(u, i)] # m
          BY <2>2, <3>5 DEF MessageInv, InputInv
        <4>2. input[u][At1(u, i)] \in Messages
          BY <3>5, InputEntries
        <4> QED
          BY <2>4, <3>5, <4>1, <4>2 DEF MessageInv, InputInv
      <3>7. ASSUME NEW u \in Tasks, NEW i \in 1 .. Len(input'[u]),
                   NEW v \in Tasks, NEW j \in 1 .. Len(input'[v]),
                   input'[v][j] = input'[u][i]
            PROVE  v = u /\ j = i
        <4>1. At1(u, i) \in 1 .. Len(input[u]) /\ At1(v, j) \in 1 .. Len(input[v])
          BY <3>5
        <4>2. input[v][At1(v, j)] = input[u][At1(u, i)]
          BY <3>5, <3>7
        <4>3. v = u /\ At1(v, j) = At1(u, i)
          BY <4>1, <4>2 DEF MessageInv, InputInv
        <4> QED
          BY <4>3
      <3> QED
        BY <3>6, <3>7 DEF InputInv
    <2>9. HandInv'
      <3>1. /\ cur'[t] = m /\ pc'[t] = "prepare"
            /\ \A u \in Tasks \ {t} : cur'[u] = cur[u] /\ pc'[u] = pc[u]
        BY <1>9 DEF TypeOK, PopEvent, RunnerTo
      <3>2. \A u \in Tasks : Preparing(u) => cur[u] # m
        BY <2>3 DEF MessageInv, HandInv
      <3>3. ran[m] = 0
        BY <2>2, <2>3 DEF MessageInv, RanInv
      <3> QED
        BY <2>2, <2>4, <2>5, <3>1, <3>2, <3>3 DEF MessageInv, HandInv, Preparing
    <2>10. RanInv'
      BY <2>3, <2>4, <2>5 DEF MessageInv, RanInv
    <2> QED
      BY <2>6, <2>7, <2>8, <2>9, <2>10 DEF MessageInv
  <1>10. CASE ClaimQueued(t)
    <2>1. row'.next = [id |-> row.next.id, state |-> "processing", task |-> t]
      BY <1>10, ClaimUpdate DEF TypeOK, ClaimQueued
    <2>2. row.next.id \in Messages
      BY <1>10 DEF MessageInv, SlotInv, ClaimQueued, MayClaimNext
    <2>3. SlotInv'
      BY <1>10, <2>1, <2>2 DEF MessageInv, SlotInv, ClaimQueued, history
    <2>4. HandInv'
      <3>1. /\ cur'[t] = row.next.id /\ pc'[t] = "consume"
            /\ \A u \in Tasks \ {t} : cur'[u] = cur[u] /\ pc'[u] = pc[u]
        BY <1>10 DEF TypeOK, ClaimQueued, RunnerTo
      <3>2. fate' = fate /\ ran' = ran
        BY <1>10 DEF ClaimQueued, history
      <3> QED
        BY <2>2, <3>1, <3>2 DEF MessageInv, HandInv, Preparing
    <2> QED
      BY <1>1, <1>10, <2>3, <2>4
      DEF MessageInv, HeldInv, InputInv, RanInv, ClaimQueued, history
  <1>11. CASE ConsumeQueued(t)
    <2>1. CASE CanConsumeNextMessage(row, cur[t], t)
      <3> DEFINE m == cur[t]
      <3>1. m \in Messages /\ row.next.id = m /\ fate[m] = "queued"
        BY <1>11, <2>1
        DEF MessageInv, SlotInv, HandInv, ConsumeQueued, At, CanConsumeNextMessage
      <3>2. row'.next = EmptySlot
        BY <1>11, <2>1, EmptyUpdate DEF TypeOK, ConsumeQueued
      <3>3. /\ fate'[m] = "consumed"
            /\ \A n \in Messages \ {m} : fate'[n] = fate[n] /\ fate[n] # "queued"
        BY <1>11, <2>1, <3>1 DEF TypeOK, ConsumeQueued, Becomes, MessageInv, SlotInv
      <3>4. /\ pc'[t] = "prepare" /\ cur' = cur /\ input' = input /\ ran' = ran
            /\ \A u \in Tasks \ {t} : pc'[u] = pc[u]
        BY <1>11, <2>1 DEF TypeOK, ConsumeQueued, RunnerTo
      <3>5. SlotInv'
        BY <3>2, <3>3, NoneIsNoId DEF SlotInv, EmptySlot
      <3>6. HeldInv'
        BY <1>1, <1>3, <3>1, <3>3 DEF MessageInv, HeldInv
      <3>7. InputInv'
        BY <3>1, <3>3, <3>4, InputFrame DEF MessageInv
      <3>8. HandInv'
        <4>1. \A u \in Tasks : Preparing(u) => cur[u] # m
          BY <3>1 DEF MessageInv, HandInv
        <4>2. ran[m] = 0
          BY <3>1 DEF MessageInv, RanInv
        <4> QED
          BY <3>1, <3>3, <3>4, <4>1, <4>2 DEF MessageInv, HandInv, Preparing
      <3>9. RanInv'
        BY <3>1, <3>3, <3>4 DEF MessageInv, RanInv
      <3> QED
        BY <3>5, <3>6, <3>7, <3>8, <3>9 DEF MessageInv
    <2>2. CASE ~CanConsumeNextMessage(row, cur[t], t)
      <3>1. HandsStay
        BY <1>11, <2>2
        DEF TypeOK, HandsStay, Preparing, MessageInv, HandInv, RunnerTo, Drop, ConsumeQueued
      <3> QED
        BY <1>2, <1>11, <2>2, <3>1, QuietInv DEF QuietStep, SlotStays, ConsumeQueued
    <2> QED
      BY <2>1, <2>2
  <1>12. CASE SetRunning(t)
    <2> DEFINE m == cur[t]
    <2>1. /\ m \in Messages /\ fate[m] \in {"taken", "consumed"} /\ ran[m] = 0
          /\ \A u \in Tasks : Preparing(u) /\ cur[u] = m => u = t
      BY <1>12 DEF MessageInv, HandInv, Preparing, SetRunning, At
    <2>2. ran'[m] = 1 /\ \A n \in Messages \ {m} : ran'[n] = ran[n]
      BY <1>12, <2>1 DEF TypeOK, SetRunning
    <2>3. /\ fate' = fate /\ input' = input
          /\ pc'[t] = "flow" /\ \A u \in Tasks \ {t} : pc'[u] = pc[u] /\ cur'[u] = cur[u]
      BY <1>12 DEF TypeOK, SetRunning, RunnerTo, Drop
    <2>4. SlotStays
      BY <1>12, RowUpdatesKeepSlot DEF SlotStays, SetRunning, Statuses
    <2>5. SlotInv'
      BY <2>3, <2>4, SlotStaysInv DEF MessageInv
    <2>6. HeldInv' /\ InputInv'
      BY <1>1, <2>3 DEF MessageInv, HeldInv, InputInv
    <2>7. HandInv'
      BY <2>1, <2>2, <2>3 DEF MessageInv, HandInv, Preparing
    <2>8. RanInv'
      BY <2>1, <2>2, <2>3 DEF MessageInv, RanInv
    <2> QED
      BY <2>5, <2>6, <2>7, <2>8 DEF MessageInv
  <1> QED
    BY <1>4, <1>5, <1>6, <1>7, <1>8, <1>9, <1>10, <1>11, <1>12 DEF RunnerStep

-----------------------------------------------------------------------------
(* ClaimInv *)

\* Task t holds the claim on the slot, and no cancellation is on its way to it.
Holds(t) ==
  /\ t \notin cancelled
  /\ \/ pc[t] = "consume" /\ cur[t] = row.next.id
     \/ pc[t] \in {"cancelled", "failing", "lost"}

StopPending == \E r \in Requests : rpc[r] = "stopTx"

\* A claim stays answered for when stops in progress and its holder stay.
LEMMA ClaimInvFrame ==
  ASSUME TypeOK, SlotInv, ClaimInv, SlotStays,
         StopPending => StopPending',
         \A t \in Tasks : pc[t] # "unused" => pc'[t] # "unused",
         \A t \in Tasks : row'.next = row.next /\ row.next.state = "processing"
                            /\ row.next.task = t /\ Holds(t) => StopPending' \/ Holds(t)'
  PROVE  ClaimInv'
  <1>1. SUFFICES ASSUME row'.next.state = "processing"
                 PROVE  ClaimInv'
    BY DEF ClaimInv
  <1>2. row'.next = row.next /\ row.next.state = "processing" /\ row.next.task \in Tasks
    BY <1>1 DEF SlotStays, SlotInv
  <1>3. StopPending \/ Holds(row.next.task)
    BY <1>2 DEF ClaimInv, StopPending, Holds
  <1>4. StopPending' \/ Holds(row.next.task)'
    BY <1>2, <1>3
  <1>5. pc'[row.next.task] # "unused"
    BY <1>2 DEF ClaimInv
  <1> QED
    BY <1>2, <1>4, <1>5 DEF ClaimInv, StopPending, Holds

\* Requests that touch neither a runner nor a stop's last transaction.
LEMMA ClaimInvQuiet ==
  ASSUME TypeOK, SlotInv, ClaimInv, SlotStays, UNCHANGED <<pc, cur, cancelled>>,
         \A r \in Requests : rpc[r] = "stopTx" => rpc'[r] = "stopTx"
  PROVE  ClaimInv'
  <1>1. StopPending => StopPending'
    BY DEF StopPending
  <1>2. ASSUME NEW t \in Tasks, row'.next = row.next, Holds(t)
        PROVE  Holds(t)'
    BY <1>2 DEF Holds
  <1> QED
    BY <1>1, <1>2, ClaimInvFrame

\* A request's step leaves every claim answered for: a stop that cancels the
\* claimer is at its last transaction until it has reset the slot.
LEMMA ClaimInvOfRequest ==
  ASSUME TypeOK, RequestInv, SlotInv, ClaimInv, NEW r \in Requests, RequestStep(r)
  PROVE  ClaimInv'
  <1>1. \A s \in Requests \ {r} : rpc'[s] = rpc[s]
    BY DEF TypeOK, RequestStep, ReadSession, ClaimAgain, ClaimRefused, ChatLookup,
           SubscribeLookup, StopLookup, StopSession, FinalizeOrphan, CreateTask,
           WriteHandles, RestoreStatus, PutInput, InvokeTask, Goto, Return
  <1>2. CASE StopSession(r)
    <2>1. row'.next.state # "processing"
      BY <1>2, EndUpdate DEF TypeOK, StopSession
    <2> QED
      BY <2>1 DEF ClaimInv
  <1>3. CASE rpc[r] # "stopTx"
    <2>1. \A s \in Requests : rpc[s] = "stopTx" => rpc'[s] = "stopTx"
      BY <1>1, <1>3
    <2>2. CASE ReadSession(r) \/ ClaimRefused(r) \/ ChatLookup(r) \/ SubscribeLookup(r)
                 \/ PutInput(r)
      BY <2>1, <2>2, ClaimInvQuiet
      DEF SlotStays, ReadSession, ClaimRefused, ChatLookup, SubscribeLookup, PutInput,
          taskVars
    <2>3. CASE ClaimAgain(r) \/ FinalizeOrphan(r)
      <3>1. SlotStays
        BY <2>3, RowUpdatesKeepSlot DEF SlotStays, ClaimAgain, FinalizeOrphan
      <3> QED
        BY <2>1, <2>3, <3>1, ClaimInvQuiet DEF ClaimAgain, FinalizeOrphan, taskVars
    <2>4. CASE WriteHandles(r) \/ RestoreStatus(r)
      <3>1. /\ WriteHandles(r) => rlocal[r].task \in Tasks
            /\ RestoreStatus(r) => rlocal[r].prev \in Statuses
        BY DEF RequestInv, RequestOK, WriteHandles, RestoreStatus
      <3>2. SlotStays
        BY <2>4, <3>1, RowUpdatesKeepSlot DEF SlotStays, WriteHandles, RestoreStatus
      <3> QED
        BY <2>1, <2>4, <3>2, ClaimInvQuiet DEF WriteHandles, RestoreStatus, taskVars
    <2>5. CASE StopLookup(r)
      <3>1. CASE LooksOrphaned(r)
        BY <2>1, <2>5, <3>1, ClaimInvQuiet
        DEF SlotStays, StopLookup, LooksOrphaned
      <3>2. CASE ~LooksOrphaned(r)
        <4>1. rpc'[r] = "stopTx"
          BY <2>5, <3>2 DEF TypeOK, StopLookup, Goto
        <4>2. row' = row /\ pc' = pc
          BY <2>5 DEF StopLookup
        <4> QED
          BY <4>1, <4>2 DEF ClaimInv
      <3> QED
        BY <3>1, <3>2
    <2>6. ASSUME NEW t \in Tasks, CreateTask(r, t)
          PROVE  ClaimInv'
      <3>1. /\ pc[t] = "unused" /\ pc'[t] = "idle"
            /\ \A u \in Tasks \ {t} : pc'[u] = pc[u]
            /\ row' = row /\ cur' = cur /\ cancelled' = cancelled
        BY <2>6 DEF TypeOK, CreateTask
      <3>2. \A u \in Tasks : Holds(u) => Holds(u)'
        BY <3>1 DEF Holds
      <3>3. StopPending => StopPending'
        BY <2>1 DEF StopPending
      <3> QED
        BY <3>1, <3>2, <3>3, ClaimInvFrame DEF SlotStays
    <2>7. CASE InvokeTask(r)
      <3>1. \A u \in Tasks : \/ pc'[u] = pc[u]
                             \/ pc[u] \in {"idle", "done"} /\ pc'[u] = "spawned"
        BY <2>7 DEF TypeOK, InvokeTask
      <3>2. row' = row /\ cur' = cur /\ cancelled' = cancelled
        BY <2>7 DEF InvokeTask
      <3>3. \A u \in Tasks : Holds(u) => Holds(u)'
        BY <3>1, <3>2 DEF Holds
      <3>4. StopPending => StopPending'
        BY <2>1 DEF StopPending
      <3> QED
        BY <3>1, <3>2, <3>3, <3>4, ClaimInvFrame DEF SlotStays
    <2>8. ~StopSession(r)
      BY <1>3 DEF StopSession
    <2> QED
      BY <2>2, <2>3, <2>4, <2>5, <2>6, <2>7, <2>8 DEF RequestStep
  <1>4. CASE rpc[r] = "stopTx" /\ ~StopSession(r)
    BY <1>4
    DEF RequestStep, ReadSession, ClaimAgain, ClaimRefused, ChatLookup, SubscribeLookup,
        StopLookup, FinalizeOrphan, CreateTask, WriteHandles, RestoreStatus, PutInput,
        InvokeTask
  <1> QED
    BY <1>2, <1>3, <1>4

\* A client's step leaves every claim answered for; a crash leaves it to a
\* lost runner.
LEMMA ClaimInvOfClient ==
  ASSUME TypeOK, RequestInv, SlotInv, ClaimInv, ClientStep
  PROVE  ClaimInv'
  <1>1. ASSUME NEW r \in Requests, NEW m \in Messages, StartChat(r, m)
        PROVE  ClaimInv'
    <2>1. SlotStays
      BY <1>1, RowUpdatesKeepSlot DEF StartChat, SlotStays
    <2>2. \A s \in Requests : rpc[s] = "stopTx" => rpc'[s] = "stopTx"
      BY <1>1 DEF TypeOK, StartChat, Goto
    <2> QED
      BY <1>1, <2>1, <2>2, ClaimInvQuiet DEF StartChat, taskVars
  <1>2. ASSUME NEW r \in Requests, NEW m \in Messages, ResolvePending(r, m)
        PROVE  ClaimInv'
    <2>1. SlotStays
      BY <1>2 DEF TypeOK, Rows, ResolvePending, ResolveInteraction, SlotStays
    <2>2. \A s \in Requests : rpc[s] = "stopTx" => rpc'[s] = "stopTx"
      BY <1>2 DEF TypeOK, ResolvePending, Goto
    <2> QED
      BY <1>2, <2>1, <2>2, ClaimInvQuiet DEF ResolvePending, taskVars
  <1>3. ASSUME NEW r \in Requests, StartSubscribe(r) \/ StartStop(r) \/ StartRunNext(r)
        PROVE  ClaimInv'
    <2>1. SlotStays
      BY <1>3, RowUpdatesKeepSlot
      DEF StartSubscribe, StartStop, StartRunNext, SlotStays, Statuses
    <2>2. \A s \in Requests : rpc[s] = "stopTx" => rpc'[s] = "stopTx"
      BY <1>3 DEF TypeOK, StartSubscribe, StartStop, StartRunNext, Goto
    <2> QED
      BY <1>3, <2>1, <2>2, ClaimInvQuiet
      DEF StartSubscribe, StartStop, StartRunNext, taskVars
  <1>4. ASSUME NEW r \in Requests, CreateFails(r) \/ Disconnect(r)
        PROVE  ClaimInv'
    <2>1. rpc[r] # "stopTx"
      BY <1>4 DEF RequestInv, RequestOK, CreateFails, Disconnect
    <2>2. \A s \in Requests : rpc[s] = "stopTx" => rpc'[s] = "stopTx"
      BY <1>4, <2>1 DEF TypeOK, CreateFails, Disconnect, Goto, Return
    <2> QED
      BY <1>4, <2>2, ClaimInvQuiet DEF SlotStays, CreateFails, Disconnect, taskVars
  <1>5. ASSUME NEW m \in Messages, QueueNextMessage(m)
        PROVE  ClaimInv'
    <2>1. row'.next.state = "queued"
      <3>1. row' = PutNextMessage(row, m) /\ row \in Rows
        BY <1>5 DEF TypeOK, QueueNextMessage
      <3>2. row'.next = [id |-> m, state |-> "queued", task |-> None]
        BY <3>1, PutUpdate
      <3> QED
        BY <3>2
    <2> QED
      BY <2>1 DEF ClaimInv
  <1>6. ASSUME CancelQueued
        PROVE  ClaimInv'
    BY <1>6, EmptyUpdate DEF TypeOK, CancelQueued, EmptySlot, ClaimInv
  <1>7. ASSUME Organize
        PROVE  ClaimInv'
    <2>1. SlotStays
      BY <1>7 DEF TypeOK, Rows, Organize, SetArchived, SlotStays
    <2> QED
      BY <1>7, <2>1, ClaimInvQuiet DEF Organize, taskVars, requestVars
  <1>8. ASSUME Crash
        PROVE  ClaimInv'
    <2>1. row' = row /\ cancelled' = {}
      BY <1>8 DEF Crash
    <2>2. \A t \in Tasks : pc[t] # "unused" => pc'[t] = "lost"
      BY <1>8 DEF Crash
    <2> QED
      BY <2>1, <2>2 DEF ClaimInv, SlotInv
  <1> QED
    BY <1>1, <1>2, <1>3, <1>4, <1>5, <1>6, <1>7, <1>8 DEF ClientStep

\* A runner step is its own task's business.
LEMMA RunnerFrame ==
  ASSUME TypeOK, NEW t \in Tasks, RunnerStep(t)
  PROVE  /\ pc'[t] # "unused"
         /\ \A u \in Tasks \ {t} : /\ pc'[u] = pc[u] /\ cur'[u] = cur[u]
                                   /\ u \in cancelled' <=> u \in cancelled
  <1>1. pc'[t] # "unused" /\ \A u \in Tasks \ {t} : pc'[u] = pc[u]
    <2>1. CASE SwallowCancel(t)
      BY <2>1 DEF SwallowCancel, InTransaction
    <2>2. CASE DeliverCancel(t)
      BY <2>2 DEF TypeOK, DeliverCancel, RunnerTo
    <2>3. CASE ~SwallowCancel(t) /\ ~DeliverCancel(t)
      <3>1. \E l \in TaskPcs \ {"unused"} : RunnerTo(t, l)
        BY <2>3
        DEF TaskPcs, InTry, InHandler, RunnerStep, BeginRun, PopEvent, InputIsEmpty,
            FinishConflicts, FinishSession, ClaimQueued, ConsumeQueued, PrepareFlow,
            SetRunning, FlowDone, FlowWaits, FlowFails, SetStopped, PutDone, SaveDone,
            RunnerRaises, HandleFailure, HandleCancelled, EndTask
      <3> QED
        BY <3>1 DEF TypeOK, RunnerTo
    <2> QED
      BY <2>1, <2>2, <2>3
  <1>2. \A u \in Tasks \ {t} : cur'[u] = cur[u]
    BY DEF TypeOK, RunnerStep, BeginRun, PopEvent, InputIsEmpty, FinishConflicts,
           FinishSession, ClaimQueued, ConsumeQueued, PrepareFlow, SetRunning, FlowDone,
           FlowWaits, FlowFails, SetStopped, PutDone, SaveDone, RunnerRaises,
           HandleFailure, HandleCancelled, EndTask, DeliverCancel, SwallowCancel, Drop
  <1>3. cancelled' = cancelled \/ cancelled' = cancelled \ {t}
    BY DEF RunnerStep, BeginRun, PopEvent, InputIsEmpty, FinishConflicts,
           FinishSession, ClaimQueued, ConsumeQueued, PrepareFlow, SetRunning, FlowDone,
           FlowWaits, FlowFails, SetStopped, PutDone, SaveDone, RunnerRaises,
           HandleFailure, HandleCancelled, EndTask, DeliverCancel, SwallowCancel
  <1> QED
    BY <1>1, <1>2, <1>3

\* A runner's step leaves every claim answered for.
LEMMA ClaimInvOfRunner ==
  ASSUME TypeOK, SlotInv, ClaimInv, NEW t \in Tasks, RunnerStep(t)
  PROVE  ClaimInv'
  <1>1. StopPending => StopPending'
    BY RunnerLeavesRequests DEF StopPending, requestVars
  <1>2. \A u \in Tasks : pc[u] # "unused" => pc'[u] # "unused"
    BY RunnerFrame
  <1>3. ASSUME SlotStays,
               row'.next = row.next /\ row.next.state = "processing"
                 /\ row.next.task = t /\ Holds(t) => Holds(t)'
        PROVE  ClaimInv'
    <2>1. ASSUME NEW u \in Tasks \ {t}, row'.next = row.next, Holds(u)
          PROVE  Holds(u)'
      BY <2>1, RunnerFrame DEF Holds
    <2> QED
      BY <1>1, <1>2, <1>3, <2>1, ClaimInvFrame
  <1>4. CASE BeginRun(t) \/ PopEvent(t) \/ InputIsEmpty(t) \/ FinishConflicts(t)
               \/ PrepareFlow(t) \/ FlowDone(t) \/ FlowFails(t) \/ PutDone(t)
               \/ SaveDone(t) \/ EndTask(t)
    <2>1. ~Holds(t)
      BY <1>4
      DEF Holds, At, BeginRun, PopEvent, InputIsEmpty, FinishConflicts, PrepareFlow,
          FlowDone, FlowFails, PutDone, SaveDone, EndTask
    <2>2. row' = row
      BY <1>4
      DEF BeginRun, PopEvent, InputIsEmpty, FinishConflicts, PrepareFlow,
          FlowDone, FlowFails, PutDone, SaveDone, EndTask
    <2> QED
      BY <1>3, <2>1, <2>2 DEF SlotStays
  <1>5. CASE FinishSession(t) \/ SetRunning(t) \/ FlowWaits(t) \/ SetStopped(t)
    <2>1. ~Holds(t)
      BY <1>5 DEF Holds, At, FinishSession, SetRunning, FlowWaits, SetStopped
    <2>2. SlotStays
      BY <1>5, RowUpdatesKeepSlot
      DEF TypeOK, Rows, Statuses, FinishSession, SetRunning, FlowWaits, SetStopped, SlotStays
    <2> QED
      BY <1>3, <2>1, <2>2
  <1>6. CASE ClaimQueued(t)
    <2>1. row'.next = [id |-> row.next.id, state |-> "processing", task |-> t]
      BY <1>6, ClaimUpdate DEF TypeOK, ClaimQueued
    <2>2. /\ pc'[t] = "consume" /\ cur'[t] = row.next.id
          /\ t \notin cancelled'
      BY <1>6 DEF TypeOK, ClaimQueued, RunnerTo, At
    <2> QED
      BY <2>1, <2>2 DEF ClaimInv
  <1>7. CASE ConsumeQueued(t)
    <2>1. CASE CanConsumeNextMessage(row, cur[t], t)
      BY <1>7, <2>1, EmptyUpdate DEF TypeOK, ConsumeQueued, EmptySlot, ClaimInv
    <2>2. CASE ~CanConsumeNextMessage(row, cur[t], t)
      <3>1. row' = row /\ t \notin cancelled' /\ pc'[t] = "failing"
        BY <1>7, <2>2 DEF TypeOK, ConsumeQueued, At, RunnerTo
      <3>2. Holds(t)'
        BY <3>1 DEF Holds
      <3> QED
        BY <1>3, <3>1, <3>2 DEF SlotStays
    <2> QED
      BY <2>1, <2>2
  <1>8. CASE RunnerRaises(t)
    <2>1. row' = row /\ t \notin cancelled' /\ pc'[t] = "failing"
      BY <1>8 DEF TypeOK, RunnerRaises, RunnerTo
    <2>2. Holds(t)'
      BY <2>1 DEF Holds
    <2> QED
      BY <1>3, <2>1, <2>2 DEF SlotStays
  <1>9. CASE HandleFailure(t) \/ HandleCancelled(t)
    <2>1. row'.next.state # "processing"
      BY <1>9, EndUpdate DEF TypeOK, HandleFailure, HandleCancelled
    <2> QED
      BY <2>1 DEF ClaimInv
  <1>10. CASE DeliverCancel(t) \/ SwallowCancel(t)
    <2>1. ~Holds(t)
      BY <1>10 DEF Holds, DeliverCancel, SwallowCancel
    <2>2. row' = row
      BY <1>10 DEF DeliverCancel, SwallowCancel
    <2> QED
      BY <1>3, <2>1, <2>2 DEF SlotStays
  <1> QED
    BY <1>4, <1>5, <1>6, <1>7, <1>8, <1>9, <1>10 DEF RunnerStep

-----------------------------------------------------------------------------
(* The invariant *)

\* The invariant holds in every initial state.
LEMMA InitInv == Init => IInv
  <1> SUFFICES ASSUME Init
               PROVE  IInv
    OBVIOUS
  <1>1. row \in Rows /\ row.next.state \in {"empty", "queued"}
    <2>1. NewSession \in Rows /\ NewSession.next = EmptySlot
      BY EmptySlotType DEF NewSession, Rows, Statuses
    <2>2. UpdateStatus(NewSession, "completed") \in Rows
      BY <2>1, StatusUpdate DEF Statuses
    <2> QED
      <3>1. CASE row = NewSession
        BY <2>1, <3>1 DEF EmptySlot
      <3>2. ASSUME NEW m \in Messages,
                   row = PutNextMessage(UpdateStatus(NewSession, "completed"), m)
            PROVE  row \in Rows /\ row.next.state = "queued"
        <4>1. row \in Rows /\ row.next = [id |-> m, state |-> "queued", task |-> None]
          BY <2>2, <3>2, PutUpdate
        <4> QED
          BY <4>1
      <3> QED
        BY <2>1, <3>1, <3>2 DEF Init
  <1>2. SlotInv /\ \A m \in Messages : fate[m] \in {"fresh", "queued"}
    <2>1. CASE row = NewSession /\ fate = [m \in Messages |-> "fresh"]
      BY <2>1, NoneIsNoId DEF SlotInv, NewSession, EmptySlot
    <2>2. ASSUME NEW m \in Messages,
                 row = PutNextMessage(UpdateStatus(NewSession, "completed"), m),
                 fate = [n \in Messages |-> IF n = m THEN "queued" ELSE "fresh"]
          PROVE  SlotInv /\ \A n \in Messages : fate[n] \in {"fresh", "queued"}
      <3>1. NewSession \in Rows
        BY EmptySlotType DEF NewSession, Rows, Statuses
      <3>2. UpdateStatus(NewSession, "completed") \in Rows
        BY <3>1, StatusUpdate DEF Statuses
      <3>3. row.next = [id |-> m, state |-> "queued", task |-> None]
        BY <2>2, <3>2, PutUpdate
      <3> QED
        BY <2>2, <3>3 DEF SlotInv
    <2> QED
      BY <2>1, <2>2 DEF Init
  <1>3. TypeOK
    <2>1. fate \in [Messages -> Fates]
      BY DEF Init, Fates
    <2> QED
      BY <1>1, <2>1, LocalsTypes DEF Init, TypeOK, TaskPcs, RequestPcs
  <1>4. RequestInv /\ HeldInv /\ InputInv /\ HandInv /\ RanInv
    BY DEF Init, RequestInv, RequestOK, HeldInv, InputInv, HandInv, RanInv, Preparing,
           NoLocals
  <1>5. ClaimInv
    BY <1>1 DEF ClaimInv
  <1> QED
    BY <1>2, <1>3, <1>4, <1>5 DEF IInv

\* Every step keeps the invariant.
LEMMA StepInv ==
  ASSUME IInv, [Next]_vars
  PROVE  IInv'
  <1> USE DEF IInv
  <1>1. CASE UNCHANGED vars
    BY <1>1
    DEF vars, taskVars, requestVars, history, TypeOK, SlotInv, RequestInv, RequestOK,
        HeldInv, InputInv, HandInv, Preparing, RanInv, ClaimInv
  <1>2. CASE Next
    <2>1. TypeOK'
      BY TypeStep
    <2>2. RequestInv'
      <3>1. ASSUME NEW t \in Tasks, RunnerStep(t)
            PROVE  RequestInv'
        BY <3>1, RunnerLeavesRequests DEF requestVars, RequestInv, RequestOK
      <3> QED
        BY <1>2, <3>1, RequestInvOfRequest, RequestInvOfClient DEF Next
    <2>3. MessageInv'
      BY <1>2, MessageInvOfRequest, MessageInvOfRunner, MessageInvOfClient
      DEF Next, MessageInv
    <2>4. ClaimInv'
      BY <1>2, ClaimInvOfRequest, ClaimInvOfRunner, ClaimInvOfClient DEF Next
    <2> QED
      BY <2>1, <2>2, <2>3, <2>4 DEF MessageInv
  <1> QED
    BY <1>1, <1>2

\* IInv holds in every reachable state: each message is where its fate says,
\* once, and each claim is with a runner that will answer for it.
THEOREM InductiveInvariant == Spec => []IInv
  <1>1. Init => IInv
    BY InitInv
  <1>2. IInv /\ [Next]_vars => IInv'
    BY StepInv
  <1> QED
    BY <1>1, <1>2, PTL DEF Spec

\* Every variable keeps its type, the row included.
THEOREM TypeCorrect == Spec => []TypeOK
  BY InductiveInvariant, PTL DEF IInv

\* A message that was cancelled, replaced or refused is never run by a flow.
THEOREM DiscardedNeverRun == Spec => []DiscardedNeverRuns
  <1>1. IInv => DiscardedNeverRuns
    BY DEF IInv, RanInv, DiscardedNeverRuns
  <1> QED
    BY <1>1, InductiveInvariant, PTL

\* No message is run by two flows.
THEOREM RunOnce == Spec => []RunAtMostOnce
  <1>1. IInv => RunAtMostOnce
    BY DEF IInv, RanInv, RunAtMostOnce
  <1> QED
    BY <1>1, InductiveInvariant, PTL

\* A claim on the slot is never abandoned by a living process.
THEOREM ClaimHeld == Spec => []ClaimIsHeld
  <1>1. IInv => ClaimIsHeld
    BY DEF IInv, SlotInv, ClaimInv, ClaimIsHeld
  <1> QED
    BY <1>1, InductiveInvariant, PTL

-----------------------------------------------------------------------------
(* SessionRuns implements NextMessageSlot: every step of the system is one  *)
(* step of the mailbox, or none, seen through the row's slot, the ends of   *)
(* the messages that were in it, and the flows that ran them.               *)

MailboxStep == [Mailbox!Next]_<<row.next, EndInSlot, Served>>

\* The messages outside the slot may change their place outside the slot.
FatesOutside ==
  \A m \in Messages : \/ fate'[m] = fate[m]
                      \/ fate[m] \notin SlotEnds /\ fate'[m] \notin SlotEnds

\* A step that leaves the slot or resets it, moves no message into or out of
\* the slot's fates and runs none, is a Release of the mailbox or a stutter.
LEMMA OutsideStep ==
  ASSUME IInv, SlotStays, FatesOutside, ran' = ran
  PROVE  MailboxStep
  <1>1. EndInSlot' = EndInSlot
    BY DEF EndInSlot, FatesOutside
  <1>2. Served' = Served
    BY DEF Served, FatesOutside
  <1>3. CASE row'.next = row.next
    BY <1>1, <1>2, <1>3 DEF MailboxStep
  <1>4. CASE /\ row.next.state = "processing"
             /\ row'.next = [id |-> row.next.id, state |-> "queued", task |-> None]
    BY <1>1, <1>2, <1>4 DEF MailboxStep, Mailbox!Next, Mailbox!Release
  <1> QED
    BY <1>3, <1>4 DEF SlotStays

\* Every step of a request is such a step: requests put no message into the
\* slot and take none out of it.
LEMMA RequestOutside ==
  ASSUME IInv, NEW r \in Requests, RequestStep(r)
  PROVE  SlotStays /\ FatesOutside /\ ran' = ran
  <1> TypeOK /\ RequestInv /\ HeldInv
    BY DEF IInv
  <1>1. ran' = ran
    BY DEF RequestStep, ReadSession, ClaimAgain, ClaimRefused, ChatLookup,
           SubscribeLookup, StopLookup, StopSession, FinalizeOrphan, CreateTask,
           WriteHandles, RestoreStatus, PutInput, InvokeTask, history
  <1>2. SlotStays
    <2>1. CASE ClaimAgain(r)
      BY <2>1, RowUpdatesKeepSlot DEF ClaimAgain, SlotStays
    <2>2. CASE StopSession(r) \/ FinalizeOrphan(r)
      BY <2>2, RowUpdatesKeepSlot DEF StopSession, FinalizeOrphan
    <2>3. CASE WriteHandles(r) \/ RestoreStatus(r)
      <3>1. /\ WriteHandles(r) => rlocal[r].task \in Tasks
            /\ RestoreStatus(r) => rlocal[r].prev \in Statuses
        BY DEF RequestInv, RequestOK, WriteHandles, RestoreStatus
      <3> QED
        BY <2>3, <3>1, RowUpdatesKeepSlot DEF SlotStays, WriteHandles, RestoreStatus
    <2>4. CASE row' = row
      BY <2>4 DEF SlotStays
    <2> QED
      BY <2>1, <2>2, <2>3, <2>4
      DEF RequestStep, ReadSession, ClaimRefused, ChatLookup, SubscribeLookup,
          StopLookup, CreateTask, PutInput, InvokeTask
  <1>3. FatesOutside
    <2>1. rlocal[r].msg = None \/ rlocal[r].msg \in Messages
      BY DEF TypeOK, Locals
    <2>2. rlocal[r].msg # None => fate[rlocal[r].msg] = "direct"
      BY DEF HeldInv
    <2>3. CASE ClaimRefused(r) \/ RestoreStatus(r)
      BY <2>1, <2>2, <2>3
      DEF TypeOK, ClaimRefused, RestoreStatus, Refuse, FatesOutside, SlotEnds
    <2>4. CASE PutInput(r)
      <3>1. rlocal[r].msg \in Messages
        BY <2>4 DEF RequestInv, RequestOK, PutInput
      <3> QED
        BY <2>2, <2>4, <3>1, NoneIsNoId
        DEF TypeOK, PutInput, Becomes, FatesOutside, SlotEnds
    <2>5. CASE fate' = fate
      BY <2>5 DEF FatesOutside
    <2> QED
      BY <2>3, <2>4, <2>5
      DEF RequestStep, ReadSession, ClaimAgain, ChatLookup, SubscribeLookup, StopLookup,
          StopSession, FinalizeOrphan, CreateTask, WriteHandles, InvokeTask, history
  <1> QED
    BY <1>1, <1>2, <1>3

\* A runner claims, consumes, serves and releases as the mailbox does.
LEMMA MailboxOfRunner ==
  ASSUME IInv, NEW t \in Tasks, RunnerStep(t)
  PROVE  MailboxStep
  <1> TypeOK /\ SlotInv /\ InputInv /\ HandInv /\ RanInv
    BY DEF IInv
  <1>1. CASE ClaimQueued(t)
    <2>1. row'.next = [id |-> row.next.id, state |-> "processing", task |-> t]
      BY <1>1, ClaimUpdate DEF TypeOK, ClaimQueued
    <2>2. EndInSlot' = EndInSlot /\ Served' = Served
      BY <1>1 DEF ClaimQueued, history, EndInSlot, Served
    <2>3. CASE row.next.state = "queued"
      BY <2>1, <2>2, <2>3 DEF MailboxStep, Mailbox!Next, Mailbox!Claim
    <2>4. CASE row.next.state = "processing" /\ row.next.task = t
      <3>1. row.next \in Slots
        BY DEF TypeOK, Rows
      <3>2. row'.next = row.next
        BY <2>1, <2>4, <3>1 DEF Slots
      <3> QED
        BY <2>2, <3>2 DEF MailboxStep
    <2> QED
      BY <1>1, <2>3, <2>4 DEF ClaimQueued, MayClaimNext
  <1>2. CASE ConsumeQueued(t) /\ CanConsumeNextMessage(row, cur[t], t)
    <2> DEFINE m == row.next.id
    <2>1. m \in Messages /\ m = cur[t] /\ row.next.state = "processing"
      BY <1>2 DEF SlotInv, HandInv, ConsumeQueued, At, CanConsumeNextMessage
    <2>2. row'.next = EmptySlot
      BY <1>2, EmptyUpdate DEF TypeOK, ConsumeQueued
    <2>3. fate' = [fate EXCEPT ![m] = "consumed"] /\ ran' = ran
      BY <1>2, <2>1 DEF ConsumeQueued, Becomes
    <2>4. fate[m] = "queued"
      BY <2>1 DEF SlotInv
    <2>5. EndInSlot' = [EndInSlot EXCEPT ![m] = "consumed"]
      BY <2>1, <2>3 DEF TypeOK, EndInSlot, SlotEnds
    <2>6. Served' = Served
      BY <2>1, <2>3, <2>4 DEF TypeOK, Served, SlotEnds
    <2> QED
      BY <2>1, <2>2, <2>5, <2>6
      DEF MailboxStep, Mailbox!Next, Mailbox!Consume, Mailbox!Empty, EmptySlot
  <1>3. CASE SetRunning(t)
    <2> DEFINE m == cur[t]
    <2>1. /\ m \in Messages /\ ran[m] = 0
          /\ fate[m] \in {"taken", "consumed"}
      BY <1>3 DEF HandInv, Preparing, SetRunning, At
    <2>2. row'.next = row.next
      BY <1>3, RowUpdatesKeepSlot DEF SetRunning, Statuses
    <2>3. fate' = fate /\ ran' = [ran EXCEPT ![m] = 1]
      BY <1>3, <2>1 DEF SetRunning
    <2>4. EndInSlot' = EndInSlot
      BY <2>3 DEF EndInSlot
    <2>5. CASE fate[m] = "taken"
      <3>1. Served' = Served
        BY <2>1, <2>3, <2>5 DEF TypeOK, Served, SlotEnds
      <3> QED
        BY <2>2, <2>4, <3>1 DEF MailboxStep
    <2>6. CASE fate[m] = "consumed"
      <3>1. EndInSlot[m] = "consumed" /\ Served[m] = 0
        BY <2>1, <2>6 DEF EndInSlot, Served, SlotEnds
      <3>2. Served' = [Served EXCEPT ![m] = 1]
        BY <2>1, <2>3, <2>6 DEF TypeOK, Served, SlotEnds
      <3> QED
        BY <2>1, <2>2, <2>4, <3>1, <3>2 DEF MailboxStep, Mailbox!Next, Mailbox!Serve
    <2> QED
      BY <2>1, <2>5, <2>6
  <1>4. CASE PopEvent(t)
    <2> DEFINE m == Head(input[t])
    <2>1. input[t] \in Seq(Messages) /\ input[t] # <<>>
      BY <1>4 DEF TypeOK, PopEvent
    <2>2. m \in Messages /\ m = input[t][1] /\ 1 \in 1 .. Len(input[t])
      BY <2>1
    <2>3. fate[m] = "sent" /\ fate' = [fate EXCEPT ![m] = "taken"]
      BY <1>4, <2>2 DEF InputInv, PopEvent, Becomes
    <2>4. FatesOutside
      BY <2>2, <2>3 DEF TypeOK, FatesOutside, SlotEnds
    <2> QED
      BY <1>4, <2>4, OutsideStep DEF PopEvent, SlotStays
  <1>5. CASE FinishSession(t) \/ FlowWaits(t) \/ SetStopped(t)
    <2>1. SlotStays
      BY <1>5, RowUpdatesKeepSlot
      DEF TypeOK, Rows, Statuses, FinishSession, FlowWaits, SetStopped, SlotStays
    <2> QED
      BY <1>5, <2>1, OutsideStep
      DEF FinishSession, FlowWaits, SetStopped, history, FatesOutside
  <1>6. CASE HandleFailure(t) \/ HandleCancelled(t)
    <2>1. SlotStays
      BY <1>6, RowUpdatesKeepSlot DEF HandleFailure, HandleCancelled
    <2> QED
      BY <1>6, <2>1, OutsideStep DEF HandleFailure, HandleCancelled, history, FatesOutside
  <1>7. CASE row' = row /\ fate' = fate /\ ran' = ran
    BY <1>7, OutsideStep DEF SlotStays, FatesOutside
  <1> QED
    BY <1>1, <1>2, <1>3, <1>4, <1>5, <1>6, <1>7
    DEF RunnerStep, BeginRun, InputIsEmpty, FinishConflicts, ConsumeQueued, PrepareFlow,
        FlowDone, FlowFails, PutDone, SaveDone, RunnerRaises, EndTask, DeliverCancel,
        SwallowCancel, history

\* What clients and the environment do is a Queue, a Cancel or a stutter.
LEMMA MailboxOfClient ==
  ASSUME IInv, ClientStep
  PROVE  MailboxStep
  <1> TypeOK /\ RequestInv /\ HeldInv /\ SlotInv /\ RanInv
    BY DEF IInv
  <1>1. ASSUME NEW r \in Requests, NEW m \in Messages,
               StartChat(r, m) \/ ResolvePending(r, m)
        PROVE  MailboxStep
    <2>1. SlotStays
      BY <1>1, RowUpdatesKeepSlot
      DEF TypeOK, Rows, StartChat, ResolvePending, ResolveInteraction, SlotStays
    <2>2. FatesOutside
      BY <1>1 DEF TypeOK, StartChat, ResolvePending, Becomes, FatesOutside, SlotEnds
    <2> QED
      BY <1>1, <2>1, <2>2, OutsideStep DEF StartChat, ResolvePending
  <1>2. ASSUME NEW r \in Requests, StartSubscribe(r) \/ StartStop(r) \/ StartRunNext(r)
        PROVE  MailboxStep
    <2>1. SlotStays
      BY <1>2, RowUpdatesKeepSlot
      DEF StartSubscribe, StartStop, StartRunNext, SlotStays, Statuses
    <2> QED
      BY <1>2, <2>1, OutsideStep
      DEF StartSubscribe, StartStop, StartRunNext, history, FatesOutside
  <1>3. ASSUME NEW r \in Requests, CreateFails(r) \/ Disconnect(r)
        PROVE  MailboxStep
    <2>1. rlocal[r].msg = None \/ rlocal[r].msg \in Messages
      BY DEF TypeOK, Locals
    <2>2. rlocal[r].msg # None => fate[rlocal[r].msg] = "direct"
      BY DEF HeldInv
    <2>3. Refuse(r) \/ fate' = fate
      BY <1>3 DEF CreateFails, Disconnect
    <2>4. FatesOutside
      BY <2>1, <2>2, <2>3 DEF TypeOK, Refuse, FatesOutside, SlotEnds
    <2> QED
      BY <1>3, <2>4, OutsideStep DEF SlotStays, CreateFails, Disconnect
  <1>4. ASSUME NEW m \in Messages, QueueNextMessage(m)
        PROVE  MailboxStep
    <2>1. row' = PutNextMessage(row, m) /\ row.next.state # "processing" /\ ran' = ran
      BY <1>4 DEF QueueNextMessage, CanPutNextMessage
    <2>2. row'.next = [id |-> m, state |-> "queued", task |-> None]
      BY <2>1, PutUpdate DEF TypeOK
    <2>3. fate[m] = "fresh"
          /\ fate' = [n \in Messages |-> IF n = m THEN "queued"
                                         ELSE IF n = row.next.id THEN "replaced" ELSE fate[n]]
      BY <1>4 DEF QueueNextMessage
    <2>4. EndInSlot[m] = "none"
      BY <2>3 DEF EndInSlot, SlotEnds
    <2>5. EndInSlot' = [n \in Messages |-> IF n = m THEN "queued"
                         ELSE IF n = row.next.id THEN "replaced" ELSE EndInSlot[n]]
      BY <2>3 DEF EndInSlot, SlotEnds
    <2>6. \A n \in Messages : fate[n] \notin {"taken", "consumed"} => ran[n] = 0
      BY DEF RanInv
    <2>7. row.next.id \in Messages => fate[row.next.id] = "queued"
      BY DEF SlotInv
    <2>8. Served' = Served
      <3>1. ASSUME NEW n \in Messages
            PROVE  (IF fate'[n] \in SlotEnds THEN ran[n] ELSE 0)
                     = (IF fate[n] \in SlotEnds THEN ran[n] ELSE 0)
        BY <2>3, <2>6, <2>7 DEF SlotEnds
      <3> QED
        BY <2>1, <3>1 DEF Served
    <2> QED
      BY <2>1, <2>2, <2>4, <2>5, <2>8 DEF MailboxStep, Mailbox!Next, Mailbox!Queue
  <1>5. ASSUME CancelQueued
        PROVE  MailboxStep
    <2> DEFINE m == row.next.id
    <2>1. row.next.state = "queued" /\ m \in Messages /\ fate[m] = "queued"
      BY <1>5 DEF CancelQueued, CanCancelNextMessage, SlotInv
    <2>2. row'.next = EmptySlot
      BY <1>5, EmptyUpdate DEF TypeOK, CancelQueued
    <2>3. fate' = [fate EXCEPT ![m] = "cancelled"] /\ ran' = ran
      BY <1>5 DEF CancelQueued, Becomes
    <2>4. EndInSlot' = [EndInSlot EXCEPT ![m] = "cancelled"]
      BY <2>1, <2>3 DEF TypeOK, EndInSlot, SlotEnds
    <2>5. Served' = Served
      BY <2>1, <2>3 DEF TypeOK, Served, SlotEnds
    <2> QED
      BY <2>1, <2>2, <2>4, <2>5
      DEF MailboxStep, Mailbox!Next, Mailbox!Cancel, Mailbox!Empty, EmptySlot
  <1>6. ASSUME Organize
        PROVE  MailboxStep
    <2>1. SlotStays
      BY <1>6 DEF TypeOK, Rows, Organize, SetArchived, SlotStays
    <2> QED
      BY <1>6, <2>1, OutsideStep DEF Organize, history, FatesOutside
  <1>7. ASSUME Crash
        PROVE  MailboxStep
    <2>1. fate' = [m \in Messages |-> IF fate[m] = "direct" THEN "refused" ELSE fate[m]]
      BY <1>7 DEF Crash
    <2>2. FatesOutside
      BY <2>1 DEF FatesOutside, SlotEnds
    <2> QED
      BY <1>7, <2>2, OutsideStep DEF Crash, SlotStays
  <1> QED
    BY <1>1, <1>2, <1>3, <1>4, <1>5, <1>6, <1>7 DEF ClientStep

\* A new session and a new branch are the two initial states of the mailbox.
LEMMA MailboxInit == Init => Mailbox!Init
  <1> SUFFICES ASSUME Init
               PROVE  Mailbox!Init
    OBVIOUS
  <1>1. NewSession \in Rows /\ NewSession.next = EmptySlot
    BY EmptySlotType DEF NewSession, Rows, Statuses
  <1>2. Served = [m \in Messages |-> 0]
    BY DEF Init, Served
  <1>3. CASE row = NewSession /\ fate = [m \in Messages |-> "fresh"]
    <2>1. EndInSlot = [m \in Messages |-> "none"]
      BY <1>3 DEF EndInSlot, SlotEnds
    <2> QED
      BY <1>1, <1>2, <1>3, <2>1 DEF Mailbox!Init, Mailbox!Empty, EmptySlot
  <1>4. ASSUME NEW m \in Messages,
               row = PutNextMessage(UpdateStatus(NewSession, "completed"), m),
               fate = [n \in Messages |-> IF n = m THEN "queued" ELSE "fresh"]
        PROVE  Mailbox!Init
    <2>1. UpdateStatus(NewSession, "completed") \in Rows
      BY <1>1, StatusUpdate DEF Statuses
    <2>2. row.next = [id |-> m, state |-> "queued", task |-> None]
      BY <1>4, <2>1, PutUpdate
    <2>3. EndInSlot = [n \in Messages |-> IF n = m THEN "queued" ELSE "none"]
      BY <1>4 DEF EndInSlot, SlotEnds
    <2> QED
      BY <1>2, <2>2, <2>3 DEF Mailbox!Init
  <1> QED
    BY <1>3, <1>4 DEF Init

\* The session's slot is a mailbox: the whole system of requests, runners,
\* cancellations and crashes never loses, doubles or revives a queued message.
THEOREM SlotImplementsMailbox == Spec => ImplementsMailbox
  <1>1. Init => Mailbox!Init
    BY MailboxInit
  <1>2. IInv /\ [Next]_vars => [Mailbox!Next]_<<row.next, EndInSlot, Served>>
    <2> SUFFICES ASSUME IInv, [Next]_vars
                 PROVE  MailboxStep
      BY DEF MailboxStep
    <2>1. CASE UNCHANGED vars
      BY <2>1, OutsideStep DEF vars, history, SlotStays, FatesOutside
    <2>2. ASSUME NEW r \in Requests, RequestStep(r)
          PROVE  MailboxStep
      BY <2>2, RequestOutside, OutsideStep
    <2>3. ASSUME NEW t \in Tasks, RunnerStep(t)
          PROVE  MailboxStep
      BY <2>3, MailboxOfRunner
    <2> QED
      BY <2>1, <2>2, <2>3, MailboxOfClient DEF Next
  <1> QED
    BY <1>1, <1>2, InductiveInvariant, PTL DEF Spec, ImplementsMailbox, Mailbox!Spec

-----------------------------------------------------------------------------
(* One polite client that stops nothing: the row tells the truth *)

\* However a run is ended, the row is completed, and keeps what it says of its
\* task and its archiving, and an empty slot.
LEMMA EndRunIs ==
  ASSUME NEW r \in Rows
  PROVE  /\ EndRun(r).status = "completed" /\ EndRun(r).archived = r.archived
         /\ EndRun(r).task = r.task
         /\ r.next.state = "empty" => EndRun(r).next = r.next
  <1>1. /\ ResetProcessing(r) \in Rows /\ ResetProcessing(r).archived = r.archived
        /\ ResetProcessing(r).task = r.task
        /\ r.next.state = "empty" => ResetProcessing(r).next = r.next
    BY ResetUpdate DEF ResetProcessing, Rows
  <1> QED
    BY <1>1, StatusUpdate DEF EndRun, Statuses

\* A runner at work is the only one, no request is starting another, and the
\* session is not archived.
LEMMA WorkAlone ==
  ASSUME TypeOK, CalmInv, NEW t \in Tasks, Working(t)
  PROVE  /\ row.status = "running" /\ row.task = t /\ t \in registry
         /\ ~row.archived
         /\ \A u \in Tasks : Working(u) => u = t
         /\ \A r \in Requests :
              rpc[r] \notin {"claim", "create", "handles", "restore", "put", "invoke", "orphan"}
  <1>1. row.status = "running" /\ row.task = t /\ t \in registry
    BY DEF CalmInv, WorkInv
  <1>2. ~row.archived
    BY <1>1 DEF CalmInv, ArchivedIsAtRest
  <1> QED
    BY <1>1, <1>2 DEF CalmInv, WorkInv, StartInv

\* The runner goes on with its work.
LEMMA WorkGoesOn ==
  ASSUME TypeOK, CalmInv, NEW t \in Tasks, NEW p \in Active \cup {"failing"}, Working(t),
         pc' = [pc EXCEPT ![t] = p],
         row'.status = "running", row'.task = row.task, row'.archived = row.archived,
         UNCHANGED <<registry, cancelled, dones, requestVars>>
  PROVE  CalmInv'
  <1> USE DEF CalmInv, Working
  <1>1. pc \in [Tasks -> TaskPcs] /\ pc'[t] = p /\ \A u \in Tasks \ {t} : pc'[u] = pc[u]
    BY DEF TypeOK
  <1>2. /\ row.status = "running" /\ row.task = t /\ t \in registry /\ ~row.archived
        /\ \A u \in Tasks : Working(u) => u = t
        /\ \A r \in Requests :
             rpc[r] \notin {"claim", "create", "handles", "restore", "put", "invoke", "orphan"}
    BY WorkAlone
  <1>3. /\ p \notin {"cancelled", "saveDone", "cleanup", "done", "lost"}
        /\ pc[t] \notin {"saveDone", "cleanup", "done", "lost"}
    BY DEF Active, InTry
  <1>4. \A u \in Tasks : Working(u)' => u = t
    BY <1>1, <1>2
  <1>5. NoStopInv'
    BY <1>1, <1>3 DEF NoStopInv, requestVars
  <1>6. WorkInv'
    BY <1>2, <1>4 DEF WorkInv
  <1>7. StartInv'
    BY <1>2 DEF StartInv, requestVars
  <1>8. ListenInv'
    BY <1>2, <1>4 DEF ListenInv, requestVars
  <1>9. DoneInv'
    BY <1>1, <1>3 DEF DoneInv
  <1>10. ArchivedIsAtRest'
    BY <1>2 DEF ArchivedIsAtRest
  <1> QED
    BY <1>5, <1>6, <1>7, <1>8, <1>9, <1>10

\* The runner gives the row its status, and works no more.
LEMMA WorkEnds ==
  ASSUME TypeOK, CalmInv, NEW t \in Tasks, NEW p \in {"final", "cleanup"}, Working(t),
         pc' = [pc EXCEPT ![t] = p],
         row'.archived = row.archived,
         UNCHANGED <<registry, cancelled, dones, requestVars>>
  PROVE  CalmInv'
  <1> USE DEF CalmInv, Working
  <1>1. pc \in [Tasks -> TaskPcs] /\ pc'[t] = p /\ \A u \in Tasks \ {t} : pc'[u] = pc[u]
    BY DEF TypeOK
  <1>2. /\ row.status = "running" /\ row.task = t /\ t \in registry /\ ~row.archived
        /\ \A u \in Tasks : Working(u) => u = t
        /\ \A r \in Requests :
             rpc[r] \notin {"claim", "create", "handles", "restore", "put", "invoke", "orphan"}
    BY WorkAlone
  <1>3. p \notin Active \cup {"failing", "cancelled"}
        /\ pc[t] \notin {"saveDone", "cleanup", "done", "lost"}
    BY DEF Active, InTry
  <1>4. \A u \in Tasks : ~Working(u)'
    BY <1>1, <1>2, <1>3
  <1>5. NoStopInv'
    BY <1>1, <1>3 DEF NoStopInv, requestVars
  <1>6. WorkInv' /\ ListenInv'
    BY <1>4 DEF WorkInv, ListenInv
  <1>7. StartInv'
    BY <1>2 DEF StartInv, requestVars
  <1>9. DoneInv'
    BY <1>1, <1>3 DEF DoneInv
  <1>10. ArchivedIsAtRest'
    BY <1>2 DEF ArchivedIsAtRest
  <1> QED
    BY <1>5, <1>6, <1>7, <1>9, <1>10

\* What a runner does after it gave the row its status concerns nobody.
LEMMA AfterWork ==
  ASSUME TypeOK, CalmInv, NEW t \in Tasks, PutDone(t) \/ SaveDone(t) \/ EndTask(t)
  PROVE  CalmInv'
  <1> USE DEF CalmInv, Working
  <1> DEFINE p == pc'[t]
  <1>0. cancelled = {}
    BY DEF NoStopInv
  <1>1. /\ pc[t] \in {"final", "saveDone", "cleanup"} /\ p \in {"saveDone", "cleanup", "done"}
        /\ pc' = [pc EXCEPT ![t] = p] /\ cancelled' = {}
        /\ registry' \in {registry, registry \ {t}} /\ UNCHANGED <<row, requestVars>>
    BY <1>0 DEF PutDone, SaveDone, EndTask, RunnerTo, At, TypeOK
  <1>2. pc \in [Tasks -> TaskPcs] /\ \A u \in Tasks \ {t} : pc'[u] = pc[u]
    BY <1>1 DEF TypeOK
  <1> HIDE DEF p
  <1>3. {p, pc[t]} \cap (Active \cup {"failing", "cancelled"}) = {}
    BY <1>1 DEF Active, InTry
  <1>4. \A u \in Tasks : Working(u)' <=> Working(u) /\ u # t
    BY <1>2, <1>3 DEF p
  <1>5. NoStopInv'
    BY <1>1, <1>2, <1>3 DEF NoStopInv, requestVars, p
  <1>6. WorkInv' /\ ListenInv'
    BY <1>1, <1>4 DEF WorkInv, ListenInv, requestVars
  <1>7. StartInv'
    <2> SUFFICES ASSUME NEW r \in Requests
                 PROVE  /\ rpc[r] \in {"handles", "put", "invoke"} =>
                             pc'[rlocal[r].task] = "idle" /\ rlocal[r].task \in registry'
                        /\ rpc[r] \in {"claim", "create", "handles", "restore", "put",
                                      "invoke", "orphan"} => \A u \in Tasks : ~Working(u)'
      BY <1>1 DEF StartInv, requestVars
    <2> QED
      BY <1>1, <1>2, <1>4 DEF StartInv
  <1>9. DoneInv'
    <2>1. dones \in [Tasks -> Nat] /\ dones[t] <= 1 /\ (pc[t] = "final" => dones[t] = 0)
      BY DEF DoneInv, TypeOK
    <2>2. dones'[t] <= 1 /\ \A u \in Tasks \ {t} : dones'[u] = dones[u]
      BY <2>1 DEF PutDone, SaveDone, EndTask, PutDoneEvent, At
    <2> QED
      BY <1>1, <1>2, <2>2 DEF DoneInv, p
  <1>10. ArchivedIsAtRest'
    BY <1>1, <1>2, <1>3 DEF ArchivedIsAtRest, IsActive, p
  <1> QED
    BY <1>5, <1>6, <1>7, <1>9, <1>10

\* Every step of a runner is one of these three kinds; nobody cancels it, and
\* no await of it raises but the flow's own.
LEMMA CalmOfRunner ==
  ASSUME Calm, TypeOK, CalmInv, NEW t \in Tasks, RunnerStep(t)
  PROVE  CalmInv'
  <1>0. cancelled = {} /\ row \in Rows /\ pc[t] # "cancelled"
        /\ (Working(t) => row.status = "running")
    BY WorkAlone DEF CalmInv, NoStopInv, TypeOK
  <1>1. CASE BeginRun(t) \/ InputIsEmpty(t) \/ FinishConflicts(t) \/ PrepareFlow(t)
             \/ FlowDone(t) \/ FlowFails(t) \/ PopEvent(t)
    <2>1. Working(t)
      BY <1>1 DEF BeginRun, InputIsEmpty, FinishConflicts, PrepareFlow, FlowDone, FlowFails,
                  PopEvent, At, Working, Active, InTry
    <2>2. \E p \in Active \cup {"failing"} : pc' = [pc EXCEPT ![t] = p]
      BY <1>1 DEF BeginRun, InputIsEmpty, FinishConflicts, PrepareFlow, FlowDone, FlowFails,
                  PopEvent, RunnerTo, Active, InTry
    <2>3. UNCHANGED <<row, registry, cancelled, dones, requestVars>>
      BY <1>1 DEF BeginRun, InputIsEmpty, FinishConflicts, PrepareFlow, FlowDone, FlowFails,
                  PopEvent
    <2> QED
      BY <1>0, <2>1, <2>2, <2>3, WorkGoesOn
  <1>2. CASE ClaimQueued(t)
    <2>1. Working(t) /\ "consume" \in Active
      BY <1>2 DEF ClaimQueued, At, Working, Active, InTry
    <2>2. row'.status = row.status /\ row'.task = row.task /\ row'.archived = row.archived
      BY <1>0, <1>2 DEF ClaimQueued, ClaimNext, Rows
    <2> QED
      BY <1>0, <1>2, <2>1, <2>2, WorkGoesOn DEF ClaimQueued, RunnerTo
  <1>3. CASE ConsumeQueued(t)
    <2>1. Working(t)
      BY <1>3 DEF ConsumeQueued, At, Working, Active, InTry
    <2>2. row'.status = row.status /\ row'.task = row.task /\ row'.archived = row.archived
      BY <1>0, <1>3 DEF ConsumeQueued, ConsumeNextMessage, Rows
    <2>3. \E p \in Active \cup {"failing"} : pc' = [pc EXCEPT ![t] = p]
      BY <1>3 DEF ConsumeQueued, RunnerTo, Active, InTry
    <2> QED
      BY <1>0, <1>3, <2>1, <2>2, <2>3, WorkGoesOn DEF ConsumeQueued
  <1>4. CASE SetRunning(t)
    <2>1. Working(t) /\ "flow" \in Active
      BY <1>4 DEF SetRunning, At, Working, Active, InTry
    <2>2. row'.status = "running" /\ row'.task = row.task /\ row'.archived = row.archived
      BY <1>0, <1>4, StatusUpdate DEF SetRunning, Statuses
    <2> QED
      BY <1>4, <2>1, <2>2, WorkGoesOn DEF SetRunning, RunnerTo
  <1>5. CASE FlowWaits(t)
    <2>1. Working(t) /\ "setWaiting" \in Active
      BY <1>5 DEF FlowWaits, At, Working, Active, InTry
    <2>2. row'.status = row.status /\ row'.task = row.task /\ row'.archived = row.archived
      BY <1>0, <1>5 DEF FlowWaits, Rows
    <2> QED
      BY <1>0, <1>5, <2>1, <2>2, WorkGoesOn DEF FlowWaits, RunnerTo
  <1>6. CASE RunnerRaises(t)
    <2>1. Working(t)
      BY <1>6 DEF RunnerRaises, Calm, Working, Active, InTry
    <2> QED
      BY <1>0, <1>6, <2>1, WorkGoesOn DEF RunnerRaises, RunnerTo
  <1>7. CASE FinishSession(t)
    <2>1. Working(t)
      BY <1>7 DEF FinishSession, At, Working, Active, InTry
    <2>2. row'.archived = row.archived
      BY <1>0, <1>7, StatusUpdate DEF FinishSession, Statuses
    <2> QED
      BY <1>7, <2>1, <2>2, WorkEnds DEF FinishSession, RunnerTo
  <1>8. CASE SetStopped(t)
    <2>1. Working(t)
      BY <1>8 DEF SetStopped, At, Working, Active, InTry
    <2>2. row'.archived = row.archived
      BY <1>0, <1>8, StatusUpdate DEF SetStopped, Statuses
    <2> QED
      BY <1>8, <2>1, <2>2, WorkEnds DEF SetStopped, RunnerTo
  <1>9. CASE HandleFailure(t)
    <2>1. Working(t)
      BY <1>9 DEF HandleFailure, At, Working
    <2>2. row'.archived = row.archived
      BY <1>0, <1>9, EndRunIs DEF HandleFailure
    <2> QED
      BY <1>9, <2>1, <2>2, WorkEnds DEF HandleFailure, RunnerTo
  <1>10. CASE PutDone(t) \/ SaveDone(t) \/ EndTask(t)
    BY <1>10, AfterWork
  <1>11. CASE HandleCancelled(t) \/ DeliverCancel(t) \/ SwallowCancel(t)
    BY <1>0, <1>11 DEF HandleCancelled, DeliverCancel, SwallowCancel, At
  <1> QED
    BY <1>1, <1>2, <1>3, <1>4, <1>5, <1>6, <1>7, <1>8, <1>9, <1>10, <1>11 DEF RunnerStep

-----------------------------------------------------------------------------
\* What requests rest on: runners and their DoneEvents are as they were.
LEMMA CalmOfQuiet ==
  ASSUME TypeOK, CalmInv, UNCHANGED <<pc, registry, cancelled, dones>>,
         row'.task = row.task,
         (\E t \in Tasks : Working(t)) => row'.status = row.status,
         ArchivedIsAtRest',
         \A r \in Requests : \/ rpc'[r] = "idle"
                             \/ UNCHANGED <<rpc[r], rlocal[r]>> /\ row'.status = row.status
  PROVE  CalmInv'
  <1> USE DEF CalmInv, Working
  <1>1. NoStopInv' /\ DoneInv'
    BY DEF NoStopInv, DoneInv
  <1>2. WorkInv'
    BY DEF WorkInv
  <1>3. StartInv' /\ ListenInv'
    BY DEF StartInv, ListenInv
  <1> QED
    BY <1>1, <1>2, <1>3

\* An archived session stays at rest when its slot, its status and its runners
\* stay, or when it is not archived at all.
LEMMA RestKept ==
  ASSUME TypeOK, ArchivedIsAtRest, pc' = pc, row'.archived = row.archived,
         row.archived => row'.status \in {row.status, "completed"} /\ row'.next = row.next
  PROVE  ArchivedIsAtRest'
  BY DEF ArchivedIsAtRest, IsActive

\* A request that is the only one and goes to the place p, with no runner
\* starting or ending in the step.
LEMMA CalmOfPlace ==
  ASSUME Calm, TypeOK, CalmInv, NEW r \in Requests, UNCHANGED <<pc, registry, cancelled, dones>>,
         ArchivedIsAtRest', WorkInv',
         rpc'[r] \notin {"reclaim", "stopTx"},
         rpc'[r] \in {"read", "lookup", "orphan"} =>
            rlocal'[r].op = "subscribe" /\ rlocal'[r].msg = None,
         rpc'[r] = "claim" => row'.status = "waiting",
         rpc'[r] \in {"create", "handles", "restore", "put", "invoke"} => row'.status = "running",
         rpc'[r] \in {"claim", "create", "handles", "restore", "put", "invoke", "orphan"} =>
            \A t \in Tasks : ~Working(t),
         rpc'[r] \in {"handles", "put", "invoke"} =>
            pc[rlocal'[r].task] = "idle" /\ rlocal'[r].task \in registry,
         rpc'[r] \in {"put", "invoke"} => row'.task = rlocal'[r].task,
         rpc'[r] = "lookup" /\ rlocal'[r].status = "running" =>
            \A t \in Tasks : Working(t) => rlocal'[r].seen = t
  PROVE  CalmInv'
  <1>1. \A s \in Requests : s = r
    BY DEF Calm
  <1>2. NoStopInv' /\ DoneInv'
    BY <1>1 DEF CalmInv, NoStopInv, DoneInv
  <1>3. StartInv'
    BY <1>1 DEF StartInv, Working
  <1>4. ListenInv'
    BY <1>1 DEF ListenInv, Working
  <1> QED
    BY <1>2, <1>3, <1>4 DEF CalmInv

\* The places of a request, as functions of it.
LEMMA RequestGoes ==
  ASSUME TypeOK, NEW r \in Requests, NEW p
  PROVE  /\ Goto(r, p) => rpc'[r] = p
         /\ Return(r) => rpc'[r] = "idle" /\ rlocal'[r] = NoLocals
  BY DEF TypeOK, Goto, Return

\* The steps of the only request: what it starts, nobody else works on.
LEMMA CalmOfRequest ==
  ASSUME Calm, IInv, CalmInv, NEW r \in Requests, RequestStep(r)
  PROVE  CalmInv'
  <1>0. /\ TypeOK /\ row \in Rows /\ \A s \in Requests : s = r
        /\ rpc[r] \notin {"reclaim", "stopTx"}
        /\ rpc[r] \in {"read", "lookup", "orphan"} =>
              rlocal[r].op = "subscribe" /\ rlocal[r].msg = None
        /\ WorkInv /\ ArchivedIsAtRest
    BY DEF IInv, TypeOK, Calm, CalmInv, NoStopInv
  <1>00. /\ rpc[r] = "claim" => row.status = "waiting"
         /\ rpc[r] \in {"create", "handles", "restore", "put", "invoke"} => row.status = "running"
         /\ rpc[r] \in {"claim", "create", "handles", "restore", "put", "invoke", "orphan"} =>
              \A t \in Tasks : ~Working(t)
         /\ rpc[r] \in {"handles", "put", "invoke"} =>
              pc[rlocal[r].task] = "idle" /\ rlocal[r].task \in registry /\ rlocal[r].task \in Tasks
         /\ rpc[r] \in {"put", "invoke"} => row.task = rlocal[r].task
    BY DEF CalmInv, StartInv, IInv, RequestInv, RequestOK
  <1>1. CASE ReadSession(r)
    <2>1. /\ rpc'[r] = "lookup" /\ rlocal'[r].op = "subscribe" /\ rlocal'[r].msg = None
          /\ rlocal'[r].seen = row.task
      BY <1>0, <1>1, RequestGoes DEF ReadSession, TypeOK, Locals
    <2>2. UNCHANGED <<row, registry, pc, cancelled, dones>>
      BY <1>1 DEF ReadSession, taskVars
    <2>3. WorkInv' /\ ArchivedIsAtRest'
      BY <1>0, <2>2 DEF WorkInv, Working, ArchivedIsAtRest, IsActive
    <2>4. \A t \in Tasks : Working(t) => rlocal'[r].seen = t
      BY <1>0, <2>1 DEF WorkInv
    <2> QED
      BY <1>0, <2>1, <2>2, <2>3, <2>4, CalmOfPlace
  <1>2. CASE ClaimAgain(r)
    <2>1. rpc[r] = "claim" /\ row.status = "waiting" /\ PreviousStatus(row) # None
      BY <1>0, <1>00, <1>2, NoneIsNoId DEF ClaimAgain, PreviousStatus, Statuses
    <2>2. rpc'[r] = "create"
      BY <1>0, <1>2, <2>1, RequestGoes DEF ClaimAgain
    <2>3. UNCHANGED <<registry, pc, cancelled, dones>>
      BY <1>2 DEF ClaimAgain, taskVars
    <2>4. row'.status = "running" /\ ~row'.archived
      BY <1>0, <1>2, StatusUpdate DEF ClaimAgain, ClaimExecution, CanClaimExecution, Statuses
    <2>5. WorkInv' /\ ArchivedIsAtRest'
      BY <1>00, <2>1, <2>3, <2>4 DEF WorkInv, Working, ArchivedIsAtRest
    <2> QED
      BY <1>00, <2>1, <2>2, <2>3, <2>4, <2>5, CalmOfPlace, <1>0
  <1>3. CASE ClaimRefused(r)
    <2>1. rpc'[r] = "idle" /\ UNCHANGED <<row, registry, pc, cancelled, dones>>
      BY <1>0, <1>3, RequestGoes DEF ClaimRefused, taskVars
    <2>2. ArchivedIsAtRest'
      BY <1>0, <2>1 DEF ArchivedIsAtRest, IsActive
    <2> QED
      BY <1>0, <2>1, <2>2, CalmOfQuiet
  <1>4. CASE SubscribeLookup(r)
    <2>1. UNCHANGED <<row, registry, pc, cancelled, dones>>
      BY <1>4 DEF SubscribeLookup, taskVars
    <2>2. WorkInv' /\ ArchivedIsAtRest'
      BY <1>0, <2>1 DEF WorkInv, Working, ArchivedIsAtRest, IsActive
    <2>3. CASE LooksOrphaned(r)
      <3>1. /\ rpc'[r] = "orphan" /\ rlocal'[r].op = "subscribe" /\ rlocal'[r].msg = None
        BY <1>0, <1>4, <2>3, RequestGoes DEF SubscribeLookup, TypeOK, Locals
      <3>2. \A t \in Tasks : ~Working(t)
        <4> SUFFICES ASSUME NEW t \in Tasks, Working(t) PROVE FALSE
          OBVIOUS
        <4>1. rlocal[r].seen = t /\ t \in registry /\ t # None
          BY <1>0, <1>4, <2>3, NoneIsNoId
          DEF CalmInv, ListenInv, WorkInv, LooksOrphaned, SubscribeLookup
        <4> QED
          BY <2>3, <4>1 DEF LooksOrphaned, Registered
      <3> QED
        BY <1>0, <2>1, <2>2, <3>1, <3>2, CalmOfPlace
    <2>4. CASE ~LooksOrphaned(r)
      <3>1. rpc'[r] = "idle"
        BY <1>0, <1>4, <2>4, RequestGoes DEF SubscribeLookup
      <3> QED
        BY <1>0, <2>1, <2>2, <3>1, CalmOfQuiet
    <2> QED
      BY <2>3, <2>4
  <1>5. CASE FinalizeOrphan(r)
    <2>1. /\ rpc'[r] = "idle" /\ UNCHANGED <<registry, pc, cancelled, dones>>
          /\ \A t \in Tasks : ~Working(t)
      BY <1>0, <1>00, <1>5, RequestGoes DEF FinalizeOrphan, taskVars
    <2>2. /\ row'.status = "completed" /\ row'.archived = row.archived
          /\ row'.task = row.task /\ (row.next.state = "empty" => row'.next = row.next)
      BY <1>0, <1>5, EndRunIs DEF FinalizeOrphan
    <2>3. ArchivedIsAtRest'
      BY <1>0, <2>1, <2>2, RestKept DEF ArchivedIsAtRest
    <2> QED
      BY <1>0, <2>1, <2>2, <2>3, CalmOfQuiet
  <1>6. ASSUME NEW t \in Tasks, CreateTask(r, t)
        PROVE  CalmInv'
    <2>1. /\ rpc[r] = "create" /\ rpc'[r] = "handles" /\ rlocal'[r].task = t
          /\ registry' = registry \cup {t} /\ UNCHANGED <<row, cancelled, dones>>
          /\ pc[t] = "unused" /\ pc'[t] = "idle" /\ \A u \in Tasks \ {t} : pc'[u] = pc[u]
      BY <1>0, <1>6, RequestGoes DEF CreateTask, TypeOK, Locals
    <2>2. \A u \in Tasks : ~Working(u) /\ ~Working(u)'
      BY <1>00, <2>1 DEF Working, Active, InTry
    <2>3. NoStopInv'
      BY <1>0, <2>1 DEF CalmInv, NoStopInv
    <2>4. WorkInv' /\ ListenInv'
      BY <2>2 DEF WorkInv, ListenInv
    <2>5. StartInv'
      BY <1>0, <1>00, <2>1, <2>2 DEF StartInv
    <2>6. DoneInv'
      BY <2>1 DEF CalmInv, DoneInv
    <2>7. ArchivedIsAtRest'
      BY <1>0, <2>1, <2>2 DEF ArchivedIsAtRest, IsActive, Working
    <2> QED
      BY <2>3, <2>4, <2>5, <2>6, <2>7 DEF CalmInv
  <1>7. CASE WriteHandles(r)
    <2>1. /\ rpc[r] = "handles" /\ rpc'[r] \in {"invoke", "put"} /\ rlocal'[r].task = rlocal[r].task
          /\ UNCHANGED <<registry, pc, cancelled, dones>>
      BY <1>0, <1>7, RequestGoes DEF WriteHandles, taskVars, TypeOK, Locals
    <2>2. /\ row'.status = row.status /\ row'.task = rlocal[r].task /\ row'.archived = row.archived
      BY <1>0, <1>00, <1>7, <2>1, HandlesUpdate DEF WriteHandles, UpdateRuntimeHandles, Rows
    <2>3. WorkInv' /\ ArchivedIsAtRest'
      BY <1>0, <1>00, <2>1, <2>2 DEF WorkInv, Working, ArchivedIsAtRest
    <2> QED
      BY <1>0, <1>00, <2>1, <2>2, <2>3, CalmOfPlace
  <1>8. CASE RestoreStatus(r)
    <2>1. /\ rpc[r] = "restore" /\ rpc'[r] = "idle" /\ UNCHANGED <<registry, pc, cancelled, dones>>
          /\ rlocal[r].prev \in Statuses
      BY <1>0, <1>8, RequestGoes DEF RestoreStatus, taskVars, IInv, RequestInv, RequestOK
    <2>2. row'.archived = row.archived /\ row'.task = row.task
      BY <1>0, <1>8, <2>1, StatusUpdate DEF RestoreStatus
    <2>3. ArchivedIsAtRest'
      BY <1>0, <1>00, <2>1, <2>2 DEF ArchivedIsAtRest
    <2> QED
      BY <1>0, <1>00, <2>1, <2>2, <2>3, CalmOfQuiet
  <1>9. CASE PutInput(r)
    <2>1. /\ rpc[r] = "put" /\ rpc'[r] = "invoke" /\ rlocal'[r].task = rlocal[r].task
          /\ UNCHANGED <<row, registry, pc, cancelled, dones>>
      BY <1>0, <1>9, RequestGoes DEF PutInput, TypeOK, Locals
    <2>2. WorkInv' /\ ArchivedIsAtRest'
      BY <1>0, <2>1 DEF WorkInv, Working, ArchivedIsAtRest, IsActive
    <2> QED
      BY <1>0, <1>00, <2>1, <2>2, CalmOfPlace
  <1>10. CASE InvokeTask(r)
    <2> DEFINE t == rlocal[r].task
    <2>1. /\ rpc[r] = "invoke" /\ t \in Tasks /\ row.task = t /\ t \in registry
          /\ row.status = "running" /\ pc[t] = "idle"
          /\ \A u \in Tasks : ~Working(u)
      BY <1>00, <1>10 DEF InvokeTask
    <2>2. /\ UNCHANGED <<row, registry, cancelled, dones>> /\ pc' = [pc EXCEPT ![t] = "spawned"]
      BY <1>10, <2>1 DEF InvokeTask
    <2>3. \/ rpc'[r] = "read" /\ rlocal'[r].op = "subscribe" /\ rlocal'[r].msg = None
          \/ rpc'[r] = "idle"
      BY <1>0, <1>10, RequestGoes DEF InvokeTask, TypeOK, Opened, NoLocals
    <2> HIDE DEF t
    <2>4. pc'[t] = "spawned" /\ \A u \in Tasks \ {t} : pc'[u] = pc[u]
      BY <1>0, <2>1, <2>2 DEF TypeOK
    <2>5. \A u \in Tasks : Working(u)' => u = t
      BY <2>1, <2>4 DEF Working
    <2>6. WorkInv'
      BY <2>1, <2>2, <2>5 DEF WorkInv
    <2>7. NoStopInv'
      BY <1>0, <2>1, <2>2, <2>3, <2>4 DEF CalmInv, NoStopInv
    <2>8. StartInv' /\ ListenInv'
      BY <1>0, <2>3 DEF StartInv, ListenInv
    <2>9. DoneInv'
      BY <2>1, <2>2, <2>4 DEF CalmInv, DoneInv
    <2>10. ArchivedIsAtRest'
      BY <1>0, <2>1, <2>2 DEF ArchivedIsAtRest
    <2> QED
      BY <2>6, <2>7, <2>8, <2>9, <2>10 DEF CalmInv
  <1>11. CASE ChatLookup(r) \/ StopLookup(r) \/ StopSession(r)
    BY <1>0, <1>11 DEF ChatLookup, StopLookup, StopSession
  <1> QED
    BY <1>1, <1>2, <1>3, <1>4, <1>5, <1>6, <1>7, <1>8, <1>9, <1>10, <1>11 DEF RequestStep

\* What a client begins: a run on a session at rest, or a request that looks.
LEMMA CalmOfStart ==
  ASSUME Calm, IInv, CalmInv, NEW r \in Requests,
         \/ \E m \in Messages : StartChat(r, m) \/ ResolvePending(r, m)
         \/ StartSubscribe(r) \/ StartStop(r) \/ StartRunNext(r)
         \/ CreateFails(r) \/ Disconnect(r)
  PROVE  CalmInv'
  <1>0. TypeOK /\ row \in Rows /\ WorkInv /\ ArchivedIsAtRest
    BY DEF IInv, TypeOK, CalmInv
  <1>1. ASSUME NEW m \in Messages, StartChat(r, m)
        PROVE  CalmInv'
    <2>1. /\ row.status \in {"pending", "completed"} /\ ~row.archived
          /\ row' = UpdateStatus(row, "running")
          /\ UNCHANGED <<registry, pc, cancelled, dones>>
      BY <1>1 DEF StartChat, taskVars, Calm, CanClaimExecution, ClaimExecution
    <2>2. rpc'[r] = "create"
      BY <1>0, <1>1, <2>1, RequestGoes, NoneIsNoId
      DEF StartChat, PreviousStatus, Statuses
    <2>3. row'.status = "running" /\ ~row'.archived
      BY <1>0, <2>1, StatusUpdate DEF Statuses
    <2>4. \A t \in Tasks : ~Working(t)
      BY <1>0, <2>1 DEF WorkInv
    <2>5. WorkInv' /\ ArchivedIsAtRest'
      BY <2>1, <2>3, <2>4 DEF WorkInv, Working, ArchivedIsAtRest
    <2> QED
      BY <1>0, <2>1, <2>2, <2>3, <2>4, <2>5, CalmOfPlace
  <1>2. ASSUME StartRunNext(r)
        PROVE  CalmInv'
    <2>1. /\ row.status = "completed" /\ ~row.archived
          /\ row' = UpdateStatus(row, "running")
          /\ UNCHANGED <<registry, pc, cancelled, dones>>
      BY <1>2 DEF StartRunNext, taskVars, CanStartNextMessageRun
    <2>2. rpc'[r] = "create"
      BY <1>0, <1>2, RequestGoes DEF StartRunNext
    <2>3. row'.status = "running" /\ ~row'.archived
      BY <1>0, <2>1, StatusUpdate DEF Statuses
    <2>4. \A t \in Tasks : ~Working(t)
      BY <1>0, <2>1 DEF WorkInv
    <2>5. WorkInv' /\ ArchivedIsAtRest'
      BY <2>1, <2>3, <2>4 DEF WorkInv, Working, ArchivedIsAtRest
    <2> QED
      BY <1>0, <2>1, <2>2, <2>3, <2>4, <2>5, CalmOfPlace
  <1>3. ASSUME NEW m \in Messages, ResolvePending(r, m)
        PROVE  CalmInv'
    <2>1. /\ row.status = "waiting" /\ rpc'[r] = "claim"
          /\ UNCHANGED <<registry, pc, cancelled, dones>>
      BY <1>0, <1>3, RequestGoes DEF ResolvePending, taskVars, CanResolveInteraction
    <2>2. row'.status = "waiting" /\ row'.archived = row.archived
      BY <1>0, <1>3, <2>1 DEF ResolvePending, ResolveInteraction, Rows
    <2>3. \A t \in Tasks : ~Working(t)
      BY <1>0, <2>1 DEF WorkInv
    <2>4. WorkInv' /\ ArchivedIsAtRest'
      BY <1>0, <2>1, <2>2, <2>3 DEF WorkInv, Working, ArchivedIsAtRest
    <2> QED
      BY <1>0, <2>1, <2>2, <2>3, <2>4, CalmOfPlace
  <1>4. CASE StartSubscribe(r)
    <2>1. /\ rpc'[r] = "read" /\ rlocal'[r].op = "subscribe" /\ rlocal'[r].msg = None
          /\ UNCHANGED <<row, registry, pc, cancelled, dones>>
      BY <1>0, <1>4, RequestGoes DEF StartSubscribe, taskVars, TypeOK, Opened, NoLocals
    <2>2. WorkInv' /\ ArchivedIsAtRest'
      BY <1>0, <2>1 DEF WorkInv, Working, ArchivedIsAtRest, IsActive
    <2> QED
      BY <1>0, <2>1, <2>2, CalmOfPlace
  <1>5. CASE CreateFails(r) \/ Disconnect(r)
    <2>1. /\ rpc'[r] = "idle" \/ (rpc[r] \in {"create", "handles"} /\ rpc'[r] = "restore")
          /\ UNCHANGED <<row, registry, pc, cancelled, dones>>
      BY <1>0, <1>5, RequestGoes DEF CreateFails, Disconnect, taskVars
    <2>2. rpc'[r] = "restore" => row'.status = "running" /\ \A t \in Tasks : ~Working(t)
      BY <2>1 DEF CalmInv, StartInv
    <2>3. WorkInv' /\ ArchivedIsAtRest'
      BY <1>0, <2>1 DEF WorkInv, Working, ArchivedIsAtRest, IsActive
    <2> QED
      BY <1>0, <2>1, <2>2, <2>3, CalmOfPlace
  <1>6. CASE StartStop(r)
    BY <1>6 DEF StartStop, Calm
  <1> QED
    BY <1>1, <1>2, <1>3, <1>4, <1>5, <1>6

\* Requests of one transaction, and the end of the process.
LEMMA CalmOfTransaction ==
  ASSUME Calm, IInv, CalmInv,
         (\E m \in Messages : QueueNextMessage(m)) \/ CancelQueued \/ Organize \/ Crash
  PROVE  CalmInv'
  <1>0. TypeOK /\ row \in Rows /\ WorkInv /\ ArchivedIsAtRest
    BY DEF IInv, TypeOK, CalmInv
  <1>1. CASE (\E m \in Messages : QueueNextMessage(m)) \/ CancelQueued
    <2>1. /\ UNCHANGED <<registry, pc, cancelled, dones, rpc, rlocal>> /\ ~row.archived
          /\ row'.status = row.status /\ row'.task = row.task /\ row'.archived = row.archived
      BY <1>0, <1>1 DEF QueueNextMessage, CancelQueued, taskVars, requestVars, PutNextMessage,
           CancelNextMessage, CanPutNextMessage, CanCancelNextMessage, Rows, ArchivedIsAtRest
    <2>2. ArchivedIsAtRest'
      BY <2>1 DEF ArchivedIsAtRest
    <2> QED
      BY <1>0, <2>1, <2>2, CalmOfQuiet
  <1>2. CASE Organize
    <2>1. /\ UNCHANGED <<registry, pc, cancelled, dones, rpc, rlocal>>
          /\ row'.status = row.status /\ row'.task = row.task /\ row'.next = row.next
          /\ row'.archived => row.status \notin {"running", "waiting"} /\ row.next.state = "empty"
      BY <1>0, <1>2 DEF Organize, taskVars, requestVars, SetArchived, CanArchive, Rows
    <2>2. \A t \in Tasks : row'.archived => ~Working(t)
      BY <1>0, <2>1 DEF WorkInv
    <2>3. ArchivedIsAtRest'
      BY <2>1, <2>2 DEF ArchivedIsAtRest, IsActive, Working
    <2> QED
      BY <1>0, <2>1, <2>3, CalmOfQuiet
  <1>3. CASE Crash
    <2>1. /\ \A t \in Tasks : pc'[t] \in {"unused", "lost"} /\ dones'[t] = 0
          /\ \A r \in Requests : rpc'[r] = "idle"
          /\ cancelled' = {} /\ row' = row
      BY <1>3 DEF Crash
    <2>2. \A t \in Tasks : ~Working(t)' /\ ~IsActive(t)'
      BY <2>1 DEF Working, IsActive, Active, InTry
    <2>3. NoStopInv' /\ WorkInv' /\ StartInv' /\ ListenInv'
      BY <2>1, <2>2 DEF NoStopInv, WorkInv, StartInv, ListenInv
    <2>4. DoneInv'
      BY <2>1 DEF DoneInv
    <2>5. ArchivedIsAtRest'
      BY <1>0, <2>1, <2>2 DEF ArchivedIsAtRest
    <2> QED
      BY <2>3, <2>4, <2>5 DEF CalmInv
  <1> QED
    BY <1>1, <1>2, <1>3

\* A new session is at rest, and so is a branch with a queued message.
LEMMA CalmInit == Init => CalmInv
  <1> SUFFICES ASSUME Init PROVE CalmInv
    OBVIOUS
  <1>1. /\ cancelled = {} /\ \A r \in Requests : rpc[r] = "idle"
        /\ \A t \in Tasks : pc[t] = "unused" /\ dones[t] = 0
    BY DEF Init
  <1>2. ~row.archived
    <2>1. NewSession \in Rows /\ ~NewSession.archived
      BY EmptySlotType DEF NewSession, Rows, Statuses
    <2>2. UpdateStatus(NewSession, "completed") \in Rows
          /\ ~UpdateStatus(NewSession, "completed").archived
      BY <2>1, StatusUpdate DEF Statuses
    <2>3. \A m \in Messages : ~PutNextMessage(UpdateStatus(NewSession, "completed"), m).archived
      BY <2>2 DEF PutNextMessage, Rows
    <2> QED
      BY <2>1, <2>3 DEF Init
  <1> QED
    BY <1>1, <1>2 DEF CalmInv, NoStopInv, WorkInv, StartInv, ListenInv, DoneInv, ArchivedIsAtRest,
                      Working, Active, InTry

\* Every step keeps it.
LEMMA CalmStep ==
  ASSUME Calm, IInv, CalmInv, [Next]_vars
  PROVE  CalmInv'
  <1>0. TypeOK
    BY DEF IInv
  <1>1. ASSUME NEW r \in Requests, RequestStep(r) PROVE CalmInv'
    BY <1>1, CalmOfRequest
  <1>2. ASSUME NEW t \in Tasks, RunnerStep(t) PROVE CalmInv'
    BY <1>0, <1>2, CalmOfRunner
  <1>3. CASE ClientStep
    BY <1>3, CalmOfStart, CalmOfTransaction DEF ClientStep
  <1>4. CASE UNCHANGED vars
    <2>1. UNCHANGED <<row, registry, pc, cancelled, dones, rpc, rlocal>>
      BY <1>4 DEF vars, taskVars, requestVars
    <2> QED
      BY <2>1 DEF CalmInv, NoStopInv, WorkInv, StartInv, ListenInv, DoneInv, ArchivedIsAtRest,
                  Working, IsActive
  <1> QED
    BY <1>1, <1>2, <1>3, <1>4 DEF Next

\* With one polite client that stops nothing, and runners that do not fail
\* outside their flows: whatever else goes wrong, a runner at work is the row's,
\* registered, alone, and started once.
THEOREM CalmInvariant ==
  ASSUME Calm
  PROVE  Spec => []CalmInv
  <1>1. Init => CalmInv
    BY CalmInit
  <1>2. IInv /\ CalmInv /\ [Next]_vars => CalmInv'
    BY CalmStep
  <1> QED
    BY <1>1, <1>2, InductiveInvariant, PTL DEF Spec

\* A working runner is the task of a running row (claim_execution, finish,
\* SetRunning): there is one at a time, and no orphan check ends a live run.
THEOREM StatusAlwaysAuthoritative ==
  ASSUME Calm
  PROVE  Spec => []StatusIsAuthoritative
  <1>1. CalmInv => StatusIsAuthoritative
    BY DEF CalmInv, WorkInv, StatusIsAuthoritative, IsActive, Working
  <1> QED
    BY <1>1, CalmInvariant, PTL

\* The output stream of a task ends with at most one DoneEvent.
THEOREM OneDoneAlways ==
  ASSUME Calm
  PROVE  Spec => []OneDone
  <1>1. CalmInv => OneDone
    BY DEF CalmInv, DoneInv, OneDone
  <1> QED
    BY <1>1, CalmInvariant, PTL

\* What is archived does not run, wait, or hold a queued message.
THEOREM ArchivedStaysAtRest ==
  ASSUME Calm
  PROVE  Spec => []ArchivedIsAtRest
  <1>1. CalmInv => ArchivedIsAtRest
    BY DEF CalmInv
  <1> QED
    BY <1>1, CalmInvariant, PTL
============================================================================
