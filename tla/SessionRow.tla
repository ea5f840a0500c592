---------------------------- MODULE SessionRow ----------------------------
(* One row of the sessions table and the operations of DBSessionRepository *)
(* on it.  Each operation runs in one transaction that holds the row's      *)
(* lock, so it is an operator from a row to a row; the guards are the       *)
(* conditions under which the code does not raise.  Columns that no run     *)
(* decision reads (title, unread count, files, memories) are left out, and  *)
(* the event log is kept only as the one bit the interaction rules need.    *)

CONSTANTS
  Tasks,      \* ids of RedisStreamTask objects
  Messages,   \* user messages
  None        \* the database NULL / Python None

Statuses == {"pending", "running", "waiting", "completed"}

ASSUME NoneIsNoId ==
  None \notin Tasks /\ None \notin Messages /\ None \notin Statuses

\* The next_message column: NULL, or one NextMessage.
EmptySlot == [id |-> None, state |-> "empty", task |-> None]

Slots == [id    : Messages \cup {None},
          state : {"empty", "queued", "processing"},
          task  : Tasks \cup {None}]

Rows == [status      : Statuses,
         task        : Tasks \cup {None},   \* task_id
         next        : Slots,               \* next_message
         archived    : BOOLEAN,             \* archived_at is not NULL
         interaction : BOOLEAN]             \* the latest interaction is pending

\* A session as SessionService.create_session saves it.
NewSession == [status |-> "pending", task |-> None, next |-> EmptySlot,
               archived |-> FALSE, interaction |-> FALSE]

-----------------------------------------------------------------------------
(* Status and runtime handles *)

UpdateStatus(row, status) == [row EXCEPT !.status = status]

\* Faulty: the first task id is never overwritten.
UpdateHandlesOnce(row, task) ==
  IF row.task = None THEN [row EXCEPT !.task = task] ELSE row

UpdateRuntimeHandles(row, task) == [row EXCEPT !.task = task]

\* claim_execution: the row after it, and the status it returns.  None says
\* that the session was running already and nothing was claimed.
CanClaimExecution(row) == ~row.archived
ClaimExecution(row)    == UpdateStatus(row, "running")
PreviousStatus(row)    == IF row.status = "running" THEN None ELSE row.status

-----------------------------------------------------------------------------
(* The one-slot queue behind the active turn *)

\* Faulty: a claimed message may be replaced.
CanPutWhileClaimed(row) == ~row.archived /\ row.status = "running"

CanPutNextMessage(row) ==
  /\ ~row.archived
  /\ row.status = "running"
  /\ row.next.state # "processing"

PutNextMessage(row, m) ==
  [row EXCEPT !.next = [id |-> m, state |-> "queued", task |-> None]]

CanCancelNextMessage(row) == row.next.state = "queued"
CancelNextMessage(row)    == [row EXCEPT !.next = EmptySlot]

\* finish_or_claim_next_message raises unless the caller is the active task
\* and the slot is not another task's.
IsActiveTask(row, t) == row.status = "running" /\ row.task = t

MayFinish(row, t) == IsActiveTask(row, t) /\ row.next.state = "empty"

MayClaimNext(row, t) ==
  /\ IsActiveTask(row, t)
  /\ \/ row.next.state = "queued"
     \/ row.next.state = "processing" /\ row.next.task = t

ClaimNext(row, t) ==
  [row EXCEPT !.next = [id |-> row.next.id, state |-> "processing", task |-> t]]

CanConsumeNextMessage(row, m, t) ==
  row.next = [id |-> m, state |-> "processing", task |-> t]

\* Faulty: the consumed message stays in the slot.
ConsumeAndKeep(row)     == row
ConsumeNextMessage(row) == [row EXCEPT !.next = EmptySlot]

CanStartNextMessageRun(row) ==
  /\ ~row.archived
  /\ row.status = "completed"
  /\ row.next.state = "queued"

\* reset_processing_next_message: whoever holds the claim loses it.
ResetProcessing(row) ==
  IF row.next.state = "processing"
  THEN [row EXCEPT !.next = [id |-> row.next.id, state |-> "queued", task |-> None]]
  ELSE row

\* Faulty: the claim stays.
EndRunKeepClaim(row) == UpdateStatus(row, "completed")

\* The transaction shared by every way a run is ended from outside its flow.
EndRun(row) == UpdateStatus(ResetProcessing(row), "completed")

-----------------------------------------------------------------------------
(* Archiving, and the human-in-the-loop rule *)

\* Faulty: a session that waits for its user may be archived.
CanArchiveWaiting(row) == row.status # "running" /\ row.next.state = "empty"

CanArchive(row) ==
  row.status \notin {"running", "waiting"} /\ row.next.state = "empty"

SetArchived(row, archived) == [row EXCEPT !.archived = archived]

CanResolveInteraction(row) == row.interaction /\ row.status = "waiting"
ResolveInteraction(row)    == [row EXCEPT !.interaction = FALSE]
=============================================================================
