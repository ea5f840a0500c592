----------------------------- MODULE UnitOfWork -----------------------------
(* DBUnitOfWork: `async with uow` opens a database session, and __aexit__    *)
(* ends it in a task of its own, shielded from the cancellation of the       *)
(* coroutine.  The task reads self.db_session at each of its calls, and the  *)
(* coroutine, whose cancellation __aexit__ swallows, may meanwhile enter its *)
(* next block with the same object.                                          *)
EXTENDS Integers

CONSTANTS
  Blocks,       \* `async with` blocks; each opens a session, named by its block
  Uows,         \* DBUnitOfWork objects, each used by one coroutine
  UowOf,        \* the object that each block enters
  Cancellable,  \* the blocks whose exit may meet a cancellation
  Faults,       \* what else may go wrong, a subset of AllFaults
  None

AllFaults == {"bodyRaises", "commitFails", "rollbackFails", "closeFails"}

ASSUME UowAssumption ==
  /\ None \notin Blocks
  /\ UowOf \in [Blocks -> Uows]
  /\ Cancellable \subseteq Blocks
  /\ Faults \subseteq AllFaults

VARIABLES
  db,      \* db[o]: self.db_session of object o
  txn,     \* txn[b]: the transaction of b's session
  closed,  \* the blocks whose session was closed
  pc,      \* pc[b]: "fresh", in its "body", "exiting", or "left"
  raised,  \* the blocks whose body raised: exc_type
  fin,     \* fin[b]: what b's finalize task awaits
  target,  \* target[b]: the session it awaits it of
  failed,  \* the blocks whose finalize task raises
  seen     \* seen[b]: how the coroutine went on after the block   (history)

vars == <<db, txn, closed, pc, raised, fin, target, failed, seen>>

TypeOK ==
  /\ db \in [Uows -> Blocks \cup {None}]
  /\ txn \in [Blocks -> {"none", "open", "committed", "rolledback"}]
  /\ closed \in SUBSET Blocks
  /\ pc \in [Blocks -> {"fresh", "body", "exiting", "left"}]
  /\ raised \in SUBSET Blocks
  /\ fin \in [Blocks -> {"none", "commit", "rollback", "close", "done"}]
  /\ target \in [Blocks -> Blocks \cup {None}]
  /\ failed \in SUBSET Blocks
  /\ seen \in [Blocks -> {"none", "returned", "raised", "swallowed"}]

Init ==
  /\ db = [o \in Uows |-> None]
  /\ txn = [b \in Blocks |-> "none"]
  /\ closed = {}
  /\ pc = [b \in Blocks |-> "fresh"]
  /\ raised = {}
  /\ fin = [b \in Blocks |-> "none"]
  /\ target = [b \in Blocks |-> None]
  /\ failed = {}
  /\ seen = [b \in Blocks |-> "none"]

-----------------------------------------------------------------------------
(* The coroutine *)

\* __aenter__.  The blocks of one object follow each other.
Enter(b) ==
  /\ pc[b] = "fresh"
  /\ \A a \in Blocks : UowOf[a] = UowOf[b] => pc[a] \notin {"body", "exiting"}
  /\ db' = [db EXCEPT ![UowOf[b]] = b]
  /\ pc' = [pc EXCEPT ![b] = "body"]
  /\ UNCHANGED <<txn, closed, raised, fin, target, failed, seen>>

\* A statement of the body.  The repositories keep the session of the block,
\* and a session that has been closed or rolled back opens a transaction anew.
Execute(b) ==
  /\ pc[b] = "body"
  /\ txn[b] \in {"none", "rolledback"}
  /\ txn' = [txn EXCEPT ![b] = "open"]
  /\ UNCHANGED <<db, closed, pc, raised, fin, target, failed, seen>>

\* Faulty: what a body did before it raised is committed.
ExitCommitting(b, exc) ==
  /\ pc[b] = "body" /\ (exc => "bodyRaises" \in Faults)
  /\ pc' = [pc EXCEPT ![b] = "exiting"]
  /\ raised' = IF exc THEN raised \cup {b} ELSE raised
  /\ target' = [target EXCEPT ![b] = db[UowOf[b]]]
  /\ fin' = [fin EXCEPT ![b] = IF db[UowOf[b]] = None THEN "done" ELSE "commit"]
  /\ UNCHANGED <<db, txn, closed, failed, seen>>

\* __aexit__ starts the finalize task, whose first call comes before anything
\* that may wake the coroutine.  A cancellation in the body is an exception.
Exit(b, exc) ==
  /\ pc[b] = "body" /\ (exc => "bodyRaises" \in Faults)
  /\ pc' = [pc EXCEPT ![b] = "exiting"]
  /\ raised' = IF exc THEN raised \cup {b} ELSE raised
  /\ target' = [target EXCEPT ![b] = db[UowOf[b]]]
  /\ fin' = [fin EXCEPT ![b] = IF db[UowOf[b]] = None THEN "done"
                               ELSE IF exc THEN "rollback" ELSE "commit"]
  /\ UNCHANGED <<db, txn, closed, failed, seen>>

\* Faulty: the coroutine is not told of a failure.
ReturnBlind(b) ==
  /\ pc[b] = "exiting" /\ fin[b] = "done"
  /\ pc' = [pc EXCEPT ![b] = "left"]
  /\ seen' = [seen EXCEPT ![b] = IF b \in raised THEN "raised" ELSE "returned"]
  /\ UNCHANGED <<db, txn, closed, raised, fin, target, failed>>

\* The finalize task has ended, and the coroutine is told how.
Return(b) ==
  /\ pc[b] = "exiting" /\ fin[b] = "done"
  /\ pc' = [pc EXCEPT ![b] = "left"]
  /\ seen' = [seen EXCEPT ![b] = IF b \in raised \cup failed THEN "raised" ELSE "returned"]
  /\ UNCHANGED <<db, txn, closed, raised, fin, target, failed>>

\* The coroutine is cancelled at the shield, and goes on as if nothing was.
Swallow(b) ==
  /\ b \in Cancellable /\ pc[b] = "exiting"
  /\ pc' = [pc EXCEPT ![b] = "left"]
  /\ seen' = [seen EXCEPT ![b] = IF b \in raised THEN "raised" ELSE "swallowed"]
  /\ UNCHANGED <<db, txn, closed, raised, fin, target, failed>>

-----------------------------------------------------------------------------
(* The finalize task of a block *)

\* Its next call, `op`, is on the session that the object has now; on None it
\* raises, and that is its end.
CallNext(b, op) ==
  LET s == db[UowOf[b]] IN
  /\ fin' = [fin EXCEPT ![b] = IF s = None THEN "done" ELSE op]
  /\ target' = [target EXCEPT ![b] = s]

\* What an end of session s makes of its transaction.
Ended(s, how) == IF txn[s] = "open" THEN [txn EXCEPT ![s] = how] ELSE txn

\* Faulty: a committed session is not closed.
CommitOnly(b) ==
  /\ fin[b] = "commit"
  /\ txn' = Ended(target[b], "committed")
  /\ fin' = [fin EXCEPT ![b] = "done"]
  /\ UNCHANGED <<db, closed, pc, raised, target, failed, seen>>

CommitEnds(b) ==
  /\ fin[b] = "commit"
  /\ txn' = Ended(target[b], "committed")
  /\ CallNext(b, "close")
  /\ failed' = IF db[UowOf[b]] = None THEN failed \cup {b} ELSE failed
  /\ UNCHANGED <<db, closed, pc, raised, seen>>

\* Faulty: a failing commit ends the task.
CommitFailsBare(b) ==
  /\ fin[b] = "commit" /\ "commitFails" \in Faults
  /\ txn' \in {txn, Ended(target[b], "committed")}
  /\ failed' = failed \cup {b}
  /\ fin' = [fin EXCEPT ![b] = "done"]
  /\ UNCHANGED <<db, closed, pc, raised, target, seen>>

\* The commit raises, before or after it took effect; the task rolls back, and
\* raises in the end.
CommitFails(b) ==
  /\ fin[b] = "commit" /\ "commitFails" \in Faults
  /\ txn' \in {txn, Ended(target[b], "committed")}
  /\ failed' = failed \cup {b}
  /\ CallNext(b, "rollback")
  /\ UNCHANGED <<db, closed, pc, raised, seen>>

RollbackEnds(b) ==
  /\ fin[b] = "rollback"
  /\ txn' = Ended(target[b], "rolledback")
  /\ CallNext(b, "close")
  /\ failed' = IF db[UowOf[b]] = None THEN failed \cup {b} ELSE failed
  /\ UNCHANGED <<db, closed, pc, raised, seen>>

RollbackFails(b) ==
  /\ fin[b] = "rollback" /\ "rollbackFails" \in Faults
  /\ failed' = failed \cup {b}
  /\ CallNext(b, "close")
  /\ UNCHANGED <<db, txn, closed, pc, raised, seen>>

\* Closing a session discards what it has not committed.
CloseEnds(b) ==
  /\ fin[b] = "close"
  /\ txn' = Ended(target[b], "rolledback")
  /\ closed' = closed \cup {target[b]}
  /\ fin' = [fin EXCEPT ![b] = "done"]
  /\ db' = [db EXCEPT ![UowOf[b]] = None]
  /\ UNCHANGED <<pc, raised, target, failed, seen>>

\* close raises: by itself, or because somebody else is using the session.
CloseFails(b) ==
  /\ fin[b] = "close"
  /\ "closeFails" \in Faults \/ target[b] # b
  /\ failed' = failed \cup {b}
  /\ fin' = [fin EXCEPT ![b] = "done"]
  /\ db' = [db EXCEPT ![UowOf[b]] = None]
  /\ UNCHANGED <<txn, closed, pc, raised, target, seen>>

-----------------------------------------------------------------------------
FinalizeStep(b) ==
  \/ CommitEnds(b) \/ CommitFails(b) \/ RollbackEnds(b) \/ RollbackFails(b)
  \/ CloseEnds(b) \/ CloseFails(b)

CoroutineStep(b) ==
  \/ Enter(b) \/ Execute(b) \/ Return(b) \/ Swallow(b)
  \/ \E exc \in BOOLEAN : Exit(b, exc)

Next == \E b \in Blocks : CoroutineStep(b) \/ FinalizeStep(b)

Spec == Init /\ [][Next]_vars

\* A body comes to its end, the database answers, and asyncio resumes who waits.
Fairness ==
  \A b \in Blocks :
    WF_vars(FinalizeStep(b)) /\ WF_vars(Return(b)) /\ WF_vars(\E exc \in BOOLEAN : Exit(b, exc))

FairSpec == Spec /\ Fairness

-----------------------------------------------------------------------------
(* Properties *)

\* A block whose exit may be cancelled has an object of its own, as the claim of
\* get_sandbox and _safe_update_unread_count do.
Undisturbed ==
  \A b \in Cancellable, a \in Blocks : UowOf[a] = UowOf[b] => a = b

\* A block is one transaction, committed when the block returns.
Atomic == INSTANCE AtomicBlocks
ImplementsAtomic == Atomic!Spec

\* The body of a block works in the session of its object, until its own exit.
BodyHasSession == \A b \in Blocks : pc[b] = "body" => db[UowOf[b]] = b

\* What a block did before it raised is never committed.
RaisedIsUndone == \A b \in raised : txn[b] # "committed"

\* Whichever session the object has by then, the finalize task of a swallowed
\* cancellation closes the one of its block.
BackgroundCloses ==
  \A b \in Blocks :
    seen[b] = "swallowed" /\ fin[b] = "done" /\ b \notin failed => b \in closed

\* The close of every session that is opened is called, also when its commit or
\* its rollback fails: no connection and no row lock is kept.
SessionsEnd ==
  \A b \in Blocks : pc[b] = "body" ~> fin[b] = "close" /\ target[b] = b
=============================================================================
