--------------------------- MODULE UnitOfWorkInv ---------------------------
(* The inductive invariant of UnitOfWork for undisturbed use. *)
EXTENDS UnitOfWork

Working(b) == fin[b] \in {"commit", "rollback", "close"}

\* A finalize task works on its own session, which the object still has.
OwnInv ==
  \A b \in Blocks :
    Working(b) => target[b] = b /\ db[UowOf[b]] = b

\* The places of coroutine and task go together.
PlaceInv ==
  \A b \in Blocks :
    /\ pc[b] \in {"fresh", "body"} <=> fin[b] = "none"
    /\ pc[b] = "fresh" => txn[b] = "none"
    /\ pc[b] = "left" <=> seen[b] # "none"
    /\ b \in raised => pc[b] \notin {"fresh", "body"}
    /\ b \in failed => fin[b] \in {"rollback", "close", "done"}
    /\ Working(b) /\ b \notin Cancellable => pc[b] = "exiting"

\* One block of an object is at work at a time, unless a cancelled exit let the
\* coroutine go on.
AloneInv ==
  \A a, b \in Blocks :
    UowOf[a] = UowOf[b] /\ pc[a] \in {"body", "exiting"} /\ pc[b] \in {"body", "exiting"} => a = b

\* What the session's transaction is at each place.
TxnInv ==
  \A b \in Blocks :
    /\ pc[b] = "body" => txn[b] \in {"none", "open"}
    /\ fin[b] = "commit" => txn[b] \in {"none", "open"} /\ b \notin raised \cup failed
    /\ fin[b] = "rollback" => b \in raised \cup failed
    /\ b \in raised => txn[b] # "committed" /\ fin[b] # "commit"
    /\ fin[b] \in {"close", "done"} /\ b \notin raised \cup failed =>
         txn[b] \in {"none", "committed"}
    /\ seen[b] = "returned" => fin[b] = "done" /\ b \notin raised \cup failed
    /\ fin[b] = "done" => b \in closed \cup failed

UowInv == TypeOK /\ BodyHasSession /\ OwnInv /\ PlaceInv /\ AloneInv /\ TxnInv
=============================================================================
