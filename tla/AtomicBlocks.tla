---------------------------- MODULE AtomicBlocks ----------------------------
(* What the code that writes `async with uow:` relies on: the statements of  *)
(* a block are one transaction, which is committed when the block returns.   *)
CONSTANT Blocks

VARIABLES
  txn,   \* txn[b]: "none", "open", "committed" or "rolledback"
  seen   \* seen[b]: "none" while b runs, then how its coroutine went on

Init ==
  /\ txn = [b \in Blocks |-> "none"]
  /\ seen = [b \in Blocks |-> "none"]

\* The first statement of a block opens its transaction, and none reopens it.
Begin(b) ==
  /\ seen[b] = "none" /\ txn[b] = "none"
  /\ txn' = [txn EXCEPT ![b] = "open"]
  /\ UNCHANGED seen

End(b) ==
  /\ txn[b] = "open"
  /\ \E t \in {"committed", "rolledback"} : txn' = [txn EXCEPT ![b] = t]
  /\ UNCHANGED seen

\* The coroutine is told of a commit, of an error, or goes on without knowing.
Tell(b) ==
  /\ seen[b] = "none"
  /\ \E s \in {"returned", "raised", "swallowed"} :
       /\ s = "returned" => txn[b] \in {"none", "committed"}
       /\ seen' = [seen EXCEPT ![b] = s]
  /\ UNCHANGED txn

Next == \E b \in Blocks : Begin(b) \/ End(b) \/ Tell(b)

Spec == Init /\ [][Next]_<<txn, seen>>
=============================================================================
