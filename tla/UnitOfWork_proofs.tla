------------------------- MODULE UnitOfWork_proofs -------------------------
(* Undisturbed use of a unit of work makes each block one transaction.       *)
EXTENDS UnitOfWorkInv, TLAPS

-----------------------------------------------------------------------------
(* The invariant *)

\* It holds before any block is entered.
LEMMA UowInit == Init => UowInv
  BY UowAssumption DEF Init, UowInv, TypeOK, BodyHasSession, OwnInv, PlaceInv, AloneInv,
     TxnInv, Working

\* The steps of a coroutine keep it: entering a block replaces no session that
\* a finalize task still works on.
LEMMA CoroutineKeeps ==
  ASSUME Undisturbed, UowInv, NEW b \in Blocks, CoroutineStep(b)
  PROVE  UowInv'
  <1> USE UowAssumption DEF UowInv, TypeOK
  <1>1. CASE Enter(b)
    <2>1. \A a \in Blocks : UowOf[a] = UowOf[b] => ~Working(a)
      BY <1>1 DEF Enter, Undisturbed, Working, PlaceInv
    <2>2. TypeOK' /\ BodyHasSession' /\ AloneInv'
      BY <1>1 DEF Enter, BodyHasSession, AloneInv
    <2>3. OwnInv'
      BY <1>1, <2>1 DEF Enter, OwnInv, Working
    <2>4. PlaceInv' /\ TxnInv'
      BY <1>1 DEF Enter, PlaceInv, TxnInv, Working
    <2> QED
      BY <2>2, <2>3, <2>4
  <1>2. CASE Execute(b)
    BY <1>2 DEF Execute, BodyHasSession, OwnInv, PlaceInv, AloneInv, TxnInv, Working
  <1>3. ASSUME NEW exc \in BOOLEAN, Exit(b, exc)
        PROVE  UowInv'
    <2>1. db[UowOf[b]] = b /\ b # None
      BY <1>3 DEF Exit, BodyHasSession
    <2>2. fin' = [fin EXCEPT ![b] = IF exc THEN "rollback" ELSE "commit"]
      BY <1>3, <2>1 DEF Exit
    <2>3. TypeOK' /\ BodyHasSession' /\ AloneInv'
      BY <1>3, <2>1, <2>2 DEF Exit, BodyHasSession, AloneInv
    <2>4. OwnInv'
      BY <1>3, <2>1, <2>2 DEF Exit, OwnInv, Working
    <2>5. PlaceInv'
      BY <1>3, <2>1, <2>2 DEF Exit, PlaceInv, Working
    <2>6. TxnInv'
      BY <1>3, <2>1, <2>2 DEF Exit, PlaceInv, TxnInv
    <2> QED
      BY <2>3, <2>4, <2>5, <2>6
  <1>4. CASE Return(b)
    BY <1>4 DEF Return, BodyHasSession, OwnInv, PlaceInv, AloneInv, TxnInv, Working
  <1>5. CASE Swallow(b)
    BY <1>5 DEF Swallow, BodyHasSession, OwnInv, PlaceInv, AloneInv, TxnInv, Working
  <1> QED
    BY <1>1, <1>2, <1>3, <1>4, <1>5 DEF CoroutineStep

\* The steps of a finalize task keep it: its object has the session it ends.
LEMMA FinalizeKeeps ==
  ASSUME Undisturbed, UowInv, NEW b \in Blocks, FinalizeStep(b)
  PROVE  UowInv'
  <1> USE UowAssumption DEF UowInv, TypeOK, Ended, CallNext
  <1>1. target[b] = b /\ db[UowOf[b]] = b /\ b # None /\ pc[b] \notin {"fresh", "body"}
    BY DEF FinalizeStep, CommitEnds, CommitFails, RollbackEnds, RollbackFails, CloseEnds,
       CloseFails, OwnInv, PlaceInv, Working
  <1>2. \A a \in Blocks : UowOf[a] = UowOf[b] /\ a # b => pc[a] # "body" /\ ~Working(a)
    BY <1>1 DEF BodyHasSession, OwnInv
  <1>3. CASE CommitEnds(b)
    <2>1. TypeOK' /\ BodyHasSession' /\ AloneInv'
      BY <1>1, <1>3 DEF CommitEnds, BodyHasSession, AloneInv
    <2>2. OwnInv'
      BY <1>1, <1>3 DEF CommitEnds, OwnInv, Working
    <2>3. PlaceInv'
      BY <1>1, <1>3 DEF CommitEnds, PlaceInv, Working
    <2>4. TxnInv'
      BY <1>1, <1>3 DEF CommitEnds, TxnInv
    <2> QED
      BY <2>1, <2>2, <2>3, <2>4
  <1>4. CASE CommitFails(b)
    <2>1. TypeOK' /\ BodyHasSession' /\ AloneInv'
      BY <1>1, <1>4 DEF CommitFails, BodyHasSession, AloneInv
    <2>2. OwnInv'
      BY <1>1, <1>4 DEF CommitFails, OwnInv, Working
    <2>3. PlaceInv'
      BY <1>1, <1>4 DEF CommitFails, PlaceInv, Working
    <2>4. TxnInv'
      BY <1>1, <1>4 DEF CommitFails, TxnInv
    <2> QED
      BY <2>1, <2>2, <2>3, <2>4
  <1>5. CASE RollbackEnds(b)
    <2>1. TypeOK' /\ BodyHasSession' /\ AloneInv'
      BY <1>1, <1>5 DEF RollbackEnds, BodyHasSession, AloneInv
    <2>2. OwnInv'
      BY <1>1, <1>5 DEF RollbackEnds, OwnInv, Working
    <2>3. PlaceInv'
      BY <1>1, <1>5 DEF RollbackEnds, PlaceInv, Working
    <2>4. TxnInv'
      BY <1>1, <1>5 DEF RollbackEnds, TxnInv
    <2> QED
      BY <2>1, <2>2, <2>3, <2>4
  <1>6. CASE RollbackFails(b)
    <2>1. TypeOK' /\ BodyHasSession' /\ AloneInv'
      BY <1>1, <1>6 DEF RollbackFails, BodyHasSession, AloneInv
    <2>2. OwnInv'
      BY <1>1, <1>6 DEF RollbackFails, OwnInv, Working
    <2>3. PlaceInv'
      BY <1>1, <1>6 DEF RollbackFails, PlaceInv, Working
    <2>4. TxnInv'
      BY <1>1, <1>6 DEF RollbackFails, TxnInv
    <2> QED
      BY <2>1, <2>2, <2>3, <2>4
  <1>7. CASE CloseEnds(b)
    BY <1>1, <1>2, <1>7 DEF CloseEnds, BodyHasSession, OwnInv, PlaceInv, AloneInv, TxnInv,
       Working
  <1>8. CASE CloseFails(b)
    BY <1>1, <1>2, <1>8 DEF CloseFails, BodyHasSession, OwnInv, PlaceInv, AloneInv, TxnInv,
       Working
  <1> QED
    BY <1>3, <1>4, <1>5, <1>6, <1>7, <1>8 DEF FinalizeStep

LEMMA UowStep ==
  ASSUME Undisturbed, UowInv, [Next]_vars
  PROVE  UowInv'
  <1>1. CASE UNCHANGED vars
    BY <1>1 DEF vars, UowInv, TypeOK, BodyHasSession, OwnInv, PlaceInv, AloneInv, TxnInv,
       Working
  <1> QED
    BY <1>1, CoroutineKeeps, FinalizeKeeps DEF Next

\* The invariant holds as long as blocks are not disturbed by a cancelled exit:
\* each has its object, or no exit is cancelled.
THEOREM UowInvariant ==
  ASSUME Undisturbed
  PROVE  Spec => []UowInv
  <1>1. UowInv /\ [Next]_vars => UowInv'
    BY UowStep
  <1> QED
    BY <1>1, UowInit, PTL DEF Spec

-----------------------------------------------------------------------------
(* What it gives *)

\* The body of `async with uow` that raises leaves nothing behind.
THEOREM RaisedUndone ==
  ASSUME Undisturbed
  PROVE  Spec => []RaisedIsUndone
  <1>1. UowInv => RaisedIsUndone
    BY DEF UowInv, TypeOK, TxnInv, RaisedIsUndone
  <1> QED
    BY <1>1, UowInvariant, PTL

\* The background task of a cancelled __aexit__ closes the session of its
\* block, when each block has its object.
THEOREM BackgroundClosesOwn ==
  ASSUME Undisturbed
  PROVE  Spec => []BackgroundCloses
  <1>1. UowInv => BackgroundCloses
    BY DEF UowInv, TxnInv, BackgroundCloses
  <1> QED
    BY <1>1, UowInvariant, PTL

\* Each step of the unit of work is a step of the abstract transaction, or none.
LEMMA AtomicStep ==
  ASSUME UowInv, [Next]_vars
  PROVE  [Atomic!Next]_<<txn, seen>>
  <1> USE DEF UowInv, TypeOK
  <1>1. ASSUME NEW b \in Blocks, Execute(b)
        PROVE  Atomic!Begin(b)
    BY <1>1 DEF Execute, Atomic!Begin, PlaceInv, TxnInv
  <1>2. ASSUME NEW b \in Blocks, Return(b) \/ Swallow(b)
        PROVE  Atomic!Tell(b)
    BY <1>2 DEF Return, Swallow, Atomic!Tell, PlaceInv, TxnInv
  <1>3. ASSUME NEW b \in Blocks, CommitEnds(b) \/ CommitFails(b) \/ RollbackEnds(b) \/ CloseEnds(b)
        PROVE  Atomic!End(b) \/ UNCHANGED <<txn, seen>>
    BY <1>3 DEF CommitEnds, CommitFails, RollbackEnds, CloseEnds, Ended, OwnInv, Working,
       Atomic!End
  <1>4. ASSUME NEW b \in Blocks, Enter(b) \/ (\E exc \in BOOLEAN : Exit(b, exc))
                                 \/ RollbackFails(b) \/ CloseFails(b)
        PROVE  UNCHANGED <<txn, seen>>
    BY <1>4 DEF Enter, Exit, RollbackFails, CloseFails
  <1>5. CASE UNCHANGED vars
    BY <1>5 DEF vars
  <1> QED
    BY <1>1, <1>2, <1>3, <1>4, <1>5 DEF Next, CoroutineStep, FinalizeStep, Atomic!Next

\* A block of `async with uow` is one transaction, committed when it returns:
\* what every repository call in the services relies on.
THEOREM BlocksAreAtomic ==
  ASSUME Undisturbed
  PROVE  Spec => ImplementsAtomic
  <1>1. Init => Atomic!Init
    BY DEF Init, Atomic!Init
  <1>2. UowInv /\ [Next]_vars => [Atomic!Next]_<<txn, seen>>
    BY AtomicStep
  <1> QED
    BY <1>1, <1>2, UowInvariant, PTL DEF Spec, ImplementsAtomic, Atomic!Spec
=============================================================================
