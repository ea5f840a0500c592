------------------------ MODULE LazySandbox_proofs ------------------------
(* The sandbox of a session, for any number of runtimes, callers, containers *)
(* and files: one running sandbox, none leaked, the attachments in it.       *)
EXTENDS LazySandboxInv, TLAPS

\* A call that ends leaves the variables of the callers typed.
LEMMA LeaveType ==
  ASSUME SandboxTypeOK, NEW c \in Callers, NEW v \in Containers \cup {None}, Leave(c, v)
  PROVE  /\ lock' \in [Runtimes -> Callers \cup {None}]
         /\ pc' \in [Callers -> Pcs]
         /\ cand' \in [Callers -> Containers \cup {None}]
         /\ result' \in [Callers -> Containers \cup {None}]
  BY SandboxAssumption DEF SandboxTypeOK, Leave, Pcs

\* Destroying a container, or failing to, leaves Docker's state typed.
LEMMA DestroyType ==
  ASSUME SandboxTypeOK, NEW k \in Containers \cup {None}, DestroyContainer(k)
  PROVE  /\ docker' \in [Containers -> {"unused", "running", "gone"}]
         /\ k \in Containers => abandoned' \in SUBSET Containers
  BY DEF SandboxTypeOK, DestroyContainer

\* Every step of a caller keeps every variable typed.
LEMMA CallerTypes ==
  ASSUME SandboxTypeOK, CallerInv, NEW c \in Callers, CallerStep(c)
  PROVE  SandboxTypeOK'
  <1> DEFINE r == RuntimeOf[c]
  <1> r \in Runtimes
    BY SandboxAssumption
  <1> USE DEF SandboxTypeOK, hostVars, runtimeVars, fileVars, callerVars
  <1>1. CASE Call(c)
    BY <1>1 DEF Call, Pcs
  <1>2. CASE EnterCached(c)
    BY <1>2 DEF EnterCached, Enter, Pcs, Working
  <1>3. CASE EnterRestored(c)
    BY <1>3 DEF EnterRestored, Enter, Pcs, Working
  <1>4. CASE EnterMissing(c)
    BY <1>4 DEF EnterMissing, Enter, Pcs, Working
  <1>5. ASSUME NEW k \in Containers, Created(c, k)
        PROVE  SandboxTypeOK'
    BY <1>5 DEF Created, Pcs, Working
  <1>6. ASSUME NEW k \in Containers, CreatedInVain(c, k)
        PROVE  SandboxTypeOK'
    <2>1. docker' \in [Containers -> {"unused", "running", "gone"}]
      BY <1>6 DEF CreatedInVain
    <2>2. abandoned' \in SUBSET Containers
      BY <1>6 DEF CreatedInVain
    <2> QED
      BY <1>6, <2>1, <2>2, LeaveType DEF CreatedInVain
  <1>7. CASE CreateFails(c)
    <2>1. docker' \in [Containers -> {"unused", "running", "gone"}]
      BY <1>7 DEF CreateFails
    <2>2. abandoned' \in SUBSET Containers
      BY <1>7 DEF CreateFails
    <2> QED
      BY <1>7, <2>1, <2>2, LeaveType DEF CreateFails
  <1>8. CASE ClaimWins(c)
    BY <1>8 DEF ClaimWins, Pcs, Working
  <1>9. CASE ClaimLoses(c)
    <2>1. cand[c] \in Containers
      BY <1>9 DEF ClaimLoses, CallerInv
    <2>2. docker' \in [Containers -> {"unused", "running", "gone"}] /\ abandoned' \in SUBSET Containers
      BY <1>9, <2>1, DestroyType DEF ClaimLoses
    <2>3. CASE ~Leave(c, None)
      BY <1>9, <2>2, <2>3 DEF ClaimLoses, Pcs, Working
    <2>4. CASE Leave(c, None)
      BY <1>9, <2>2, <2>4, LeaveType DEF ClaimLoses
    <2> QED
      BY <1>9, <2>3, <2>4 DEF ClaimLoses
  <1>10. CASE ClaimFails(c)
    <2>1. cand[c] \in Containers
      BY <1>10 DEF ClaimFails, CallerInv
    <2>2. docker' \in [Containers -> {"unused", "running", "gone"}] /\ abandoned' \in SUBSET Containers
      BY <1>10, <2>1, DestroyType DEF ClaimFails
    <2> QED
      BY <1>10, <2>1, <2>2, LeaveType DEF ClaimFails
  <1>11. CASE EnsureSucceeds(c)
    BY <1>11 DEF EnsureSucceeds, Pcs, Working
  <1>12. CASE EnsureFails(c)
    BY <1>12, LeaveType DEF EnsureFails
  <1>13. ASSUME NEW f \in Files, UploadFile(c, f)
         PROVE  SandboxTypeOK'
    BY <1>13 DEF UploadFile
  <1>14. CASE UploadFails(c)
    <2>1. Missing(r) \subseteq Files
      BY DEF Missing
    <2>2. inside' \in [Containers -> SUBSET Files]
      BY <1>14, <2>1 DEF UploadFails
    <2> QED
      BY <1>14, <2>2, LeaveType DEF UploadFails
  <1>15. CASE ReturnSandbox(c)
    <2>1. prepared' \in [Runtimes -> BOOLEAN]
      BY <1>15 DEF ReturnSandbox
    <2> QED
      BY <1>15, <2>1, LeaveType DEF ReturnSandbox
  <1>16. CASE Cancel(c)
    <2>1. CASE Leave(c, None)
      BY <1>16, <2>1, LeaveType DEF Cancel
    <2>2. CASE ~Leave(c, None)
      BY <1>16, <2>2 DEF Cancel, Pcs, Working
    <2> QED
      BY <1>16, <2>1, <2>2 DEF Cancel
  <1> QED
    BY <1>1, <1>2, <1>3, <1>4, <1>5, <1>6, <1>7, <1>8, <1>9, <1>10, <1>11, <1>12,
       <1>13, <1>14, <1>15, <1>16 DEF CallerStep, EnterLock, Proceed

\* Every step of a runtime or of the outside keeps every variable typed.
LEMMA OutsideTypes ==
  ASSUME SandboxTypeOK, OutsideStep
  PROVE  SandboxTypeOK'
  <1> USE DEF SandboxTypeOK, hostVars, runtimeVars, fileVars, callerVars
  <1>1. ASSUME NEW r \in Runtimes, OpenRuntime(r)
        PROVE  SandboxTypeOK'
    BY <1>1 DEF OpenRuntime
  <1>2. ASSUME NEW r \in Runtimes, Destroy(r)
        PROVE  SandboxTypeOK'
    <2>1. box[r] \in Containers
      BY <1>2 DEF Destroy
    <2>2. docker' \in [Containers -> {"unused", "running", "gone"}] /\ abandoned' \in SUBSET Containers
      BY <1>2, <2>1, DestroyType DEF Destroy
    <2> QED
      BY <1>2, <2>2 DEF Destroy
  <1>3. ASSUME NEW r \in Runtimes, NEW files \in SUBSET Files, SetManifest(r, files)
        PROVE  SandboxTypeOK'
    BY <1>3 DEF SetManifest
  <1>4. ASSUME NEW k \in Containers, Expire(k)
        PROVE  SandboxTypeOK'
    BY <1>4 DEF Expire
  <1>5. CASE Crash
    <2>1. abandoned' \in SUBSET Containers
      BY <1>5 DEF Crash
    <2>2. life' \in [Runtimes -> {"unborn", "live", "dead"}]
      BY <1>5 DEF Crash
    <2> QED
      BY <1>5, <2>1, <2>2 DEF Crash, Pcs
  <1> QED
    BY <1>1, <1>2, <1>3, <1>4, <1>5 DEF OutsideStep

-----------------------------------------------------------------------------
(* What no step does *)

\* A container that was created never comes back to life, and loses no file.
ContainersAge ==
  \A k \in Containers :
    /\ docker[k] # "unused" => docker'[k] \in {docker[k], "gone"}
    /\ inside[k] \subseteq inside'[k]

\* A step of a caller ages the containers.
LEMMA CallerAges ==
  ASSUME SandboxTypeOK, CallerInv, NEW c \in Callers, CallerStep(c)
  PROVE  ContainersAge
  <1> USE DEF SandboxTypeOK, ContainersAge, hostVars
  <1>1. CASE Call(c) \/ EnterLock(c) \/ Cancel(c)
    BY <1>1 DEF Call, EnterLock, EnterCached, EnterRestored, EnterMissing, Enter, Cancel
  <1>2. ASSUME NEW k \in Containers, Created(c, k) \/ CreatedInVain(c, k)
        PROVE  ContainersAge
    BY <1>2 DEF Created, CreatedInVain
  <1>3. CASE CreateFails(c)
    BY <1>3 DEF CreateFails
  <1>4. CASE ClaimWins(c) \/ EnsureSucceeds(c) \/ EnsureFails(c) \/ ReturnSandbox(c)
    BY <1>4 DEF ClaimWins, EnsureSucceeds, EnsureFails, ReturnSandbox
  <1>5. CASE ClaimLoses(c) \/ ClaimFails(c)
    BY <1>5 DEF ClaimLoses, ClaimFails, DestroyContainer
  <1>6. ASSUME NEW f \in Files, UploadFile(c, f)
        PROVE  ContainersAge
    BY <1>6 DEF UploadFile
  <1>7. CASE UploadFails(c)
    BY <1>7 DEF UploadFails
  <1> QED
    BY <1>1, <1>2, <1>3, <1>4, <1>5, <1>6, <1>7 DEF CallerStep, Proceed

\* So does every other step.
LEMMA OutsideAges ==
  ASSUME SandboxTypeOK, OutsideStep
  PROVE  ContainersAge
  <1> USE DEF SandboxTypeOK, ContainersAge, hostVars
  <1>1. ASSUME NEW r \in Runtimes, OpenRuntime(r)
        PROVE  ContainersAge
    BY <1>1 DEF OpenRuntime
  <1>2. ASSUME NEW r \in Runtimes, Destroy(r)
        PROVE  ContainersAge
    BY <1>2 DEF Destroy, DestroyContainer
  <1>3. ASSUME NEW r \in Runtimes, NEW files \in SUBSET Files, SetManifest(r, files)
        PROVE  ContainersAge
    BY <1>3 DEF SetManifest
  <1>4. ASSUME NEW k \in Containers, Expire(k)
        PROVE  ContainersAge
    BY <1>4 DEF Expire
  <1>5. CASE Crash
    BY <1>5 DEF Crash
  <1> QED
    BY <1>1, <1>2, <1>3, <1>4, <1>5 DEF OutsideStep

-----------------------------------------------------------------------------
(* Each part of the invariant, by the steps of callers and by the others *)

\* A caller's step leaves the lock with whoever works under it.
LEMMA LockInvOfCaller ==
  ASSUME SandboxTypeOK, LockInv, NEW c \in Callers, CallerStep(c)
  PROVE  LockInv'
  <1> USE SandboxAssumption DEF SandboxTypeOK, hostVars, runtimeVars, fileVars, callerVars, LockInv, Working
  <1>1. CASE Call(c) \/ EnterLock(c)
    BY <1>1 DEF Call, EnterLock, EnterCached, EnterRestored, EnterMissing,
           Enter, GetFinds, GetMisses
  <1>2. ASSUME NEW k \in Containers, Created(c, k) \/ CreatedInVain(c, k)
        PROVE  LockInv'
    BY <1>2 DEF Created, CreatedInVain, Leave
  <1>3. CASE CreateFails(c)
    BY <1>3 DEF CreateFails, Leave
  <1>4. CASE ClaimWins(c)
    BY <1>4 DEF ClaimWins, CanClaim
  <1>5. CASE ClaimLoses(c)
    BY <1>5 DEF ClaimLoses, CanClaim, Leave, GetFinds, GetMisses,
           DestroyContainer
  <1>6. CASE ClaimFails(c)
    BY <1>6 DEF ClaimFails, CanClaim, Leave, DestroyContainer
  <1>7. CASE EnsureSucceeds(c) \/ EnsureFails(c)
    BY <1>7 DEF EnsureSucceeds, EnsureFails, Leave
  <1>8. ASSUME NEW f \in Files, UploadFile(c, f)
        PROVE  LockInv'
    BY <1>8 DEF UploadFile, Missing
  <1>9. CASE UploadFails(c) \/ ReturnSandbox(c)
    BY <1>9 DEF UploadFails, ReturnSandbox, Leave, Missing
  <1>10. CASE Cancel(c)
    BY <1>10 DEF Cancel, Leave
  <1> QED
    BY <1>1, <1>2, <1>3, <1>4, <1>5, <1>6, <1>7, <1>8, <1>9, <1>10 DEF CallerStep, Proceed

\* So does every other step: a crash ends the callers with the locks.
LEMMA LockInvOfOutside ==
  ASSUME SandboxTypeOK, LockInv, OutsideStep
  PROVE  LockInv'
  <1> USE SandboxAssumption DEF SandboxTypeOK, hostVars, runtimeVars, fileVars, callerVars, LockInv, Working
  <1>1. ASSUME NEW r \in Runtimes, OpenRuntime(r)
        PROVE  LockInv'
    BY <1>1 DEF OpenRuntime
  <1>2. ASSUME NEW r \in Runtimes, Destroy(r)
        PROVE  LockInv'
    BY <1>2 DEF Destroy, DestroyContainer
  <1>3. ASSUME NEW r \in Runtimes, NEW files \in SUBSET Files, SetManifest(r, files)
        PROVE  LockInv'
    BY <1>3 DEF SetManifest
  <1>4. ASSUME NEW k \in Containers, Expire(k)
        PROVE  LockInv'
    BY <1>4 DEF Expire
  <1>5. CASE Crash
    BY <1>5 DEF Crash
  <1> QED
    BY <1>1, <1>2, <1>3, <1>4, <1>5 DEF OutsideStep

\* A caller has what its next program point needs.
LEMMA CallerInvOfCaller ==
  ASSUME SandboxTypeOK, LockInv, CallerInv, NEW c \in Callers, CallerStep(c)
  PROVE  CallerInv'
  <1> USE SandboxAssumption DEF SandboxTypeOK, hostVars, runtimeVars, fileVars, callerVars, LockInv, CallerInv, Working, Pcs
  <1>1. CASE Call(c) \/ EnterLock(c)
    BY <1>1 DEF Call, EnterLock, EnterCached, EnterRestored, EnterMissing,
           Enter, GetFinds, GetMisses
  <1>2. ASSUME NEW k \in Containers, Created(c, k) \/ CreatedInVain(c, k)
        PROVE  CallerInv'
    BY <1>2 DEF Created, CreatedInVain, Leave
  <1>3. CASE CreateFails(c)
    BY <1>3 DEF CreateFails, Leave
  <1>4. CASE ClaimWins(c)
    BY <1>4 DEF ClaimWins, CanClaim
  <1>5. CASE ClaimLoses(c)
    BY <1>5 DEF ClaimLoses, CanClaim, Leave, GetFinds, GetMisses,
           DestroyContainer
  <1>6. CASE ClaimFails(c)
    BY <1>6 DEF ClaimFails, CanClaim, Leave, DestroyContainer
  <1>7. CASE EnsureSucceeds(c) \/ EnsureFails(c)
    BY <1>7 DEF EnsureSucceeds, EnsureFails, Leave
  <1>8. ASSUME NEW f \in Files, UploadFile(c, f)
        PROVE  CallerInv'
    BY <1>8 DEF UploadFile, Missing
  <1>9. CASE UploadFails(c) \/ ReturnSandbox(c)
    BY <1>9 DEF UploadFails, ReturnSandbox, Leave, Missing
  <1>10. CASE Cancel(c)
    BY <1>10 DEF Cancel, Leave
  <1> QED
    BY <1>1, <1>2, <1>3, <1>4, <1>5, <1>6, <1>7, <1>8, <1>9, <1>10 DEF CallerStep, Proceed

\* A sandbox is only destroyed while nobody works with it.
LEMMA CallerInvOfOutside ==
  ASSUME SandboxTypeOK, LockInv, CallerInv, OutsideStep
  PROVE  CallerInv'
  <1> USE SandboxAssumption DEF SandboxTypeOK, hostVars, runtimeVars, fileVars, callerVars, LockInv, CallerInv, Working, Pcs
  <1>1. ASSUME NEW r \in Runtimes, OpenRuntime(r)
        PROVE  CallerInv'
    BY <1>1 DEF OpenRuntime
  <1>2. ASSUME NEW r \in Runtimes, Destroy(r)
        PROVE  CallerInv'
    BY <1>2 DEF Destroy, DestroyContainer
  <1>3. ASSUME NEW r \in Runtimes, NEW files \in SUBSET Files, SetManifest(r, files)
        PROVE  CallerInv'
    BY <1>3 DEF SetManifest
  <1>4. ASSUME NEW k \in Containers, Expire(k)
        PROVE  CallerInv'
    BY <1>4 DEF Expire
  <1>5. CASE Crash
    BY <1>5 DEF Crash
  <1> QED
    BY <1>1, <1>2, <1>3, <1>4, <1>5 DEF OutsideStep

\* A caller remembers only containers that were created.
LEMMA CreatedInvOfCaller ==
  ASSUME SandboxTypeOK, CallerInv, CreatedInv, ContainersAge, NEW c \in Callers, CallerStep(c)
  PROVE  CreatedInv'
  <1> USE SandboxAssumption DEF SandboxTypeOK, hostVars, runtimeVars, fileVars, callerVars, CallerInv, CreatedInv, ContainersAge
  <1>1. CASE Call(c) \/ EnterLock(c)
    BY <1>1 DEF Call, EnterLock, EnterCached, EnterRestored, EnterMissing,
           Enter, GetFinds, GetMisses
  <1>2. ASSUME NEW k \in Containers, Created(c, k) \/ CreatedInVain(c, k)
        PROVE  CreatedInv'
    BY <1>2 DEF Created, CreatedInVain, Leave
  <1>3. CASE CreateFails(c)
    BY <1>3 DEF CreateFails, Leave
  <1>4. CASE ClaimWins(c)
    BY <1>4 DEF ClaimWins, CanClaim
  <1>5. CASE ClaimLoses(c)
    BY <1>5 DEF ClaimLoses, CanClaim, Leave, GetFinds, GetMisses,
           DestroyContainer
  <1>6. CASE ClaimFails(c)
    BY <1>6 DEF ClaimFails, CanClaim, Leave, DestroyContainer
  <1>7. CASE EnsureSucceeds(c) \/ EnsureFails(c)
    BY <1>7 DEF EnsureSucceeds, EnsureFails, Leave
  <1>8. ASSUME NEW f \in Files, UploadFile(c, f)
        PROVE  CreatedInv'
    BY <1>8 DEF UploadFile, Missing
  <1>9. CASE UploadFails(c) \/ ReturnSandbox(c)
    BY <1>9 DEF UploadFails, ReturnSandbox, Leave, Missing
  <1>10. CASE Cancel(c)
    BY <1>10 DEF Cancel, Leave
  <1> QED
    BY <1>1, <1>2, <1>3, <1>4, <1>5, <1>6, <1>7, <1>8, <1>9, <1>10 DEF CallerStep, Proceed

\* So does every other step.
LEMMA CreatedInvOfOutside ==
  ASSUME SandboxTypeOK, CallerInv, CreatedInv, ContainersAge, OutsideStep
  PROVE  CreatedInv'
  <1> USE SandboxAssumption DEF SandboxTypeOK, hostVars, runtimeVars, fileVars, callerVars, CallerInv, CreatedInv, ContainersAge
  <1>1. ASSUME NEW r \in Runtimes, OpenRuntime(r)
        PROVE  CreatedInv'
    BY <1>1 DEF OpenRuntime
  <1>2. ASSUME NEW r \in Runtimes, Destroy(r)
        PROVE  CreatedInv'
    BY <1>2 DEF Destroy, DestroyContainer
  <1>3. ASSUME NEW r \in Runtimes, NEW files \in SUBSET Files, SetManifest(r, files)
        PROVE  CreatedInv'
    BY <1>3 DEF SetManifest
  <1>4. ASSUME NEW k \in Containers, Expire(k)
        PROVE  CreatedInv'
    BY <1>4 DEF Expire
  <1>5. CASE Crash
    BY <1>5 DEF Crash
  <1> QED
    BY <1>1, <1>2, <1>3, <1>4, <1>5 DEF OutsideStep

\* What a caller comes to know runs only if it is the session's: it read it
\* from the row, or has just written it there in place of a dead one.
LEMMA KnownInvOfCaller ==
  ASSUME "getFails" \notin Faults, SandboxTypeOK, CallerInv, CreatedInv, KnownInv, ReplacingInv, NEW c \in Callers, CallerStep(c)
  PROVE  KnownInv'
  <1> USE SandboxAssumption DEF SandboxTypeOK, hostVars, runtimeVars, fileVars, callerVars, CallerInv, CreatedInv, KnownInv, ReplacingInv, Dead
  <1>1. CASE Call(c) \/ EnterLock(c)
    BY <1>1 DEF Call, EnterLock, EnterCached, EnterRestored, EnterMissing,
           Enter, GetFinds, GetMisses
  <1>2. ASSUME NEW k \in Containers, Created(c, k) \/ CreatedInVain(c, k)
        PROVE  KnownInv'
    BY <1>2 DEF Created, CreatedInVain, Leave
  <1>3. CASE CreateFails(c)
    BY <1>3 DEF CreateFails, Leave
  <1>4. CASE ClaimWins(c)
    BY <1>4 DEF ClaimWins, CanClaim
  <1>5. CASE ClaimLoses(c)
    BY <1>5 DEF ClaimLoses, CanClaim, Leave, GetFinds, GetMisses,
           DestroyContainer
  <1>6. CASE ClaimFails(c)
    BY <1>6 DEF ClaimFails, CanClaim, Leave, DestroyContainer
  <1>7. CASE EnsureSucceeds(c) \/ EnsureFails(c)
    BY <1>7 DEF EnsureSucceeds, EnsureFails, Leave
  <1>8. ASSUME NEW f \in Files, UploadFile(c, f)
        PROVE  KnownInv'
    BY <1>8 DEF UploadFile, Missing
  <1>9. CASE UploadFails(c) \/ ReturnSandbox(c)
    BY <1>9 DEF UploadFails, ReturnSandbox, Leave, Missing
  <1>10. CASE Cancel(c)
    BY <1>10 DEF Cancel, Leave
  <1> QED
    BY <1>1, <1>2, <1>3, <1>4, <1>5, <1>6, <1>7, <1>8, <1>9, <1>10 DEF CallerStep, Proceed

\* A new runtime knows the session's container.
LEMMA KnownInvOfOutside ==
  ASSUME "getFails" \notin Faults, SandboxTypeOK, CallerInv, CreatedInv, KnownInv, ReplacingInv, OutsideStep
  PROVE  KnownInv'
  <1> USE SandboxAssumption DEF SandboxTypeOK, hostVars, runtimeVars, fileVars, callerVars, CallerInv, CreatedInv, KnownInv, ReplacingInv, Dead
  <1>1. ASSUME NEW r \in Runtimes, OpenRuntime(r)
        PROVE  KnownInv'
    BY <1>1 DEF OpenRuntime
  <1>2. ASSUME NEW r \in Runtimes, Destroy(r)
        PROVE  KnownInv'
    BY <1>2 DEF Destroy, DestroyContainer
  <1>3. ASSUME NEW r \in Runtimes, NEW files \in SUBSET Files, SetManifest(r, files)
        PROVE  KnownInv'
    BY <1>3 DEF SetManifest
  <1>4. ASSUME NEW k \in Containers, Expire(k)
        PROVE  KnownInv'
    BY <1>4 DEF Expire
  <1>5. CASE Crash
    BY <1>5 DEF Crash
  <1> QED
    BY <1>1, <1>2, <1>3, <1>4, <1>5 DEF OutsideStep

\* A caller that goes on to create has found the known container dead, and
\* the lock keeps others from learning of another one.
LEMMA ReplacingInvOfCaller ==
  ASSUME "getFails" \notin Faults, SandboxTypeOK, LockInv, CallerInv, CreatedInv, ReplacingInv, NEW c \in Callers, CallerStep(c)
  PROVE  ReplacingInv'
  <1> USE SandboxAssumption DEF SandboxTypeOK, hostVars, runtimeVars, fileVars, callerVars, LockInv, Working, CallerInv, CreatedInv, ReplacingInv, Dead
  <1>1. CASE Call(c) \/ EnterLock(c)
    BY <1>1 DEF Call, EnterLock, EnterCached, EnterRestored, EnterMissing,
           Enter, GetFinds, GetMisses
  <1>2. ASSUME NEW k \in Containers, Created(c, k) \/ CreatedInVain(c, k)
        PROVE  ReplacingInv'
    BY <1>2 DEF Created, CreatedInVain, Leave
  <1>3. CASE CreateFails(c)
    BY <1>3 DEF CreateFails, Leave
  <1>4. CASE ClaimWins(c)
    BY <1>4 DEF ClaimWins, CanClaim
  <1>5. CASE ClaimLoses(c)
    BY <1>5 DEF ClaimLoses, CanClaim, Leave, GetFinds, GetMisses,
           DestroyContainer
  <1>6. CASE ClaimFails(c)
    BY <1>6 DEF ClaimFails, CanClaim, Leave, DestroyContainer
  <1>7. CASE EnsureSucceeds(c) \/ EnsureFails(c)
    BY <1>7 DEF EnsureSucceeds, EnsureFails, Leave
  <1>8. ASSUME NEW f \in Files, UploadFile(c, f)
        PROVE  ReplacingInv'
    BY <1>8 DEF UploadFile, Missing
  <1>9. CASE UploadFails(c) \/ ReturnSandbox(c)
    BY <1>9 DEF UploadFails, ReturnSandbox, Leave, Missing
  <1>10. CASE Cancel(c)
    BY <1>10 DEF Cancel, Leave
  <1> QED
    BY <1>1, <1>2, <1>3, <1>4, <1>5, <1>6, <1>7, <1>8, <1>9, <1>10 DEF CallerStep, Proceed

\* Death is for good.
LEMMA ReplacingInvOfOutside ==
  ASSUME "getFails" \notin Faults, SandboxTypeOK, LockInv, CallerInv, CreatedInv, ReplacingInv, OutsideStep
  PROVE  ReplacingInv'
  <1> USE SandboxAssumption DEF SandboxTypeOK, hostVars, runtimeVars, fileVars, callerVars, LockInv, Working, CallerInv, CreatedInv, ReplacingInv, Dead
  <1>1. ASSUME NEW r \in Runtimes, OpenRuntime(r)
        PROVE  ReplacingInv'
    BY <1>1 DEF OpenRuntime
  <1>2. ASSUME NEW r \in Runtimes, Destroy(r)
        PROVE  ReplacingInv'
    BY <1>2 DEF Destroy, DestroyContainer
  <1>3. ASSUME NEW r \in Runtimes, NEW files \in SUBSET Files, SetManifest(r, files)
        PROVE  ReplacingInv'
    BY <1>3 DEF SetManifest
  <1>4. ASSUME NEW k \in Containers, Expire(k)
        PROVE  ReplacingInv'
    BY <1>4 DEF Expire
  <1>5. CASE Crash
    BY <1>5 DEF Crash
  <1> QED
    BY <1>1, <1>2, <1>3, <1>4, <1>5 DEF OutsideStep

\* What the materializer records is in the sandbox.
LEMMA FilesInvOfCaller ==
  ASSUME SandboxTypeOK, CallerInv, FilesInv, NEW c \in Callers, CallerStep(c)
  PROVE  FilesInv'
  <1> USE SandboxAssumption DEF SandboxTypeOK, hostVars, runtimeVars, fileVars, callerVars, CallerInv, FilesInv
  <1>1. CASE Call(c) \/ EnterLock(c)
    BY <1>1 DEF Call, EnterLock, EnterCached, EnterRestored, EnterMissing,
           Enter, GetFinds, GetMisses
  <1>2. ASSUME NEW k \in Containers, Created(c, k) \/ CreatedInVain(c, k)
        PROVE  FilesInv'
    BY <1>2 DEF Created, CreatedInVain, Leave
  <1>3. CASE CreateFails(c)
    BY <1>3 DEF CreateFails, Leave
  <1>4. CASE ClaimWins(c)
    BY <1>4 DEF ClaimWins, CanClaim
  <1>5. CASE ClaimLoses(c)
    BY <1>5 DEF ClaimLoses, CanClaim, Leave, GetFinds, GetMisses,
           DestroyContainer
  <1>6. CASE ClaimFails(c)
    BY <1>6 DEF ClaimFails, CanClaim, Leave, DestroyContainer
  <1>7. CASE EnsureSucceeds(c) \/ EnsureFails(c)
    BY <1>7 DEF EnsureSucceeds, EnsureFails, Leave
  <1>8. ASSUME NEW f \in Files, UploadFile(c, f)
        PROVE  FilesInv'
    BY <1>8 DEF UploadFile, Missing
  <1>9. CASE UploadFails(c) \/ ReturnSandbox(c)
    BY <1>9 DEF UploadFails, ReturnSandbox, Leave, Missing
  <1>10. CASE Cancel(c)
    BY <1>10 DEF Cancel, Leave
  <1> QED
    BY <1>1, <1>2, <1>3, <1>4, <1>5, <1>6, <1>7, <1>8, <1>9, <1>10 DEF CallerStep, Proceed

\* A destroyed sandbox is forgotten with the record of its files.
LEMMA FilesInvOfOutside ==
  ASSUME SandboxTypeOK, CallerInv, FilesInv, OutsideStep
  PROVE  FilesInv'
  <1> USE SandboxAssumption DEF SandboxTypeOK, hostVars, runtimeVars, fileVars, callerVars, CallerInv, FilesInv
  <1>1. ASSUME NEW r \in Runtimes, OpenRuntime(r)
        PROVE  FilesInv'
    BY <1>1 DEF OpenRuntime
  <1>2. ASSUME NEW r \in Runtimes, Destroy(r)
        PROVE  FilesInv'
    BY <1>2 DEF Destroy, DestroyContainer
  <1>3. ASSUME NEW r \in Runtimes, NEW files \in SUBSET Files, SetManifest(r, files)
        PROVE  FilesInv'
    BY <1>3 DEF SetManifest
  <1>4. ASSUME NEW k \in Containers, Expire(k)
        PROVE  FilesInv'
    BY <1>4 DEF Expire
  <1>5. CASE Crash
    BY <1>5 DEF Crash
  <1> QED
    BY <1>1, <1>2, <1>3, <1>4, <1>5 DEF OutsideStep

\* A caller that lets go of a running container has handed it to the session,
\* or a fault has kept it from destroying it.
LEMMA NoLeakOfCaller ==
  ASSUME "getFails" \notin Faults, SandboxTypeOK, CallerInv, ReplacingInv, NoLeak, NEW c \in Callers, CallerStep(c)
  PROVE  NoLeak'
  <1> USE SandboxAssumption DEF SandboxTypeOK, hostVars, runtimeVars, fileVars, callerVars, CallerInv, ReplacingInv, NoLeak, Dead
  <1>1. CASE Call(c) \/ EnterLock(c)
    BY <1>1 DEF Call, EnterLock, EnterCached, EnterRestored, EnterMissing,
           Enter, GetFinds, GetMisses
  <1>2. ASSUME NEW k \in Containers, Created(c, k) \/ CreatedInVain(c, k)
        PROVE  NoLeak'
    BY <1>2 DEF Created, CreatedInVain, Leave
  <1>3. CASE CreateFails(c)
    BY <1>3 DEF CreateFails, Leave
  <1>4. CASE ClaimWins(c)
    BY <1>4 DEF ClaimWins, CanClaim
  <1>5. CASE ClaimLoses(c)
    BY <1>5 DEF ClaimLoses, CanClaim, Leave, GetFinds, GetMisses,
           DestroyContainer
  <1>6. CASE ClaimFails(c)
    BY <1>6 DEF ClaimFails, CanClaim, Leave, DestroyContainer
  <1>7. CASE EnsureSucceeds(c) \/ EnsureFails(c)
    BY <1>7 DEF EnsureSucceeds, EnsureFails, Leave
  <1>8. ASSUME NEW f \in Files, UploadFile(c, f)
        PROVE  NoLeak'
    BY <1>8 DEF UploadFile, Missing
  <1>9. CASE UploadFails(c) \/ ReturnSandbox(c)
    BY <1>9 DEF UploadFails, ReturnSandbox, Leave, Missing
  <1>10. CASE Cancel(c)
    BY <1>10 DEF Cancel, Leave
  <1> QED
    BY <1>1, <1>2, <1>3, <1>4, <1>5, <1>6, <1>7, <1>8, <1>9, <1>10 DEF CallerStep, Proceed

\* A crash abandons the candidates, and no other step drops one.
LEMMA NoLeakOfOutside ==
  ASSUME "getFails" \notin Faults, SandboxTypeOK, CallerInv, ReplacingInv, NoLeak, OutsideStep
  PROVE  NoLeak'
  <1> USE SandboxAssumption DEF SandboxTypeOK, hostVars, runtimeVars, fileVars, callerVars, CallerInv, ReplacingInv, NoLeak, Dead
  <1>1. ASSUME NEW r \in Runtimes, OpenRuntime(r)
        PROVE  NoLeak'
    BY <1>1 DEF OpenRuntime
  <1>2. ASSUME NEW r \in Runtimes, Destroy(r)
        PROVE  NoLeak'
    BY <1>2 DEF Destroy, DestroyContainer
  <1>3. ASSUME NEW r \in Runtimes, NEW files \in SUBSET Files, SetManifest(r, files)
        PROVE  NoLeak'
    BY <1>3 DEF SetManifest
  <1>4. ASSUME NEW k \in Containers, Expire(k)
        PROVE  NoLeak'
    BY <1>4 DEF Expire
  <1>5. CASE Crash
    BY <1>5 DEF Crash
  <1> QED
    BY <1>1, <1>2, <1>3, <1>4, <1>5 DEF OutsideStep

\* A call returns when no file of the manifest is missing.
LEMMA FilesAreThereOfCaller ==
  ASSUME SandboxTypeOK, CallerInv, FilesInv, FilesAreThere, NEW c \in Callers, CallerStep(c)
  PROVE  FilesAreThere'
  <1> USE SandboxAssumption DEF SandboxTypeOK, hostVars, runtimeVars, fileVars, callerVars, CallerInv, FilesInv, FilesAreThere
  <1>1. CASE Call(c) \/ EnterLock(c)
    BY <1>1 DEF Call, EnterLock, EnterCached, EnterRestored, EnterMissing,
           Enter, GetFinds, GetMisses
  <1>2. ASSUME NEW k \in Containers, Created(c, k) \/ CreatedInVain(c, k)
        PROVE  FilesAreThere'
    BY <1>2 DEF Created, CreatedInVain, Leave
  <1>3. CASE CreateFails(c)
    BY <1>3 DEF CreateFails, Leave
  <1>4. CASE ClaimWins(c)
    BY <1>4 DEF ClaimWins, CanClaim
  <1>5. CASE ClaimLoses(c)
    BY <1>5 DEF ClaimLoses, CanClaim, Leave, GetFinds, GetMisses,
           DestroyContainer
  <1>6. CASE ClaimFails(c)
    BY <1>6 DEF ClaimFails, CanClaim, Leave, DestroyContainer
  <1>7. CASE EnsureSucceeds(c) \/ EnsureFails(c)
    BY <1>7 DEF EnsureSucceeds, EnsureFails, Leave
  <1>8. ASSUME NEW f \in Files, UploadFile(c, f)
        PROVE  FilesAreThere'
    BY <1>8 DEF UploadFile, Missing
  <1>9. CASE UploadFails(c) \/ ReturnSandbox(c)
    BY <1>9 DEF UploadFails, ReturnSandbox, Leave, Missing
  <1>10. CASE Cancel(c)
    BY <1>10 DEF Cancel, Leave
  <1> QED
    BY <1>1, <1>2, <1>3, <1>4, <1>5, <1>6, <1>7, <1>8, <1>9, <1>10 DEF CallerStep, Proceed

\* A new manifest voids the results of the turn before.
LEMMA FilesAreThereOfOutside ==
  ASSUME SandboxTypeOK, CallerInv, FilesInv, FilesAreThere, OutsideStep
  PROVE  FilesAreThere'
  <1> USE SandboxAssumption DEF SandboxTypeOK, hostVars, runtimeVars, fileVars, callerVars, CallerInv, FilesInv, FilesAreThere
  <1>1. ASSUME NEW r \in Runtimes, OpenRuntime(r)
        PROVE  FilesAreThere'
    BY <1>1 DEF OpenRuntime
  <1>2. ASSUME NEW r \in Runtimes, Destroy(r)
        PROVE  FilesAreThere'
    BY <1>2 DEF Destroy, DestroyContainer
  <1>3. ASSUME NEW r \in Runtimes, NEW files \in SUBSET Files, SetManifest(r, files)
        PROVE  FilesAreThere'
    BY <1>3 DEF SetManifest
  <1>4. ASSUME NEW k \in Containers, Expire(k)
        PROVE  FilesAreThere'
    BY <1>4 DEF Expire
  <1>5. CASE Crash
    BY <1>5 DEF Crash
  <1> QED
    BY <1>1, <1>2, <1>3, <1>4, <1>5 DEF OutsideStep
-----------------------------------------------------------------------------
(* The theorems *)

\* The invariants hold in every initial state.
LEMMA SandboxInit == Init => SandboxInv
  <1> SUFFICES ASSUME Init
               PROVE  SandboxInv
    OBVIOUS
  <1> USE SandboxAssumption DEF Init
  <1>1. SandboxTypeOK
    BY DEF SandboxTypeOK, Pcs
  <1>2. CreatedInv /\ KnownInv /\ NoLeak
    BY DEF CreatedInv, KnownInv, Dead, NoLeak
  <1>3. LockInv /\ CallerInv /\ ReplacingInv
    BY DEF LockInv, CallerInv, ReplacingInv, Working
  <1>4. FilesInv /\ FilesAreThere
    BY DEF FilesInv, FilesAreThere
  <1> QED
    BY <1>1, <1>2, <1>3, <1>4 DEF SandboxInv, UploadInv

\* Every step keeps the part about locks and attachments.
LEMMA UploadStep ==
  ASSUME UploadInv, [Next]_vars
  PROVE  UploadInv'
  <1> USE DEF UploadInv
  <1>1. ASSUME NEW c \in Callers, CallerStep(c)
        PROVE  UploadInv'
    <2>1. SandboxTypeOK' /\ LockInv' /\ CallerInv'
      BY <1>1, CallerTypes, LockInvOfCaller, CallerInvOfCaller
    <2>2. FilesInv' /\ FilesAreThere'
      BY <1>1, FilesInvOfCaller, FilesAreThereOfCaller
    <2> QED
      BY <2>1, <2>2
  <1>2. CASE OutsideStep
    <2>1. SandboxTypeOK' /\ LockInv' /\ CallerInv'
      BY <1>2, OutsideTypes, LockInvOfOutside, CallerInvOfOutside
    <2>2. FilesInv' /\ FilesAreThere'
      BY <1>2, FilesInvOfOutside, FilesAreThereOfOutside
    <2> QED
      BY <2>1, <2>2
  <1>3. CASE UNCHANGED vars
    BY <1>3 DEF vars, hostVars, runtimeVars, fileVars, callerVars, SandboxTypeOK,
       LockInv, CallerInv, FilesInv, FilesAreThere
  <1> QED
    BY <1>1, <1>2, <1>3 DEF Next

\* Every step keeps the rest, when lookups tell the truth.
LEMMA SandboxStep ==
  ASSUME "getFails" \notin Faults, SandboxInv, [Next]_vars
  PROVE  SandboxInv'
  <1> USE DEF SandboxInv, UploadInv
  <1>1. UploadInv'
    BY UploadStep
  <1>2. ASSUME NEW c \in Callers, CallerStep(c)
        PROVE  CreatedInv' /\ KnownInv' /\ ReplacingInv' /\ NoLeak'
    <2>1. ContainersAge
      BY <1>2, CallerAges
    <2> QED
      BY <1>2, <2>1, CreatedInvOfCaller, KnownInvOfCaller, ReplacingInvOfCaller,
         NoLeakOfCaller
  <1>3. ASSUME OutsideStep
        PROVE  CreatedInv' /\ KnownInv' /\ ReplacingInv' /\ NoLeak'
    <2>1. ContainersAge
      BY <1>3, OutsideAges
    <2> QED
      BY <1>3, <2>1, CreatedInvOfOutside, KnownInvOfOutside, ReplacingInvOfOutside,
         NoLeakOfOutside
  <1>4. ASSUME UNCHANGED vars
        PROVE  CreatedInv' /\ KnownInv' /\ ReplacingInv' /\ NoLeak'
    BY <1>4 DEF vars, hostVars, runtimeVars, callerVars, CreatedInv, KnownInv,
       ReplacingInv, NoLeak, Dead
  <1> QED
    BY <1>1, <1>2, <1>3, <1>4 DEF Next

\* The sandbox model keeps its invariant whatever is cancelled, raises, expires
\* or crashes, as long as a lookup misses a container only when it is gone.
THEOREM SandboxInvariant ==
  ASSUME "getFails" \notin Faults
  PROVE  Spec => []SandboxInv
  <1>1. SandboxInv /\ [Next]_vars => SandboxInv'
    BY SandboxStep
  <1> QED
    BY <1>1, SandboxInit, PTL DEF Spec

\* Two runs of a session never work in different running sandboxes, nor the
\* user in a third: claim_sandbox_id and the restore path agree on one.
THEOREM OneSandboxAlways ==
  ASSUME "getFails" \notin Faults
  PROVE  Spec => []OneSandbox
  <1>1. SandboxInv => OneSandbox
    BY DEF SandboxInv, UploadInv, SandboxTypeOK, KnownInv, OneSandbox, Dead
  <1> QED
    BY <1>1, SandboxInvariant, PTL

\* get_sandbox leaks no container: _create_candidate and _create_and_claim hand
\* each one to the session or destroy it.
THEOREM NothingLeaks ==
  ASSUME "getFails" \notin Faults
  PROVE  Spec => []NoLeak
  <1>1. SandboxInv => NoLeak
    BY DEF SandboxInv
  <1> QED
    BY <1>1, SandboxInvariant, PTL

\* The part about locks, callers and attachments holds whatever lookups answer,
\* so also while the Docker daemon fails.
THEOREM UploadInvariant == Spec => []UploadInv
  <1>1. UploadInv /\ [Next]_vars => UploadInv'
    BY UploadStep
  <1>2. Init => UploadInv
    BY SandboxInit DEF SandboxInv
  <1> QED
    BY <1>1, <1>2, PTL DEF Spec

\* A returned sandbox holds the attachments of the turn, even when lookups
\* fail: get_sandbox uploads into the sandbox that it returns.
THEOREM AttachmentsThere == Spec => []FilesAreThere
  <1>1. UploadInv => FilesAreThere
    BY DEF UploadInv
  <1> QED
    BY <1>1, UploadInvariant, PTL

\* claim_sandbox_id never takes the session away from a running container.
THEOREM HandleKept ==
  ASSUME "getFails" \notin Faults
  PROVE  Spec => HandleOutlivesItsContainer
  <1>1. SandboxInv /\ [Next]_vars =>
          [handle' # handle => handle = None \/ docker[handle] # "running"]_vars
    <2> SUFFICES ASSUME SandboxInv, Next, handle' # handle
                 PROVE  handle = None \/ docker[handle] # "running"
      OBVIOUS
    <2>1. PICK c \in Callers : ClaimWins(c) \/ ClaimFails(c)
      BY DEF Next, CallerStep, OutsideStep, Call, EnterLock, EnterCached, EnterRestored,
             EnterMissing, Enter, Proceed, Created, CreatedInVain, CreateFails, ClaimLoses,
             EnsureSucceeds, EnsureFails, UploadFile, UploadFails, ReturnSandbox, Cancel,
             OpenRuntime, Destroy, SetManifest, Expire, Crash
    <2>2. pc[c] = "claim" /\ handle = known[RuntimeOf[c]]
      BY <2>1 DEF ClaimWins, ClaimFails, CanClaim
    <2> QED
      BY <2>2 DEF SandboxInv, ReplacingInv, Dead
  <1> QED
    BY <1>1, SandboxInvariant, PTL DEF Spec, HandleOutlivesItsContainer
=============================================================================
