---------------------------- MODULE LazySandbox ----------------------------
(* The sandbox of one chat session.  Each task has a LazySandboxRuntime that *)
(* restores or creates a Docker container when a tool first needs one, and   *)
(* the runtimes of a session agree on a container through the compare-and-   *)
(* set of sessions.sandbox_id.  A runtime's callers are serialized by its    *)
(* lock; the database and Docker are shared by all.                          *)
EXTENDS FiniteSets, Naturals

CONSTANTS
  Runtimes,    \* LazySandboxRuntime objects: one per task of the session
  Callers,     \* coroutines that call get_sandbox
  RuntimeOf,   \* the runtime each caller belongs to
  Containers,  \* ids of containers
  Files,       \* attachments
  Faults,      \* what may go wrong, a subset of AllFaults
  None

AllFaults == {"cancel", "createFails", "createLeaks", "claimFails", "getFails",
              "ensureFails", "uploadFails", "destroyFails", "expire", "crash"}

ASSUME SandboxAssumption ==
  /\ None \notin Containers /\ None \notin Callers
  /\ RuntimeOf \in [Callers -> Runtimes]
  /\ Faults \subseteq AllFaults

VARIABLES
  handle,        \* sessions.sandbox_id
  docker,        \* docker[k]: the state of container k
  inside,        \* inside[k]: the attachments uploaded into k
  abandoned,     \* containers that a fault took from everybody     (history)
  life,          \* life[r]: "unborn", "live" or "dead" with its process
  known,         \* known[r]: _sandbox_id
  box,           \* box[r]: _sandbox
  ready,         \* ready[r]: _sandbox_ready
  manifest,      \* manifest[r]: _attachment_manifest
  materialized,  \* materialized[r]: the materializer's _materialized
  prepared,      \* prepared[r]: the prepared version is the manifest's
  lock,          \* lock[r]: who holds _sandbox_lock
  pc,            \* pc[c]: where caller c is in get_sandbox
  cand,          \* cand[c]: the container c created and has not claimed
  result         \* result[c]: what its last get_sandbox returned    (history)

hostVars    == <<docker, inside, abandoned>>
fileVars    == <<manifest, materialized, prepared>>
runtimeVars == <<life, known, box, ready, fileVars, lock>>
callerVars  == <<pc, cand, result>>
vars == <<handle, hostVars, runtimeVars, callerVars>>

Working == {"creating", "undoing", "claim", "ensure", "upload"}
Pcs == {"idle", "waiting"} \cup Working

SandboxTypeOK ==
  /\ handle \in Containers \cup {None}
  /\ docker \in [Containers -> {"unused", "running", "gone"}]
  /\ inside \in [Containers -> SUBSET Files]
  /\ abandoned \in SUBSET Containers
  /\ life \in [Runtimes -> {"unborn", "live", "dead"}]
  /\ known \in [Runtimes -> Containers \cup {None}]
  /\ box \in [Runtimes -> Containers \cup {None}]
  /\ ready \in [Runtimes -> BOOLEAN]
  /\ manifest \in [Runtimes -> SUBSET Files]
  /\ materialized \in [Runtimes -> SUBSET Files]
  /\ prepared \in [Runtimes -> BOOLEAN]
  /\ lock \in [Runtimes -> Callers \cup {None}]
  /\ pc \in [Callers -> Pcs]
  /\ cand \in [Callers -> Containers \cup {None}]
  /\ result \in [Callers -> Containers \cup {None}]

\* A session that never had a sandbox, or one from an earlier process.
Init ==
  /\ \/ handle = None /\ docker = [k \in Containers |-> "unused"]
     \/ \E k \in Containers, s \in {"running", "gone"} :
          /\ handle = k
          /\ docker = [l \in Containers |-> IF l = k THEN s ELSE "unused"]
  /\ inside = [k \in Containers |-> {}]
  /\ abandoned = {}
  /\ life = [r \in Runtimes |-> "unborn"]
  /\ known = [r \in Runtimes |-> None]
  /\ box = [r \in Runtimes |-> None]
  /\ ready = [r \in Runtimes |-> FALSE]
  /\ manifest = [r \in Runtimes |-> {}]
  /\ materialized = [r \in Runtimes |-> {}]
  /\ prepared = [r \in Runtimes |-> FALSE]
  /\ lock = [r \in Runtimes |-> None]
  /\ pc = [c \in Callers |-> "idle"]
  /\ cand = [c \in Callers |-> None]
  /\ result = [c \in Callers |-> None]

-----------------------------------------------------------------------------
(* Tasks and their turns *)

\* _create_task builds a runtime around the session it has read.
OpenRuntime(r) ==
  /\ life[r] = "unborn"
  /\ life' = [life EXCEPT ![r] = "live"]
  /\ known' = [known EXCEPT ![r] = handle]
  /\ UNCHANGED <<handle, hostVars, box, ready, fileVars, lock, callerVars>>

\* Faulty: the files of the turn before are taken for those of the new one.
SetManifestKeepPrepared(r, files) ==
  /\ life[r] = "live"
  /\ \A c \in Callers : RuntimeOf[c] = r => pc[c] = "idle"
  /\ manifest' = [manifest EXCEPT ![r] = files]
  /\ result' = [c \in Callers |-> IF RuntimeOf[c] = r THEN None ELSE result[c]]
  /\ UNCHANGED <<handle, hostVars, life, known, box, ready, materialized, prepared,
                 lock, pc, cand>>

\* set_attachment_manifest: the runner takes a message between two flows, so
\* no tool call of the runtime is under way.
SetManifest(r, files) ==
  /\ life[r] = "live"
  /\ \A c \in Callers : RuntimeOf[c] = r => pc[c] = "idle"
  /\ manifest' = [manifest EXCEPT ![r] = files]
  /\ prepared' = [prepared EXCEPT ![r] = FALSE]
  /\ result' = [c \in Callers |-> IF RuntimeOf[c] = r THEN None ELSE result[c]]
  /\ UNCHANGED <<handle, hostVars, life, known, box, ready, materialized, lock, pc, cand>>

\* The bound on containers: a call starts only while an unused container is
\* left for it and for every call that may yet create one.
ContainerLeft ==
  Cardinality({k \in Containers : docker[k] = "unused"}) >
  Cardinality({c \in Callers : pc[c] \in {"waiting", "creating", "undoing"}})

\* A tool calls the proxy, which waits for the lock of its runtime.
Call(c) ==
  /\ pc[c] = "idle" /\ life[RuntimeOf[c]] = "live" /\ ContainerLeft
  /\ pc' = [pc EXCEPT ![c] = "waiting"]
  /\ result' = [result EXCEPT ![c] = None]
  /\ UNCHANGED <<handle, hostVars, runtimeVars, cand>>

-----------------------------------------------------------------------------
(* get_sandbox, up to the creation of a container *)

\* DockerSandbox.get answers None for an API error as for a missing container.
GetFinds(k)  == k # None /\ docker[k] = "running"
GetMisses(k) == ~GetFinds(k) \/ "getFails" \in Faults

Enter(c, label) ==
  /\ pc[c] = "waiting" /\ lock[RuntimeOf[c]] = None
  /\ lock' = [lock EXCEPT ![RuntimeOf[c]] = c]
  /\ pc' = [pc EXCEPT ![c] = label]
  /\ UNCHANGED <<handle, hostVars, life, known, fileVars, cand, result>>

EnterCached(c) ==
  /\ box[RuntimeOf[c]] # None
  /\ Enter(c, IF ready[RuntimeOf[c]] THEN "upload" ELSE "ensure")
  /\ UNCHANGED <<box, ready>>

EnterRestored(c) ==
  /\ box[RuntimeOf[c]] = None /\ GetFinds(known[RuntimeOf[c]])
  /\ Enter(c, "ensure")
  /\ box' = [box EXCEPT ![RuntimeOf[c]] = known[RuntimeOf[c]]]
  /\ ready' = [ready EXCEPT ![RuntimeOf[c]] = FALSE]

EnterMissing(c) ==
  /\ box[RuntimeOf[c]] = None /\ GetMisses(known[RuntimeOf[c]])
  /\ Enter(c, "creating")
  /\ UNCHANGED <<box, ready>>

\* The call raises, or returns the sandbox; either way it releases the lock.
Leave(c, value) ==
  /\ lock' = [lock EXCEPT ![RuntimeOf[c]] = None]
  /\ pc' = [pc EXCEPT ![c] = "idle"]
  /\ cand' = [cand EXCEPT ![c] = None]
  /\ result' = [result EXCEPT ![c] = value]

\* DockerSandbox.destroy logs its failure and returns False.
DestroyContainer(k) ==
  \/ docker' = [docker EXCEPT ![k] = "gone"] /\ UNCHANGED abandoned
  \/ "destroyFails" \in Faults /\ abandoned' = abandoned \cup {k} /\ UNCHANGED docker

\* The thread that runs `docker run` has finished.
Created(c, k) ==
  /\ pc[c] = "creating" /\ docker[k] = "unused"
  /\ docker' = [docker EXCEPT ![k] = "running"]
  /\ cand' = [cand EXCEPT ![c] = k]
  /\ pc' = [pc EXCEPT ![c] = "claim"]
  /\ UNCHANGED <<handle, inside, abandoned, runtimeVars, result>>

\* Faulty: the container of a cancelled creation is forgotten.
ForgetCreated(c, k) ==
  /\ pc[c] = "undoing" /\ docker[k] = "unused"
  /\ docker' = [docker EXCEPT ![k] = "running"]
  /\ Leave(c, None)
  /\ UNCHANGED <<handle, inside, abandoned, life, known, box, ready, fileVars>>

\* It has finished for a caller that was cancelled meanwhile: the container is
\* waited for and destroyed before the cancellation goes on.
CreatedInVain(c, k) ==
  /\ pc[c] = "undoing" /\ docker[k] = "unused"
  /\ \/ docker' = [docker EXCEPT ![k] = "gone"] /\ UNCHANGED abandoned
     \/ /\ "destroyFails" \in Faults
        /\ docker' = [docker EXCEPT ![k] = "running"]
        /\ abandoned' = abandoned \cup {k}
  /\ Leave(c, None)
  /\ UNCHANGED <<handle, inside, life, known, box, ready, fileVars>>

\* `docker run` fails, or the container runs and asking for its address fails.
CreateFails(c) ==
  /\ pc[c] \in {"creating", "undoing"}
  /\ \/ "createFails" \in Faults /\ UNCHANGED <<docker, abandoned>>
     \/ /\ "createLeaks" \in Faults
        /\ \E k \in Containers :
             /\ docker[k] = "unused"
             /\ docker' = [docker EXCEPT ![k] = "running"]
             /\ abandoned' = abandoned \cup {k}
  /\ Leave(c, None)
  /\ UNCHANGED <<handle, inside, life, known, box, ready, fileVars>>

-----------------------------------------------------------------------------
(* claim_sandbox_id: a compare-and-set, and what follows it without an await *)

\* Faulty: the claim does not look at what it replaces.
BlindClaim(expected) == TRUE
CanClaim(expected)   == handle = expected

ClaimWins(c) ==
  LET r == RuntimeOf[c] IN
  /\ pc[c] = "claim" /\ CanClaim(known[r])
  /\ handle' = cand[c]
  /\ known' = [known EXCEPT ![r] = cand[c]]
  /\ box' = [box EXCEPT ![r] = cand[c]]
  /\ ready' = [ready EXCEPT ![r] = FALSE]
  /\ cand' = [cand EXCEPT ![c] = None]
  /\ pc' = [pc EXCEPT ![c] = "ensure"]
  /\ UNCHANGED <<hostVars, life, fileVars, lock, result>>

\* Faulty: the loser keeps the container it created.
KeepCandidate(c) ==
  LET r == RuntimeOf[c] IN
  /\ pc[c] = "claim" /\ ~CanClaim(known[r])
  /\ known' = [known EXCEPT ![r] = cand[c]]
  /\ box' = [box EXCEPT ![r] = cand[c]]
  /\ ready' = [ready EXCEPT ![r] = FALSE]
  /\ cand' = [cand EXCEPT ![c] = None]
  /\ pc' = [pc EXCEPT ![c] = "ensure"]
  /\ UNCHANGED <<handle, hostVars, life, fileVars, lock, result>>

\* Another runtime was first: the candidate goes, the winner's is used.
ClaimLoses(c) ==
  LET r == RuntimeOf[c] IN
  /\ pc[c] = "claim" /\ ~CanClaim(known[r]) /\ handle # None
  /\ DestroyContainer(cand[c])
  /\ known' = [known EXCEPT ![r] = handle]
  /\ \/ /\ GetFinds(handle)
        /\ box' = [box EXCEPT ![r] = handle]
        /\ ready' = [ready EXCEPT ![r] = FALSE]
        /\ cand' = [cand EXCEPT ![c] = None]
        /\ pc' = [pc EXCEPT ![c] = "ensure"]
        /\ UNCHANGED <<lock, result>>
     \/ /\ GetMisses(handle)
        /\ Leave(c, None)
        /\ UNCHANGED <<box, ready>>
  /\ UNCHANGED <<handle, inside, life, fileVars>>

\* The transaction raises, or the caller is cancelled in it.  A connection lost
\* during the commit leaves open whether the claim took effect.
ClaimFails(c) ==
  /\ pc[c] = "claim"
  /\ \/ Faults \cap {"claimFails", "cancel"} # {} /\ UNCHANGED handle
     \/ "claimFails" \in Faults /\ CanClaim(known[RuntimeOf[c]]) /\ handle' = cand[c]
  /\ DestroyContainer(cand[c])
  /\ Leave(c, None)
  /\ UNCHANGED <<inside, life, known, box, ready, fileVars>>

-----------------------------------------------------------------------------
(* get_sandbox with a container *)

EnsureSucceeds(c) ==
  LET r == RuntimeOf[c] IN
  /\ pc[c] = "ensure" /\ docker[box[r]] = "running"
  /\ ready' = [ready EXCEPT ![r] = TRUE]
  /\ pc' = [pc EXCEPT ![c] = "upload"]
  /\ UNCHANGED <<handle, hostVars, life, known, box, fileVars, lock, cand, result>>

\* Faulty: a container that is gone is asked for ever.
EnsureForEver(c) ==
  /\ pc[c] = "ensure" /\ docker[box[RuntimeOf[c]]] = "running"
  /\ "ensureFails" \in Faults
  /\ Leave(c, None)
  /\ UNCHANGED <<handle, hostVars, life, known, box, ready, fileVars>>

\* The supervisor does not answer in all the tries; the sandbox stays cached.
EnsureFails(c) ==
  /\ pc[c] = "ensure"
  /\ docker[box[RuntimeOf[c]]] # "running" \/ "ensureFails" \in Faults
  /\ Leave(c, None)
  /\ UNCHANGED <<handle, hostVars, life, known, box, ready, fileVars>>

Missing(r) == IF prepared[r] THEN {} ELSE manifest[r] \ materialized[r]

\* materialize uploads what this runtime has not uploaded yet.
UploadFile(c, f) ==
  LET r == RuntimeOf[c] IN
  /\ pc[c] = "upload" /\ f \in Missing(r)
  /\ docker[box[r]] = "running"
  /\ inside' = [inside EXCEPT ![box[r]] = @ \cup {f}]
  /\ materialized' = [materialized EXCEPT ![r] = @ \cup {f}]
  /\ UNCHANGED <<handle, docker, abandoned, life, known, box, ready, manifest,
                 prepared, lock, callerVars>>

\* An upload fails, before or after the container has got the file.
UploadFails(c) ==
  LET r == RuntimeOf[c] IN
  /\ pc[c] = "upload" /\ Missing(r) # {}
  /\ \/ docker[box[r]] # "running" /\ UNCHANGED inside
     \/ "uploadFails" \in Faults /\ UNCHANGED inside
     \/ /\ "uploadFails" \in Faults /\ docker[box[r]] = "running"
        /\ \E f \in Missing(r) : inside' = [inside EXCEPT ![box[r]] = @ \cup {f}]
  /\ Leave(c, None)
  /\ UNCHANGED <<handle, docker, abandoned, life, known, box, ready, fileVars>>

ReturnSandbox(c) ==
  LET r == RuntimeOf[c] IN
  /\ pc[c] = "upload" /\ Missing(r) = {}
  /\ prepared' = [prepared EXCEPT ![r] = TRUE]
  /\ Leave(c, box[r])
  /\ UNCHANGED <<handle, hostVars, life, known, box, ready, manifest, materialized>>

-----------------------------------------------------------------------------
(* Cancellation, destruction, and what happens outside *)

\* The run of the caller is stopped: once, since the stop takes the task out of
\* the registry.  At "claim" the effect is ClaimFails.
Cancel(c) ==
  /\ "cancel" \in Faults
  /\ \/ /\ pc[c] = "waiting"
        /\ pc' = [pc EXCEPT ![c] = "idle"]
        /\ UNCHANGED <<lock, cand, result>>
     \/ /\ pc[c] = "creating"
        /\ pc' = [pc EXCEPT ![c] = "undoing"]
        /\ UNCHANGED <<lock, cand, result>>
     \/ pc[c] \in {"ensure", "upload"} /\ Leave(c, None)
  /\ UNCHANGED <<handle, hostVars, life, known, box, ready, fileVars>>

\* Faulty: the materializer is not reset.
DestroyKeepFiles(r) ==
  /\ life[r] = "live" /\ lock[r] = None /\ box[r] # None
  /\ DestroyContainer(box[r])
  /\ box' = [box EXCEPT ![r] = None]
  /\ ready' = [ready EXCEPT ![r] = FALSE]
  /\ prepared' = [prepared EXCEPT ![r] = FALSE]
  /\ UNCHANGED <<handle, inside, life, known, manifest, materialized, lock, callerVars>>

\* LazySandboxRuntime.destroy.
Destroy(r) ==
  /\ life[r] = "live" /\ lock[r] = None /\ box[r] # None
  /\ DestroyContainer(box[r])
  /\ box' = [box EXCEPT ![r] = None]
  /\ ready' = [ready EXCEPT ![r] = FALSE]
  /\ prepared' = [prepared EXCEPT ![r] = FALSE]
  /\ materialized' = [materialized EXCEPT ![r] = {}]
  /\ UNCHANGED <<handle, inside, life, known, manifest, lock, callerVars>>

\* A container stops: its time to live is over, or it dies.
Expire(k) ==
  /\ "expire" \in Faults
  /\ docker[k] = "running"
  /\ docker' = [docker EXCEPT ![k] = "gone"]
  /\ UNCHANGED <<handle, inside, abandoned, runtimeVars, callerVars>>

\* The process dies; a container it created and had not claimed is left alone.
Crash ==
  /\ "crash" \in Faults
  /\ abandoned' = abandoned \cup {cand[c] : c \in {d \in Callers : cand[d] # None}}
  /\ life' = [r \in Runtimes |-> IF life[r] = "live" THEN "dead" ELSE life[r]]
  /\ box' = [r \in Runtimes |-> None]
  /\ ready' = [r \in Runtimes |-> FALSE]
  /\ prepared' = [r \in Runtimes |-> FALSE]
  /\ materialized' = [r \in Runtimes |-> {}]
  /\ lock' = [r \in Runtimes |-> None]
  /\ pc' = [c \in Callers |-> "idle"]
  /\ cand' = [c \in Callers |-> None]
  /\ result' = [c \in Callers |-> None]
  /\ UNCHANGED <<handle, docker, inside, known, manifest>>

-----------------------------------------------------------------------------
EnterLock(c) == EnterCached(c) \/ EnterRestored(c) \/ EnterMissing(c)

\* What a caller that holds the lock goes through.
Proceed(c) ==
  \/ \E k \in Containers : Created(c, k) \/ CreatedInVain(c, k)
  \/ CreateFails(c) \/ ClaimWins(c) \/ ClaimLoses(c) \/ ClaimFails(c)
  \/ EnsureSucceeds(c) \/ EnsureFails(c)
  \/ \E f \in Files : UploadFile(c, f)
  \/ UploadFails(c) \/ ReturnSandbox(c)

CallerStep(c) == Call(c) \/ EnterLock(c) \/ Proceed(c) \/ Cancel(c)

\* What tasks, turns, Docker and the process do.
OutsideStep ==
  \/ \E r \in Runtimes :
       \/ OpenRuntime(r) \/ Destroy(r)
       \/ \E files \in SUBSET Files : SetManifest(r, files)
  \/ \E k \in Containers : Expire(k)
  \/ Crash

Next == (\E c \in Callers : CallerStep(c)) \/ OutsideStep

Spec == Init /\ [][Next]_vars

\* asyncio resumes the holder of a lock, Docker and the database answer, and
\* asyncio.Lock wakes its waiters in order, so none is passed over for ever.
Fairness ==
  \A c \in Callers : WF_vars(Proceed(c)) /\ SF_vars(EnterLock(c))

FairSpec == Spec /\ Fairness

-----------------------------------------------------------------------------
(* Properties *)

\* A runtime whose cached container runs uses the one that the session's row
\* names: two runs of a session, and the user's VNC and file views, never work
\* in different running sandboxes.
OneSandbox ==
  \A r \in Runtimes :
    box[r] # None /\ docker[box[r]] = "running" => box[r] = handle

\* A running container belongs to the session, or is about to be claimed or
\* destroyed by the call that created it, or was lost to a fault: no order of
\* creations, claims and cancellations leaks one.
NoLeak ==
  \A k \in Containers : docker[k] = "running" =>
    k = handle \/ k \in abandoned \/ \E c \in Callers : cand[c] = k

\* The sandbox that get_sandbox returned holds every attachment of the turn,
\* whichever runtime, turn or failed call uploaded it.
FilesAreThere ==
  \A c \in Callers : result[c] # None => manifest[RuntimeOf[c]] \subseteq inside[result[c]]

\* The session's handle is replaced only when its container no longer runs.
HandleOutlivesItsContainer ==
  [][handle' # handle => handle = None \/ docker[handle] # "running"]_vars

\* Every call of get_sandbox ends, however many callers its runtime has.
CallsEnd == \A c \in Callers : pc[c] = "waiting" ~> pc[c] = "idle"
=============================================================================
