-------------------------- MODULE LazySandboxInv --------------------------
(* The inductive invariants of LazySandbox: UploadInv in every case, and     *)
(* SandboxInv for lookups that tell a missing container from a failing       *)
(* Docker daemon ("getFails" not among the faults).                          *)
EXTENDS LazySandbox

Dead(k) == k = None \/ docker[k] # "running"

\* Every id that anybody remembers is the id of a container that was created.
CreatedInv ==
  /\ handle # None => docker[handle] # "unused"
  /\ \A r \in Runtimes : known[r] # None => docker[known[r]] # "unused"
  /\ \A c \in Callers : cand[c] # None => docker[cand[c]] # "unused"

\* A caller past the lock's queue holds the lock of its runtime.
LockInv ==
  \A c \in Callers : pc[c] \in Working => lock[RuntimeOf[c]] = c

\* What a caller has at its program point: a live runtime, no sandbox while it
\* creates one, a candidate while it claims, a sandbox after it.
CallerInv ==
  \A c \in Callers :
    /\ pc[c] # "idle" => life[RuntimeOf[c]] = "live"
    /\ pc[c] \in {"creating", "undoing", "claim"} => box[RuntimeOf[c]] = None
    /\ pc[c] = "claim" <=> cand[c] # None
    /\ pc[c] \in {"ensure", "upload"} => box[RuntimeOf[c]] # None

\* A cached sandbox is the known one, and an id that runs is the session's: the
\* other ids that runtimes remember are those of dead containers.
KnownInv ==
  \A r \in Runtimes :
    /\ life[r] # "live" => box[r] = None
    /\ box[r] # None => box[r] = known[r]
    /\ ~Dead(known[r]) => known[r] = handle

\* Whoever creates a container has found the known one dead, for good.
ReplacingInv ==
  \A c \in Callers :
    pc[c] \in {"creating", "undoing", "claim"} => Dead(known[RuntimeOf[c]])

\* The materializer remembers what the cached sandbox holds.
FilesInv ==
  \A r \in Runtimes :
    /\ prepared[r] => manifest[r] \subseteq materialized[r]
    /\ box[r] = None => materialized[r] = {}
    /\ box[r] # None => materialized[r] \subseteq inside[box[r]]

\* The part that holds whatever lookups answer.
UploadInv == SandboxTypeOK /\ LockInv /\ CallerInv /\ FilesInv /\ FilesAreThere

SandboxInv == UploadInv /\ CreatedInv /\ KnownInv /\ ReplacingInv /\ NoLeak
=============================================================================
