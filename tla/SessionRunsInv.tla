-------------------------- MODULE SessionRunsInv --------------------------
(* The inductive invariant of SessionRuns: what every step keeps true of    *)
(* each message on its way from a client to a flow.  A message is in one    *)
(* place at a time -- a request's locals, one entry of one input stream, the *)
(* row's slot, the hands of one runner -- and `fate` names that place.      *)
EXTENDS SessionRuns

\* The fields of the slot agree, and the message in it is the queued one.
SlotInv ==
  /\ row.next.state = "empty" => row.next = EmptySlot
  /\ row.next.state = "queued" => row.next.id \in Messages /\ row.next.task = None
  /\ row.next.state = "processing" => row.next.id \in Messages /\ row.next.task \in Tasks
  /\ \A m \in Messages : fate[m] = "queued" <=> row.next.id = m

\* What a request carries at each of its program points.
RequestOK(r) ==
  /\ rpc[r] \in {"claim", "reclaim", "put"} => rlocal[r].msg \in Messages
  /\ rpc[r] \in {"create", "handles"} =>
       rlocal[r].op = "runNext" \/ rlocal[r].msg \in Messages
  /\ rpc[r] = "lookup" /\ rlocal[r].op \in {"chat", "resolve"} =>
       rlocal[r].msg \in Messages
  /\ rpc[r] = "read" => rlocal[r].op \in {"subscribe", "stop"}
  /\ rpc[r] = "stopTx" => rlocal[r].op = "stop"
  /\ rpc[r] \in {"handles", "put", "invoke"} => rlocal[r].task \in Tasks
  /\ rpc[r] = "restore" => rlocal[r].prev \in Statuses

RequestInv == \A r \in Requests : RequestOK(r)

\* A message in a request's hands is in no other request's.
HeldInv ==
  \A r \in Requests : rlocal[r].msg # None =>
    /\ fate[rlocal[r].msg] = "direct"
    /\ \A s \in Requests : rlocal[s].msg = rlocal[r].msg => s = r

\* An entry of an input stream is waiting there, and nowhere else.
InputInv ==
  \A t \in Tasks : \A i \in 1 .. Len(input[t]) :
    /\ fate[input[t][i]] = "sent"
    /\ \A u \in Tasks : \A j \in 1 .. Len(input[u]) :
         input[u][j] = input[t][i] => u = t /\ j = i

\* A runner about to run a flow has its own message, run by no flow so far.
Preparing(t) == pc[t] \in {"prepare", "setRunning"}

HandInv ==
  \A t \in Tasks :
    /\ pc[t] = "consume" => cur[t] \in Messages
    /\ Preparing(t) =>
         /\ cur[t] \in Messages
         /\ fate[cur[t]] \in {"taken", "consumed"}
         /\ ran[cur[t]] = 0
         /\ \A u \in Tasks : Preparing(u) /\ cur[u] = cur[t] => u = t

\* Only a popped or consumed message has been run, and once.
RanInv ==
  \A m \in Messages :
    /\ ran[m] <= 1
    /\ fate[m] \notin {"taken", "consumed"} => ran[m] = 0

\* ClaimIsHeld, strengthened: a claimer with a cancellation pending is one whose
\* stop has not reached its transaction.
ClaimInv ==
  row.next.state = "processing" =>
    /\ pc[row.next.task] # "unused"
    /\ \/ \E r \in Requests : rpc[r] = "stopTx"
       \/ /\ row.next.task \notin cancelled
          /\ \/ pc[row.next.task] = "consume" /\ cur[row.next.task] = row.next.id
             \/ pc[row.next.task] \in {"cancelled", "failing", "lost"}

\* Type correctness and the seven parts, which only hold together by induction.
IInv ==
  /\ TypeOK
  /\ SlotInv /\ RequestInv /\ HeldInv /\ InputInv /\ HandInv /\ RanInv /\ ClaimInv

-----------------------------------------------------------------------------
(* One client at a time, that is polite and stops nothing, and no failure   *)
(* of a runner: then the row tells the truth about the runs.                *)
Calm ==
  /\ "stop" \notin Ops /\ "raise" \notin Faults /\ Polite
  /\ \A r, s \in Requests : r = s

\* A runner that still owes the row its status.
Working(t) == pc[t] \in Active \cup {"failing"}

\* No cancellation is requested; a request that looks up a task has no message,
\* since it was sent to a session that was at rest.
NoStopInv ==
  /\ cancelled = {} /\ \A t \in Tasks : pc[t] # "cancelled"
  /\ \A r \in Requests : /\ rpc[r] \notin {"reclaim", "stopTx"}
                         /\ rpc[r] \in {"read", "lookup", "orphan"} =>
                              rlocal[r].op = "subscribe" /\ rlocal[r].msg = None

\* A runner at work is the row's, and registered.
WorkInv ==
  \A t \in Tasks : Working(t) => row.status = "running" /\ row.task = t /\ t \in registry

\* A request that starts a run has claimed the row, or is about to, and no other
\* run is on; its task is new.
StartInv ==
  \A r \in Requests :
    /\ rpc[r] = "claim" => row.status = "waiting"
    /\ rpc[r] \in {"create", "handles", "restore", "put", "invoke"} => row.status = "running"
    /\ rpc[r] \in {"claim", "create", "handles", "restore", "put", "invoke", "orphan"} =>
         \A t \in Tasks : ~Working(t)
    /\ rpc[r] \in {"handles", "put", "invoke"} =>
         pc[rlocal[r].task] = "idle" /\ rlocal[r].task \in registry
    /\ rpc[r] \in {"put", "invoke"} => row.task = rlocal[r].task

\* The task a listener read is the one at work, if any is, so that a run it
\* takes for an orphan is one.
ListenInv ==
  \A r \in Requests : rpc[r] = "lookup" /\ rlocal[r].status = "running" =>
    \A t \in Tasks : Working(t) => rlocal[r].seen = t

\* No DoneEvent before the last one, and no task is invoked twice.
DoneInv ==
  \A t \in Tasks :
    /\ dones[t] <= 1
    /\ pc[t] \notin {"saveDone", "cleanup", "done", "lost"} => dones[t] = 0

CalmInv ==
  /\ NoStopInv /\ WorkInv /\ StartInv /\ ListenInv /\ DoneInv /\ ArchivedIsAtRest
=============================================================================
