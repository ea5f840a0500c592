------------------------------ MODULE SessionPage ------------------------------
(* One browser page on a session: what it shows, its message stream and its  *)
(* empty (listening) stream, and the snapshots it loads, against the readers *)
(* of the output stream that serve it and the runner that writes the stream, *)
(* the event log and the status.                                             *)
(*                                                                           *)
(* An event is named by its place in evs.  A stream id of Redis is ordered   *)
(* by time, so the places order them as well; an event the API made without  *)
(* Redis (src "db") has a uuid, from which no stream can be read.            *)
EXTENDS Integers, Sequences, SequencesExt, FiniteSets, FiniteSetsExt, Functions

CONSTANTS
  MaxRuns,    \* runs a behaviour may start
  MaxSteps,   \* events a flow may put before its end, over all runs
  MaxQueues,  \* follow-up messages the user queues
  MaxFaults,  \* faults of a behaviour
  Ops,        \* of {"ask", "queue", "next"}: a flow asks, the user queues, runs the queued
  Faults      \* of {"drop", "reload", "crash", "lost", "fails", "raise"}

ASSUME PageAssumption ==
  /\ MaxRuns \in Nat \ {0} /\ {MaxSteps, MaxQueues, MaxFaults} \subseteq Nat
  /\ Ops \subseteq {"ask", "queue", "next"}
  /\ Faults \subseteq {"drop", "reload", "crash", "lost", "fails", "raise"}

Runs == 1..MaxRuns

VARIABLES
  evs,      \* every event ever made
  db,       \* the event log of the row: the events committed, in order
  row,      \* the status, the task and the next-message slot of the row
  runner,   \* the place of each run's runner
  hand,     \* the event a runner has put and not yet committed, or 0
  conn,     \* the two requests of the page, generator and channel together
  page,     \* the state of the composable
  loads,    \* its requests for a snapshot, oldest first
  used      \* steps, queued messages and faults so far

server == <<evs, db, row, runner, hand>>
client == <<conn, page, loads>>
vars == <<server, client, used>>

Statuses == {"pending", "running", "waiting", "completed"}
Kinds == {"user", "step", "next", "done", "wait", "error", "resolved"}
RunnerPcs == {"off", "made", "flow", "poll", "accept", "finish", "raise", "commit", "waits",
              "fails", "last", "waiting", "failing", "closing", "over"}
ConnPcs == {"none", "resolved", "claim", "put", "add", "start", "open", "get",
            "missed", "idle", "end"}

NoConn == [pc |-> "none", run |-> 0, pos |-> 0, chan |-> <<>>]
Fresh(at, from) == [NoConn EXCEPT !.pc = at, !.pos = from]
Load(k, e) == [kind |-> k, epoch |-> e, read |-> FALSE, status |-> "pending", log |-> <<>>,
               next |-> FALSE]
NewPage == [shown |-> {}, cursor |-> 0, local |-> "none", next |-> FALSE,
            sending |-> FALSE, timer |-> FALSE, epoch |-> 1]

Event(k, s, r) == [kind |-> k, src |-> s, run |-> r]
Registered(r) == r # 0 /\ runner[r] \notin {"off", "over"}
Terminal(k) == k \in {"done", "wait", "error"}

Events == [kind : Kinds, src : {"in", "out", "db"}, run : 0..MaxRuns]
Conns == [pc : ConnPcs, run : 0..MaxRuns, pos : Nat, chan : Seq(Nat)]
Pages == [shown : SUBSET Nat, cursor : Nat, local : Statuses \cup {"none"}, next : BOOLEAN,
          sending : BOOLEAN, timer : BOOLEAN, epoch : Nat]
Loads == [kind : {"mount", "run", "empty", "refresh"}, epoch : Nat, read : BOOLEAN,
          status : Statuses, log : Seq(Nat), next : BOOLEAN]

ServerTypeOK ==
  /\ evs \in Seq(Events) /\ db \in Seq(Nat) /\ Range(db) \subseteq DOMAIN evs
  /\ row \in [status : Statuses, task : 0..MaxRuns, next : {"none", "queued", "processing"}]
  /\ runner \in [Runs -> RunnerPcs]
  /\ hand \in [Runs -> 0..Len(evs)]

ClientTypeOK ==
  /\ conn \in [{"message", "empty"} -> Conns]
  /\ \A c \in {"message", "empty"} : /\ conn[c].pos \in 0..Len(evs)
                                     /\ Range(conn[c].chan) \subseteq DOMAIN evs
  /\ page \in Pages /\ page.epoch \in 1..MaxRuns + 1
  /\ page.shown \subseteq DOMAIN evs /\ page.cursor \in 0..Len(evs)
  /\ loads \in Seq(Loads)
  /\ \A i \in DOMAIN loads : Range(loads[i].log) \subseteq DOMAIN evs

TypeOK ==
  /\ ServerTypeOK /\ ClientTypeOK
  /\ used \in [steps : 0..MaxSteps, queues : 0..MaxQueues, faults : 0..MaxFaults,
                crashed : BOOLEAN]

\* A session without events, and a page that loads it.
Init ==
  /\ evs = <<>> /\ db = <<>>
  /\ row = [status |-> "pending", task |-> 0, next |-> "none"]
  /\ runner = [r \in Runs |-> "off"] /\ hand = [r \in Runs |-> 0]
  /\ conn = [c \in {"message", "empty"} |-> NoConn]
  /\ page = NewPage
  /\ loads = <<Load("mount", 0)>>
  /\ used = [steps |-> 0, queues |-> 0, faults |-> 0, crashed |-> FALSE]

-----------------------------------------------------------------------------
(* The runner: an event is put into the output stream, then committed.       *)

At(r, pc) == runner[r] = pc
Goto(r, pc) == runner' = [runner EXCEPT ![r] = pc]
Put(r, k, pc) ==
  /\ evs' = Append(evs, Event(k, "out", r))
  /\ hand' = [hand EXCEPT ![r] = Len(evs) + 1]
  /\ Goto(r, pc)

\* The flow yields an event of its own (a step that starts stands for them), a
\* question, or an error.
FlowSteps(r) ==
  /\ At(r, "flow")
  /\ used.steps < MaxSteps
  /\ Put(r, "step", "commit")
  /\ used' = [used EXCEPT !.steps = @ + 1]
  /\ UNCHANGED <<db, row, client>>

FlowWaits(r) ==
  /\ At(r, "flow") /\ "ask" \in Ops
  /\ Put(r, "wait", "waits")
  /\ UNCHANGED <<db, row, client, used>>

FlowFails(r) ==
  /\ At(r, "flow") /\ "fails" \in Faults /\ used.faults < MaxFaults
  /\ Put(r, "error", "fails")
  /\ used' = [used EXCEPT !.faults = @ + 1]
  /\ UNCHANGED <<db, row, client>>

\* Faulty: the DoneEvent of the turn is not held back for the queued message.
FinishBetweenTurns(r) ==
  /\ runner[r] \in {"flow", "poll"}
  /\ row' = IF row.next = "none" THEN [row EXCEPT !.status = "completed"] ELSE row
  /\ Goto(r, "finish")
  /\ UNCHANGED <<evs, db, hand, client, used>>

\* finish_or_claim_next_message: the row is completed before the DoneEvent is
\* put, or the queued message is claimed before its event is.
FinishOrClaim(r) ==
  /\ runner[r] \in {"flow", "poll"}
  /\ IF row.next = "none"
     THEN row' = [row EXCEPT !.status = "completed"] /\ Goto(r, "finish")
     ELSE row' = [row EXCEPT !.next = "processing"] /\ Goto(r, "accept")
  /\ UNCHANGED <<evs, db, hand, client, used>>

Puts(r) ==
  /\ \/ At(r, "accept") /\ Put(r, "next", "commit")
     \/ At(r, "finish") /\ Put(r, "done", "last")
     \/ At(r, "raise") /\ Put(r, "error", "last")
  /\ UNCHANGED <<db, row, client, used>>

\* The transaction behind a put; the queued message leaves the slot in it.
After == [commit |-> "flow", waits |-> "waiting", fails |-> "failing", last |-> "closing"]
Commit(r) ==
  /\ runner[r] \in DOMAIN After
  /\ db' = Append(db, hand[r])
  /\ row' = IF evs[hand[r]].kind = "next" THEN [row EXCEPT !.next = "none"] ELSE row
  /\ hand' = [hand EXCEPT ![r] = 0]
  /\ Goto(r, After[runner[r]])
  /\ UNCHANGED <<evs, client, used>>

\* What the flow ended with is followed by a transaction with the status.
Settle(r) ==
  /\ runner[r] \in {"waiting", "failing"}
  /\ row' = [row EXCEPT !.status = IF At(r, "waiting") THEN "waiting" ELSE "completed"]
  /\ Goto(r, "closing")
  /\ UNCHANGED <<evs, db, hand, client, used>>

\* invoke raises: the slot and the status are reset before the ErrorEvent.
RunnerRaises(r) ==
  /\ runner[r] \in {"flow", "poll"} /\ "raise" \in Faults /\ used.faults < MaxFaults
  /\ row' = [row EXCEPT !.status = "completed",
                        !.next = IF @ = "processing" THEN "queued" ELSE @]
  /\ Goto(r, "raise")
  /\ used' = [used EXCEPT !.faults = @ + 1]
  /\ UNCHANGED <<evs, db, hand, client>>

\* The tools are cleaned up; the task leaves the registry and is done.
Ends(r) ==
  /\ At(r, "closing")
  /\ Goto(r, "over")
  /\ UNCHANGED <<evs, db, row, hand, client, used>>

-----------------------------------------------------------------------------
(* The composable, as functions of w, the page with its requests.            *)

Now == [page |-> page, conn |-> conn, loads |-> loads]
Become(w) == page' = w.page /\ conn' = w.conn /\ loads' = w.loads

StopEmptyStream(w) == [w EXCEPT !.page.timer = FALSE, !.conn["empty"] = NoConn]

StartEmptyStream(w) ==
  IF w.page.local = "completed" THEN w
  ELSE [StopEmptyStream(w) EXCEPT !.conn["empty"] = Fresh("open", w.page.cursor)]

\* The watcher of the session: it runs whenever the session is assigned.
Watch(w) ==
  IF w.page.local # "completed" /\ ~w.page.sending THEN StartEmptyStream(w)
  ELSE StopEmptyStream(w)

Assigned(w, status) == Watch([w EXCEPT !.page.local = status])

ScheduleReconnect(w) ==
  IF w.page.sending \/ w.page.local = "completed" THEN w ELSE [w EXCEPT !.page.timer = TRUE]

\* An event that was seen is dropped, though the timer is cleared for it.
AppendEvent(w, e) ==
  LET calm == [w EXCEPT !.page.timer = FALSE]
      more == [calm EXCEPT !.page.shown = @ \cup {e}, !.page.cursor = e]
      k == evs[e].kind
  IN IF e \in w.page.shown THEN calm
     ELSE CASE k \in {"done", "error"} -> Assigned([more EXCEPT !.page.sending = FALSE], "completed")
            [] k = "wait" -> Assigned(more, "waiting")
            [] k \in {"step", "resolved"} -> Assigned(more, "running")
            [] k = "next" /\ w.page.next -> Watch([more EXCEPT !.page.next = FALSE])
            [] OTHER -> more

\* Faulty: the end of a stream is taken for the end of its request only.
ReconcileLocally(w) ==
  [w EXCEPT !.page.sending = FALSE, !.conn["message"] = NoConn]

\* A stream that serves a message ends with a snapshot, whatever ended it.
ReconcileRunStreamEnd(w) ==
  [w EXCEPT !.page.sending = FALSE, !.conn["message"] = NoConn,
            !.loads = Append(@, Load("run", w.page.epoch))]

\* sendMessage, runNextMessage, resolveInteraction: a new epoch and stream.
OpenRunStream(w, at) ==
  LET opened == [StopEmptyStream(w) EXCEPT !.page.epoch = @ + 1, !.page.sending = TRUE,
                                           !.conn["message"] = Fresh(at, 0)]
  IN IF at = "resolved" THEN opened ELSE Assigned(opened, "running")

\* A snapshot replaces what is shown; the cursor stays where it is only if the
\* log is empty.
ApplySnapshot(w, l) ==
  Assigned([w EXCEPT !.page.shown = Range(l.log), !.page.next = l.next,
                     !.page.cursor = IF l.log = <<>> THEN @ ELSE Last(l.log)], l.status)

-----------------------------------------------------------------------------
(* What the user does.  The page is polite: it sends when the row is idle,   *)
(* and a user neither leaves nor loses a request that has not started a run. *)

NextRun == row.task + 1
Untouched == conn["message"].pc \in {"none", "open", "get", "missed", "idle", "end"}
MayRun == row.status # "running" /\ NextRun \in Runs /\ Untouched
Waits(k) == \E i \in DOMAIN loads : loads[i].kind = k

Send ==
  /\ MayRun /\ page.local \in {"pending", "completed"} /\ ~Waits("refresh")
  /\ Become(OpenRunStream(Now, "claim"))
  /\ UNCHANGED <<server, used>>

ResolveInteraction ==
  /\ MayRun /\ row.status = "waiting" /\ page.local = "waiting"
  /\ Become(OpenRunStream(Now, "resolved"))
  /\ UNCHANGED <<server, used>>

RunNextMessage ==
  /\ MayRun /\ "next" \in Ops
  /\ row.status = "completed" /\ row.next = "queued" /\ page.local = "completed"
  /\ Become(OpenRunStream(Now, "start"))
  /\ UNCHANGED <<server, used>>

\* A running page queues; a refusal makes it refresh, whatever the epoch.
QueueNextMessage ==
  /\ "queue" \in Ops /\ used.queues < MaxQueues
  /\ page.local = "running" /\ Untouched /\ ~Waits("refresh")
  /\ used' = [used EXCEPT !.queues = @ + 1]
  /\ IF row.status = "running" /\ row.next # "processing"
     THEN row' = [row EXCEPT !.next = "queued"] /\ Become(Watch([Now EXCEPT !.page.next = TRUE]))
     ELSE Become([Now EXCEPT !.loads = Append(@, Load("refresh", 0))]) /\ UNCHANGED row
  /\ UNCHANGED <<evs, db, runner, hand>>

\* The user reloads the page.
Reload ==
  /\ "reload" \in Faults /\ used.faults < MaxFaults /\ Untouched
  /\ page' = NewPage
  /\ conn' = [c \in DOMAIN conn |-> NoConn]
  /\ loads' = <<Load("mount", 0)>>
  /\ used' = [used EXCEPT !.faults = @ + 1]
  /\ UNCHANGED server

-----------------------------------------------------------------------------
(* The server's side of a request: chat, and what leads to it.               *)

Serve(c, pc) == conn' = [conn EXCEPT ![c].pc = pc]
Yield(c, e, pc) == conn' = [conn EXCEPT ![c].chan = Append(@, e), ![c].pc = pc]
Leave(c, more) == conn' = [conn EXCEPT ![c] = [NoConn EXCEPT !.pc = "end", !.chan = conn[c].chan \o more]]

\* An event the API makes itself goes to the log and to the reader.
ApiEvent(k) ==
  /\ evs' = Append(evs, Event(k, "db", 0))
  /\ db' = Append(db, Len(evs) + 1)

\* The interaction is resolved before the stream of its continuation opens.
Resolve ==
  /\ conn["message"].pc = "resolved"
  /\ ApiEvent("resolved")
  /\ Yield("message", Len(evs) + 1, "claim")
  /\ UNCHANGED <<row, runner, hand, page, loads, used>>

\* The row is claimed, a task made and registered.
Claim ==
  /\ conn["message"].pc = "claim"
  /\ row' = [row EXCEPT !.status = "running", !.task = NextRun]
  /\ Goto(NextRun, "made")
  /\ conn' = [conn EXCEPT !["message"].pc = "put", !["message"].run = NextRun]
  /\ UNCHANGED <<evs, db, hand, page, loads, used>>

\* Faulty: the event keeps the id it was made with.
PutUnnamedMessage ==
  /\ conn["message"].pc = "put"
  /\ evs' = Append(evs, Event("user", "db", conn["message"].run))
  /\ Yield("message", Len(evs) + 1, "add")
  /\ UNCHANGED <<db, row, runner, hand, page, loads, used>>

\* The message is put into the input stream, yielded, then committed; only
\* then the task is invoked.
PutMessage ==
  /\ conn["message"].pc = "put"
  /\ evs' = Append(evs, Event("user", "in", conn["message"].run))
  /\ Yield("message", Len(evs) + 1, "add")
  /\ UNCHANGED <<db, row, runner, hand, page, loads, used>>

Invoke ==
  /\ conn["message"].pc = "add"
  /\ LET r == conn["message"].run IN
     /\ db' = Append(db, CHOOSE e \in DOMAIN evs : evs[e].kind = "user" /\ evs[e].run = r)
     /\ Goto(r, "flow")
  /\ Serve("message", "get")
  /\ UNCHANGED <<evs, row, hand, page, loads, used>>

\* run_next_message: the row is started, the task made, registered, invoked;
\* its input is empty, so that the runner turns to the slot at once.
StartNext ==
  /\ conn["message"].pc = "start"
  /\ row' = [row EXCEPT !.status = "running", !.task = NextRun]
  /\ Goto(NextRun, "poll")
  /\ Serve("message", "open")
  /\ UNCHANGED <<evs, db, hand, page, loads, used>>

\* A request without a message listens to the task of the row.  A running row
\* without a task is finalized, an idle one answered with silence.
Open(c) ==
  /\ conn[c].pc = "open"
  /\ \/ /\ Registered(row.task)
        /\ conn' = [conn EXCEPT ![c].pc = "get", ![c].run = row.task]
        /\ UNCHANGED <<evs, db, row>>
     \/ /\ ~Registered(row.task) /\ row.status = "running"
        /\ row' = [row EXCEPT !.status = "completed",
                              !.next = IF @ = "processing" THEN "queued" ELSE @]
        /\ ApiEvent("error") /\ Leave(c, <<Len(evs) + 1>>)
     \/ /\ ~Registered(row.task) /\ row.status # "running"
        /\ Serve(c, "idle")
        /\ UNCHANGED <<evs, db, row>>
  /\ UNCHANGED <<runner, hand, page, loads, used>>

\* Thirty seconds without a task are over.  By then the page's timer, of at most
\* fifteen, has fired and its snapshots, of at most thirty, have come or failed:
\* it asked for them before this stream.
Idles(c) ==
  /\ conn[c].pc = "idle" /\ ~page.timer /\ loads = <<>>
  /\ Leave(c, <<>>)
  /\ UNCHANGED <<server, page, loads, used>>

Ready(c) ==
  {e \in DOMAIN evs : e > conn[c].pos /\ evs[e].src = "out" /\ evs[e].run = conn[c].run}

\* XREAD answers with the next event of the stream.
Get(c) ==
  /\ conn[c].pc = "get" /\ Ready(c) # {}
  /\ conn[c].pos # 0 => evs[conn[c].pos].src # "db"
  /\ LET e == Min(Ready(c)) IN
     IF Terminal(evs[e].kind) THEN Leave(c, <<e>>)
     ELSE conn' = [conn EXCEPT ![c].pos = e, ![c].chan = Append(@, e)]
  /\ UNCHANGED <<server, page, loads, used>>

\* XREAD times out; the reader looks at the task only afterwards.
Misses(c) ==
  /\ conn[c].pc = "get" /\ Ready(c) = {}
  /\ conn[c].pos # 0 => evs[conn[c].pos].src # "db"
  /\ Serve(c, "missed")
  /\ UNCHANGED <<server, page, loads, used>>

AsksTask(c) ==
  /\ conn[c].pc = "missed"
  /\ IF At(conn[c].run, "over") THEN Leave(c, <<>>) ELSE Serve(c, "get")
  /\ UNCHANGED <<server, page, loads, used>>

\* Redis refuses an id that is not a stream's: chat logs and yields an error.
Refused(c) ==
  /\ conn[c].pc = "get"
  /\ conn[c].pos # 0 /\ evs[conn[c].pos].src = "db"
  /\ ApiEvent("error") /\ Leave(c, <<Len(evs) + 1>>)
  /\ UNCHANGED <<row, runner, hand, page, loads, used>>

-----------------------------------------------------------------------------
(* The page's side of a request, and its snapshots.                          *)

Took(c) == [Now EXCEPT !.conn[c].chan = Tail(@)]

\* An event arrives.  A done on a message stream closes it.
Receive(c) ==
  /\ conn[c].chan # <<>>
  /\ LET e == Head(conn[c].chan)
         w == AppendEvent(Took(c), e)
     IN Become(IF c = "message" /\ evs[e].kind = "done"
               THEN [w EXCEPT !.page.sending = FALSE, !.conn["message"] = NoConn]
               ELSE w)
  /\ UNCHANGED <<server, used>>

\* Faulty: a stream that ends is not followed by anything.
EmptyStreamOver(w) == [w EXCEPT !.conn["empty"] = NoConn]

EmptyStreamEnd(w) ==
  [w EXCEPT !.conn["empty"] = NoConn, !.loads = Append(@, Load("empty", w.page.epoch))]

StreamEnds(c) ==
  /\ conn[c].pc = "end" /\ conn[c].chan = <<>>
  /\ Become(IF c = "message" THEN ReconcileRunStreamEnd(Now) ELSE EmptyStreamEnd(Now))
  /\ UNCHANGED <<server, used>>

\* A connection breaks.  An empty stream that was answered reports its error
\* and then its end, one that was not only the error.
DropMessage ==
  /\ "drop" \in Faults /\ used.faults < MaxFaults
  /\ conn["message"] # NoConn /\ Untouched
  /\ Become(ReconcileRunStreamEnd(Now))
  /\ used' = [used EXCEPT !.faults = @ + 1]
  /\ UNCHANGED server

Broken(w) ==
  CASE w.conn["empty"].pc = "none" -> w
    [] w.conn["empty"].pc = "open" -> ScheduleReconnect([w EXCEPT !.conn["empty"] = NoConn])
    [] OTHER -> EmptyStreamEnd(ScheduleReconnect(w))

DropEmpty ==
  /\ "drop" \in Faults /\ used.faults < MaxFaults
  /\ conn["empty"] # NoConn
  /\ Become(Broken(Now))
  /\ used' = [used EXCEPT !.faults = @ + 1]
  /\ UNCHANGED server

\* The server restarts: the registry, the runners and the connections go.
Crash ==
  /\ "crash" \in Faults /\ used.faults < MaxFaults /\ Untouched
  /\ runner' = [r \in Runs |-> IF At(r, "off") THEN "off" ELSE "over"]
  /\ hand' = [r \in Runs |-> 0]
  /\ Become(Broken(IF conn["message"] = NoConn THEN Now ELSE ReconcileRunStreamEnd(Now)))
  /\ used' = [used EXCEPT !.faults = @ + 1, !.crashed = TRUE]
  /\ UNCHANGED <<evs, db, row>>

ReconnectTimer ==
  /\ page.timer
  /\ LET w == [Now EXCEPT !.page.timer = FALSE] IN
     Become(IF conn["empty"] = NoConn /\ ~page.sending THEN StartEmptyStream(w) ELSE w)
  /\ UNCHANGED <<server, used>>

\* The server answers a snapshot request ...
LoadRead(i) ==
  /\ ~loads[i].read
  /\ loads' = [loads EXCEPT ![i].read = TRUE, ![i].status = row.status,
                            ![i].next = row.next # "none", ![i].log = db]
  /\ UNCHANGED <<server, conn, page, used>>

\* Faulty: the epoch is not compared.
CanApplyAny(l) == l.epoch \in Nat

\* ... which comes, unless it is lost, to a page that may be in another epoch.
CanApply(l) == l.epoch \in {0, page.epoch}

Continued(w, l) ==
  IF l.epoch # w.page.epoch THEN w
  ELSE CASE l.kind = "empty" -> ScheduleReconnect(w)
         [] l.kind = "run" /\ w.page.local = "running" /\ w.conn["empty"] = NoConn
              -> StartEmptyStream(w)
         [] OTHER -> w

LoadApply(i) ==
  /\ loads[i].read
  /\ LET w == [Now EXCEPT !.loads = RemoveAt(@, i)]
     IN Become(Continued(IF CanApply(loads[i]) THEN ApplySnapshot(w, loads[i]) ELSE w, loads[i]))
  /\ UNCHANGED <<server, used>>

LoadFails(i) ==
  /\ "lost" \in Faults /\ used.faults < MaxFaults
  /\ loads[i].kind # "mount"
  /\ Become(Continued([Now EXCEPT !.loads = RemoveAt(@, i)], loads[i]))
  /\ used' = [used EXCEPT !.faults = @ + 1]
  /\ UNCHANGED server

-----------------------------------------------------------------------------
RunnerStep(r) ==
  \/ FlowSteps(r) \/ FlowWaits(r) \/ FlowFails(r) \/ FinishOrClaim(r) \/ Puts(r)
  \/ Commit(r) \/ Settle(r) \/ Ends(r)

MessageStep == Resolve \/ Claim \/ PutMessage \/ Invoke \/ StartNext
ConnStep(c) == Open(c) \/ Idles(c) \/ Get(c) \/ Misses(c) \/ AsksTask(c) \/ Refused(c)
PageStep(c) == Receive(c) \/ StreamEnds(c)
LoadStep(i) == LoadRead(i) \/ LoadApply(i)
UserStep == Send \/ ResolveInteraction \/ RunNextMessage \/ QueueNextMessage \/ Reload

Next ==
  \/ \E r \in Runs : RunnerStep(r) \/ RunnerRaises(r)
  \/ MessageStep
  \/ \E c \in {"message", "empty"} : ConnStep(c) \/ PageStep(c)
  \/ ReconnectTimer
  \/ \E i \in DOMAIN loads : LoadStep(i) \/ LoadFails(i)
  \/ UserStep \/ DropMessage \/ DropEmpty \/ Crash

\* Coroutines are resumed and flows end, Redis and the database answer, the
\* browser runs its callbacks and timers, and the oldest snapshot arrives.
Fairness ==
  /\ WF_vars(MessageStep \/ \E r \in Runs : RunnerStep(r))
  /\ \A c \in {"message", "empty"} : WF_vars(ConnStep(c) \/ PageStep(c))
  /\ WF_vars(ReconnectTimer)
  /\ WF_vars(loads # <<>> /\ LoadStep(1))

Spec == Init /\ [][Next]_vars /\ Fairness

-----------------------------------------------------------------------------
(* Properties                                                                *)

\* The page shows no gap: with an event of a run's output it shows every
\* earlier one (appendEvent, loadSnapshot, the reader's cursor).
NoHole ==
  \A e \in page.shown : \A d \in 1..e :
    evs[e].src = "out" /\ evs[d].src = "out" /\ evs[d].run = evs[e].run => d \in page.shown

\* A page that believes a run is going has a stream, a timer or a snapshot
\* under way that will tell it more, and it never waits for a message stream
\* it has lost (isSendMessage would keep it from reconnecting).
NotDeaf ==
  /\ page.local = "running" =>
       \/ \E c \in DOMAIN conn : conn[c] # NoConn
       \/ page.timer \/ loads # <<>>
  /\ page.sending => conn["message"] # NoConn

\* A DoneEvent is true: when the page shows that of the session's last run,
\* the row is not running any more.
DoneIsTrue ==
  \A e \in page.shown : evs[e].kind = "done" /\ evs[e].run = row.task => row.status # "running"

\* A listening reader starts after an output event, not after an event that
\* is in no stream.
ResumesFromOutput ==
  conn["empty"].pc = "get" /\ conn["empty"].pos # 0 => evs[conn["empty"].pos].src # "db"

\* In the end, after lost connections, snapshots and restarts, failed flows and
\* reloads, the page has the status of the row and shows its log.  Two things
\* it may lack: a DoneEvent or an ErrorEvent, whose status it has and which a
\* snapshot read between put and commit removes; and after a restart events of
\* the dead task, whose stream nobody reads any more.
Converges ==
  <>[](/\ page.local = row.status
       /\ ~used.crashed =>
            \A e \in Range(db) : evs[e].kind \notin {"done", "error"} => e \in page.shown)
=============================================================================
