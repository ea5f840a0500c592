---------------------------- MODULE SessionPageInv ----------------------------
(* The inductive invariant of the session page: why it is never deaf and why *)
(* its DoneEvents are true.  It ties the page and its requests to the runner *)
(* of the row: what has been put and committed, what the message stream      *)
(* carries, and what a snapshot under way will say.                          *)
EXTENDS SessionPage

Done(e, r) == evs[e].kind = "done" /\ evs[e].run = r
Outs(r)    == {d \in DOMAIN evs : evs[d].src = "out" /\ evs[d].run = r}

\* The message stream belongs to a run that the row does not name yet.
Opening    == conn["message"].pc \in {"resolved", "claim", "start"}

\* What tells the page that a run is on.
Stirring(d) == evs[d].kind \in {"step", "resolved"}

\* A runner commits each event before it puts the next one, puts a DoneEvent
\* last, and completes the row before it.
RunnerInv(r) ==
  /\ r > row.task => At(r, "off")
  /\ IF runner[r] \in DOMAIN After THEN hand[r] \in Outs(r) ELSE hand[r] = 0
  /\ ~At(r, "over") => Outs(r) \subseteq Range(db) \cup {hand[r]}
  /\ \A e \in DOMAIN evs : Done(e, r) => runner[r] \in {"last", "closing", "over"}
  /\ \A e \in Range(db) : Done(e, r) => Outs(r) \subseteq Range(db)
  /\ At(r, "finish") /\ r = row.task => row.status # "running"

RunInv ==
  /\ \A r \in Runs : RunnerInv(r)
  /\ \A e \in DOMAIN evs : evs[e].kind = "done" =>
       evs[e].run \in Runs /\ (evs[e].run = row.task => row.status # "running")

\* The message stream serves the run of the row, once that is started, and its
\* first ending is its last event.
ServesInv ==
  LET m == conn["message"] IN
  /\ m.pc \in {"put", "add", "get", "missed"} => m.run = row.task /\ row.task \in Runs
  /\ m.pc \in {"put", "add"} => At(row.task, "made")
  /\ m.pc = "add" => \E e \in DOMAIN evs : evs[e].kind = "user" /\ evs[e].run = m.run
  /\ Opening => NextRun \in Runs

ChanInv ==
  LET m == conn["message"] IN
  \A i \in DOMAIN m.chan :
    /\ evs[m.chan[i]].kind \in {"done", "error"} => i = Len(m.chan) /\ m.pc = "end"
    /\ evs[m.chan[i]].kind = "done" => evs[m.chan[i]].run = row.task
    /\ Stirring(m.chan[i]) => m.chan[i] \in Range(db) \/ (~Opening /\ m.chan[i] \in Outs(row.task))

\* The listening stream sends nothing but what it reads, and an epoch is a run.
ConnInv ==
  /\ ServesInv /\ ChanInv
  /\ conn["empty"].pc \in {"none", "open", "get", "missed", "idle", "end"}
  /\ \A c \in {"message", "empty"} :
       /\ conn[c].pc = "none" => conn[c] = NoConn
       /\ conn[c].pc \in {"get", "missed"} => conn[c].run \in Runs
  /\ page.epoch <= row.task + (IF Opening THEN 2 ELSE 1)

\* A page that sends has its message stream and no other, and will be told more
\* of a run it believes in by a stream, its timer, or a snapshot of this epoch.
Told == {"run", "empty"}
HearsInv ==
  /\ page.sending => conn["message"].pc # "none" /\ conn["empty"].pc = "none"
  /\ conn["message"].pc # "none" =>
       page.sending \/ (conn["message"].pc = "end" /\ conn["message"].chan = <<>>)
  /\ \A i \in DOMAIN loads :
       /\ loads[i].epoch <= page.epoch
       /\ loads[i].kind = "run" /\ loads[i].epoch = page.epoch => ~page.sending
  /\ page.local = "running" =>
       \/ conn["message"].pc # "none" \/ conn["empty"].pc # "none"
       \/ page.timer
       \/ \E i \in DOMAIN loads : loads[i].kind \in Told /\ loads[i].epoch = page.epoch

\* Who shows the DoneEvent of the row's run, or has read it in a snapshot, has
\* nothing before it that would tell the page again that the run is on.
Settled(seen, status) ==
  (\E e \in seen : Done(e, row.task)) =>
    /\ status # "running"
    /\ \A d \in Range(conn["message"].chan) \cup Outs(row.task) : Stirring(d) => d \in seen

SettledInv ==
  ~Opening => /\ page.sending => Settled(page.shown, page.local)
              /\ \A i \in DOMAIN loads : Settled(Range(loads[i].log), loads[i].status)

\* The page is consistent: what TypeOK says, never deaf, and what that takes.
PageInv == TypeOK /\ RunInv /\ ConnInv /\ HearsInv /\ SettledInv /\ NotDeaf

-----------------------------------------------------------------------------
(* Why the page shows no gap.                                                *)

\* A set of events is whole if it has, with an output event, the earlier ones
\* of that output.
Ended(e) == Terminal(evs[e].kind)
Whole(S) == \A e \in S : evs[e].src = "out" => \A d \in Outs(evs[e].run) : d < e => d \in S

\* The runner puts no more; and only an ending is still to be committed.
PutAll(r)  == runner[r] \in {"last", "waits", "fails", "waiting", "failing", "closing", "over"}
Through(r) == PutAll(r) /\ \A d \in Outs(r) : d \in Range(db) \/ Ended(d)

\* A runner's ending is its last event, and the runners of older runs have but
\* theirs to put.
Active == {"made", "flow", "poll", "accept", "commit", "waits", "fails", "waiting", "failing"}
LaneInv(r) ==
  /\ r <= row.task => ~At(r, "off")
  /\ runner[r] \in {"off", "made"} => Outs(r) = {}
  /\ r < row.task => runner[r] \notin Active
  /\ r = row.task /\ runner[r] \in Active => row.status = "running"
  /\ runner[r] \in {"waits", "fails", "last"} => Ended(hand[r])
  /\ \A e \in Outs(r) : Ended(e) => PutAll(r) /\ \A d \in Outs(r) : d <= e

\* The log is whole, and a run's message comes before what the run puts out.
TurnInv ==
  /\ \A r \in Runs : LaneInv(r)
  /\ Whole(Range(db))
  /\ \A e \in DOMAIN evs : /\ evs[e].src # "db" => evs[e].run \in 1..row.task
                           /\ evs[e].kind = "user" => evs[e].src = "in"
  /\ \A x \in DOMAIN evs : evs[x].src = "in" =>
       \A q \in Runs : evs[x].run <= q => \A d \in Outs(q) : x < d
  /\ row.status = "waiting" => row.task # 0 /\ Through(row.task)
  /\ row.task = 0 => row.status = "pending"

\* The streams read the output of the row's run.  When the message stream has
\* ended there is nothing more to come of it.
StreamInv ==
  LET m == conn["message"] IN
  /\ Opening => row.status # "running"
  /\ m.pc \in {"start", "open"} => row.task # 0
  /\ row.task # 0 /\ m.pc \notin {"put", "add"} => db # <<>>
  /\ m.pos # 0 => evs[m.pos].src = "out"
  /\ m.pc = "end" => m.pos = 0
  /\ m.pc # "none" /\ ~Opening =>
       row.task # 0 /\ Outs(row.task) \subseteq Range(db) \cup {hand[row.task]}
  /\ m.pc \in {"idle", "end"} => PutAll(row.task)
  /\ conn["empty"].pc \in {"get", "missed"} => conn["empty"].run = row.task
  /\ \A c \in {"message", "empty"} : \A e \in Range(conn[c].chan) :
       evs[e].src = "out" => e \in Outs(row.task) /\ ~Opening

\* A snapshot that the page would still apply finds it not sending; it has the
\* session's events, if the session has run.  The first one finds it idle.
Applies(l, w) == l.epoch \in {0, w.page.epoch}
LoadsInv ==
  /\ \A l \in Range(loads) :
       /\ l.kind # "refresh"
       /\ IF l.kind = "mount"
          THEN /\ loads = <<l>> /\ page.local = "none" /\ page.epoch = 1 /\ ~page.timer
               /\ conn["message"] = NoConn /\ conn["empty"] = NoConn
          ELSE l.epoch # 0
       /\ Applies(l, Now) => ~page.sending /\ (l.read /\ l.log = <<>> => row.task = 0)
  /\ page.sending => page.local \in {"running", "waiting"}

\* The outputs of two runs mix if an older runner has its ending still to put,
\* or has put it after an event of the row's run.  One fault leads to it; then,
\* as without a fault, the page sends until the row's run is through.
Late ==
  \E r \in Runs : /\ r < row.task
                  /\ ~PutAll(r) \/ \E x \in Outs(r), d \in Outs(row.task) : d < x
LateInv ==
  used.faults <= 1 =>
    /\ used.faults = 0 => ~Late
    /\ used.faults = 0 \/ Late => (page.sending /\ ~Opening) \/ row.task = 0 \/ Through(row.task)

\* What is read after event p and shown with S has no gap.
From(p, S) ==
  p = 0 \/ evs[p].src = "db" \/ \A d \in Outs(row.task) : d <= p => d \in S \/ Ended(d)

StreamWhole(s, S) ==
  /\ From(s.pos, S \cup Range(s.chan))
  /\ \A i \in DOMAIN s.chan : evs[s.chan[i]].src = "out" =>
       \A d \in Outs(evs[s.chan[i]].run) :
         d < s.chan[i] => d \in S \/ \E j \in 1..(i - 1) : s.chan[j] = d

LoadWhole(l, w) ==
  Whole(Range(l.log)) /\ (Applies(l, w) /\ l.log # <<>> => From(Last(l.log), Range(l.log)))

PageWhole(w) ==
  /\ Whole(w.page.shown) /\ From(w.page.cursor, w.page.shown)
  /\ \A c \in {"message", "empty"} : StreamWhole(w.conn[c], w.page.shown)
  /\ \A l \in Range(w.loads) : LoadWhole(l, w)

\* The output of a run ends before that of the next begins.
InTurn ==
  \A d, e \in DOMAIN evs :
    evs[d].src = "out" /\ evs[e].src = "out" /\ evs[d].run < evs[e].run => d < e

\* A page of which no follow-up is refused, and that meets at most one fault or
\* outputs in turn, shows no gap.
Refuses == Waits("refresh")
Smooth == used.faults <= 1 \/ InTurn
WholeInv == LoadsInv /\ LateInv /\ (Smooth => PageWhole(Now))

-----------------------------------------------------------------------------
(* Why the listening stream starts after an event that a stream has.         *)

\* The id of an event that the API made itself, which no stream has.
Uuid(p) == p # 0 /\ evs[p].src = "db"

\* On a message stream such an event comes first, before the run's message.
Foretold(m, S) ==
  m.pc \in {"resolved", "claim", "put"} \/ \E e \in Range(m.chan) : ~Uuid(e) /\ e \notin S

MessageSound(m, p) ==
  /\ (p.sending /\ Uuid(p.cursor)) \/ (\E e \in Range(m.chan) : Uuid(e)) => Foretold(m, p.shown)
  /\ \A i \in DOMAIN m.chan : Uuid(m.chan[i]) => i = 1 /\ evs[m.chan[i]].kind = "resolved"
  /\ m.pc = "resolved" => m.chan = <<>>

\* A page that stays with such an event has nothing that would listen from it.
ListenSound(q) == ~Uuid(q.pos) /\ \A e \in Range(q.chan) : Uuid(e) => evs[e].kind = "error"
PageSound(p, q, f) ==
  /\ p.sending => ~p.timer
  /\ Uuid(p.cursor) /\ ~p.sending => p.local = "completed" \/ (f # 0 /\ q = NoConn /\ ~p.timer)
LoadSound(l, w) ==
  Applies(l, w) /\ l.read /\ l.status # "completed" => l.log = <<>> \/ ~Uuid(Last(l.log))

CursorOf(w, f) ==
  /\ MessageSound(w.conn["message"], w.page) /\ ListenSound(w.conn["empty"])
  /\ PageSound(w.page, w.conn["empty"], f)
  /\ \A l \in Range(w.loads) : LoadSound(l, w)
CursorInv == CursorOf(Now, used.faults)

\* The log ends with such an event only while no run is on.
RowSound ==
  LET m == conn["message"] IN
  /\ row.next = "none" /\ m.pc \notin {"start", "open"}
  /\ row.task = 0 => evs = <<>> /\ m.pc # "resolved"
  /\ db # <<>> /\ Uuid(Last(db)) => row.status = "completed" \/ m.pc \in {"claim", "put", "add"}
===============================================================================
