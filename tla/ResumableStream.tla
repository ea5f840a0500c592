---------------------------- MODULE ResumableStream ----------------------------
(* The SSE stream of one LibreChat generation over Redis: the driver on the  *)
(* replica that owns the generation numbers its events with INCR and         *)
(* PUBLISHes them; the RedisEventTransport of every replica puts them back in*)
(* order for the browsers attached there; GenerationJobManager replays to a  *)
(* first subscriber what was emitted before it came.  A step is the code from*)
(* one await on Redis to the next.                                           *)
EXTENDS Integers, FiniteSets, SequencesExt

CONSTANTS
  Replicas,   \* server processes
  Owner,      \* the one that runs the generation
  Clients,    \* connections to GET /chat/stream/:streamId
  Resuming,   \* those with ?resume=true, i.e. with skipBufferReplay
  Sticky,     \* bound: all connections are routed to one replica
  Aborters,   \* replicas that may serve one POST /chat/abort
  N,          \* bound: chunks of a generation nobody aborts
  NAborted,   \* bound: chunks of one that may be aborted
  NFailing,   \* bound: of one that may be aborted and fail
  MaxBuffer,  \* MAX_BUFFER_SIZE
  Starts      \* what an earlier turn may have left in the sequence key

ASSUME StreamAssumption ==
  /\ IsFiniteSet(Replicas) /\ IsFiniteSet(Clients)
  /\ Resuming \subseteq Clients /\ Sticky \in BOOLEAN
  /\ Owner \in Replicas /\ Aborters \subseteq Replicas
  /\ {N, NAborted, NFailing} \subseteq Nat /\ MaxBuffer \in Nat \ {0} /\ Starts \subseteq Nat

VARIABLES
  ctr,    \* stream:{id}:seq
  job,    \* the status of the row
  drv,    \* the driver: [pc, sent, lost, how, msg]; how it ends: done, aborted,
          \* or by an error that was caught
  abt,    \* the abort request: [pc, at, msg]
  cur,    \* cur[r]: runtimeState of r, the number of the entry or 0
  made,   \* made[r]: how many entries r has made
  subbed, \* entries with hasSubscriber
  dead,   \* entries whose controller is aborted
  early,  \* early[i]: earlyEventBuffer of the owner's entry i
  net,    \* net[r]: messages on their way to r's subscriber connection
  tr,     \* tr[r]: the transport's state of the stream at r
  sweep,  \* sweep[r]: where the cleanup of r is
  pc,     \* pc[c]: where the request of client c is
  home,   \* home[c]: the replica it was routed to
  ref,    \* ref[c]: the runtime entry it holds
  count,  \* count[c]: earlyReplayCount
  seen,   \* seen[c]: the counter its syncReorderBuffer has read
  got,    \* got[c]: what was written to its response
  owed,   \* <<c, s>>: c was live when a final event got number s; its PUBLISH
          \* has not failed, its replica not passed over s since   (history)
  whole,  \* clients that were replayed everything from the start (history)
  disturbed \* a message has overtaken another one, as in a cluster, the run was
            \* aborted, or the agent or the sending of its end failed (history)

redis  == <<ctr, job>>
rtvars == <<cur, made, subbed, dead, early>>
wire   == <<net, tr>>
cvars  == <<pc, home, ref, count, seen, got>>
hist   == <<owed, whole, disturbed>>
vars   == <<redis, drv, abt, rtvars, wire, sweep, cvars, hist>>

Entries == Replicas \X (1..2)
Msg(type, seq, k) == [type |-> type, seq |-> seq, k |-> k]
NoMsg  == Msg("none", 0, 0)
Ends   == {"final", "stored"}
Ended(c) == got[c] # <<>> /\ Last(got[c]).type \in Ends

Fresh == [tracked |-> FALSE, listen |-> FALSE, chan |-> "off", subs |-> 0,
          handlers |-> {}, next |-> 0, pend |-> {}, timer |-> FALSE]

Init ==
  /\ ctr \in Starts /\ job = "running"
  /\ drv = [pc |-> "run", sent |-> 0, lost |-> {}, how |-> "done", msg |-> NoMsg]
  /\ abt \in [pc : {"off"}, at : Aborters, msg : {NoMsg}]
             \cup [pc : {"none"}, at : {Owner}, msg : {NoMsg}]
  \* createJob has made the owner's entry and its two listeners
  /\ cur  = [r \in Replicas |-> IF r = Owner THEN 1 ELSE 0]
  /\ made = cur
  /\ subbed = {} /\ dead = {} /\ early = [i \in 1..2 |-> <<>>]
  /\ net = [r \in Replicas |-> <<>>]
  /\ tr = [r \in Replicas |-> IF r = Owner
             THEN [Fresh EXCEPT !.tracked = TRUE, !.listen = TRUE, !.chan = "on"]
             ELSE Fresh]
  /\ sweep = [r \in Replicas |-> "idle"]
  /\ pc = [c \in Clients |-> "off"]
  /\ home \in [Clients -> Replicas]
  /\ Sticky => \A c, d \in Clients : home[c] = home[d]
  /\ ref = [c \in Clients |-> 0] /\ count = ref /\ seen = ref
  /\ got = [c \in Clients |-> <<>>]
  /\ owed = {} /\ whole = {} /\ disturbed = FALSE

-----------------------------------------------------------------------------
(* The reorder buffer.                                                       *)

Seqs(ms)   == {m.seq : m \in ms}
InOrder(ms) == CHOOSE s \in [1 .. Cardinality(ms) -> ms] :
                 \A i, j \in DOMAIN s : i < j => s[i].seq < s[j].seq
MinSeq(ms) == CHOOSE s \in Seqs(ms) : \A u \in Seqs(ms) : s <= u
MaxSeq(ms) == CHOOSE s \in Seqs(ms) : \A u \in Seqs(ms) : u <= s
Larger(a, b)  == IF a < b THEN b ELSE a
Smaller(a, b) == IF a < b THEN a ELSE b

Reset(b) == [b EXCEPT !.next = 0, !.pend = {}, !.timer = FALSE]

\* Each function of the buffer returns it with the messages it delivers.
Nothing(b)      == [buf |-> b, out |-> <<>>]
Then(ms, after) == [after EXCEPT !.out = ms \o @]

\* Faulty: only the expected message is taken out.
FlushOne(b) ==
  LET ready == {m \in b.pend : m.seq = b.next}
      rest  == b.pend \ ready
  IN  [buf |-> [b EXCEPT !.next = @ + Cardinality(ready), !.pend = rest,
                         !.timer = @ /\ rest # {}],
       out |-> InOrder(ready)]

\* flushPendingMessages: the run of numbers from the expected one on.
Flush(b) ==
  LET n == CHOOSE n \in b.next .. b.next + Cardinality(b.pend) :
             n \notin Seqs(b.pend) /\ b.next .. n - 1 \subseteq Seqs(b.pend)
      ready == {m \in b.pend : m.seq \in b.next .. n - 1}
      rest  == b.pend \ ready
  IN  [buf |-> [b EXCEPT !.next = n, !.pend = rest, !.timer = @ /\ rest # {}],
       out |-> InOrder(ready)]

\* forceFlushBuffer: everything that waits, and the gaps are given up.
ForceFlush(b) ==
  [buf |-> [b EXCEPT !.next = MaxSeq(b.pend) + 1, !.pend = {}, !.timer = FALSE],
   out |-> InOrder(b.pend)]

\* Faulty: only the final event waits, a chunk that comes too early is dropped.
ReceiveExpected(b, m) ==
  CASE m.seq = b.next -> Then(<<m>>, Flush([b EXCEPT !.next = @ + 1]))
    [] m.seq > b.next /\ m.type = "final" ->
         Nothing([b EXCEPT !.pend = @ \cup {m}, !.timer = TRUE])
    [] OTHER -> Nothing(b)

\* handleOrderedChunk and handleTerminalEvent; only chunks overflow.
Receive(b, m) ==
  LET more == [b EXCEPT !.pend = @ \cup {m}, !.timer = TRUE] IN
  CASE m.seq < b.next -> Nothing(b)
    [] m.seq = b.next -> Then(<<m>>, Flush([b EXCEPT !.next = @ + 1]))
    [] m.seq > b.next ->
         IF m.type = "chunk" /\ Cardinality(more.pend) >= MaxBuffer
         THEN ForceFlush(more) ELSE Nothing(more)

\* Faulty: the expected number may fall back.
SyncRegressing(b, replayed, counter) ==
  LET live == {m \in b.pend : m.seq >= replayed}
      bar  == IF live = {} THEN replayed ELSE Smaller(counter, MinSeq(live))
      r    == Flush([b EXCEPT !.pend = live, !.next = bar])
  IN  [r EXCEPT !.buf.timer = r.buf.pend # {}]

\* syncReorderBuffer, after its GET.
Sync(b, replayed, counter) ==
  LET live == {m \in b.pend : m.seq >= replayed}
      bar  == IF live = {} THEN IF replayed > 0 THEN replayed ELSE counter
              ELSE Smaller(counter, MinSeq(live))
      r    == Flush([b EXCEPT !.pend = live, !.next = Larger(@, bar)])
  IN  [r EXCEPT !.buf.timer = r.buf.pend # {}]

-----------------------------------------------------------------------------
(* Redis pub/sub and the responses.                                          *)

\* PUBLISH reaches the connections that are subscribed now (what can concern
\* nobody at a replica is not followed there).
Visited(r) == \E c \in Clients : home[c] = r
Concerns(m, r) == Visited(r) \/ (m.type = "abort" /\ r = Owner)
Publish(m) ==
  net' = [r \in Replicas |-> IF tr[r].chan = "on" /\ Concerns(m, r)
                             THEN Append(net[r], m) ELSE net[r]]

\* A response is closed by the first final event: later writes are void.
Write(g, ms) ==
  IF g # <<>> /\ Last(g).type \in Ends THEN g
  ELSE LET upto == {i \in DOMAIN ms : \A j \in 1..(i-1) : ms[j].type \notin Ends}
       IN  g \o SubSeq(ms, 1, Cardinality(upto))

Deliver(r, res) ==
  /\ tr' = [tr EXCEPT ![r] = res.buf]
  /\ owed' = owed \ {o \in owed : /\ home[o[1]] = r
                                 /\ o[2] \in tr[r].next .. res.buf.next - 1
                                 /\ o[2] \notin Seqs(Range(res.out))}
  /\ got' = [c \in Clients |-> IF c \in tr[r].handlers THEN Write(got[c], res.out)
                               ELSE got[c]]

\* Between the reply to SUBSCRIBE and the replay no event is handled at r.
Settled(r) == \A c \in Clients : home[c] = r /\ pc[c] = "joining" => tr[r].chan # "on"

HandleMessage(r, i) ==
  LET m == net[r][i] IN
  /\ Settled(r)
  /\ disturbed' = (disturbed \/ i > 1)
  /\ net' = [net EXCEPT ![r] = RemoveAt(@, i)]
  /\ IF m.type = "abort"
     THEN /\ dead' = IF tr[r].tracked /\ tr[r].listen /\ cur[r] # 0
                     THEN dead \cup {<<r, cur[r]>>} ELSE dead
          /\ UNCHANGED <<tr, got, owed>>
     ELSE /\ IF tr[r].tracked THEN Deliver(r, Receive(tr[r], m))
             ELSE UNCHANGED <<tr, got, owed>>
          /\ UNCHANGED dead
  /\ UNCHANGED <<redis, drv, abt, cur, made, subbed, early, sweep, pc, home,
                 ref, count, seen, whole>>

\* The flush timeout.
FlushTimeout(r) ==
  /\ tr[r].timer
  /\ Settled(r)
  /\ Deliver(r, ForceFlush(tr[r]))
  /\ UNCHANGED <<redis, drv, abt, rtvars, net, sweep, pc, home, ref, count,
                 seen, whole, disturbed>>

\* SUBSCRIBE is confirmed, behind what an earlier subscription still brings.
Joined(r) ==
  /\ tr[r].chan = "joining" /\ net[r] = <<>>
  /\ tr' = [tr EXCEPT ![r].chan = "on"]
  /\ UNCHANGED <<redis, drv, abt, rtvars, net, sweep, cvars, hist>>

-----------------------------------------------------------------------------
(* The runtime entries.                                                      *)

\* getOrCreateRuntimeState: the entry of r, made while there is a row.
HasRuntime(r) == cur[r] # 0 \/ (job # "gone" /\ made[r] < 2)
EnsureRuntime(r) ==
  IF cur[r] # 0 THEN UNCHANGED <<cur, made>> /\ tr' = tr
  ELSE /\ made' = [made EXCEPT ![r] = @ + 1]
       /\ cur'  = [cur EXCEPT ![r] = made'[r]]
       /\ tr'   = IF r # Owner /\ ~Visited(r) THEN tr
                  ELSE [tr EXCEPT ![r].tracked = TRUE, ![r].listen = TRUE,
                                  ![r].chan = IF @ = "off" THEN "joining" ELSE @]

DropRuntime(r) == cur' = [cur EXCEPT ![r] = 0]

-----------------------------------------------------------------------------
(* The clients.                                                              *)

\* The route finds the job, or answers 404.
Lookup(c) ==
  LET r == home[c] IN
  /\ pc[c] = "off"
  /\ IF HasRuntime(r)
     THEN /\ EnsureRuntime(r)
          /\ ref' = [ref EXCEPT ![c] = cur'[r]]
          /\ pc' = [pc EXCEPT ![c] = "found"]
     ELSE pc' = [pc EXCEPT ![c] = "left"] /\ UNCHANGED <<ref, cur, made, tr>>
  /\ UNCHANGED <<redis, drv, abt, subbed, dead, early, net, sweep, home,
                 count, seen, got, hist>>

\* subscribe: the row is read, a stored error is sent, and the handlers are
\* registered in a buffer that starts anew for a first subscriber.
Attach(c) ==
  LET r == home[c]
      b == IF tr[r].subs = 0 THEN Reset(tr[r]) ELSE tr[r] IN
  /\ pc[c] = "found"
  /\ Settled(r)
  /\ tr' = [tr EXCEPT ![r] =
       [b EXCEPT !.tracked = TRUE, !.subs = @ + 1, !.handlers = @ \cup {c},
                 !.chan = IF @ = "off" THEN "joining" ELSE @]]
  /\ got' = IF job = "error" THEN [got EXCEPT ![c] = Write(@, <<Msg("stored", 0, 0)>>)]
            ELSE got
  /\ pc' = [pc EXCEPT ![c] = "joining"]
  /\ UNCHANGED <<redis, drv, abt, rtvars, net, sweep, home, ref, count, seen, hist>>

\* The channel is open: the first subscriber of the entry empties the early
\* buffer, an initial one being written it, and asks for the counter.
Replay(c) ==
  LET r == home[c]
      e == IF r = Owner THEN early[ref[c]] ELSE <<>>
      n == IF c \in Resuming THEN 0 ELSE Len(e) IN
  /\ pc[c] = "joining" /\ tr[r].chan = "on"
  /\ IF <<r, ref[c]>> \in subbed
     THEN /\ pc' = [pc EXCEPT ![c] = "live"]
          /\ UNCHANGED <<subbed, early, count, got, whole>>
     ELSE /\ subbed' = subbed \cup {<<r, ref[c]>>}
          /\ early' = IF r = Owner THEN [early EXCEPT ![ref[c]] = <<>>] ELSE early
          /\ count' = [count EXCEPT ![c] = n]
          /\ got' = [got EXCEPT ![c] = Write(@, SubSeq(e, 1, n))]
          /\ whole' = IF r = Owner /\ n > 0 /\ drv.sent = n /\ ctr = n
                   THEN whole \cup {c} ELSE whole
          /\ pc' = [pc EXCEPT ![c] = "asking"]
  /\ UNCHANGED <<redis, drv, abt, cur, made, dead, wire, sweep, home, ref,
                 seen, owed, disturbed>>

\* Redis answers the GET ...
GetCounter(c) ==
  /\ pc[c] = "asking"
  /\ seen' = [seen EXCEPT ![c] = ctr]
  /\ pc' = [pc EXCEPT ![c] = "asked"]
  /\ UNCHANGED <<redis, drv, abt, rtvars, wire, sweep, home, ref, count, got, hist>>

\* ... and the buffer catches up with it.
SyncBuffer(c) ==
  LET r == home[c] IN
  /\ pc[c] = "asked"
  /\ IF tr[r].tracked THEN Deliver(r, Sync(tr[r], count[c], seen[c]))
     ELSE UNCHANGED <<tr, got, owed>>
  /\ pc' = [pc EXCEPT ![c] = "live"]
  /\ count' = [count EXCEPT ![c] = 0] /\ seen' = [seen EXCEPT ![c] = 0]
  /\ UNCHANGED <<redis, drv, abt, rtvars, net, sweep, home, ref, whole,
                 disturbed>>

\* The connection closes.  The last to leave takes the channel with it, and
\* makes the entry await a first subscriber again.
Leave(c) ==
  LET r == home[c]
      b == [tr[r] EXCEPT !.handlers = @ \ {c}, !.subs = @ - 1] IN
  /\ pc[c] = "live"
  /\ Settled(r)
  /\ IF ~tr[r].tracked THEN UNCHANGED <<tr, subbed>>
     ELSE IF b.subs # 0 THEN tr' = [tr EXCEPT ![r] = b] /\ UNCHANGED subbed
     ELSE /\ tr' = [tr EXCEPT ![r] = [Reset(b) EXCEPT !.chan = "off"]]
          /\ subbed' = IF b.listen THEN subbed \ {<<r, cur[r]>>} ELSE subbed
  /\ pc' = [pc EXCEPT ![c] = "left"]
  /\ ref' = [ref EXCEPT ![c] = 0]
  /\ got' = [got EXCEPT ![c] = <<>>]
  /\ owed' = {o \in owed : o[1] # c} /\ whole' = whole \ {c}
  /\ UNCHANGED <<redis, drv, abt, cur, made, dead, early, net, sweep, home,
                 count, seen, disturbed>>

-----------------------------------------------------------------------------
(* The driver.                                                               *)

\* A GET that a replica has sent is answered before a later INCR of it.
Pipelined(r) == \A c \in Clients : home[c] = r => pc[c] # "asking"

\* emitChunk: kept for a first subscriber, and numbered.
EmitChunk ==
  LET i == cur[Owner] IN
  /\ drv.pc = "run" /\ drv.sent < IF abt.pc = "none" THEN N ELSE NAborted
  /\ i # 0 /\ <<Owner, i>> \notin dead
  /\ Settled(Owner) /\ Pipelined(Owner)
  /\ early' = IF <<Owner, i>> \in subbed THEN early
              ELSE [early EXCEPT ![i] = Append(@, Msg("replayed", 0, drv.sent))]
  /\ drv' = [drv EXCEPT !.pc = "chunk", !.sent = @ + 1,
                        !.msg = Msg("chunk", ctr, drv.sent)]
  /\ ctr' = ctr + 1
  /\ UNCHANGED <<job, abt, cur, made, subbed, dead, wire, sweep, cvars, hist>>

\* The PUBLISH of a chunk may fail, and is then forgotten.
PublishChunk ==
  /\ drv.pc = "chunk"
  /\ \/ Publish(drv.msg) /\ drv' = [drv EXCEPT !.pc = "run", !.msg = NoMsg]
     \/ /\ drv' = [drv EXCEPT !.pc = "run", !.msg = NoMsg, !.lost = @ \cup {drv.msg.k}]
        /\ UNCHANGED net
  /\ UNCHANGED <<redis, abt, rtvars, tr, sweep, cvars, hist>>

\* The agent is through: that is announced if the row is still there, as an
\* unfinished answer if the controller is aborted ...
Finish ==
  /\ drv.pc = "run"
  /\ IF job = "gone" THEN drv' = [drv EXCEPT !.pc = "over"] /\ UNCHANGED <<cur, made, tr>>
     ELSE /\ drv' = [drv EXCEPT !.pc = "final",
                        !.how = IF <<Owner, 1>> \in dead THEN "aborted" ELSE @]
          /\ IF HasRuntime(Owner) THEN EnsureRuntime(Owner) ELSE UNCHANGED <<cur, made, tr>>
  /\ UNCHANGED <<redis, abt, subbed, dead, early, net, sweep, cvars, hist>>

\* An abort and a failure of the agent or of a send of its end meet in short
\* generations only (a bound).
MayFail == abt.pc = "none" \/ drv.sent <= NFailing

\* The catch: an error is announced in any case, unless the controller is
\* aborted or the words of the error have "abort" in them: then nothing is.
Caught ==
  \/ drv' = [drv EXCEPT !.pc = "over", !.how = "error", !.msg = NoMsg]
  \/ /\ <<Owner, 1>> \notin dead
     /\ drv' = [drv EXCEPT !.pc = "final", !.how = "error", !.msg = NoMsg]

\* ... or it fails.
Fail ==
  /\ drv.pc = "run" /\ MayFail
  /\ Caught
  /\ disturbed' = TRUE
  /\ UNCHANGED <<redis, abt, rtvars, wire, sweep, cvars, owed, whole>>

Live == {c \in Clients : pc[c] = "live" /\ c \in tr[home[c]].handlers /\ ~Ended(c)}

\* emitDone and emitError: the number.
NumberFinal ==
  /\ drv.pc = "final"
  /\ Pipelined(Owner)
  /\ drv' = [drv EXCEPT !.pc = "publish", !.msg = Msg("final", ctr, 0)]
  /\ ctr' = ctr + 1
  /\ owed' = owed \cup {<<c, ctr>> : c \in Live}
  /\ UNCHANGED <<job, abt, rtvars, wire, sweep, cvars, whole, disturbed>>

\* Faulty: the transport is cleaned up with the job.
PublishAndCleanup ==
  /\ drv.pc = "publish"
  /\ Publish(drv.msg)
  /\ dead' = IF cur[Owner] = 0 THEN dead ELSE dead \cup {<<Owner, cur[Owner]>>}
  /\ DropRuntime(Owner)
  /\ tr' = [tr EXCEPT ![Owner] = Fresh]
  /\ drv' = [drv EXCEPT !.pc = "store", !.msg = NoMsg]
  /\ UNCHANGED <<redis, abt, made, subbed, early, sweep, cvars, hist>>

\* completeJob aborts the controller; the entry goes unless a late subscriber
\* must find the error; the transport is left to the cleanup.
CompleteJob ==
  /\ dead' = IF cur[Owner] = 0 THEN dead ELSE dead \cup {<<Owner, cur[Owner]>>}
  /\ IF drv.how = "done" THEN DropRuntime(Owner) ELSE UNCHANGED cur
  /\ drv' = [drv EXCEPT !.pc = "store", !.msg = NoMsg]

\* The PUBLISH is answered ...
PublishFinal ==
  /\ drv.pc = "publish"
  /\ Publish(drv.msg)
  /\ CompleteJob
  /\ UNCHANGED <<redis, abt, made, subbed, early, tr, sweep, cvars, hist>>

\* A PUBLISH that throws: Redis may have taken it all the same.
Throws(m) == \/ Publish(m) /\ UNCHANGED owed
             \/ UNCHANGED net /\ owed' = {o \in owed : Msg("final", o[2], 0) # m}

\* ... or it throws: an emitDone into the catch, the emitError of the catch out
\* of it, and then the job is completed with the error.  So does the INCR.
SendFails ==
  /\ MayFail
  /\ \/ drv.pc = "publish" /\ Throws(drv.msg)
     \/ drv.pc = "final" /\ UNCHANGED <<net, owed>>
  /\ IF drv.how = "error" THEN CompleteJob ELSE Caught /\ UNCHANGED <<cur, dead>>
  /\ disturbed' = TRUE
  /\ UNCHANGED <<redis, abt, made, subbed, early, tr, sweep, cvars, whole>>

\* ... then the row goes, or keeps the error.
StoreEnd ==
  /\ drv.pc = "store"
  /\ job' = IF drv.how # "done" /\ job # "gone" THEN "error" ELSE "gone"
  /\ drv' = [drv EXCEPT !.pc = "over"]
  /\ UNCHANGED <<ctr, abt, rtvars, wire, sweep, cvars, hist>>

-----------------------------------------------------------------------------
(* An abort request, served by replica abt.at.                               *)

\* The signal is published, or its PUBLISH fails and is forgotten, and the
\* local controller aborted ...
AbortSignal ==
  LET r == abt.at IN
  /\ abt.pc = "off" /\ job # "gone" /\ HasRuntime(r)
  /\ EnsureRuntime(r)
  /\ dead' = dead \cup {<<r, cur'[r]>>}
  /\ Publish(Msg("abort", 0, 0)) \/ (MayFail /\ UNCHANGED net)
  /\ abt' = [abt EXCEPT !.pc = "number"]
  /\ disturbed' = TRUE
  /\ UNCHANGED <<redis, drv, subbed, early, sweep, cvars, owed, whole>>

\* ... the final event numbered, published, the entry and the row removed.
AbortNumber ==
  /\ abt.pc = "number"
  /\ Pipelined(abt.at)
  /\ abt' = [abt EXCEPT !.pc = "publish", !.msg = Msg("final", ctr, 0)]
  /\ ctr' = ctr + 1
  /\ owed' = owed \cup {<<c, ctr>> : c \in Live}
  /\ UNCHANGED <<job, drv, rtvars, wire, sweep, cvars, whole, disturbed>>

AbortPublish ==
  /\ abt.pc = "publish"
  /\ Publish(abt.msg)
  /\ DropRuntime(abt.at)
  /\ abt' = [abt EXCEPT !.pc = "delete", !.msg = NoMsg]
  /\ UNCHANGED <<redis, drv, made, subbed, dead, early, tr, sweep, cvars, hist>>

\* (or INCR or PUBLISH throws: the request fails and leaves the row as it is)
AbortFails ==
  /\ MayFail
  /\ \/ abt.pc = "publish" /\ Throws(abt.msg)
     \/ abt.pc = "number" /\ UNCHANGED <<net, owed>>
  /\ abt' = [abt EXCEPT !.pc = "over", !.msg = NoMsg]
  /\ UNCHANGED <<redis, drv, rtvars, tr, sweep, cvars, whole, disturbed>>

AbortDelete ==
  /\ abt.pc = "delete"
  /\ job' = "gone"
  /\ abt' = [abt EXCEPT !.pc = "over"]
  /\ UNCHANGED <<ctr, drv, rtvars, wire, sweep, cvars, hist>>

-----------------------------------------------------------------------------
(* The cleanup of the manager, and the store's.                              *)

\* A model or tool call that never comes back.
Hang ==
  /\ drv.pc = "run"
  /\ drv' = [drv EXCEPT !.pc = "hung"]
  /\ UNCHANGED <<redis, abt, rtvars, wire, sweep, cvars, hist>>

\* Rows with an error, and running ones without activity, are removed.
RowReaped ==
  /\ job = "error" \/ (job = "running" /\ drv.pc \in {"hung", "over"})
  /\ job' = "gone"
  /\ UNCHANGED <<ctr, drv, abt, rtvars, wire, sweep, cvars, hist>>

\* An entry without a row is aborted; subscribers are told first ...
SweepSees(r) ==
  /\ sweep[r] = "idle"
  /\ job = "gone" /\ cur[r] # 0
  /\ dead' = dead \cup {<<r, cur[r]>>}
  /\ sweep' = [sweep EXCEPT ![r] = IF tr[r].subs > 0 THEN "tell" ELSE "drop"]
  /\ UNCHANGED <<redis, drv, abt, cur, made, subbed, early, wire, cvars, hist>>

\* (the INCR and the PUBLISH of this event are one step; a failure is logged)
SweepTells(r) ==
  /\ sweep[r] = "tell"
  /\ Publish(Msg("final", ctr, 0)) \/ UNCHANGED net
  /\ ctr' = ctr + 1
  /\ sweep' = [sweep EXCEPT ![r] = "drop"]
  /\ UNCHANGED <<job, drv, abt, rtvars, tr, cvars, hist>>

\* ... then everything of the stream is dropped, the counter included.
SweepDrops(r) ==
  /\ sweep[r] = "drop"
  /\ DropRuntime(r)
  /\ tr' = [tr EXCEPT ![r] = Fresh]
  /\ ctr' = 0
  /\ sweep' = [sweep EXCEPT ![r] = "idle"]
  /\ UNCHANGED <<job, drv, abt, made, subbed, dead, early, net, cvars, hist>>

\* So is a stream of the transport with neither a row nor an entry.
SweepOrphan(r) ==
  /\ sweep[r] = "idle"
  /\ job = "gone" /\ cur[r] = 0 /\ tr[r].tracked
  /\ tr' = [tr EXCEPT ![r] = Fresh]
  /\ ctr' = 0
  /\ UNCHANGED <<job, drv, abt, rtvars, net, sweep, cvars, hist>>

-----------------------------------------------------------------------------
Request(c) == Attach(c) \/ Replay(c) \/ GetCounter(c) \/ SyncBuffer(c)
Driver == \/ EmitChunk \/ PublishChunk \/ Finish \/ Fail
          \/ NumberFinal \/ PublishFinal \/ SendFails \/ StoreEnd
Abort  == AbortNumber \/ AbortPublish \/ AbortFails \/ AbortDelete
Sweep(r) == SweepSees(r) \/ SweepTells(r) \/ SweepDrops(r) \/ SweepOrphan(r)

Next ==
  \/ \E c \in Clients : Lookup(c) \/ Request(c) \/ Leave(c)
  \/ Driver \/ AbortSignal \/ Abort
  \/ \E r \in Replicas : Joined(r) \/ FlushTimeout(r)
  \/ \E r \in Replicas : \E i \in DOMAIN net[r] : HandleMessage(r, i)

Cleanup == Hang \/ RowReaped \/ \E r \in Replicas : Sweep(r)

\* The stream up to the first cleanup, and with the cleanup of every minute.
Spec      == Init /\ [][Next]_vars
SweptSpec == Init /\ [][Next \/ Cleanup]_vars

-----------------------------------------------------------------------------
(* Properties.                                                               *)

LiveTypes == {"chunk", "final"}
Messages == [type : LiveTypes \cup {"none", "abort", "replayed", "stored"},
             seq : Nat, k : Nat]
Buffers == [tracked : BOOLEAN, listen : BOOLEAN, chan : {"off", "joining", "on"},
            subs : Nat, handlers : SUBSET Clients, next : Nat,
            pend : SUBSET Messages, timer : BOOLEAN]
Drivers == [pc : {"run", "chunk", "hung", "final", "publish", "store", "over"},
            sent : Nat, lost : SUBSET Nat, how : {"done", "aborted", "error"}, msg : Messages]
Aborts  == [pc : {"none", "off", "number", "publish", "delete", "over"},
            at : Replicas, msg : Messages]
Listening(c) == pc[c] \in {"joining", "asking", "asked", "live"}

TypeOK ==
  /\ ctr \in Nat /\ job \in {"running", "error", "gone"}
  /\ drv \in Drivers /\ abt \in Aborts
  /\ cur \in [Replicas -> 0..2] /\ made \in [Replicas -> 0..2]
  /\ subbed \subseteq Entries /\ dead \subseteq Entries
  /\ early \in [1..2 -> Seq(Messages)]
  /\ net \in [Replicas -> Seq(Messages)]
  /\ tr \in [Replicas -> Buffers]
  /\ sweep \in [Replicas -> {"idle", "tell", "drop"}]
  /\ pc \in [Clients -> {"off", "found", "joining", "asking", "asked", "live", "left"}]
  /\ home \in [Clients -> Replicas]
  /\ ref \in [Clients -> 0..2]
  /\ count \in [Clients -> Nat] /\ seen \in [Clients -> Nat]
  /\ got \in [Clients -> Seq(Messages)]
  /\ owed \subseteq Clients \X Nat /\ whole \subseteq Clients /\ disturbed \in BOOLEAN

\* What has a number and may still come to the buffer of r.
Coming(r) == {m \in Range(net[r]) : m.type # "abort"}
             \cup {m \in {drv.msg, abt.msg} : m.type # "none"}

\* A number is of one event, and was allotted by the counter.
NumberInv ==
  \A r \in Replicas : \A m \in Coming(r) \cup tr[r].pend :
    /\ m.type \in LiveTypes /\ m.seq < ctr
    /\ \A o \in Coming(r) \cup tr[r].pend : o.seq = m.seq => o = m

\* What has a number and no PUBLISH yet.
UnsentInv ==
  /\ drv.msg.type = CASE drv.pc = "chunk"   -> "chunk"
                      [] drv.pc = "publish" -> "final"
                      [] OTHER              -> "none"
  /\ abt.msg.type = IF abt.pc = "publish" THEN "final" ELSE "none"
  /\ \A m \in {drv.msg, abt.msg} : m.type = "final" => m = Msg("final", m.seq, 0)

\* The buffer of a replica: what waits is ahead of the expected number, nothing
\* is expected beyond what was allotted, and a gap has its timer, as no other
\* has (RedisEventTransport.ts:209: "without this, buffered messages could sit
\* indefinitely").
BufferInv(r) ==
  /\ IsFiniteSet(tr[r].pend)
  /\ \A m \in tr[r].pend : tr[r].next < m.seq
  /\ tr[r].next <= ctr
  /\ tr[r].timer <=> tr[r].pend # {}

\* The handlers of a replica are those of its open requests, and are counted; a
\* request with handlers has a channel, one past the replay an open channel.
HandlerInv(r) ==
  /\ tr[r].handlers = {c \in Clients : home[c] = r /\ Listening(c)}
  /\ tr[r].subs = Cardinality(tr[r].handlers)
  /\ tr[r].handlers # {} => tr[r].tracked /\ tr[r].chan # "off"
  /\ \A c \in tr[r].handlers : pc[c] # "joining" => tr[r].chan = "on"

\* An early buffer holds no more events than have numbers, and what a sync is
\* told, the replayed and the counter, was true of the counter once.
EarlyInv ==
  /\ \A i \in 1..2 : /\ Len(early[i]) <= ctr
                     /\ \A j \in DOMAIN early[i] : early[i][j].type = "replayed"
  /\ \A c \in Clients :
       /\ pc[c] \in {"found", "joining"} => ref[c] # 0
       /\ count[c] <= ctr /\ seen[c] <= ctr
       /\ pc[c] = "asked" => count[c] <= seen[c]

\* What a client receives live is in the order of the numbers, whatever the
\* order of arrival, over gaps, overflows, syncs and other clients' comings.
LiveInOrder ==
  \A c \in Clients : \A i, j \in DOMAIN got[c] :
    i < j /\ {got[c][i].type, got[c][j].type} \subseteq LiveTypes
      => got[c][i].seq < got[c][j].seq

\* It is behind the number its replica expects.
GotInv ==
  \A c \in Clients :
    /\ ~Listening(c) => got[c] = <<>>
    /\ \A i \in DOMAIN got[c] :
         got[c][i].type \in LiveTypes => got[c][i].seq < tr[home[c]].next

\* A final event owed to a client is on its way to it, or has ended it.
OnItsWay(c, s) ==
  /\ tr[home[c]].next <= s
  /\ \E m \in Coming(home[c]) \cup tr[home[c]].pend : m.type = "final" /\ m.seq = s
OwedInv ==
  \A o \in owed : /\ Listening(o[1]) /\ pc[o[1]] # "joining"
                  /\ Ended(o[1]) \/ OnItsWay(o[1], o[2])

\* The invariant of the stream: numbers, buffers, handlers, what was written to
\* the responses, and what is still owed to them.
StreamInv ==
  /\ TypeOK /\ NumberInv /\ UnsentInv
  /\ \A r \in Replicas : BufferInv(r) /\ HandlerInv(r)
  /\ EarlyInv /\ GotInv /\ LiveInOrder /\ OwedInv

\* Where no message overtakes another, nobody aborts, and neither the agent nor
\* the sending of its end fails, a browser that attached to the owner before
\* anything was missed has every chunk when it is told the end, but those whose
\* PUBLISH failed: the early buffer and the live channel leave no hole between them.
FirstSeesAll ==
  \A c \in whole :
    ~disturbed /\ Ended(c)
      => \A k \in (0 .. drv.sent - 1) \ drv.lost :
           \E i \in DOMAIN got[c] : got[c][i].type \in {"chunk", "replayed"} /\ got[c][i].k = k

\* Once nothing is on its way to a replica and no timer runs there, a client
\* that was live when a final event got its number has been told an end, unless
\* the event is still unpublished, its PUBLISH failed, or the replica has passed
\* over its number.
DoneIsHeard ==
  \A o \in owed :
    \/ Ended(o[1])
    \/ net[home[o[1]]] # <<>> \/ tr[home[o[1]]].timer
    \/ Msg("final", o[2], 0) \in {drv.msg, abt.msg}

\* GenerationJobManager.ts:1862: "If a client is still attached when the job is
\* reaped, send a terminal error first so the SSE connection closes instead of
\* hanging open": no open response loses its handlers with nothing sent to it.
OpenIsTold ==
  [][\A c \in Live : c \notin tr'[home[c]].handlers
        => \/ pc'[c] = "left" \/ sweep[home[c]] = "drop"
           \/ \E i \in DOMAIN net[home[c]] : net[home[c]][i].type = "final"]_vars
=============================================================================
