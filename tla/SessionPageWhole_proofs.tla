----------------------- MODULE SessionPageWhole_proofs -----------------------
(* NoHole is an invariant of a page none of whose follow-ups is refused, up  *)
(* to the first fault of a session, and after it while the outputs of its    *)
(* runs come one after the other.                                            *)
EXTENDS SessionPage_proofs

-----------------------------------------------------------------------------
(* The log is whole *)

\* The parts of the server that TurnInv speaks of.
LEMMA ServerIs ==
  ASSUME ServerTypeOK
  PROVE  /\ evs \in Seq(Events) /\ Len(evs) \in Nat /\ DOMAIN evs = 1 .. Len(evs)
         /\ db \in Seq(Nat) /\ Range(db) \subseteq DOMAIN evs
         /\ row \in Rows /\ row.task \in Nat /\ row.status \in Statuses
         /\ runner \in [Runs -> RunnerPcs] /\ hand \in [Runs -> 0..Len(evs)]
         /\ Runs \subseteq Nat \ {0}
         /\ \A r : Outs(r) \subseteq DOMAIN evs
  BY PageAssumption DEF ServerTypeOK, Rows, Runs, Outs

\* The runner of a run that the row does not name has no part in a step.
LEMMA LaneKept ==
  ASSUME ServerTypeOK, Grown, NEW q \in Runs, LaneInv(q), RunnerInv(q),
         hand'[q] = hand[q], runner'[q] = runner[q], Outs(q)' = Outs(q),
         row'.task = row.task,
         q = row.task /\ runner[q] \in Active => row'.status = row.status
  PROVE  LaneInv(q)'
  <1>1. \A e \in DOMAIN evs : evs'[e] = evs[e]
    BY DEF Grown
  <1>2. \A e \in DOMAIN evs : Ended(e)' <=> Ended(e)
    BY <1>1 DEF Ended
  <1>3. Outs(q) \subseteq DOMAIN evs
    BY ServerIs
  <1>4. runner[q] \in {"waits", "fails", "last"} => hand[q] \in DOMAIN evs
    BY <1>3, AfterIs DEF RunnerInv
  <1>5. Active' = Active /\ (At(q, "off")' <=> At(q, "off")) /\ (PutAll(q)' <=> PutAll(q))
    BY DEF Active, At, PutAll
  <1>6. (runner[q] \in {"waits", "fails", "last"} => Ended(hand[q]))'
    BY <1>1, <1>4 DEF LaneInv, Ended
  <1>7. (\A e \in Outs(q) : Ended(e) => PutAll(q) /\ \A d \in Outs(q) : d <= e)'
    BY <1>2, <1>3, <1>5 DEF LaneInv
  <1> QED
    BY <1>5, <1>6, <1>7 DEF LaneInv

\* Through stays while the run's outputs stay.
LEMMA ThroughKept ==
  ASSUME ServerTypeOK, Grown, NEW q, Through(q), Outs(q)' = Outs(q),
         PutAll(q)', Range(db) \subseteq Range(db)'
  PROVE  Through(q)'
  <1>1. Outs(q) \subseteq DOMAIN evs
    BY ServerIs
  <1>2. \A e \in DOMAIN evs : Ended(e)' <=> Ended(e)
    BY DEF Grown, Ended
  <1> QED
    BY <1>1, <1>2 DEF Through

\* A set of events stays whole when events are made.
LEMMA WholeKept ==
  ASSUME ServerTypeOK, Grown, \A q : \A d \in Outs(q)' : d \in Outs(q) \/ d > Len(evs)
  PROVE  \A S \in SUBSET DOMAIN evs : Whole(S) => Whole(S)'
  <1>1. DOMAIN evs = 1 .. Len(evs) /\ Len(evs) \in Nat
    BY ServerIs
  <1>2. ASSUME NEW S \in SUBSET DOMAIN evs, Whole(S), NEW e \in S, evs'[e].src = "out",
               NEW q, q = evs'[e].run, NEW d \in Outs(q)', d < e
        PROVE  d \in S
    <2>1. evs'[e] = evs[e] /\ e \in 1 .. Len(evs)
      BY <1>1, <1>2 DEF Grown
    <2>2. d \in Outs(q) \/ d > Len(evs)
      BY <1>2
    <2>3. d \in DOMAIN evs'
      BY DEF Outs
    <2>4. d \in Nat
      BY <2>3 DEF Grown
    <2>5. d \in Outs(evs[e].run)
      BY <1>1, <1>2, <2>1, <2>2, <2>4
    <2> QED
      BY <1>2, <2>1, <2>5 DEF Whole
  <1>3. ASSUME NEW S \in SUBSET DOMAIN evs, Whole(S)
        PROVE  Whole(S)'
    <2>1. \A e \in S : evs'[e].src = "out" => \A q : q = evs'[e].run =>
            \A d \in Outs(q)' : d < e => d \in S
      BY <1>2, <1>3
    <2> QED
      BY <2>1 DEF Whole, Outs
  <1> QED
    BY <1>3

\* What a step leaves of TurnInv besides the runners and the log: the messages
\* still come first, and the row's waiting is still true.
RowInv ==
  /\ \A e \in DOMAIN evs : /\ evs[e].src # "db" => evs[e].run \in 1..row.task
                           /\ evs[e].kind = "user" => evs[e].src = "in"
  /\ \A x \in DOMAIN evs : evs[x].src = "in" =>
       \A q \in Runs : evs[x].run <= q => \A d \in Outs(q) : x < d
  /\ row.status = "waiting" => row.task # 0 /\ Through(row.task)
  /\ row.task = 0 => row.status = "pending"

LEMMA TurnIs == TurnInv <=> (\A r \in Runs : LaneInv(r)) /\ Whole(Range(db)) /\ RowInv
  BY DEF TurnInv, RowInv


\* RowInv stays while a step makes at most an event, of a run that has begun.
LEMMA RowKept ==
  ASSUME ServerTypeOK, Grown, RowInv, row'.task = row.task,
         \A e \in DOMAIN evs' \ DOMAIN evs :
           /\ e > Len(evs)
           /\ evs'[e].src # "db" => evs'[e].run \in 1..row.task
           /\ evs'[e].kind = "user" => evs'[e].src = "in"
           /\ evs'[e].src = "in" => \A q \in Runs : evs'[e].run <= q => Outs(q)' = {},
         \A q \in Runs : \A d \in Outs(q)' : d \in Outs(q) \/ d > Len(evs),
         row'.status = "waiting" => row.task # 0 /\ Through(row.task)',
         row.task = 0 => row'.status = "pending"
  PROVE  RowInv'
  <1>1. DOMAIN evs = 1 .. Len(evs) /\ Len(evs) \in Nat
    BY ServerIs
  <1>2. \A e \in DOMAIN evs : evs'[e] = evs[e]
    BY DEF Grown
  <1>3. ASSUME NEW e \in DOMAIN evs'
        PROVE  /\ evs'[e].src # "db" => evs'[e].run \in 1..row.task
               /\ evs'[e].kind = "user" => evs'[e].src = "in"
    BY <1>2 DEF RowInv
  <1>4. ASSUME NEW x \in DOMAIN evs', evs'[x].src = "in", NEW q \in Runs, evs'[x].run <= q,
               NEW d \in Outs(q)'
        PROVE  x < d
    <2>1. CASE x \in DOMAIN evs
      <3>1. d \in Outs(q) \/ d > Len(evs)
        BY <1>4
      <3>2. d \in Outs(q) => x < d
        BY <1>2, <1>4, <2>1 DEF RowInv
      <3>3. d \in DOMAIN evs'
        BY DEF Outs
      <3>4. d \in Nat
        BY <3>3 DEF Grown
      <3> QED
        BY <1>1, <2>1, <3>1, <3>2, <3>4
    <2>2. CASE x \notin DOMAIN evs
      BY <1>4, <2>2
    <2> QED
      BY <2>1, <2>2
  <1> QED
    BY <1>3, <1>4 DEF RowInv

\* A runner puts an event: its ending after all the others.
LEMMA PutTurns ==
  ASSUME ServerTypeOK, RunInv, TurnInv, NEW r \in Runs, NEW k \in Kinds \ {"resolved", "user"},
         NEW pc \in {"commit", "waits", "fails", "last"}, Put(r, k, pc), UNCHANGED <<db, row>>,
         runner[r] \in (IF pc = "last" THEN {"finish", "raise"} ELSE {"flow", "accept"}),
         Terminal(k) <=> pc # "commit"
  PROVE  TurnInv'
  <1> DEFINE n == Len(evs) + 1
             x == Event(k, "out", r)
  <1>1. x \in Events /\ x.kind = k /\ x.src = "out" /\ x.run = r
    BY PageAssumption DEF Event, Events, Runs
  <1>2. evs' = Append(evs, x) /\ hand' = [hand EXCEPT ![r] = n] /\ runner' = [runner EXCEPT ![r] = pc]
    BY DEF Put, Goto
  <1> HIDE DEF x
  <1>3. /\ Grown /\ Len(evs) \in Nat /\ DOMAIN evs = 1 .. Len(evs)
        /\ DOMAIN evs' = DOMAIN evs \cup {n} /\ n \notin DOMAIN evs /\ evs'[n] = x
        /\ n \in Nat \ {0} /\ n > Len(evs) /\ \A e \in DOMAIN evs : e < n /\ e <= n /\ evs'[e] = evs[e]
        /\ \A q : Outs(q)' = Outs(q) \cup (IF r = q THEN {n} ELSE {})
    BY <1>1, <1>2, NewEvent DEF Grown
  <1> HIDE DEF n
  <1>4. /\ \A q \in Runs : LaneInv(q) /\ RunnerInv(q)
        /\ Whole(Range(db)) /\ RowInv /\ r \in Nat /\ row.task \in Nat
        /\ hand \in [Runs -> 0..Len(evs)] /\ runner \in [Runs -> RunnerPcs]
        /\ Range(db) \subseteq DOMAIN evs /\ \A q : Outs(q) \subseteq DOMAIN evs
    BY TurnIs, ServerIs DEF RunInv
  <1>5. ~PutAll(r) /\ ~At(r, "off") /\ r <= row.task /\ 1 <= r
    BY <1>4 DEF PutAll, At, RunnerInv, Runs
  <1>6. LaneInv(r)'
    <2>1. runner'[r] = pc /\ hand'[r] = n /\ Outs(r)' = Outs(r) \cup {n} /\ row' = row
      BY <1>2, <1>3, <1>4
    <2>2. (r <= row.task => ~At(r, "off"))' /\ (runner[r] \in {"off", "made"} => Outs(r) = {})'
      BY <2>1 DEF At
    <2>3. (r < row.task => runner[r] \notin Active)'
      BY <1>4, <2>1 DEF LaneInv, Active
    <2>4. (r = row.task /\ runner[r] \in Active => row.status = "running")'
      BY <1>4, <2>1 DEF LaneInv, Active
    <2>5. (runner[r] \in {"waits", "fails", "last"} => Ended(hand[r]))'
      BY <1>1, <1>3, <2>1 DEF Ended
    <2>6. (\A e \in Outs(r) : Ended(e) => PutAll(r) /\ \A d \in Outs(r) : d <= e)'
      <3>1. \A e \in Outs(r) : ~Ended(e)
        BY <1>4, <1>5 DEF LaneInv
      <3>2. \A e \in Outs(r) : ~Ended(e)'
        BY <1>3, <1>4, <3>1 DEF Ended
      <3>3. evs'[n].kind = k
        BY <1>1, <1>3
      <3>4. PutAll(r)' <=> pc # "commit"
        BY <2>1 DEF PutAll
      <3>5. \A d \in Outs(r)' : d <= n
        BY <1>3, <1>4, <2>1
      <3>6. ASSUME NEW e \in Outs(r)', Terminal(evs'[e].kind)
            PROVE  PutAll(r)' /\ \A d \in Outs(r)' : d <= e
        <4>1. e = n
          BY <2>1, <3>2, <3>6 DEF Ended
        <4> QED
          BY <3>3, <3>4, <3>5, <3>6, <4>1
      <3> QED
        BY <3>6 DEF Ended
    <2> QED
      BY <2>2, <2>3, <2>4, <2>5, <2>6 DEF LaneInv
  <1>7. ASSUME NEW q \in Runs, q # r
        PROVE  LaneInv(q)'
    BY <1>2, <1>3, <1>4, <1>7, LaneKept
  <1>8. Whole(Range(db))'
    <2>1. \A q : \A d \in Outs(q)' : d \in Outs(q) \/ d > Len(evs)
      BY <1>3
    <2>2. Whole(Range(db)) => Whole(Range(db))'
      BY <1>3, <1>4, <2>1, WholeKept
    <2> QED
      BY <1>4, <2>2
  <1>9. RowInv'
    <2>1. \A q \in Runs : \A d \in Outs(q)' : d \in Outs(q) \/ d > Len(evs)
      BY <1>3
    <2>2. row.status = "waiting" => row.task # 0 /\ Through(row.task)'
      <3>1. SUFFICES ASSUME row.status = "waiting"
                     PROVE  row.task # 0 /\ Through(row.task)'
        OBVIOUS
      <3>2. row.task # 0 /\ Through(row.task)
        BY <1>4, <3>1 DEF RowInv
      <3>3. r # row.task
        BY <1>5, <3>2 DEF Through
      <3>4. Outs(row.task)' = Outs(row.task) /\ runner'[row.task] = runner[row.task]
        <4>1. row.task \in Runs
          BY <3>2, PageAssumption DEF ServerTypeOK, Runs
        <4> QED
          BY <1>2, <1>3, <1>4, <3>3, <4>1
      <3>5. row' = row /\ PutAll(row.task)'
        BY <3>2, <3>4 DEF Through, PutAll
      <3> QED
        BY <1>3, <3>2, <3>4, <3>5, ThroughKept
    <2>3. \A e \in DOMAIN evs' \ DOMAIN evs : e = n
      BY <1>3
    <2>4. k # "user" /\ r \in 1 .. row.task
      BY <1>4, <1>5
    <2>5. row.task = 0 => row'.status = "pending"
      BY <1>4 DEF RowInv
    <2> QED
      BY <1>1, <1>3, <1>4, <2>1, <2>2, <2>3, <2>4, <2>5, RowKept
  <1> QED
    BY <1>6, <1>7, <1>8, <1>9, TurnIs DEF TurnInv, RowInv

\* A runner that has not ended, or that ends, is the row's or an older one.
LEMMA RunnerOf ==
  ASSUME ServerTypeOK, RunInv, TurnInv, NEW r \in Runs, ~At(r, "off")
  PROVE  /\ r <= row.task /\ 1 <= r /\ r \in 1 .. row.task /\ row.task # 0
         /\ runner[r] \in Active => r = row.task /\ row.status = "running"
  <1>1. LaneInv(r) /\ RunnerInv(r) /\ r \in Nat /\ row.task \in Nat /\ 1 <= r
    BY ServerIs DEF TurnInv, RunInv, Runs
  <1>2. r <= row.task
    BY <1>1 DEF RunnerInv
  <1>3. runner[r] \in Active => r = row.task
    BY <1>1, <1>2 DEF LaneInv
  <1> QED
    BY <1>1, <1>2, <1>3 DEF LaneInv

\* A runner that neither puts nor commits an event of its own.
LEMMA MoveTurns ==
  ASSUME ServerTypeOK, RunInv, TurnInv, NEW r \in Runs,
         NEW pc \in {"flow", "accept", "finish", "raise", "closing", "over"},
         runner' = [runner EXCEPT ![r] = pc], UNCHANGED <<evs, hand>>,
         db' = db \/ \E u \in DOMAIN evs : evs[u].src # "out" /\ db' = Append(db, u),
         IF runner[r] = "closing" THEN pc = "over" /\ row' = row ELSE pc # "over",
         runner[r] \in {"made", "flow", "poll", "waiting", "failing", "closing"},
         runner[r] \in {"waiting", "failing"} <=> pc = "closing",
         row' \in Rows, row'.task = row.task,
         pc \in {"flow", "accept"} => row'.status = row.status,
         row'.status \in {row.status, "completed"} \/ (row'.status = "waiting" /\ pc = "closing")
  PROVE  TurnInv' /\ Range(db) \subseteq Range(db)'
  <1>1. /\ Grown /\ (\A q : Outs(q)' = Outs(q)) /\ Len(evs) \in Nat /\ DOMAIN evs = 1 .. Len(evs)
    BY SameEvents
  <1>2. /\ \A q \in Runs : LaneInv(q) /\ RunnerInv(q)
        /\ Whole(Range(db)) /\ RowInv
        /\ hand \in [Runs -> 0..Len(evs)] /\ runner \in [Runs -> RunnerPcs]
        /\ Range(db) \subseteq DOMAIN evs /\ db \in Seq(Nat) /\ \A q : Outs(q) \subseteq DOMAIN evs
    BY TurnIs, ServerIs DEF RunInv
  <1>3. /\ r <= row.task /\ 1 <= r /\ r \in 1 .. row.task /\ row.task # 0
        /\ runner[r] \in Active => r = row.task /\ row.status = "running"
    BY RunnerOf DEF At
  <1>4. runner[r] # "closing" => runner[r] \in Active
    BY DEF Active
  <1>5. LaneInv(r)'
    <2>1. runner'[r] = pc /\ hand'[r] = hand[r] /\ Outs(r)' = Outs(r)
      BY <1>1, <1>2
    <2>2. (r <= row.task => ~At(r, "off"))' /\ (runner[r] \in {"off", "made"} => Outs(r) = {})'
      BY <2>1 DEF At
    <2>3. (r < row.task => runner[r] \notin Active)'
      BY <1>2, <1>3, <1>4, <2>1 DEF LaneInv, Active
    <2>4. (r = row.task /\ runner[r] \in Active => row.status = "running")'
      BY <1>3, <1>4, <2>1 DEF Active
    <2>5. (runner[r] \in {"waits", "fails", "last"} => Ended(hand[r]))'
      BY <2>1
    <2>6. (\A e \in Outs(r) : Ended(e) => PutAll(r) /\ \A d \in Outs(r) : d <= e)'
      <3>1. \A e \in Outs(r) : Ended(e)' <=> Ended(e)
        BY DEF Ended
      <3>2. PutAll(r) => PutAll(r)'
        BY <2>1 DEF PutAll
      <3> QED
        BY <1>2, <2>1, <3>1, <3>2 DEF LaneInv
    <2> QED
      BY <2>2, <2>3, <2>4, <2>5, <2>6 DEF LaneInv
  <1>6. ASSUME NEW q \in Runs, q # r
        PROVE  LaneInv(q)'
    <2>1. hand'[q] = hand[q] /\ runner'[q] = runner[q]
      BY <1>2, <1>6
    <2>2. q = row.task /\ runner[q] \in Active => row'.status = row.status
      BY <1>3, <1>4, <1>6
    <2> QED
      BY <1>1, <1>2, <2>1, <2>2, LaneKept
  <1>7. Range(db) \subseteq Range(db)' /\ \A e \in Range(db)' \ Range(db) : evs[e].src # "out"
    <2>1. CASE db' = db
      BY <2>1
    <2>2. ASSUME NEW u \in DOMAIN evs, evs[u].src # "out", db' = Append(db, u)
          PROVE  Range(db') = Range(db) \cup {u}
      BY <1>2, <2>2, AppendRange
    <2> QED
      BY <2>1, <2>2
  <1>8. Whole(Range(db))'
    BY <1>1, <1>2, <1>7 DEF Whole
  <1>9. RowInv'
    <2>1. row'.status = "waiting" => row.task # 0 /\ Through(row.task)'
      <3>1. SUFFICES ASSUME row'.status = "waiting"
                     PROVE  Through(row.task)'
        BY <1>3
      <3>2. row.task \in Runs
        BY <1>3, PageAssumption DEF ServerTypeOK, Runs
      <3>3. CASE row.status = "waiting"
        <4>1. Through(row.task)
          BY <1>2, <3>3 DEF RowInv
        <4>2. PutAll(row.task)'
          BY <1>2, <3>2, <4>1 DEF Through, PutAll
        <4> QED
          BY <1>1, <1>7, <4>1, <4>2, ThroughKept
      <3>4. CASE row.status # "waiting"
        <4>1. runner[r] \in {"waiting", "failing"} /\ pc = "closing" /\ r = row.task
          BY <1>3, <1>4, <3>1, <3>4
        <4>2. Outs(r) \subseteq Range(db) \cup {0}
          BY <1>2, <4>1, AfterIs DEF RunnerInv, At
        <4>3. Outs(r)' \subseteq Range(db)'
          BY <1>1, <1>2, <1>7, <4>2
        <4>4. PutAll(r)'
          BY <1>2, <4>1 DEF PutAll
        <4>5. Through(r)'
          BY <4>3, <4>4 DEF Through
        <4> QED
          BY <4>1, <4>5
      <3> QED
        BY <3>3, <3>4
    <2> QED
      BY <1>1, <1>2, <1>3, <2>1, RowKept
  <1> QED
    BY <1>5, <1>6, <1>7, <1>8, <1>9, TurnIs DEF TurnInv, RowInv

\* A runner commits what it has put.
LEMMA CommitTurns ==
  ASSUME ServerTypeOK, RunInv, TurnInv, NEW r \in Runs, Commit(r)
  PROVE  TurnInv'
  <1>1. /\ Grown /\ (\A q : Outs(q)' = Outs(q)) /\ Len(evs) \in Nat /\ DOMAIN evs = 1 .. Len(evs)
    BY SameEvents DEF Commit
  <1>2. /\ \A q \in Runs : LaneInv(q) /\ RunnerInv(q)
        /\ Whole(Range(db)) /\ RowInv
        /\ hand \in [Runs -> 0..Len(evs)] /\ runner \in [Runs -> RunnerPcs]
        /\ Range(db) \subseteq DOMAIN evs /\ db \in Seq(Nat) /\ \A q : Outs(q) \subseteq DOMAIN evs
        /\ row \in Rows
    BY TurnIs, ServerIs DEF RunInv
  <1>3. /\ runner[r] \in {"commit", "waits", "fails", "last"}
        /\ hand' = [hand EXCEPT ![r] = 0] /\ runner' = [runner EXCEPT ![r] = After[runner[r]]]
        /\ row'.task = row.task /\ row'.status = row.status
        /\ db' = Append(db, hand[r]) /\ evs' = evs
    BY <1>2, AfterIs DEF Commit, Goto, Rows
  <1>4. hand[r] \in Outs(r) /\ Outs(r) \subseteq Range(db) \cup {hand[r]}
    BY <1>2, <1>3, AfterIs DEF RunnerInv, At
  <1>5. Range(db)' = Range(db) \cup {hand[r]}
    <2>1. Range(Append(db, hand[r])) = Range(db) \cup {hand[r]}
      BY <1>2, AppendRange
    <2> QED
      BY <1>3, <2>1
  <1>6. LaneInv(r)'
    <2>1. /\ Outs(r)' = Outs(r)
          /\ runner'[r] = CASE runner[r] = "commit" -> "flow" [] runner[r] = "waits" -> "waiting"
                            [] runner[r] = "fails" -> "failing" [] OTHER -> "closing"
      BY <1>1, <1>2, <1>3, AfterIs
    <2>2. (r <= row.task => ~At(r, "off"))' /\ (runner[r] \in {"off", "made"} => Outs(r) = {})'
      BY <1>3, <2>1 DEF At
    <2>3. (r < row.task => runner[r] \notin Active)'
      BY <1>2, <1>3, <2>1 DEF LaneInv, Active
    <2>4. (r = row.task /\ runner[r] \in Active => row.status = "running")'
      BY <1>2, <1>3, <2>1 DEF LaneInv, Active
    <2>5. (runner[r] \in {"waits", "fails", "last"} => Ended(hand[r]))'
      BY <1>3, <2>1
    <2>6. (\A e \in Outs(r) : Ended(e) => PutAll(r) /\ \A d \in Outs(r) : d <= e)'
      <3>1. \A e \in Outs(r) : Ended(e)' <=> Ended(e)
        BY <1>3 DEF Ended
      <3>2. PutAll(r) => PutAll(r)'
        BY <1>3, <2>1 DEF PutAll
      <3> QED
        BY <1>2, <2>1, <3>1, <3>2 DEF LaneInv
    <2> QED
      BY <2>2, <2>3, <2>4, <2>5, <2>6 DEF LaneInv
  <1>7. ASSUME NEW q \in Runs, q # r
        PROVE  LaneInv(q)'
    <2>1. hand'[q] = hand[q] /\ runner'[q] = runner[q]
      BY <1>2, <1>3, <1>7
    <2> QED
      BY <1>1, <1>2, <1>3, <2>1, LaneKept
  <1>8. Whole(Range(db))'
    <2>1. ASSUME NEW e \in Range(db)', evs[e].src = "out", NEW d \in Outs(evs[e].run), d < e
          PROVE  d \in Range(db)'
      <3>1. CASE e \in Range(db)
        BY <1>2, <1>5, <2>1, <3>1 DEF Whole
      <3>2. CASE e = hand[r]
        <4>1. evs[e].run = r
          BY <1>4, <3>2 DEF Outs
        <4> QED
          BY <1>4, <1>5, <2>1, <4>1
      <3> QED
        BY <1>5, <3>1, <3>2
    <2> QED
      BY <1>1, <1>3, <2>1 DEF Whole
  <1>9. RowInv'
    <2>1. row'.status = "waiting" => row.task # 0 /\ Through(row.task)'
      <3>1. SUFFICES ASSUME row.status = "waiting"
                     PROVE  row.task # 0 /\ Through(row.task)'
        BY <1>3
      <3>2. row.task # 0 /\ Through(row.task)
        BY <1>2, <3>1 DEF RowInv
      <3>3. row.task \in Runs
        BY <3>2, PageAssumption DEF ServerTypeOK, Runs
      <3>4. PutAll(row.task)'
        <4>1. CASE row.task = r
          BY <1>2, <1>3, <3>2, <4>1, AfterIs DEF Through, PutAll
        <4>2. CASE row.task # r
          BY <1>2, <1>3, <3>2, <3>3, <4>2 DEF Through, PutAll
        <4> QED
          BY <4>1, <4>2
      <3> QED
        BY <1>1, <1>3, <1>5, <3>2, <3>4, ThroughKept
    <2> QED
      BY <1>1, <1>2, <1>3, <2>1, RowKept DEF RowInv
  <1> QED
    BY <1>6, <1>7, <1>8, <1>9, TurnIs DEF TurnInv, RowInv

\* An event that no runner puts: the API's own, or the message of a run that
\* has not begun to put.
LEMMA EventTurns ==
  ASSUME ServerTypeOK, RunInv, TurnInv, NEW x \in Events, evs' = Append(evs, x), x.src # "out",
         x.src = "in" => x.run = row.task /\ row.task \in Runs /\ At(row.task, "made"),
         x.kind = "user" => x.src = "in", UNCHANGED <<runner, hand>>,
         db' = db \/ (x.src = "db" /\ db' = Append(db, Len(evs) + 1)),
         row'.task = row.task, row'.status \in {row.status, "completed"},
         row'.status # row.status => row.task # 0 /\ runner[row.task] \notin Active
  PROVE  TurnInv' /\ Range(db) \subseteq Range(db)'
  <1> DEFINE n == Len(evs) + 1
  <1>1. /\ Grown /\ Len(evs) \in Nat /\ DOMAIN evs = 1 .. Len(evs)
        /\ DOMAIN evs' = DOMAIN evs \cup {n} /\ n \notin DOMAIN evs /\ evs'[n] = x
        /\ n \in Nat \ {0} /\ n > Len(evs) /\ \A q : Outs(q)' = Outs(q)
    <2>1. /\ Grown /\ Len(evs) \in Nat /\ DOMAIN evs = 1 .. Len(evs)
          /\ DOMAIN evs' = DOMAIN evs \cup {n} /\ n \notin DOMAIN evs /\ evs'[n] = x
          /\ n \in Nat \ {0}
          /\ \A q : Outs(q)' = Outs(q) \cup (IF x.src = "out" /\ x.run = q THEN {n} ELSE {})
      BY NewEvent
    <2>2. \A q : Outs(q)' = Outs(q)
      BY <2>1
    <2>3. n > Len(evs)
      BY <2>1
    <2> QED
      BY <2>1, <2>2, <2>3
  <1>2. /\ \A q \in Runs : LaneInv(q) /\ RunnerInv(q)
        /\ Whole(Range(db)) /\ RowInv /\ row.task \in Nat /\ Runs \subseteq Nat \ {0}
        /\ Range(db) \subseteq DOMAIN evs /\ db \in Seq(Nat) /\ \A q : Outs(q) \subseteq DOMAIN evs
    BY TurnIs, ServerIs DEF RunInv
  <1>3. Range(db)' \in {Range(db), Range(db) \cup {n}}
        /\ (x.src # "db" => Range(db)' = Range(db))
    <2>1. Range(Append(db, n)) = Range(db) \cup {n}
      BY <1>1, <1>2, AppendRange
    <2> QED
      BY <2>1
  <1> HIDE DEF n
  <1>4. ASSUME NEW q \in Runs
        PROVE  LaneInv(q)'
    BY <1>1, <1>2, LaneKept
  <1>5. Whole(Range(db))'
    <2>1. Whole(Range(db))' <=> \A e \in Range(db)' : evs'[e].src = "out" =>
             \A q : q = evs'[e].run => \A d \in Outs(q)' : d < e => d \in Range(db)'
      BY DEF Whole, Outs
    <2>2. ASSUME NEW e \in Range(db)', evs'[e].src = "out", NEW q, q = evs'[e].run,
                 NEW d \in Outs(q)', d < e
          PROVE  d \in Range(db)'
      <3>1. e \in Range(db)
        BY <1>1, <1>3, <2>2
      <3>2. evs'[e] = evs[e]
        BY <1>2, <1>1, <3>1 DEF Grown
      <3> QED
        BY <1>1, <1>2, <1>3, <2>2, <3>1, <3>2 DEF Whole
    <2> QED
      BY <2>1, <2>2
  <1>6. RowInv'
    <2>1. row'.status = "waiting" => row.task # 0 /\ Through(row.task)'
      <3>1. SUFFICES ASSUME row'.status = "waiting"
                     PROVE  row.task # 0 /\ Through(row.task)'
        OBVIOUS
      <3>2. row.task # 0 /\ Through(row.task)
        BY <1>2, <3>1 DEF RowInv
      <3>3. PutAll(row.task)'
        BY <3>2 DEF Through, PutAll
      <3> QED
        BY <1>1, <1>3, <3>2, <3>3, ThroughKept
    <2>2. x.src = "in" => \A q \in Runs : x.run <= q => Outs(q)' = {}
      <3>1. SUFFICES ASSUME x.src = "in", NEW q \in Runs, row.task <= q
                     PROVE  Outs(q) = {}
        BY <1>1
      <3>2. CASE q = row.task
        BY <1>2, <3>1, <3>2 DEF LaneInv, At
      <3>3. CASE q > row.task
        BY <1>2, <3>1, <3>3 DEF RunnerInv, LaneInv, At
      <3> QED
        BY <1>2, <3>1, <3>2, <3>3
    <2>3. \A e \in DOMAIN evs' \ DOMAIN evs : e = n
      BY <1>1
    <2>4. x.src # "db" => x.run \in 1 .. row.task
      BY <1>2 DEF Events
    <2>5. \A q \in Runs : \A d \in Outs(q)' : d \in Outs(q) \/ d > Len(evs)
      BY <1>1
    <2>6. row.task = 0 => row'.status = "pending"
      BY <1>2 DEF RowInv
    <2> QED
      BY <1>1, <1>2, <2>1, <2>2, <2>3, <2>4, <2>5, <2>6, RowKept
  <1> QED
    BY <1>3, <1>4, <1>5, <1>6, TurnIs DEF TurnInv, RowInv

\* A run is started: none before it is going on.
LEMMA ClaimTurns ==
  ASSUME ServerTypeOK, RunInv, TurnInv, NextRun \in Runs, NEW pc \in {"made", "poll"},
         row.status # "running",
         row' = [row EXCEPT !.status = "running", !.task = NextRun], Goto(NextRun, pc),
         UNCHANGED <<evs, db, hand>>
  PROVE  TurnInv' /\ Outs(row.task)' = {} /\ Outs(NextRun) = {} /\ row'.task = NextRun
  <1>1. /\ \A q \in Runs : LaneInv(q) /\ RunnerInv(q)
        /\ Whole(Range(db)) /\ RowInv /\ row.task \in Nat /\ Runs \subseteq Nat \ {0}
        /\ Range(db) \subseteq DOMAIN evs /\ \A q : Outs(q) \subseteq DOMAIN evs
        /\ runner \in [Runs -> RunnerPcs] /\ row \in Rows
    BY TurnIs, ServerIs DEF RunInv
  <1>2. row'.task = NextRun /\ row'.status = "running" /\ NextRun = row.task + 1
    BY <1>1 DEF Rows, NextRun
  <1>3. \A q : Outs(q)' = Outs(q)
    BY SameEvents
  <1>4. Outs(NextRun) = {}
    BY <1>1, <1>2 DEF RunnerInv, LaneInv, At
  <1>5. runner'[NextRun] = pc /\ \A q \in Runs \ {NextRun} : runner'[q] = runner[q]
    BY <1>1 DEF Goto
  <1>6. ASSUME NEW q \in Runs
        PROVE  LaneInv(q)'
    <2>1. (\A e \in Outs(q) : Ended(e) => PutAll(q) /\ \A d \in Outs(q) : d <= e)'
      <3>1. CASE q = NextRun
        BY <1>3, <1>4, <3>1
      <3>2. CASE q # NextRun
        <4>1. \A e \in Outs(q) : Ended(e)' <=> Ended(e)
          BY DEF Ended
        <4>2. PutAll(q)' <=> PutAll(q)
          BY <1>5, <3>2 DEF PutAll
        <4> QED
          BY <1>1, <1>3, <4>1, <4>2 DEF LaneInv
      <3> QED
        BY <3>1, <3>2
    <2>2. CASE q = NextRun
      <3>1. (q <= row.task => ~At(q, "off"))' /\ (runner[q] \in {"off", "made"} => Outs(q) = {})'
        BY <1>3, <1>4, <1>5, <2>2 DEF At
      <3>2. (q < row.task => runner[q] \notin Active)'
        BY <1>1, <1>2, <2>2
      <3>3. (q = row.task /\ runner[q] \in Active => row.status = "running")'
        BY <1>2
      <3>4. (runner[q] \in {"waits", "fails", "last"} => Ended(hand[q]))'
        BY <1>5, <2>2
      <3> QED
        BY <2>1, <3>1, <3>2, <3>3, <3>4 DEF LaneInv
    <2>3. CASE q # NextRun
      <3>0. runner'[q] = runner[q] /\ hand'[q] = hand[q] /\ q \in Nat
        BY <1>1, <1>5, <2>3
      <3>1. (q <= row.task => ~At(q, "off"))' /\ (runner[q] \in {"off", "made"} => Outs(q) = {})'
        BY <1>1, <1>2, <1>3, <2>3, <3>0 DEF LaneInv, At
      <3>2. (q < row.task => runner[q] \notin Active)'
        <4>1. q < NextRun => q < row.task \/ q = row.task
          BY <1>1, <1>2, <3>0
        <4>2. Active' = Active
          BY DEF Active
        <4> QED
          BY <1>1, <1>2, <3>0, <4>1, <4>2 DEF LaneInv
      <3>3. (q = row.task /\ runner[q] \in Active => row.status = "running")'
        BY <1>2
      <3>4. (runner[q] \in {"waits", "fails", "last"} => Ended(hand[q]))'
        BY <1>1, <3>0 DEF LaneInv, Ended
      <3> QED
        BY <2>1, <3>1, <3>2, <3>3, <3>4 DEF LaneInv
    <2> QED
      BY <2>2, <2>3
  <1>7. Whole(Range(db))'
    BY <1>1, <1>3 DEF Whole
  <1>8. RowInv'
    <2>1. ASSUME NEW e \in DOMAIN evs
          PROVE  /\ evs[e].src # "db" => evs[e].run \in 1 .. NextRun
                 /\ evs[e].kind = "user" => evs[e].src = "in"
      BY <1>1, <1>2 DEF RowInv
    <2> QED
      BY <1>1, <1>2, <1>3, <2>1 DEF RowInv
  <1>9. Outs(row.task)' = {}
    BY <1>2, <1>4 DEF Outs
  <1> QED
    BY <1>2, <1>4, <1>6, <1>7, <1>8, <1>9, TurnIs DEF TurnInv, RowInv

\* The server restarts.
LEMMA CrashTurns ==
  ASSUME ServerTypeOK, RunInv, TurnInv,
         runner' = [r \in Runs |-> IF At(r, "off") THEN "off" ELSE "over"],
         hand' = [r \in Runs |-> 0], UNCHANGED <<evs, db, row>>
  PROVE  TurnInv'
  <1>1. /\ \A q \in Runs : LaneInv(q) /\ RunnerInv(q)
        /\ Whole(Range(db)) /\ RowInv /\ row.task \in Nat /\ Runs \subseteq Nat \ {0}
        /\ Range(db) \subseteq DOMAIN evs /\ \A q : Outs(q) \subseteq DOMAIN evs
    BY TurnIs, ServerIs DEF RunInv
  <1>2. Grown /\ \A q : Outs(q)' = Outs(q)
    BY SameEvents
  <1>3. \A q \in Runs : runner'[q] = IF At(q, "off") THEN "off" ELSE "over"
    OBVIOUS
  <1>4. ASSUME NEW q \in Runs
        PROVE  LaneInv(q)'
    <2>1. (q <= row.task => ~At(q, "off"))'
      BY <1>1, <1>3 DEF LaneInv, At
    <2>2. (runner[q] \in {"off", "made"} => Outs(q) = {})'
      BY <1>1, <1>2, <1>3 DEF LaneInv, At
    <2>3. (runner[q] \notin Active)' /\ (runner[q] \notin {"waits", "fails", "last"})'
      BY <1>3 DEF Active
    <2>4. (\A e \in Outs(q) : Ended(e) => PutAll(q) /\ \A d \in Outs(q) : d <= e)'
      <3>1. \A e \in Outs(q) : Ended(e)' <=> Ended(e)
        BY DEF Ended
      <3>2. PutAll(q) => PutAll(q)'
        BY <1>3 DEF PutAll, At
      <3> QED
        BY <1>1, <1>2, <3>1, <3>2 DEF LaneInv
    <2> QED
      BY <2>1, <2>2, <2>3, <2>4 DEF LaneInv
  <1>5. Whole(Range(db))'
    BY <1>1, <1>2 DEF Whole
  <1>6. RowInv'
    <2>1. row.status = "waiting" => row.task # 0 /\ Through(row.task)'
      <3>1. SUFFICES ASSUME row.status = "waiting"
                     PROVE  row.task # 0 /\ Through(row.task)'
        OBVIOUS
      <3>2. row.task # 0 /\ Through(row.task)
        BY <1>1, <3>1 DEF RowInv
      <3>3. row.task \in Runs
        BY <3>2, PageAssumption DEF ServerTypeOK, Runs
      <3>4. PutAll(row.task)'
        BY <1>3, <3>2, <3>3 DEF Through, PutAll, At
      <3> QED
        BY <1>2, <3>2, <3>4, ThroughKept
    <2> QED
      BY <1>1, <1>2, <2>1, RowKept DEF RowInv
  <1> QED
    BY <1>4, <1>5, <1>6, TurnIs DEF TurnInv, RowInv

\* Where the server stays, or only the slot of the row changes.
LEMMA SameTurns ==
  ASSUME TurnInv, UNCHANGED <<evs, db, runner, hand>>,
         row'.task = row.task, row'.status = row.status
  PROVE  TurnInv'
  <1>1. \A q : Outs(q)' = Outs(q)
    BY DEF Outs
  <1>2. ASSUME NEW q \in Runs
        PROVE  LaneInv(q)'
    BY <1>1 DEF TurnInv, LaneInv, At, Active, Ended, PutAll
  <1>3. Whole(Range(db))'
    BY <1>1 DEF TurnInv, Whole
  <1>4. RowInv'
    BY <1>1 DEF TurnInv, RowInv, Through, PutAll, Ended
  <1> QED
    BY <1>2, <1>3, <1>4, TurnIs DEF TurnInv, RowInv

\* The message stream has what it needs of the log, while no request is served.
LEMMA StreamKept ==
  ASSUME Core, TurnInv, StreamInv, Grown, ServerTypeOK', RunInv', UNCHANGED conn,
         row'.task = row.task, row.status # "running" => row'.status # "running",
         db' = db \/ \E u : db' = Append(db, u), Range(db) \subseteq Range(db)',
         row.task # 0 /\ PutAll(row.task) => PutAll(row.task)',
         row.task # 0 /\ conn["message"].pc # "none" /\ ~Opening =>
           runner'[row.task] # "over" \/ Outs(row.task)' \subseteq Range(db)' \cup {hand'[row.task]}
  PROVE  StreamInv'
  <1> DEFINE m == conn["message"]
  <1>1. /\ \A c \in Streams : conn[c].pos \in 0..Len(evs) /\ Range(conn[c].chan) \subseteq DOMAIN evs
        /\ Len(evs) \in Nat /\ DOMAIN evs = 1 .. Len(evs) /\ "message" \in Streams
        /\ db \in Seq(Nat) /\ row.task \in Nat
    BY CoreIs DEF Streams
  <1>2. \A e \in DOMAIN evs : evs'[e] = evs[e]
    BY DEF Grown
  <1>3. Opening' <=> Opening
    BY DEF Opening
  <1>4. (Opening => row.status # "running")' /\ (m.pc \in {"start", "open"} => row.task # 0)'
    BY <1>3 DEF StreamInv
  <1>5. (row.task # 0 /\ m.pc \notin {"put", "add"} => db # <<>>)'
    <2>1. db # <<>> => db' # <<>>
      <3>1. \A u : Append(db, u) # <<>>
        BY <1>1
      <3> QED
        BY <3>1
    <2> QED
      BY <2>1 DEF StreamInv
  <1>6. (m.pos # 0 => evs[m.pos].src = "out")' /\ (m.pc = "end" => m.pos = 0)'
    <2>1. m.pos # 0 => m.pos \in DOMAIN evs
      BY <1>1
    <2> QED
      BY <1>2, <2>1 DEF StreamInv
  <1>7. (m.pc # "none" /\ ~Opening =>
           row.task # 0 /\ Outs(row.task) \subseteq Range(db) \cup {hand[row.task]})'
    <2>1. SUFFICES ASSUME m.pc # "none", ~Opening
                   PROVE  /\ row.task # 0
                          /\ Outs(row.task)' \subseteq Range(db)' \cup {hand'[row.task]}
      BY <1>3
    <2>2. row.task # 0 /\ row.task \in Runs
      BY <2>1, PageAssumption DEF StreamInv, Core, ServerTypeOK, Runs
    <2>3. \A r \in Runs : ~At(r, "over")' => Outs(r)' \subseteq Range(db)' \cup {hand'[r]}
      BY DEF RunInv, RunnerInv
    <2>4. CASE runner'[row.task] # "over"
      BY <2>2, <2>3, <2>4 DEF At, Outs
    <2> QED
      BY <2>1, <2>2, <2>4
  <1>8. (m.pc \in {"idle", "end"} => PutAll(row.task))'
    <2>1. m.pc \in {"idle", "end"} => row.task # 0 /\ PutAll(row.task)
      BY DEF StreamInv, Opening
    <2> QED
      BY <2>1
  <1>9. (conn["empty"].pc \in {"get", "missed"} => conn["empty"].run = row.task)'
    BY DEF StreamInv
  <1>10. (\A c \in {"message", "empty"} : \A e \in Range(conn[c].chan) :
            evs[e].src = "out" => e \in Outs(row.task) /\ ~Opening)'
    <2>1. SUFFICES ASSUME NEW c \in {"message", "empty"}, NEW e \in Range(conn[c].chan),
                          evs'[e].src = "out"
                   PROVE  e \in Outs(row.task)' /\ ~Opening
      BY <1>3
    <2>2. e \in DOMAIN evs /\ evs'[e] = evs[e]
      BY <1>1, <1>2, <2>1 DEF Streams
    <2>3. e \in Outs(row.task) /\ ~Opening
      BY <2>1, <2>2 DEF StreamInv
    <2> QED
      BY <2>2, <2>3 DEF Outs, Grown
  <1> QED
    BY <1>4, <1>5, <1>6, <1>7, <1>8, <1>9, <1>10 DEF StreamInv


\* What a runner's step leaves: it puts an event only if it has not put all, and
\* changes nothing of the page.
RunnerMoved(r) ==
  /\ UNCHANGED client /\ row'.task = row.task /\ Grown
  /\ row.status # "running" => row'.status # "running"
  /\ \A q \in Runs : PutAll(q) => PutAll(q)'
  /\ \/ \A q : Outs(q)' = Outs(q)
     \/ /\ ~PutAll(r) /\ r <= row.task
        /\ \A q : Outs(q)' = Outs(q) \cup (IF q = r THEN {Len(evs) + 1} ELSE {})
  /\ Range(db) \subseteq Range(db)' /\ (db' = db \/ \E u : db' = Append(db, u))
  /\ runner'[r] # "over" \/ (runner[r] = "closing" /\ \A q : Outs(q)' = Outs(q))
  /\ \A q \in Runs \ {r} : runner'[q] = runner[q] /\ hand'[q] = hand[q]

\* A put by a runner.
LEMMA PutMoved ==
  ASSUME Core, TurnInv, NEW r \in Runs, NEW k \in Kinds \ {"resolved", "user"},
         NEW pc \in {"commit", "waits", "fails", "last"}, Put(r, k, pc),
         UNCHANGED <<db, row, client>>,
         runner[r] \in (IF pc = "last" THEN {"finish", "raise"} ELSE {"flow", "accept"}),
         Terminal(k) <=> pc # "commit"
  PROVE  TurnInv' /\ RunnerMoved(r)
  <1> DEFINE n == Len(evs) + 1
             x == Event(k, "out", r)
  <1>1. TurnInv' /\ ServerTypeOK
    BY PutTurns DEF Core
  <1>2. x \in Events /\ x.src = "out" /\ x.run = r
    BY PageAssumption DEF Event, Events, Runs
  <1>3. evs' = Append(evs, x) /\ hand' = [hand EXCEPT ![r] = n] /\ runner' = [runner EXCEPT ![r] = pc]
    BY DEF Put, Goto
  <1> HIDE DEF x
  <1>4. Grown /\ \A q : Outs(q)' = Outs(q) \cup (IF x.src = "out" /\ x.run = q THEN {n} ELSE {})
    BY <1>1, <1>2, <1>3, NewEvent
  <1> HIDE DEF n
  <1>5. \A q : Outs(q)' = Outs(q) \cup (IF q = r THEN {n} ELSE {})
    BY <1>2, <1>4
  <1>6. runner \in [Runs -> RunnerPcs] /\ hand \in [Runs -> 0..Len(evs)]
    BY <1>1, ServerIs
  <1>7. ~PutAll(r) /\ ~At(r, "off")
    BY DEF PutAll, At
  <1>8. r <= row.task
    BY <1>1, <1>7, RunnerOf DEF Core
  <1>9. \A q \in Runs : PutAll(q) => PutAll(q)'
    BY <1>3, <1>6, <1>7 DEF PutAll
  <1>10. runner'[r] # "over" /\ \A q \in Runs \ {r} : runner'[q] = runner[q] /\ hand'[q] = hand[q]
    BY <1>3, <1>6
  <1> QED
    BY <1>1, <1>4, <1>5, <1>7, <1>8, <1>9, <1>10 DEF RunnerMoved, n

\* A move of a runner.
LEMMA MoveMoved ==
  ASSUME Core, TurnInv, NEW r \in Runs,
         NEW pc \in {"accept", "finish", "raise", "closing", "over"},
         Goto(r, pc), UNCHANGED <<evs, db, hand, client>>,
         IF runner[r] = "closing" THEN pc = "over" /\ row' = row ELSE pc # "over",
         runner[r] \in {"flow", "poll", "waiting", "failing", "closing"},
         runner[r] \in {"waiting", "failing"} <=> pc = "closing",
         row' \in Rows, row'.task = row.task,
         pc = "accept" => row'.status = row.status,
         row'.status \in {row.status, "completed"} \/ (row'.status = "waiting" /\ pc = "closing")
  PROVE  TurnInv' /\ RunnerMoved(r)
  <1>1. ServerTypeOK /\ RunInv /\ runner' = [runner EXCEPT ![r] = pc]
    BY DEF Core, Goto
  <1>2. TurnInv'
    BY <1>1, MoveTurns
  <1>3. Grown /\ \A q : Outs(q)' = Outs(q)
    BY <1>1, SameEvents
  <1>4. runner \in [Runs -> RunnerPcs]
    BY <1>1, ServerIs
  <1>5. \A q \in Runs : PutAll(q) => PutAll(q)'
    BY <1>1, <1>4 DEF PutAll
  <1>6. /\ runner'[r] # "over" \/ runner[r] = "closing"
        /\ \A q \in Runs \ {r} : runner'[q] = runner[q] /\ hand'[q] = hand[q]
    BY <1>1, <1>4
  <1>7. row.status # "running" => row'.status # "running"
    OBVIOUS
  <1> QED
    BY <1>2, <1>3, <1>5, <1>6, <1>7 DEF RunnerMoved

\* A runner's step.
LEMMA RunnerStepTurns ==
  ASSUME Core, TurnInv, StreamInv, NEW r \in Runs, RunnerStep(r) \/ RunnerRaises(r)
  PROVE  TurnInv' /\ StreamInv' /\ RunnerMoved(r)
  <1>0. /\ runner \in [Runs -> RunnerPcs] /\ row.task \in Nat /\ row \in Rows
        /\ ServerTypeOK /\ RunInv /\ db \in Seq(Nat) /\ hand \in [Runs -> 0..Len(evs)]
    BY ServerIs DEF Core
  <1>1. ASSUME FlowSteps(r)
        PROVE  TurnInv' /\ RunnerMoved(r)
    BY <1>1, PutMoved DEF FlowSteps, At, Kinds, Terminal
  <1>2. ASSUME FlowWaits(r)
        PROVE  TurnInv' /\ RunnerMoved(r)
    BY <1>2, PutMoved DEF FlowWaits, At, Kinds, Terminal
  <1>3. ASSUME FlowFails(r)
        PROVE  TurnInv' /\ RunnerMoved(r)
    BY <1>3, PutMoved DEF FlowFails, At, Kinds, Terminal
  <1>4. ASSUME Puts(r)
        PROVE  TurnInv' /\ RunnerMoved(r)
    BY <1>4, PutMoved DEF Puts, At, Kinds, Terminal
  <1>5. ASSUME FinishOrClaim(r)
        PROVE  TurnInv' /\ RunnerMoved(r)
    <2>1. /\ row' \in Rows /\ row'.task = row.task /\ UNCHANGED <<evs, db, hand, client>>
          /\ runner[r] \in {"flow", "poll"}
      BY <1>0, <1>5 DEF FinishOrClaim, Rows, Statuses
    <2>2. \/ Goto(r, "finish") /\ row'.status = "completed"
          \/ Goto(r, "accept") /\ row'.status = row.status
      BY <1>0, <1>5 DEF FinishOrClaim, Rows
    <2> QED
      BY <2>1, <2>2, MoveMoved
  <1>6. ASSUME Settle(r)
        PROVE  TurnInv' /\ RunnerMoved(r)
    <2>1. /\ row' \in Rows /\ row'.task = row.task /\ row'.status \in {"completed", "waiting"}
          /\ UNCHANGED <<evs, db, hand, client>> /\ Goto(r, "closing")
          /\ runner[r] \in {"waiting", "failing"}
      BY <1>0, <1>6 DEF Settle, Rows, Statuses
    <2> QED
      BY <2>1, MoveMoved
  <1>7. ASSUME Ends(r)
        PROVE  TurnInv' /\ RunnerMoved(r)
    <2>1. /\ Goto(r, "over") /\ row' = row /\ UNCHANGED <<evs, db, hand, client>>
          /\ runner[r] = "closing"
      BY <1>7 DEF Ends, At
    <2> QED
      BY <1>0, <2>1, MoveMoved
  <1>8. ASSUME RunnerRaises(r)
        PROVE  TurnInv' /\ RunnerMoved(r)
    <2>1. /\ row' \in Rows /\ row'.task = row.task /\ row'.status = "completed"
          /\ UNCHANGED <<evs, db, hand, client>> /\ Goto(r, "raise")
          /\ runner[r] \in {"flow", "poll"}
      BY <1>0, <1>8 DEF RunnerRaises, Rows, Statuses
    <2> QED
      BY <2>1, MoveMoved
  <1>9. ASSUME Commit(r)
        PROVE  TurnInv' /\ RunnerMoved(r)
    <2>1. TurnInv' /\ Grown /\ Range(db) \subseteq Range(db)' /\ row'.task = row.task
          /\ row'.status = row.status /\ \A q : Outs(q)' = Outs(q)
      BY <1>0, <1>9, CommitTurns, CommitKeeps
    <2>2. /\ runner[r] \in DOMAIN After /\ hand' = [hand EXCEPT ![r] = 0]
          /\ runner' = [runner EXCEPT ![r] = After[runner[r]]] /\ UNCHANGED client
          /\ db' = Append(db, hand[r])
      BY <1>9 DEF Commit, Goto
    <2>3. runner'[r] # "over" /\ (PutAll(r) => PutAll(r)')
      BY <1>0, <2>2, AfterIs DEF PutAll
    <2>4. \A q \in Runs \ {r} : runner'[q] = runner[q] /\ hand'[q] = hand[q]
      BY <1>0, <2>2
    <2>5. \A q \in Runs : PutAll(q) => PutAll(q)'
      BY <2>3, <2>4 DEF PutAll
    <2> QED
      BY <2>1, <2>2, <2>3, <2>4, <2>5 DEF RunnerMoved
  <1>10. TurnInv' /\ RunnerMoved(r)
    BY <1>1, <1>2, <1>3, <1>4, <1>5, <1>6, <1>7, <1>8, <1>9 DEF RunnerStep
  <1>11. ServerTypeOK' /\ RunInv'
    <2>1. Core'
      BY RunnerKeeps
    <2> QED
      BY <2>1 DEF Core
  <1>12. StreamInv'
    <2>1. row.task # 0 => row.task \in Runs
      BY PageAssumption DEF Core, ServerTypeOK, Runs
    <2>2. row.task # 0 /\ PutAll(row.task) => PutAll(row.task)'
      BY <1>10, <2>1 DEF RunnerMoved, PutAll
    <2>3. ASSUME row.task # 0, conn["message"].pc # "none", ~Opening,
                 runner'[row.task] = "over"
          PROVE  Outs(row.task)' \subseteq Range(db)' \cup {hand'[row.task]}
      <3>1. Outs(row.task) \subseteq Range(db) \cup {hand[row.task]}
        BY <2>3 DEF StreamInv
      <3>2. CASE r = row.task
        <4>1. runner[r] = "closing" /\ Outs(r)' = Outs(r)
          BY <1>10, <2>3, <3>2 DEF RunnerMoved
        <4>2. hand[r] = 0
          BY <1>0, <4>1, AfterIs DEF RunInv, RunnerInv
        <4>3. 0 \notin Outs(r)
          BY <1>0, ServerIs
        <4> QED
          BY <1>10, <3>1, <3>2, <4>1, <4>2, <4>3 DEF RunnerMoved, Outs
      <3>3. CASE r # row.task
        BY <1>10, <2>1, <2>3, <3>1, <3>3 DEF RunnerMoved, Outs
      <3> QED
        BY <3>2, <3>3
    <2> QED
      BY <1>10, <1>11, <2>2, <2>3, StreamKept DEF RunnerMoved, client
  <1> QED
    BY <1>10, <1>12

\* What a reader's step leaves: it moves on, or gives the page the next event of
\* the output, or an error the API makes.
Served(c) ==
  /\ Only(c) /\ UNCHANGED <<runner, hand, page, loads>> /\ row'.task = row.task /\ Grown
  /\ row.status # "running" => row'.status # "running"
  /\ conn[c].pc \in {"open", "get", "missed", "idle"}
  /\ conn'[c].pc \in {"get", "missed", "idle", "end"}
  /\ conn'[c].pc = "end" => conn'[c].pos = 0
  /\ conn'[c].pc \in {"get", "missed"} => conn'[c].run = row.task
  /\ conn'[c].pc \in {"idle", "end"} => row.task = 0 \/ PutAll(row.task) \/ c = "empty"
  /\ \A q : Outs(q)' = Outs(q)
  /\ \/ /\ UNCHANGED <<evs, db, row>> /\ conn'[c].chan = conn[c].chan
        /\ conn'[c].pos \in {conn[c].pos, 0}
     \/ /\ UNCHANGED <<evs, db, row>> /\ conn[c].pc = "get" /\ conn[c].run = row.task
        /\ conn[c].pos # 0 => evs[conn[c].pos].src # "db"
        /\ \E e \in Outs(row.task) :
             /\ e > conn[c].pos /\ (\A d \in Outs(row.task) : d > conn[c].pos => e <= d)
             /\ conn'[c].chan = Append(conn[c].chan, e) /\ conn'[c].pos \in {e, 0}
     \/ /\ \E x \in Events : x.src = "db" /\ x.kind = "error" /\ evs' = Append(evs, x)
        /\ db' = Append(db, Len(evs) + 1) /\ row.task # 0
        /\ conn'[c].chan = Append(conn[c].chan, Len(evs) + 1) /\ conn'[c].pos = 0
        /\ row.next = "none" => row'.next = "none"
        /\ \/ conn[c].pc = "open" /\ row'.status = "completed"
           \/ conn[c].pos # 0 /\ evs[conn[c].pos].src = "db"

LEMMA ServedIs ==
  ASSUME Core, TurnInv, StreamInv, NEW c \in Streams, ConnStep(c)
  PROVE  TurnInv' /\ Served(c)
  <1>0. /\ conn[c].pos \in 0..Len(evs) /\ Len(evs) \in Nat /\ 0 \in Nat
        /\ conn[c].run \in 0..MaxRuns /\ conn[c].pos \in Nat
        /\ {"get", "missed", "idle", "end"} \subseteq ConnPcs
        /\ ServerTypeOK /\ RunInv /\ ClientTypeOK /\ row.task \in Nat /\ DOMAIN evs = 1 .. Len(evs)
    BY CoreIs DEF Streams, Conns, ConnPcs
  <1>1. conn[c].pc \in {"get", "missed"} => conn[c].run = row.task /\ row.task \in Runs
    BY CoreIs DEF StreamInv, ServesInv, Streams, Core, ConnInv
  <1>2. row.task # 0 => row.task \in Runs /\ ~At(row.task, "off")
    BY PageAssumption DEF Core, ServerTypeOK, Runs, TurnInv, LaneInv
  <1>3. row.task # 0 /\ ~Registered(row.task) => At(row.task, "over") /\ PutAll(row.task)
    BY <1>2 DEF Registered, At, PutAll
  <1>4. UNCHANGED server => /\ TurnInv' /\ Grown /\ \A q : Outs(q)' = Outs(q)
                            /\ evs' = evs /\ db' = db /\ row' = row /\ runner' = runner
                            /\ hand' = hand /\ Len(evs') = Len(evs)
    BY <1>0, SameServer, SameTurns DEF server
  <1>5. c = "empty" \/ c = "message"
    BY DEF Streams
  <1>6. ASSUME Open(c)
        PROVE  TurnInv' /\ Served(c)
    <2>1. conn[c].pc = "open" /\ UNCHANGED <<runner, hand, page, loads>>
      BY <1>6 DEF Open
    <2>2. ASSUME Registered(row.task),
                 conn' = [conn EXCEPT ![c].pc = "get", ![c].run = row.task],
                 UNCHANGED <<evs, db, row>>
          PROVE  TurnInv' /\ Served(c)
      <3>1. row.task \in 0..MaxRuns
        BY CoreIs DEF Rows
      <3>2. /\ Only(c) /\ conn'[c].pc = "get" /\ conn'[c].run = row.task
            /\ conn'[c].chan = conn[c].chan /\ conn'[c].pos = conn[c].pos
        <4>1. conn \in [Streams -> Conns]
          BY DEF Core, ClientTypeOK, Streams
        <4>2. \A k \in Conns, n \in 0..MaxRuns :
                LET f == [k EXCEPT !.pc = "get", !.run = n] IN
                f \in Conns /\ f.pc = "get" /\ f.run = n /\ f.chan = k.chan /\ f.pos = k.pos
          BY DEF Conns, ConnPcs
        <4>3. conn' = [conn EXCEPT ![c] = [conn[c] EXCEPT !.pc = "get", !.run = row.task]]
          BY <2>2, <4>1
        <4> QED
          BY <3>1, <4>1, <4>2, <4>3 DEF Only
      <3>3. UNCHANGED server
        BY <2>1, <2>2 DEF server
      <3> QED
        BY <1>4, <2>1, <2>2, <3>2, <3>3 DEF Served
    <2>3. ASSUME ~Registered(row.task), row.status = "running",
                 row' = [row EXCEPT !.status = "completed",
                                    !.next = IF @ = "processing" THEN "queued" ELSE @],
                 ApiEvent("error"), Leave(c, <<Len(evs) + 1>>)
          PROVE  TurnInv' /\ Served(c)
      <3> DEFINE x == Event("error", "db", 0)
                 e == Len(evs) + 1
      <3>1. x \in Events /\ x.kind = "error" /\ x.src = "db"
        BY PageAssumption DEF Event, Events, Kinds
      <3>2. evs' = Append(evs, x) /\ db' = Append(db, e)
        BY <2>3 DEF ApiEvent
      <3> HIDE DEF x
      <3>3. /\ Grown /\ e \in Nat
            /\ \A q : Outs(q)' = Outs(q) \cup (IF x.src = "out" /\ x.run = q THEN {e} ELSE {})
        BY <1>0, <3>1, <3>2, NewEvent
      <3>4. /\ row'.task = row.task /\ row'.status = "completed"
            /\ row.next = "none" => row'.next = "none"
        BY <2>3, CoreIs DEF Rows
      <3>5. row.task # 0
        BY <2>3 DEF TurnInv
      <3>6. runner[row.task] \notin Active
        BY <1>3, <2>3, <3>5 DEF At, Active
      <3>7. TurnInv'
        BY <1>0, <2>1, <3>1, <3>2, <3>4, <3>5, <3>6, EventTurns
      <3>8. /\ Only(c) /\ conn'[c].pc = "end" /\ conn'[c].pos = 0
            /\ conn'[c].chan = Append(conn[c].chan, e)
        BY <1>0, <2>3, <3>3, LeaveOneIs
      <3>9. \A q : Outs(q)' = Outs(q)
        BY <3>1, <3>3
      <3> QED
        BY <1>3, <2>1, <2>3, <3>1, <3>2, <3>3, <3>4, <3>5, <3>7, <3>8, <3>9 DEF Served
    <2>4. ASSUME ~Registered(row.task), Serve(c, "idle"), UNCHANGED <<evs, db, row>>
          PROVE  TurnInv' /\ Served(c)
      <3>1. UNCHANGED server
        BY <2>1, <2>4 DEF server
      <3>2. /\ Only(c) /\ conn'[c].pc = "idle"
            /\ conn'[c].chan = conn[c].chan /\ conn'[c].pos = conn[c].pos
        BY <1>0, <2>4, ServeIs
      <3> QED
        BY <1>3, <1>4, <2>1, <2>4, <3>1, <3>2 DEF Served
    <2> QED
      BY <1>6, <2>2, <2>3, <2>4 DEF Open
  <1>7. ASSUME Idles(c)
        PROVE  TurnInv' /\ Served(c)
    <2>1. /\ Only(c) /\ conn'[c].pc = "end" /\ conn'[c].chan = conn[c].chan /\ conn'[c].pos = 0
      BY <1>0, <1>7, LeaveNoneIs DEF Idles
    <2>2. conn[c].pc = "idle" /\ UNCHANGED server /\ UNCHANGED <<page, loads>>
      BY <1>7 DEF Idles
    <2>3. c = "message" => PutAll(row.task)
      BY <2>2 DEF StreamInv
    <2> QED
      BY <1>4, <1>5, <2>1, <2>2, <2>3 DEF Served
  <1>8. ASSUME Get(c)
        PROVE  TurnInv' /\ Served(c)
    <2> DEFINE e == Min(Ready(c))
    <2>1. e \in Ready(c) /\ \A y \in Ready(c) : e <= y
      <3>1. Ready(c) \subseteq Nat /\ Ready(c) # {}
        BY <1>0, <1>8 DEF Ready, Get
      <3>2. \E m \in Ready(c) : \A y \in Ready(c) : m <= y
        BY <3>1, LeastNumber
      <3> QED
        BY <3>2 DEF Min
    <2>2. /\ conn[c].pc = "get" /\ UNCHANGED server /\ UNCHANGED <<page, loads>>
          /\ conn[c].pos # 0 => evs[conn[c].pos].src # "db"
          /\ IF Terminal(evs[e].kind) THEN Leave(c, <<e>>)
             ELSE conn' = [conn EXCEPT ![c].pos = e, ![c].chan = Append(@, e)]
      BY <1>8 DEF Get
    <2> HIDE DEF e
    <2>3. /\ conn[c].run = row.task /\ row.task \in Runs /\ e \in Nat /\ e \in Outs(row.task)
          /\ e > conn[c].pos /\ (\A d \in Outs(row.task) : d > conn[c].pos => e <= d)
      BY <1>0, <1>1, <2>1, <2>2 DEF Ready, Outs
    <2>4. CASE Terminal(evs[e].kind)
      <3>1. /\ Only(c) /\ conn'[c].pc = "end" /\ conn'[c].pos = 0
            /\ conn'[c].chan = Append(conn[c].chan, e)
        BY <1>0, <2>2, <2>3, <2>4, LeaveOneIs
      <3>2. PutAll(row.task)
        BY <2>3, <2>4 DEF TurnInv, LaneInv, Ended
      <3> QED
        BY <1>4, <2>2, <2>3, <3>1, <3>2 DEF Served
    <2>5. CASE ~Terminal(evs[e].kind)
      <3>1. /\ Only(c) /\ conn'[c].pc = "get" /\ conn'[c].run = conn[c].run /\ conn'[c].pos = e
            /\ conn'[c].chan = Append(conn[c].chan, e)
        <4>1. conn \in [Streams -> Conns]
          BY DEF Core, ClientTypeOK, Streams
        <4>2. \A k \in Conns, s \in Seq(Nat) :
                LET f == [k EXCEPT !.pos = e, !.chan = s] IN
                f \in Conns /\ f.pc = k.pc /\ f.run = k.run /\ f.chan = s /\ f.pos = e
          BY <2>3 DEF Conns
        <4>3. conn' = [conn EXCEPT ![c] = [conn[c] EXCEPT !.pos = e, !.chan = Append(conn[c].chan, e)]]
          BY <2>2, <2>5, <4>1
        <4>4. Append(conn[c].chan, e) \in Seq(Nat)
          BY <2>3, <4>1 DEF Conns
        <4> QED
          BY <2>2, <4>1, <4>2, <4>3, <4>4 DEF Only
      <3> QED
        BY <1>4, <2>2, <2>3, <3>1 DEF Served
    <2> QED
      BY <2>4, <2>5
  <1>9. ASSUME Misses(c)
        PROVE  TurnInv' /\ Served(c)
    <2>1. /\ conn[c].pc = "get" /\ UNCHANGED server /\ UNCHANGED <<page, loads>>
          /\ Serve(c, "missed")
      BY <1>9 DEF Misses
    <2>2. /\ Only(c) /\ conn'[c].pc = "missed" /\ conn'[c].run = conn[c].run
          /\ conn'[c].chan = conn[c].chan /\ conn'[c].pos = conn[c].pos
      BY <1>0, <2>1, ServeIs
    <2> QED
      BY <1>1, <1>4, <2>1, <2>2 DEF Served
  <1>10. ASSUME AsksTask(c)
         PROVE  TurnInv' /\ Served(c)
    <2>1. /\ conn[c].pc = "missed" /\ UNCHANGED server /\ UNCHANGED <<page, loads>>
          /\ IF At(conn[c].run, "over") THEN Leave(c, <<>>) ELSE Serve(c, "get")
      BY <1>10 DEF AsksTask
    <2>2. CASE At(conn[c].run, "over")
      <3>1. Only(c) /\ conn'[c].pc = "end" /\ conn'[c].chan = conn[c].chan /\ conn'[c].pos = 0
        BY <1>0, <2>1, <2>2, LeaveNoneIs
      <3>2. PutAll(row.task)
        BY <1>1, <2>1, <2>2 DEF At, PutAll
      <3> QED
        BY <1>4, <2>1, <3>1, <3>2 DEF Served
    <2>3. CASE ~At(conn[c].run, "over")
      <3>1. /\ Only(c) /\ conn'[c].pc = "get" /\ conn'[c].run = conn[c].run
            /\ conn'[c].chan = conn[c].chan /\ conn'[c].pos = conn[c].pos
        BY <1>0, <2>1, <2>3, ServeIs
      <3> QED
        BY <1>1, <1>4, <2>1, <3>1 DEF Served
    <2> QED
      BY <2>2, <2>3
  <1>11. ASSUME Refused(c)
         PROVE  TurnInv' /\ Served(c)
    <2> DEFINE x == Event("error", "db", 0)
               e == Len(evs) + 1
    <2>1. x \in Events /\ x.kind = "error" /\ x.src = "db"
      BY PageAssumption DEF Event, Events, Kinds
    <2>2. /\ evs' = Append(evs, x) /\ db' = Append(db, e) /\ Leave(c, <<e>>)
          /\ conn[c].pc = "get" /\ UNCHANGED <<row, runner, hand, page, loads>>
          /\ conn[c].pos # 0 /\ evs[conn[c].pos].src = "db"
      BY <1>11 DEF ApiEvent, Refused
    <2> HIDE DEF x
    <2>3. /\ Grown /\ e \in Nat
          /\ \A q : Outs(q)' = Outs(q) \cup (IF x.src = "out" /\ x.run = q THEN {e} ELSE {})
      BY <1>0, <2>1, <2>2, NewEvent
    <2>4. TurnInv'
      BY <1>0, <2>1, <2>2, EventTurns
    <2>5. /\ Only(c) /\ conn'[c].pc = "end" /\ conn'[c].pos = 0
          /\ conn'[c].chan = Append(conn[c].chan, e)
      BY <1>0, <2>2, <2>3, LeaveOneIs
    <2>6. c = "empty"
      BY <1>5, <2>2 DEF StreamInv
    <2>7. \A q : Outs(q)' = Outs(q)
      BY <2>1, <2>3
    <2>8. row.task # 0
      BY <1>1, <2>2, PageAssumption DEF Runs
    <2> QED
      BY <2>1, <2>2, <2>3, <2>4, <2>5, <2>6, <2>7, <2>8 DEF Served
  <1> QED
    BY <1>6, <1>7, <1>8, <1>9, <1>10, <1>11 DEF ConnStep

\* A reader's step leaves the streams as they should be.
LEMMA StreamServed ==
  ASSUME Core, TurnInv, StreamInv, NEW c \in Streams, Served(c)
  PROVE  StreamInv'
  <1>1. /\ \A o \in Streams : conn[o].pos \in 0..Len(evs) /\ Range(conn[o].chan) \subseteq DOMAIN evs
                              /\ conn[o].chan \in Seq(Nat)
        /\ Len(evs) \in Nat /\ DOMAIN evs = 1 .. Len(evs) /\ db \in Seq(Nat) /\ row.task \in Nat
        /\ Streams = {"message", "empty"} /\ evs \in Seq(Events)
    BY CoreIs DEF Streams, Conns
  <1>2. /\ \A e \in DOMAIN evs : evs'[e] = evs[e]
        /\ Range(db) \subseteq Range(db)' /\ (db # <<>> => db' # <<>>)
    <2>0. db \in Seq(Nat) /\ Len(evs) + 1 \in Nat
      BY <1>1
    <2>1. \A e \in Nat : Append(db, e) # <<>>
      BY <2>0
    <2>2. \A e \in Nat : Range(Append(db, e)) = Range(db) \cup {e}
      BY <1>1, AppendRange
    <2>3. db' = db \/ db' = Append(db, Len(evs) + 1)
      BY DEF Served
    <2>4. Range(db) \subseteq Range(db') /\ (db # <<>> => db' # <<>>)
      BY <2>0, <2>1, <2>2, <2>3
    <2>5. \A e \in DOMAIN evs : evs'[e] = evs[e]
      BY DEF Served, Grown
    <2> QED
      BY <2>4, <2>5
  <1>3. \A o \in Streams : o # c => conn'[o] = conn[o]
    BY DEF Served, Only
  <1>4. /\ row'.task = row.task /\ Outs(row.task)' = Outs(row.task)
        /\ (PutAll(row.task)' <=> PutAll(row.task)) /\ hand' = hand
        /\ row.status # "running" => row'.status # "running"
    <2>1. /\ row'.task = row.task /\ hand' = hand /\ runner' = runner
          /\ row.status # "running" => row'.status # "running"
          /\ \A q : Outs(q)' = Outs(q)
      BY DEF Served
    <2>2. Outs(row.task)' = Outs(row.task)
      BY <2>1 DEF Outs
    <2>3. PutAll(row.task)' <=> PutAll(row.task)
      BY <2>1 DEF PutAll
    <2> QED
      BY <2>1, <2>2, <2>3
  <1>5. /\ Opening' <=> Opening
        /\ c = "message" => ~Opening /\ conn["message"].pc # "none"
    BY <1>1, <1>3 DEF Served, Opening
  <1>6. (Opening => row.status # "running")' /\ (conn["message"].pc \in {"start", "open"} => row.task # 0)'
    BY <1>1, <1>3, <1>4, <1>5 DEF StreamInv, Served
  <1>7. (row.task # 0 /\ conn["message"].pc \notin {"put", "add"} => db # <<>>)'
    BY <1>1, <1>2, <1>3, <1>4 DEF StreamInv, Served
  <1>8. (conn["message"].pos # 0 => evs[conn["message"].pos].src = "out")'
    <2>1. conn["message"].pos # 0 => conn["message"].pos \in DOMAIN evs
      BY <1>1
    <2>2. CASE c # "message"
      BY <1>1, <1>2, <1>3, <2>1, <2>2 DEF StreamInv
    <2>3. CASE c = "message"
      <3>1. conn'[c].pos \in {conn[c].pos, 0} \/ conn'[c].pos \in Outs(row.task)
        BY DEF Served
      <3>2. \A e \in Outs(row.task) : evs[e].src = "out" /\ e \in DOMAIN evs
        BY DEF Outs
      <3> QED
        BY <1>2, <2>1, <2>3, <3>1, <3>2 DEF StreamInv
    <2> QED
      BY <2>2, <2>3
  <1>9. (conn["message"].pc = "end" => conn["message"].pos = 0)'
    BY <1>1, <1>3 DEF StreamInv, Served
  <1>10. (conn["message"].pc # "none" /\ ~Opening =>
            row.task # 0 /\ Outs(row.task) \subseteq Range(db) \cup {hand[row.task]})'
    <2>1. conn'["message"].pc # "none" => conn["message"].pc # "none"
      BY <1>1, <1>3, <1>5
    <2> QED
      BY <1>2, <1>4, <1>5, <2>1 DEF StreamInv
  <1>11. (conn["message"].pc \in {"idle", "end"} => PutAll(row.task))'
    <2>1. conn["message"].pc # "none" /\ ~Opening => row.task # 0
      BY DEF StreamInv
    <2> QED
      BY <1>1, <1>3, <1>4, <1>5, <2>1 DEF StreamInv, Served
  <1>12. (conn["empty"].pc \in {"get", "missed"} => conn["empty"].run = row.task)'
    BY <1>1, <1>3, <1>4 DEF StreamInv, Served
  <1>13. (\A o \in {"message", "empty"} : \A e \in Range(conn[o].chan) :
            evs[e].src = "out" => e \in Outs(row.task) /\ ~Opening)'
    <2>1. ASSUME NEW o \in Streams, NEW e \in Range(conn[o].chan), evs'[e].src = "out"
          PROVE  e \in Outs(row.task) /\ ~Opening
      <3>1. evs'[e] = evs[e]
        BY <1>1, <1>2, <2>1
      <3> QED
        BY <1>1, <2>1, <3>1 DEF StreamInv
    <2>2. ASSUME NEW o \in Streams, NEW e \in Range(conn'[o].chan), evs'[e].src = "out",
                 e \notin Range(conn[o].chan)
          PROVE  e \in Outs(row.task) /\ ~Opening
      <3>1. o = c
        BY <1>3, <2>2
      <3>2. \A n \in Nat : Range(Append(conn[c].chan, n)) = Range(conn[c].chan) \cup {n}
        BY <1>1, AppendRange
      <3>3. Len(evs) + 1 \in Nat /\ \A n \in Outs(row.task) : n \in Nat
        BY <1>1 DEF Outs
      <3>4. e \in Outs(row.task) \/ (e = Len(evs) + 1 /\ evs'[e].src = "db")
        <4>1. \A x : evs' = Append(evs, x) => evs'[Len(evs) + 1] = x
          BY <1>1
        <4>2. CASE conn'[c].chan = conn[c].chan
          BY <2>2, <3>1, <4>2
        <4>3. CASE \E n \in Outs(row.task) : conn'[c].chan = Append(conn[c].chan, n)
          BY <2>2, <3>1, <3>2, <3>3, <4>3
        <4>4. CASE /\ \E x \in Events : x.src = "db" /\ evs' = Append(evs, x)
                   /\ conn'[c].chan = Append(conn[c].chan, Len(evs) + 1)
          <5>1. evs'[Len(evs) + 1].src = "db"
            BY <4>1, <4>4
          <5>2. e = Len(evs) + 1
            BY <2>2, <3>1, <3>2, <3>3, <4>4
          <5> QED
            BY <5>1, <5>2
        <4> QED
          BY <4>2, <4>3, <4>4 DEF Served
      <3>5. ~Opening
        <4>1. c = "empty" => conn["message"].pc = "none" \/ ~Opening
          <5>1. conn["empty"].pc # "none" /\ page.sending => FALSE
            BY PageIs
          <5>2. c = "empty" => conn["empty"].pc # "none"
            BY DEF Served
          <5>3. conn["message"].pc # "none" => page.sending \/ conn["message"].pc = "end"
            BY PageIs
          <5> QED
            BY <5>1, <5>2, <5>3 DEF Opening
        <4> QED
          BY <1>1, <1>5, <4>1 DEF Opening
      <3> QED
        BY <2>2, <3>4, <3>5
    <2> QED
      BY <1>1, <1>4, <1>5, <2>1, <2>2
  <1> QED
    BY <1>6, <1>7, <1>8, <1>9, <1>10, <1>11, <1>12, <1>13 DEF StreamInv

\* What a step of the request that serves a message leaves.  It gives the page
\* no output event, and a run that it starts has none.
Messaged ==
  /\ Only("message") /\ UNCHANGED <<page, loads, used>> /\ Grown /\ page.sending
  /\ conn["empty"].pc = "none" /\ conn["message"].chan \in Seq(Nat)
  /\ conn'["message"].pos = conn["message"].pos
  /\ Range(db) \subseteq Range(db)'
  /\ \A q \in Runs : q <= row.task => (PutAll(q) => PutAll(q)')
  /\ \/ /\ row'.task = row.task /\ (Opening' <=> Opening) /\ \A q : Outs(q)' = Outs(q)
        /\ runner' = runner \/ ~Opening
        /\ \/ conn'["message"].chan = conn["message"].chan
           \/ /\ \E x \in Events : x.src # "out" /\ evs' = Append(evs, x)
              /\ conn'["message"].chan = Append(conn["message"].chan, Len(evs) + 1)
     \/ /\ row'.task = row.task + 1 /\ Opening /\ ~Opening' /\ evs' = evs
        /\ Outs(row.task)' = {} /\ conn'["message"].chan = conn["message"].chan
        /\ \A q \in Runs : q <= row.task => runner'[q] = runner[q]

\* The steps of that request are those of a page that sends.
LEMMA SendingIs ==
  ASSUME Core, conn["message"].pc \notin {"none", "end"}
  PROVE  /\ page.sending /\ conn["empty"] = NoConn /\ conn["empty"].pc = "none"
         /\ conn["empty"].chan = <<>> /\ conn["message"].chan \in Seq(Nat)
         /\ Range(conn["message"].chan) \subseteq DOMAIN evs /\ conn["message"].pos \in 0..Len(evs)
         /\ "message" \in Streams /\ "empty" \in Streams
  BY PageIs, CoreIs DEF Streams, Conns

\* An event that the API makes for the page, and commits itself if it is no input.
LEMMA YieldTurns ==
  ASSUME Core, TurnInv, StreamInv, NEW x \in Events, x.src # "out", evs' = Append(evs, x),
         NEW pc \in {"claim", "add"}, Yield("message", Len(evs) + 1, pc),
         IF pc = "claim" THEN conn["message"].pc = "resolved" ELSE conn["message"].pc = "put",
         x.src = "in" <=> pc = "add", x.kind = "user" => x.src = "in",
         x.src = "in" => x.run = conn["message"].run,
         IF pc = "claim" THEN db' = Append(db, Len(evs) + 1) ELSE db' = db,
         UNCHANGED <<row, runner, hand, page, loads, used>>
  PROVE  TurnInv' /\ StreamInv' /\ Messaged
  <1> DEFINE n == Len(evs) + 1
             m == conn["message"]
  <1>1. /\ ServerTypeOK /\ RunInv /\ ClientTypeOK /\ ServesInv /\ row.task \in Nat
        /\ evs \in Seq(Events) /\ Len(evs) \in Nat /\ DOMAIN evs = 1 .. Len(evs) /\ db \in Seq(Nat)
    BY CoreIs
  <1>2. /\ page.sending /\ conn["empty"] = NoConn /\ conn["empty"].pc = "none"
        /\ conn["empty"].chan = <<>> /\ conn["message"].chan \in Seq(Nat)
        /\ Range(conn["message"].chan) \subseteq DOMAIN evs /\ conn["message"].pos \in 0..Len(evs)
        /\ "message" \in Streams /\ "empty" \in Streams
    BY SendingIs
  <1>3. m.pc = "put" => m.run = row.task /\ row.task \in Runs /\ At(row.task, "made")
    BY <1>1 DEF ServesInv
  <1>4. TurnInv' /\ Range(db) \subseteq Range(db)'
    <2>1. x.src = "in" => x.run = row.task /\ row.task \in Runs /\ At(row.task, "made")
      BY <1>3
    <2>2. db' = db \/ (x.src = "db" /\ db' = Append(db, Len(evs) + 1))
      BY DEF Events
    <2> QED
      BY <1>1, <2>1, <2>2, EventTurns
  <1>5. /\ Grown /\ n \in Nat /\ evs'[n] = x
        /\ \A q : Outs(q)' = Outs(q) \cup (IF x.src = "out" /\ x.run = q THEN {n} ELSE {})
    BY <1>1, NewEvent
  <1>6. \A q : Outs(q)' = Outs(q)
    BY <1>5
  <1>7. /\ Only("message") /\ conn'["message"].pc = pc
        /\ conn'["message"].pos = m.pos /\ conn'["message"].chan = Append(m.chan, n)
    <2>1. pc \in ConnPcs
      BY DEF ConnPcs
    <2> QED
      BY <1>1, <1>2, <1>5, <2>1, YieldIs
  <1>8. conn'["empty"] = conn["empty"]
    BY <1>2, <1>7 DEF Only
  <1>9. (Opening' <=> Opening) /\ (Opening <=> pc = "claim")
    BY <1>7 DEF Opening
  <1> HIDE DEF n, m
  <1>10. Messaged
    <2>1. \A q \in Runs : PutAll(q) => PutAll(q)'
      BY DEF PutAll
    <2> QED
      BY <1>2, <1>4, <1>5, <1>6, <1>7, <1>9, <2>1 DEF Messaged, n, m
  <1>11. StreamInv'
    <2>1. Range(conn'["message"].chan) = Range(m.chan) \cup {n}
      BY <1>2, <1>5, <1>7, AppendRange DEF m
    <2>2. (row.task # 0 /\ conn["message"].pc \notin {"put", "add"} => db # <<>>)'
      <3>1. pc = "claim" => Append(db, Len(evs) + 1) # <<>>
        BY <1>1
      <3> QED
        BY <1>7, <3>1
    <2>3. (conn["message"].pos # 0 => evs[conn["message"].pos].src = "out")'
      BY <1>1, <1>2, <1>5, <1>7 DEF StreamInv, m, Grown
    <2>4. (conn["message"].pc # "none" /\ ~Opening =>
             row.task # 0 /\ Outs(row.task) \subseteq Range(db) \cup {hand[row.task]})'
      <3>1. SUFFICES ASSUME ~Opening
                     PROVE  row.task # 0 /\ Outs(row.task)' \subseteq Range(db)' \cup {hand'[row.task]}
        BY <1>9
      <3>2. row.task # 0 /\ Outs(row.task) \subseteq Range(db) \cup {hand[row.task]}
        BY <3>1 DEF StreamInv
      <3> QED
        BY <1>4, <1>6, <3>2 DEF Outs
    <2>5. (\A c \in {"message", "empty"} : \A e \in Range(conn[c].chan) :
            evs[e].src = "out" => e \in Outs(row.task) /\ ~Opening)'
      <3>1. ASSUME NEW e \in Range(m.chan), evs'[e].src = "out"
            PROVE  e \in Outs(row.task)' /\ ~Opening
        <4>1. evs'[e] = evs[e]
          BY <1>2, <1>5 DEF Grown, m
        <4>2. e \in Outs(row.task) /\ ~Opening
          BY <3>1, <4>1 DEF StreamInv, m
        <4> QED
          BY <1>6, <4>2 DEF Outs
      <3>2. Range(<<>>) = {}
        BY DEF Range
      <3> QED
        BY <1>2, <1>5, <1>8, <1>9, <2>1, <3>1, <3>2
    <2>6. (Opening => row.status # "running")'
      BY <1>9 DEF StreamInv
    <2> QED
      BY <1>2, <1>7, <1>8, <2>2, <2>3, <2>4, <2>5, <2>6 DEF StreamInv
  <1> QED
    BY <1>4, <1>10, <1>11

\* The row is claimed for the next run, whose stream has nothing to read yet.
LEMMA ClaimedTurns ==
  ASSUME Core, TurnInv, StreamInv, NEW pc \in {"put", "open"},
         conn["message"].pc = (IF pc = "put" THEN "claim" ELSE "start"),
         row' = [row EXCEPT !.status = "running", !.task = NextRun],
         Goto(NextRun, IF pc = "put" THEN "made" ELSE "poll"),
         UNCHANGED <<evs, db, hand, page, loads, used>>,
         Only("message"), conn'["message"].pc = pc, conn'["message"].chan = conn["message"].chan,
         conn'["message"].pos = conn["message"].pos
  PROVE  TurnInv' /\ StreamInv' /\ Messaged
  <1>1. /\ ServerTypeOK /\ RunInv /\ ServesInv /\ row.task \in Nat /\ NextRun \in Runs
        /\ DOMAIN evs = 1 .. Len(evs) /\ Len(evs) \in Nat /\ Runs \subseteq Nat \ {0}
        /\ runner \in [Runs -> RunnerPcs]
    BY CoreIs, ServerIs DEF ServesInv, Opening
  <1>2. /\ page.sending /\ conn["empty"] = NoConn /\ conn["empty"].pc = "none"
        /\ conn["empty"].chan = <<>> /\ conn["message"].chan \in Seq(Nat)
        /\ Range(conn["message"].chan) \subseteq DOMAIN evs /\ conn["message"].pos \in 0..Len(evs)
        /\ "message" \in Streams /\ "empty" \in Streams
    BY SendingIs
  <1>3. Opening /\ ~Opening' /\ row.status # "running"
    BY DEF Opening, StreamInv
  <1>4. TurnInv' /\ Outs(row.task)' = {} /\ row'.task = NextRun /\ NextRun = row.task + 1
    <2>1. TurnInv' /\ Outs(row.task)' = {} /\ Outs(NextRun) = {} /\ row'.task = NextRun
      BY <1>1, <1>3, ClaimTurns
    <2> QED
      BY <2>1 DEF NextRun
  <1>5. Grown
    BY <1>1, SameEvents
  <1>6. \A q \in Runs : q <= row.task => runner'[q] = runner[q]
    BY <1>1, <1>4 DEF Goto
  <1>7. Messaged
    <2>1. \A q \in Runs : q <= row.task => (PutAll(q) => PutAll(q)')
      BY <1>6 DEF PutAll
    <2> QED
      BY <1>2, <1>3, <1>4, <1>5, <1>6, <2>1 DEF Messaged
  <1>8. StreamInv'
    <2>1. conn'["empty"] = conn["empty"]
      BY <1>2 DEF Only
    <2>2. \A e \in Range(conn["message"].chan) : evs[e].src # "out"
      BY <1>3 DEF StreamInv
    <2>3. (\A c \in {"message", "empty"} : \A e \in Range(conn[c].chan) :
            evs[e].src = "out" => e \in Outs(row.task) /\ ~Opening)'
      <3>1. Range(<<>>) = {}
        BY DEF Range
      <3> QED
        BY <1>2, <2>1, <2>2, <3>1
    <2>4. (row.task # 0 /\ conn["message"].pc \notin {"put", "add"} => db # <<>>)'
      BY <1>1, <1>4 DEF StreamInv
    <2>5. (conn["message"].pc # "none" /\ ~Opening =>
             row.task # 0 /\ Outs(row.task) \subseteq Range(db) \cup {hand[row.task]})'
      BY <1>1, <1>4
    <2>6. (conn["message"].pos # 0 => evs[conn["message"].pos].src = "out")'
      BY <1>2 DEF StreamInv
    <2> QED
      BY <1>1, <1>2, <1>3, <1>4, <2>1, <2>3, <2>4, <2>5, <2>6 DEF StreamInv
  <1> QED
    BY <1>4, <1>7, <1>8

\* A step of the request that serves a message.
LEMMA MessageTurns ==
  ASSUME Core, TurnInv, StreamInv, MessageStep
  PROVE  TurnInv' /\ StreamInv' /\ Messaged
  <1>1. /\ ServerTypeOK /\ RunInv /\ ClientTypeOK /\ ServesInv /\ row.task \in Nat
        /\ conn \in [Streams -> Conns] /\ row \in Rows /\ "message" \in Streams /\ "empty" \in Streams
        /\ runner \in [Runs -> RunnerPcs] /\ DOMAIN evs = 1 .. Len(evs) /\ Len(evs) \in Nat
        /\ Runs = 1 .. MaxRuns /\ MaxRuns \in Nat /\ db \in Seq(Nat)
    BY CoreIs, PageIs, ServerIs, PageAssumption DEF Runs, Streams
  <1>2. CASE Resolve
    <2> DEFINE x == Event("resolved", "db", 0)
    <2>1. x \in Events /\ x.kind = "resolved" /\ x.src = "db"
      BY PageAssumption DEF Event, Events, Kinds
    <2>2. /\ evs' = Append(evs, x) /\ db' = Append(db, Len(evs) + 1)
          /\ Yield("message", Len(evs) + 1, "claim") /\ conn["message"].pc = "resolved"
          /\ UNCHANGED <<row, runner, hand, page, loads, used>>
      BY <1>2 DEF Resolve, ApiEvent
    <2> HIDE DEF x
    <2> QED
      BY <2>1, <2>2, YieldTurns
  <1>3. CASE PutMessage
    <2> DEFINE x == Event("user", "in", conn["message"].run)
    <2>1. conn["message"].run \in 0..MaxRuns
      BY <1>1 DEF Conns
    <2>2. x \in Events /\ x.kind = "user" /\ x.src = "in" /\ x.run = conn["message"].run
      BY <2>1 DEF Event, Events, Kinds
    <2>3. /\ evs' = Append(evs, x) /\ db' = db
          /\ Yield("message", Len(evs) + 1, "add") /\ conn["message"].pc = "put"
          /\ UNCHANGED <<row, runner, hand, page, loads, used>>
      BY <1>3 DEF PutMessage
    <2> HIDE DEF x
    <2> QED
      BY <2>2, <2>3, YieldTurns
  <1>4. CASE Claim
    <2>1. /\ conn["message"].pc = "claim" /\ Goto(NextRun, "made")
          /\ row' = [row EXCEPT !.status = "running", !.task = NextRun]
          /\ conn' = [conn EXCEPT !["message"].pc = "put", !["message"].run = NextRun]
          /\ UNCHANGED <<evs, db, hand, page, loads, used>>
      BY <1>4 DEF Claim
    <2>2. NextRun \in 0..MaxRuns
      BY <1>1, <2>1 DEF ServesInv, Opening
    <2>3. /\ Only("message") /\ conn'["message"].pc = "put"
          /\ conn'["message"].chan = conn["message"].chan /\ conn'["message"].pos = conn["message"].pos
      <3>1. \A k \in Conns, n \in 0..MaxRuns :
              LET f == [k EXCEPT !.pc = "put", !.run = n] IN
              f \in Conns /\ f.pc = "put" /\ f.chan = k.chan /\ f.pos = k.pos
        BY DEF Conns, ConnPcs
      <3>2. conn' = [conn EXCEPT !["message"] = [conn["message"] EXCEPT !.pc = "put", !.run = NextRun]]
        BY <1>1, <2>1
      <3> QED
        BY <1>1, <2>2, <3>1, <3>2 DEF Only
    <2> QED
      BY <2>1, <2>3, ClaimedTurns
  <1>5. CASE StartNext
    <2>1. /\ conn["message"].pc = "start" /\ Goto(NextRun, "poll")
          /\ row' = [row EXCEPT !.status = "running", !.task = NextRun]
          /\ Serve("message", "open")
          /\ UNCHANGED <<evs, db, hand, page, loads, used>>
      BY <1>5 DEF StartNext
    <2>2. /\ Only("message") /\ conn'["message"].pc = "open"
          /\ conn'["message"].chan = conn["message"].chan /\ conn'["message"].pos = conn["message"].pos
      <3>1. "open" \in ConnPcs
        BY DEF ConnPcs
      <3> QED
        BY <1>1, <2>1, <3>1, ServeIs
    <2> QED
      BY <2>1, <2>2, ClaimedTurns
  <1>6. CASE Invoke
    <2> DEFINE m == conn["message"]
               u == CHOOSE e \in DOMAIN evs : evs[e].kind = "user" /\ evs[e].run = m.run
    <2>1. /\ m.pc = "add" /\ db' = Append(db, u) /\ Goto(m.run, "flow") /\ Serve("message", "get")
          /\ UNCHANGED <<evs, row, hand, page, loads, used>>
      BY <1>6 DEF Invoke
    <2>2. /\ m.run = row.task /\ row.task \in Runs /\ At(row.task, "made")
          /\ \E e \in DOMAIN evs : evs[e].kind = "user" /\ evs[e].run = m.run
      BY <1>1, <2>1 DEF ServesInv
    <2>3. u \in DOMAIN evs /\ evs[u].kind = "user"
      BY <2>2
    <2> HIDE DEF u
    <2>4. evs[u].src # "out"
      BY <2>3 DEF TurnInv
    <2>5. runner' = [runner EXCEPT ![row.task] = "flow"] /\ runner[row.task] = "made"
      BY <2>1, <2>2 DEF Goto, At
    <2>6. TurnInv' /\ Range(db) \subseteq Range(db)'
      BY <1>1, <2>1, <2>2, <2>3, <2>4, <2>5, MoveTurns
    <2>7. Grown /\ \A q : Outs(q)' = Outs(q)
      BY <1>1, <2>1, SameEvents
    <2>8. /\ Only("message") /\ conn'["message"].pc = "get" /\ conn'["message"].chan = m.chan
          /\ conn'["message"].pos = m.pos /\ conn'["message"].run = m.run
      <3>1. "get" \in ConnPcs
        BY DEF ConnPcs
      <3> QED
        BY <1>1, <2>1, <3>1, ServeIs
    <2>9. /\ page.sending /\ conn["empty"] = NoConn /\ conn["empty"].pc = "none"
          /\ conn["empty"].chan = <<>> /\ conn["message"].chan \in Seq(Nat)
      BY <2>1, SendingIs
    <2>10. ~Opening /\ ~Opening' /\ conn'["empty"] = conn["empty"]
      BY <1>1, <2>1, <2>8 DEF Opening, Only
    <2>11. \A q \in Runs : PutAll(q) => PutAll(q)'
      BY <1>1, <2>5 DEF PutAll
    <2>12. Messaged
      BY <2>1, <2>6, <2>7, <2>8, <2>9, <2>10, <2>11 DEF Messaged
    <2>13. StreamInv'
      <3>1. (row.task # 0 /\ conn["message"].pc \notin {"put", "add"} => db # <<>>)'
        <4>1. Append(db, u) # <<>>
          BY <1>1
        <4> QED
          BY <2>1, <4>1
      <3>2. (conn["message"].pc # "none" /\ ~Opening =>
               row.task # 0 /\ Outs(row.task) \subseteq Range(db) \cup {hand[row.task]})'
        <4>1. Outs(row.task) = {}
          BY <2>2 DEF TurnInv, LaneInv, At
        <4>2. row.task # 0
          BY <1>1, <2>2
        <4> QED
          BY <2>1, <4>1, <4>2 DEF Outs
      <3>3. (conn["message"].pos # 0 => evs[conn["message"].pos].src = "out")'
        BY <2>1, <2>8 DEF StreamInv
      <3>4. (\A c \in {"message", "empty"} : \A e \in Range(conn[c].chan) :
              evs[e].src = "out" => e \in Outs(row.task) /\ ~Opening)'
        BY <2>1, <2>8, <2>10 DEF StreamInv, Outs
      <3> QED
        BY <2>1, <2>8, <2>9, <2>10, <3>1, <3>2, <3>3, <3>4 DEF StreamInv
    <2> QED
      BY <2>6, <2>12, <2>13
  <1> QED
    BY <1>2, <1>3, <1>4, <1>5, <1>6 DEF MessageStep

-----------------------------------------------------------------------------
(* The streams, the snapshots and the page are whole *)

\* A stream of the page goes on, with less to come, ends, or is opened.
Goes(s, k) == s.pc = k.pc /\ s.run = k.run /\ s.pos = k.pos /\ Range(s.chan) \subseteq Range(k.chan)
Opens(m) ==
  \E at \in {"claim", "start", "resolved"} :
    m = Fresh(at, 0) /\ row.status # "running" /\ (at = "start" => row.task # 0)

\* What a callback of the page does to its streams keeps their invariant.
LEMMA StreamsTurn ==
  ASSUME Core, TurnInv, StreamInv, UNCHANGED <<evs, db>>, row'.task = row.task,
         row'.status = row.status,
         \/ Goes(conn'["message"], conn["message"]) /\ UNCHANGED <<runner, hand>>
         \/ conn["message"].pc \notin {"put", "add"} /\ conn'["message"] = NoConn
         \/ /\ conn["message"].pc \notin {"put", "add"} /\ Opens(conn'["message"])
            /\ conn'["empty"] = NoConn,
         \/ Goes(conn'["empty"], conn["empty"])
         \/ conn'["empty"] = NoConn \/ \E n \in Nat : conn'["empty"] = Fresh("open", n)
  PROVE  StreamInv'
  <1> DEFINE m == conn["message"]
             k == conn'["message"]
             e == conn'["empty"]
  <1>1. /\ NoConn.pc = "none" /\ NoConn.pos = 0 /\ NoConn.chan = <<>> /\ Range(<<>>) = {}
        /\ \A at \in ConnPcs, n \in Nat : Fresh(at, n).pc = at /\ Fresh(at, n).pos = n
                                         /\ Fresh(at, n).chan = <<>>
        /\ {"claim", "start", "resolved", "open"} \subseteq ConnPcs
    BY FreshIs DEF ConnPcs, Range
  <1>2. \A q : Outs(q)' = Outs(q)
    BY DEF Outs
  <1>3. /\ \/ e.pc = conn["empty"].pc /\ e.run = conn["empty"].run
              /\ Range(e.chan) \subseteq Range(conn["empty"].chan)
           \/ e.pc \in {"none", "open"} /\ Range(e.chan) = {}
    BY <1>1 DEF Goes
  <1>4. CASE Goes(k, m) /\ UNCHANGED <<runner, hand>>
    <2>1. k.pc = m.pc /\ k.run = m.run /\ k.pos = m.pos /\ Range(k.chan) \subseteq Range(m.chan)
      BY <1>4 DEF Goes
    <2>2. Opening' <=> Opening
      BY <2>1 DEF Opening
    <2>3. \A q : PutAll(q)' <=> PutAll(q)
      BY <1>4 DEF PutAll
    <2>4. hand' = hand
      BY <1>4
    <2> HIDE DEF m, k, e
    <2>5. (\A c \in {"message", "empty"} : \A x \in Range(conn[c].chan) :
             evs[x].src = "out" => x \in Outs(row.task) /\ ~Opening)'
      <3>1. \A x \in Range(k.chan) : evs[x].src = "out" => x \in Outs(row.task) /\ ~Opening
        BY <2>1 DEF StreamInv, m
      <3>2. \A x \in Range(e.chan) : evs[x].src = "out" => x \in Outs(row.task) /\ ~Opening
        BY <1>3 DEF StreamInv
      <3> QED
        BY <3>1, <3>2, <1>2, <2>2 DEF k, e
    <2>6. (conn["empty"].pc \in {"get", "missed"} => conn["empty"].run = row.task)'
      BY <1>3 DEF StreamInv, e
    <2> QED
      BY <2>1, <2>2, <2>3, <2>4, <2>5, <2>6, <1>2 DEF StreamInv, m, k
  <1>5. CASE m.pc \notin {"put", "add"} /\ (k = NoConn \/ (Opens(k) /\ e = NoConn))
    <2>1. /\ k.pc \in {"none", "claim", "start", "resolved"} /\ Range(k.chan) = {} /\ k.pos = 0
          /\ k.pc # "none" => row.status # "running" /\ e = NoConn
          /\ k.pc = "start" => row.task # 0
      BY <1>1, <1>5, 0 \in Nat DEF Opens
    <2>2. Opening' <=> k.pc # "none"
      BY <2>1 DEF Opening
    <2>4. (row.task # 0 => db # <<>>)'
      BY <1>5 DEF StreamInv
    <2>5. \A x \in Range(e.chan) : evs[x].src = "out" => x \in Outs(row.task) /\ ~Opening'
      <3>1. CASE k.pc # "none"
        BY <1>1, <2>1, <3>1
      <3>2. CASE k.pc = "none"
        BY <1>3, <2>2, <3>2 DEF StreamInv
      <3> QED
        BY <3>1, <3>2
    <2>6. (conn["empty"].pc \in {"get", "missed"} => conn["empty"].run = row.task)'
      BY <1>3 DEF StreamInv
    <2>7. (\A c \in {"message", "empty"} : \A x \in Range(conn[c].chan) :
             evs[x].src = "out" => x \in Outs(row.task) /\ ~Opening)'
      BY <2>1, <2>5, <1>2
    <2> HIDE DEF m, k, e
    <2> QED
      BY <2>1, <2>2, <2>4, <2>6, <2>7 DEF StreamInv, m, k, e
  <1> QED
    BY <1>4, <1>5

\* What LoadsInv says of a page and its requests.
LoadsOf(w) ==
  /\ \A l \in Range(w.loads) :
       /\ l.kind # "refresh"
       /\ IF l.kind = "mount"
          THEN /\ w.loads = <<l>> /\ w.page.local = "none" /\ w.page.epoch = 1 /\ ~w.page.timer
               /\ w.conn["message"] = NoConn /\ w.conn["empty"] = NoConn
          ELSE l.epoch # 0
       /\ Applies(l, w) => ~w.page.sending /\ (l.read /\ l.log = <<>> => row.task = 0)
  /\ w.page.sending => w.page.local \in {"running", "waiting"}

LEMMA LoadsIs == LoadsInv <=> LoadsOf(Now)
  BY DEF LoadsInv, LoadsOf, Now, Applies

LEMMA LoadsBecome ==
  ASSUME NEW v, Become(v), LoadsOf(v), row'.task = row.task
  PROVE  LoadsInv'
  BY DEF LoadsInv, LoadsOf, Now, Applies, Become

\* While no event is made, what is whole stays whole.
LEMMA WholeBecome ==
  ASSUME NEW v, Become(v), PageWhole(v), evs' = evs, row'.task = row.task
  PROVE  PageWhole(Now)'
  <1>1. \A q : Outs(q)' = Outs(q)
    BY DEF Outs
  <1>2. \A S : Whole(S)' <=> Whole(S)
    BY <1>1 DEF Whole
  <1>3. Outs(row.task)' = Outs(row.task)
    BY DEF Outs
  <1>4. \A p, S : From(p, S)' <=> From(p, S)
    BY <1>3 DEF From, Ended
  <1>5. \A s, S : StreamWhole(s, S)' <=> StreamWhole(s, S)
    BY <1>1, <1>4 DEF StreamWhole
  <1>6. \A l \in Range(v.loads) : LoadWhole(l, Now)'
    BY <1>2, <1>4 DEF PageWhole, LoadWhole, Applies, Now, Become
  <1>7. Whole(page.shown)' /\ From(page.cursor, page.shown)'
    <2>1. Whole(v.page.shown)' /\ From(v.page.cursor, v.page.shown)'
      BY <1>2, <1>4 DEF PageWhole
    <2> QED
      BY <2>1, <1>3 DEF Become, Whole, From, Ended, Outs
  <1>8. \A c \in {"message", "empty"} : StreamWhole(conn[c], page.shown)'
    <2>1. \A c \in {"message", "empty"} : StreamWhole(v.conn[c], v.page.shown)'
      BY <1>5 DEF PageWhole
    <2> QED
      BY <2>1 DEF Become, StreamWhole, From, Ended, Outs
  <1> QED
    BY <1>6, <1>7, <1>8 DEF PageWhole, Now, Become

\* A callback that shows nothing new may end the message stream, end the
\* listening stream or open it at the cursor, and ask for a snapshot.
Reopens(w, v) ==
  /\ v.page.shown = w.page.shown /\ v.page.cursor = w.page.cursor
  /\ v.page.epoch = w.page.epoch /\ v.page.local = w.page.local
  /\ v.page.sending => w.page.sending
  /\ v.conn["message"] \in {w.conn["message"], NoConn}
  /\ v.conn["empty"] \in {w.conn["empty"], NoConn, Fresh("open", w.page.cursor)}
  /\ \A l \in Range(v.loads) :
       l \in Range(w.loads) \/ /\ l.kind \in Told /\ l.epoch = w.page.epoch
                               /\ ~l.read /\ l.log = <<>> /\ ~v.page.sending
  /\ v = w \/ \A l \in Range(v.loads) : l.kind # "mount"

LEMMA ReopensWhole ==
  ASSUME NEW w, NEW v, PageWhole(w), Reopens(w, v), w.page.cursor \in Nat
  PROVE  PageWhole(v)
  <1>1. /\ NoConn.pos = 0 /\ NoConn.chan = <<>> /\ Range(<<>>) = {} /\ DOMAIN <<>> = {}
        /\ Fresh("open", w.page.cursor).pos = w.page.cursor
        /\ Fresh("open", w.page.cursor).chan = <<>>
    BY FreshIs DEF ConnPcs, Range
  <1>2. From(0, w.page.shown) /\ From(w.page.cursor, w.page.shown)
    BY DEF From, PageWhole
  <1>3. w.page.shown \cup {} = w.page.shown
    OBVIOUS
  <1>4. StreamWhole(NoConn, w.page.shown)
    BY <1>1, <1>2, <1>3 DEF StreamWhole
  <1>5. StreamWhole(Fresh("open", w.page.cursor), w.page.shown)
    BY <1>1, <1>2, <1>3 DEF StreamWhole
  <1>6. \A c \in {"message", "empty"} : StreamWhole(v.conn[c], v.page.shown)
    BY <1>4, <1>5 DEF PageWhole, Reopens
  <1>7. Whole({})
    BY DEF Whole
  <1>8. \A l \in Range(v.loads) : LoadWhole(l, v)
    <2> TAKE l \in Range(v.loads)
    <2>1. CASE l \in Range(w.loads)
      BY <2>1 DEF PageWhole, LoadWhole, Applies, Reopens
    <2>2. CASE l.log = <<>>
      BY <2>2, <1>1, <1>7 DEF LoadWhole
    <2> QED
      BY <2>1, <2>2 DEF Reopens
  <1> QED
    BY <1>6, <1>8 DEF PageWhole, Reopens

LEMMA ReopensLoads ==
  ASSUME NEW w, NEW v, LoadsOf(w), Reopens(w, v), w.page.epoch # 0
  PROVE  LoadsOf(v)
  <1>1. CASE v = w
    BY <1>1
  <1>2. CASE \A l \in Range(v.loads) : l.kind # "mount"
    <2>1. ASSUME NEW l \in Range(v.loads)
          PROVE  /\ l.kind # "refresh" /\ l.epoch # 0
                 /\ Applies(l, v) => ~v.page.sending /\ (l.read /\ l.log = <<>> => row.task = 0)
      <3>1. CASE l \in Range(w.loads)
        BY <3>1, <1>2 DEF LoadsOf, Reopens, Applies
      <3>2. CASE /\ l.kind \in Told /\ l.epoch = w.page.epoch
                 /\ ~l.read /\ l.log = <<>> /\ ~v.page.sending
        BY <3>2 DEF Told
      <3> QED
        BY <3>1, <3>2 DEF Reopens
    <2>2. v.page.sending => v.page.local \in {"running", "waiting"}
      BY DEF LoadsOf, Reopens
    <2> QED
      BY <1>2, <2>1, <2>2 DEF LoadsOf
  <1> QED
    BY <1>1, <1>2 DEF Reopens

\* A step of the page alone keeps the account of what is late.
LEMMA LateCallback ==
  ASSUME LateInv, UNCHANGED <<evs, db, runner>>, row'.task = row.task,
         used'.faults = used.faults,
         page.sending /\ ~Opening =>
           (page'.sending /\ ~Opening') \/ row.task = 0 \/ Through(row.task)
  PROVE  LateInv'
  <1>1. \A q : (Outs(q)' = Outs(q)) /\ (PutAll(q)' <=> PutAll(q))
    BY DEF Outs, PutAll
  <1>2. Late' <=> Late
    <2>1. Outs(row.task)' = Outs(row.task)
      BY DEF Outs
    <2> QED
      BY <1>1, <2>1 DEF Late
  <1>3. Through(row.task)' <=> Through(row.task)
    BY DEF Through, Outs, Ended, PutAll
  <1> HIDE DEF LateInv
  <1> QED
    BY <1>2, <1>3 DEF LateInv

\* The first fault finds the outputs in turn.
LEMMA LateFault ==
  ASSUME LateInv, used.faults \in Nat, used'.faults = used.faults + 1, Late' => Late
  PROVE  LateInv'
  BY DEF LateInv

\* What is smooth after a step that makes no event was so before.
LEMMA SmoothWas ==
  ASSUME evs' = evs, used.faults \in Nat,
         used'.faults = used.faults \/ used'.faults = used.faults + 1, Smooth'
  PROVE  Smooth
  BY DEF Smooth, InTurn

\* Everything that keeps the page whole.
Gapless == Core /\ UsedType /\ TurnInv /\ StreamInv /\ WholeInv

LEMMA FaultsAre ==
  ASSUME UsedType
  PROVE  used.faults \in Nat /\ used.faults >= 0
  BY PageAssumption DEF UsedType

\* The first snapshot comes to a page that has no stream and no timer yet.
LEMMA NoMount ==
  ASSUME LoadsInv,
         \/ conn["message"] # NoConn \/ conn["empty"] # NoConn \/ page.timer
         \/ page.local # "none" \/ page.sending \/ \E l \in Range(loads) : l.kind # "mount"
  PROVE  \A l \in Range(loads) : l.kind # "mount"
  <1> SUFFICES ASSUME NEW l \in Range(loads), l.kind = "mount"
               PROVE  FALSE
    OBVIOUS
  <1>1. /\ loads = <<l>> /\ page.local = "none" /\ ~page.timer
        /\ conn["message"] = NoConn /\ conn["empty"] = NoConn
    BY DEF LoadsInv
  <1>2. Range(loads) = {l}
    BY <1>1 DEF Range
  <1>3. page.sending => page.local \in {"running", "waiting"}
    BY DEF LoadsInv
  <1> QED
    BY <1>1, <1>2, <1>3

\* A callback that shows nothing new.
LEMMA Callback ==
  ASSUME Gapless, NEW v, Become(v), Reopens(Now, v),
         UNCHANGED <<evs, db, runner, hand>>, row'.task = row.task, row'.status = row.status,
         v.conn["message"] = NoConn => conn["message"].pc \notin {"put", "add"},
         \/ used'.faults = used.faults + 1
         \/ /\ used'.faults = used.faults
            /\ \/ v.page.sending = page.sending /\ v.conn["message"] = conn["message"]
               \/ row.task = 0 \/ Through(row.task)
  PROVE  TurnInv' /\ StreamInv' /\ WholeInv'
  <1>1. Core /\ UsedType /\ TurnInv /\ StreamInv /\ WholeInv
    BY DEF Gapless
  <1>2. /\ page' = v.page /\ conn' = v.conn /\ loads' = v.loads
    BY DEF Become
  <1>3. Now.page = page /\ Now.conn = conn /\ Now.loads = loads /\ page.cursor \in 0..Len(evs)
        /\ Len(evs) \in Nat
    BY <1>1, PageIs, CoreIs
  <1>4. TurnInv'
    BY <1>1, SameTurns
  <1>5. StreamInv'
    <2>1. Goes(conn'["message"], conn["message"]) \/ conn'["message"] = NoConn
      BY <1>2, <1>3 DEF Reopens, Goes
    <2>2. Goes(conn'["empty"], conn["empty"])
          \/ conn'["empty"] = NoConn \/ conn'["empty"] = Fresh("open", page.cursor)
      BY <1>2, <1>3 DEF Reopens, Goes
    <2>3. page.cursor \in Nat
      BY <1>3
    <2> QED
      BY <1>1, <1>2, <2>1, <2>2, <2>3, StreamsTurn
  <1>6. LoadsInv'
    <2>1. page.epoch # 0
      BY <1>1, EpochIs
    <2>2. LoadsOf(v)
      BY <1>1, <1>3, <2>1, LoadsIs, ReopensLoads DEF WholeInv
    <2> QED
      BY <2>2, LoadsBecome
  <1>7. used.faults \in Nat
    BY <1>1, FaultsAre
  <1>8. LateInv'
    <2>1. LateInv
      BY <1>1 DEF WholeInv
    <2>2. CASE used'.faults = used.faults + 1
      <3>1. Late' => Late
        BY DEF Late, PutAll, Outs
      <3> QED
        BY <1>7, <2>1, <2>2, <3>1, LateFault
    <2>3. CASE used'.faults = used.faults
      <3>1. page.sending /\ ~Opening =>
              (page'.sending /\ ~Opening') \/ row.task = 0 \/ Through(row.task)
        <4>1. used'.faults # used.faults + 1
          BY <1>7, <2>3
        <4>2. \/ page'.sending = page.sending /\ conn'["message"] = conn["message"]
              \/ row.task = 0 \/ Through(row.task)
          BY <1>2, <4>1
        <4> QED
          BY <4>2 DEF Opening
      <3> QED
        BY <2>1, <2>3, <3>1, LateCallback
    <2> QED
      BY <2>2, <2>3
  <1>9. Smooth' => PageWhole(Now)'
    <2>1. ASSUME Smooth'
          PROVE  PageWhole(Now)'
      <3>1. Smooth
        BY <1>7, <2>1, SmoothWas
      <3>2. PageWhole(Now)
        BY <1>1, <3>1 DEF WholeInv
      <3>3. PageWhole(v)
        BY <1>3, <3>2, ReopensWhole
      <3> QED
        BY <3>3, WholeBecome
    <2> QED
      BY <2>1
  <1> QED
    BY <1>4, <1>5, <1>6, <1>8, <1>9 DEF WholeInv

\* A message stream that has ended has nothing more to come of its run.
LEMMA EndIsThrough ==
  ASSUME Core, TurnInv, StreamInv, conn["message"].pc = "end"
  PROVE  row.task # 0 /\ Through(row.task)
  <1>1. /\ row.task # 0 /\ PutAll(row.task)
        /\ Outs(row.task) \subseteq Range(db) \cup {hand[row.task]}
    BY DEF StreamInv, Opening
  <1>2. row.task \in Runs
    BY <1>1, CoreIs DEF Runs, Rows
  <1>3. LaneInv(row.task) /\ RunnerInv(row.task)
    BY <1>2 DEF Core, TurnInv, RunInv
  <1>4. \A d \in Outs(row.task) : d \in Range(db) \/ Ended(d)
    <2>1. CASE runner[row.task] \in {"waits", "fails", "last"}
      BY <1>1, <1>3, <2>1 DEF LaneInv
    <2>2. CASE runner[row.task] \notin {"waits", "fails", "last"}
      <3>1. runner[row.task] \notin DOMAIN After
        BY <1>1, <2>2, AfterIs DEF PutAll
      <3>2. hand[row.task] = 0
        BY <1>3, <3>1 DEF RunnerInv
      <3>3. \A d \in Outs(row.task) : d # 0
        BY CoreIs DEF Outs
      <3> QED
        BY <1>1, <3>2, <3>3
    <2> QED
      BY <2>1, <2>2
  <1> QED
    BY <1>1, <1>4 DEF Through

\* A stream that ends is followed by a snapshot of its epoch.
LEMMA MessageReopens ==
  ASSUME Core, LoadsInv, conn["message"] # NoConn
  PROVE  LET v == ReconcileRunStreamEnd(Now) IN
         /\ Reopens(Now, v) /\ v.conn["message"] = NoConn /\ v.conn["empty"] = conn["empty"]
         /\ ~v.page.sending /\ v.page \in Pages /\ v \in Views
  <1> DEFINE v == ReconcileRunStreamEnd(Now)
             l == Load("run", page.epoch)
  <1>1. /\ v \in Views /\ v.page = [page EXCEPT !.sending = FALSE]
        /\ v.conn = [conn EXCEPT !["message"] = NoConn] /\ v.loads = Append(loads, l)
    BY PageIs, RunStreamEndIs
  <1>2. /\ l.kind = "run" /\ l.epoch = page.epoch /\ l.log = <<>> /\ ~l.read
        /\ Range(Append(loads, l)) = Range(loads) \cup {l}
    <2>1. ~l.read
      BY DEF Load
    <2> HIDE DEF v
    <2> QED
      BY <2>1, LoadIs, AppendLoad, EpochIs, PageIs
  <1> HIDE DEF v, l
  <1>3. /\ v.page.shown = page.shown /\ v.page.cursor = page.cursor /\ v.page.epoch = page.epoch
        /\ v.page.local = page.local /\ ~v.page.sending /\ v.page \in Pages
    BY <1>1, PageIs DEF Pages
  <1>4. v.conn["message"] = NoConn /\ v.conn["empty"] = conn["empty"]
    BY <1>1, PageIs DEF Streams
  <1>5. \A k \in Range(loads) : k.kind # "mount"
    BY NoMount
  <1>6. Now.page = page /\ Now.conn = conn /\ Now.loads = loads
    BY PageIs
  <1>7. Reopens(Now, v)
    BY <1>1, <1>2, <1>3, <1>4, <1>5, <1>6 DEF Reopens, Told
  <1> QED
    BY <1>1, <1>3, <1>4, <1>7 DEF v

LEMMA EmptyReopens ==
  ASSUME Core, LoadsInv, conn["empty"] # NoConn
  PROVE  LET v == EmptyStreamEnd(Now) IN
         /\ ~page.sending => Reopens(Now, v)
         /\ v.conn["message"] = conn["message"] /\ v.page = page /\ v \in Views
  <1> DEFINE v == EmptyStreamEnd(Now)
             l == Load("empty", page.epoch)
  <1>1. /\ v \in Views /\ v.page = page
        /\ v.conn = [conn EXCEPT !["empty"] = NoConn] /\ v.loads = Append(loads, l)
    BY PageIs, EmptyStreamEndIs
  <1>2. /\ l.kind = "empty" /\ l.epoch = page.epoch /\ l.log = <<>> /\ ~l.read
        /\ Range(Append(loads, l)) = Range(loads) \cup {l}
    <2>1. ~l.read
      BY DEF Load
    <2> HIDE DEF v
    <2> QED
      BY <2>1, LoadIs, AppendLoad, EpochIs, PageIs
  <1> HIDE DEF v, l
  <1>4. v.conn["empty"] = NoConn /\ v.conn["message"] = conn["message"]
    BY <1>1, PageIs DEF Streams
  <1>5. \A k \in Range(loads) : k.kind # "mount"
    BY NoMount
  <1>6. Now.page = page /\ Now.conn = conn /\ Now.loads = loads
    BY PageIs
  <1>7. ~page.sending => Reopens(Now, v)
    BY <1>1, <1>2, <1>4, <1>5, <1>6 DEF Reopens, Told
  <1> QED
    BY <1>1, <1>4, <1>7 DEF v

\* A listening stream is there only while the page does not send.
LEMMA ListensIs ==
  ASSUME Core, conn["empty"] # NoConn
  PROVE  ~page.sending /\ conn["empty"].pc # "none"
  <1>1. conn["empty"].pc # "none"
    BY PageIs DEF Streams
  <1> QED
    BY <1>1, PageIs

LEMMA StreamEndsTurns ==
  ASSUME Gapless, NEW c \in Streams, StreamEnds(c)
  PROVE  TurnInv' /\ StreamInv' /\ WholeInv'
  <1>1. /\ conn[c].pc = "end" /\ conn[c].chan = <<>>
        /\ UNCHANGED <<evs, db, row, runner, hand>> /\ used' = used
    BY DEF StreamEnds, server
  <1>2. Core /\ TurnInv /\ StreamInv /\ LoadsInv /\ NoConn.pc = "none"
    BY PageIs DEF Gapless, WholeInv
  <1>3. CASE c = "message"
    <2> DEFINE v == ReconcileRunStreamEnd(Now)
    <2>1. Become(v) /\ conn["message"] # NoConn /\ conn["message"].pc = "end"
      BY <1>1, <1>2, <1>3 DEF StreamEnds
    <2>2. Reopens(Now, v)
      BY <1>2, <2>1, MessageReopens
    <2>3. Through(row.task)
      BY <1>2, <2>1, EndIsThrough
    <2> HIDE DEF v
    <2> QED
      BY <1>1, <2>1, <2>2, <2>3, Callback
  <1>4. CASE c = "empty"
    <2> DEFINE v == EmptyStreamEnd(Now)
    <2>1. Become(v) /\ conn["empty"] # NoConn
      BY <1>1, <1>2, <1>4 DEF StreamEnds
    <2>2. ~page.sending
      BY <1>2, <2>1, ListensIs
    <2>3. Reopens(Now, v) /\ v.conn["message"] = conn["message"] /\ v.page = page
      BY <1>2, <2>1, <2>2, EmptyReopens
    <2>4. conn["message"] = NoConn => conn["message"].pc \notin {"put", "add"}
      BY <1>2
    <2> HIDE DEF v
    <2> QED
      BY <1>1, <2>1, <2>3, <2>4, Callback
  <1> QED
    BY <1>3, <1>4 DEF Streams

\* The listening stream breaks; the message stream may have broken before.
LEMMA BrokenReopens ==
  ASSUME Core, LoadsInv, NEW w \in Views, Reopens(Now, w), w.conn["empty"] = conn["empty"]
  PROVE  /\ Reopens(Now, Broken(w)) /\ Broken(w).conn["message"] = w.conn["message"]
         /\ Broken(w).page.sending = w.page.sending
  <1>1. CASE conn["empty"].pc = "none"
    <2>1. Broken(w) = w
      BY <1>1 DEF Broken
    <2> QED
      BY <2>1
  <1>2. CASE conn["empty"].pc # "none"
    <2> DEFINE v == Broken(w)
               l == Load("empty", w.page.epoch)
    <2>1. conn["empty"] # NoConn
      BY <1>2, PageIs
    <2>2. ~page.sending /\ \A k \in Range(loads) : k.kind # "mount"
      BY <2>1, NoMount, ListensIs
    <2>3. Now.page = page /\ Now.conn = conn /\ Now.loads = loads
      BY PageIs
    <2>4. /\ v \in Views /\ v.conn = [w.conn EXCEPT !["empty"] = NoConn]
          /\ v.page.shown = w.page.shown /\ v.page.cursor = w.page.cursor
          /\ v.page.local = w.page.local /\ v.page.sending = w.page.sending
          /\ v.page.epoch = w.page.epoch /\ v.loads \in {w.loads, Append(w.loads, l)}
      BY <1>2, BrokenIs
    <2>5. /\ w.page.epoch = page.epoch /\ w.page.shown = page.shown
          /\ w.page.cursor = page.cursor /\ w.page.local = page.local /\ ~w.page.sending
          /\ w.conn["message"] \in {conn["message"], NoConn}
          /\ \A k \in Range(w.loads) :
               k \in Range(loads) \/ /\ k.kind \in Told /\ k.epoch = page.epoch
                                     /\ ~k.read /\ k.log = <<>>
      BY <2>2, <2>3 DEF Reopens
    <2>6. w.loads \in Seq(Loads) /\ w.conn \in [Streams -> Conns]
      BY DEF Views
    <2>7. /\ l.kind = "empty" /\ l.epoch = page.epoch /\ l.log = <<>> /\ ~l.read
          /\ Range(Append(w.loads, l)) = Range(w.loads) \cup {l}
      <3>1. ~l.read
        BY DEF Load
      <3>2. w.page.epoch \in Nat
        BY <2>5, EpochIs
      <3> HIDE DEF v
      <3> QED
        BY <2>5, <2>6, <3>1, <3>2, LoadIs, AppendLoad
    <2> HIDE DEF v, l
    <2>8. v.conn["empty"] = NoConn /\ v.conn["message"] = w.conn["message"]
      BY <2>4, <2>6 DEF Streams
    <2>9. \A k \in Range(v.loads) :
            k \in Range(loads) \/ /\ k.kind \in Told /\ k.epoch = page.epoch
                                  /\ ~k.read /\ k.log = <<>>
      BY <2>4, <2>5, <2>7 DEF Told
    <2>10. \A k \in Range(v.loads) : k.kind # "mount"
      BY <2>2, <2>9 DEF Told
    <2>11. Reopens(Now, v)
      BY <2>3, <2>4, <2>5, <2>8, <2>9, <2>10 DEF Reopens
    <2> QED
      BY <2>4, <2>8, <2>11 DEF v
  <1> QED
    BY <1>1, <1>2

LEMMA NowReopens ==
  ASSUME Core
  PROVE  Reopens(Now, Now)
  BY DEF Reopens

LEMMA DropsTurn ==
  ASSUME Gapless, DropMessage \/ DropEmpty
  PROVE  TurnInv' /\ StreamInv' /\ WholeInv'
  <1>1. Core /\ LoadsInv /\ Now \in Views /\ Now.conn = conn /\ NoConn.pc = "none"
    BY PageIs DEF Gapless, WholeInv
  <1>2. UNCHANGED <<evs, db, row, runner, hand>> /\ used'.faults = used.faults + 1
    <2>1. used \in [steps : 0..MaxSteps, queues : 0..MaxQueues, faults : 0..MaxFaults,
                    crashed : BOOLEAN]
      BY DEF Gapless, UsedType
    <2> QED
      BY <2>1 DEF DropMessage, DropEmpty, server
  <1>3. CASE DropMessage
    <2> DEFINE v == ReconcileRunStreamEnd(Now)
    <2>1. Become(v) /\ conn["message"] # NoConn /\ conn["message"].pc \notin {"put", "add"}
      BY <1>3, UntouchedIs DEF DropMessage
    <2>2. Reopens(Now, v)
      BY <1>1, <2>1, MessageReopens
    <2> HIDE DEF v
    <2> QED
      BY <1>2, <2>1, <2>2, Callback
  <1>4. CASE DropEmpty
    <2> DEFINE v == Broken(Now)
    <2>1. Become(v)
      BY <1>4 DEF DropEmpty
    <2>2. Reopens(Now, v) /\ v.conn["message"] = conn["message"]
      BY <1>1, NowReopens, BrokenReopens
    <2> HIDE DEF v
    <2> QED
      BY <1>1, <1>2, <2>1, <2>2, Callback
  <1> QED
    BY <1>3, <1>4

\* The timer opens a listening stream unless the page sends or has one.
LEMMA TimerReopens ==
  ASSUME Gapless, ReconnectTimer
  PROVE  \E v : /\ Become(v) /\ Reopens(Now, v) /\ v.conn["message"] = conn["message"]
                /\ v.page.sending = page.sending /\ ~v.page.timer
                /\ v.conn["empty"] = conn["empty"] \/ (page.local # "completed" /\ ~page.sending)
  <1> DEFINE n == Now
             w == [n EXCEPT !.page.timer = FALSE]
             v == IF conn["empty"] = NoConn /\ ~page.sending THEN StartEmptyStream(w) ELSE w
  <1>0. Core /\ LoadsInv /\ NoConn.pc = "none"
    BY PageIs DEF Gapless, WholeInv
  <1>1. /\ Become(v) /\ UNCHANGED <<evs, db, row, runner, hand>> /\ used' = used /\ page.timer
    BY DEF ReconnectTimer, server
  <1>2. /\ w \in Views /\ w.page = [page EXCEPT !.timer = FALSE] /\ w.conn = conn /\ w.loads = loads
    <2>1. n \in Views /\ n.page = page /\ n.conn = conn /\ n.loads = loads
      BY <1>0, PageIs
    <2> HIDE DEF n
    <2> QED
      BY <2>1 DEF Views, Pages
  <1> HIDE DEF w, n
  <1>3. /\ w.page.shown = page.shown /\ w.page.cursor = page.cursor /\ w.page.epoch = page.epoch
        /\ w.page.local = page.local /\ w.page.sending = page.sending /\ w.page \in Pages
        /\ ~w.page.timer
    BY <1>0, <1>2, PageIs DEF Pages
  <1>4. /\ v.page.shown = page.shown /\ v.page.cursor = page.cursor /\ v.page.epoch = page.epoch
        /\ v.page.local = page.local /\ v.page.sending = page.sending
        /\ v.conn["message"] = conn["message"] /\ v.loads = loads
        /\ v.conn["empty"] \in {conn["empty"], Fresh("open", page.cursor)}
        /\ ~v.page.timer
        /\ v.conn["empty"] = conn["empty"] \/ (page.local # "completed" /\ ~page.sending)
    <2>1. CASE conn["empty"] = NoConn /\ ~page.sending /\ page.local # "completed"
      <3>1. v = StartEmptyStream(w)
        BY <2>1
      <3>2. /\ v.page = [w.page EXCEPT !.timer = FALSE]
            /\ v.conn["message"] = conn["message"]
            /\ v.conn["empty"] = Fresh("open", page.cursor) /\ v.loads = loads
        BY <1>2, <1>3, <2>1, <3>1, StartIs
      <3> HIDE DEF v
      <3>3. /\ v.page.shown = w.page.shown /\ v.page.cursor = w.page.cursor
            /\ v.page.epoch = w.page.epoch /\ v.page.local = w.page.local
            /\ v.page.sending = w.page.sending /\ ~v.page.timer
        BY <1>3, <3>2 DEF Pages
      <3> QED
        BY <1>3, <2>1, <3>2, <3>3
    <2>2. CASE ~(conn["empty"] = NoConn /\ ~page.sending /\ page.local # "completed")
      <3>1. v = w
        BY <1>3, <2>2 DEF StartEmptyStream
      <3> HIDE DEF v
      <3> QED
        BY <1>2, <1>3, <3>1
    <2> QED
      BY <2>1, <2>2
  <1> HIDE DEF v
  <1>5. \A l \in Range(loads) : l.kind # "mount"
    BY <1>0, <1>1, NoMount
  <1>6. Reopens(Now, v)
    <2>1. Now.page = page /\ Now.conn = conn /\ Now.loads = loads
      BY <1>0, PageIs
    <2> QED
      BY <1>4, <1>5, <2>1 DEF Reopens
  <1> QED
    BY <1>1, <1>4, <1>6

LEMMA TimerTurns ==
  ASSUME Gapless, ReconnectTimer
  PROVE  TurnInv' /\ StreamInv' /\ WholeInv'
  <1>1. PICK v : /\ Become(v) /\ Reopens(Now, v) /\ v.conn["message"] = conn["message"]
                 /\ v.page.sending = page.sending
    BY TimerReopens
  <1>2. UNCHANGED <<evs, db, row, runner, hand>> /\ used' = used
    BY DEF ReconnectTimer, server
  <1>3. Core /\ NoConn.pc = "none"
    BY PageIs DEF Gapless
  <1> QED
    BY <1>1, <1>2, <1>3, Callback

LEMMA CallbackPage ==
  ASSUME Gapless, NEW v, Become(v), Reopens(Now, v), evs' = evs, row'.task = row.task,
         used'.faults = used.faults \/ used'.faults = used.faults + 1
  PROVE  LoadsInv' /\ (Smooth' => PageWhole(Now)')
  <1>1. Core /\ UsedType /\ WholeInv
    BY DEF Gapless
  <1>2. Now.page = page /\ page.cursor \in Nat /\ page.epoch # 0
    <2>1. page.cursor \in Nat /\ Now.page = page
      BY <1>1, PageIs, CoreIs
    <2> QED
      BY <1>1, <2>1, EpochIs
  <1>3. LoadsInv'
    <2>1. LoadsOf(v)
      BY <1>1, <1>2, LoadsIs, ReopensLoads DEF WholeInv
    <2> QED
      BY <2>1, LoadsBecome
  <1>4. ASSUME Smooth'
        PROVE  PageWhole(Now)'
    <2>1. Smooth
      BY <1>1, <1>4, FaultsAre, SmoothWas
    <2>2. PageWhole(v)
      BY <1>1, <1>2, <2>1, ReopensWhole DEF WholeInv
    <2> QED
      BY <2>2, WholeBecome
  <1> QED
    BY <1>3, <1>4

\* The server restarts: no runner is late after it that was not before.
LEMMA CrashTurn ==
  ASSUME Gapless, Crash
  PROVE  TurnInv' /\ StreamInv' /\ WholeInv'
  <1> DEFINE w == IF conn["message"] = NoConn THEN Now ELSE ReconcileRunStreamEnd(Now)
             v == Broken(w)
  <1>1. Core /\ UsedType /\ TurnInv /\ StreamInv /\ LoadsInv /\ LateInv /\ Now \in Views
        /\ Now.conn = conn /\ NoConn.pc = "none"
    BY PageIs DEF Gapless, WholeInv
  <1>2. /\ Untouched /\ Become(v) /\ UNCHANGED <<evs, db, row>>
        /\ runner' = [r \in Runs |-> IF At(r, "off") THEN "off" ELSE "over"]
        /\ hand' = [r \in Runs |-> 0]
    BY DEF Crash
  <1>3. used'.faults = used.faults + 1 /\ used.faults \in Nat
    BY <1>1, FaultsAre DEF Crash, UsedType
  <1>4. conn["message"].pc \notin {"put", "add"}
    BY <1>2, UntouchedIs
  <1>5. w \in Views /\ Reopens(Now, w) /\ w.conn["empty"] = conn["empty"] /\ w.conn["message"] = NoConn
    BY <1>1, NowReopens, MessageReopens
  <1> HIDE DEF w
  <1>6. Reopens(Now, v) /\ v.conn["message"] = NoConn
    BY <1>1, <1>5, BrokenReopens
  <1> HIDE DEF v
  <1>7. LoadsInv' /\ (Smooth' => PageWhole(Now)')
    BY <1>2, <1>3, <1>6, CallbackPage
  <1>8. TurnInv'
    BY <1>1, <1>2, CrashTurns, CoreIs
  <1>9. StreamInv'
    <2>1. conn'["message"] = NoConn
      BY <1>2, <1>6 DEF Become
    <2>2. \/ Goes(conn'["empty"], conn["empty"])
          \/ conn'["empty"] = NoConn \/ conn'["empty"] = Fresh("open", page.cursor)
      BY <1>1, <1>2, <1>6, PageIs DEF Become, Reopens, Goes
    <2>3. page.cursor \in Nat
      BY <1>1, PageIs, CoreIs
    <2> QED
      BY <1>1, <1>2, <1>4, <2>1, <2>2, <2>3, StreamsTurn
  <1>10. LateInv'
    <2>1. ASSUME NEW r \in Runs, r < row.task
          PROVE  PutAll(r)'
      <3>1. ~At(r, "off")
        <4>1. r <= row.task
          BY <2>1, <1>1, CoreIs DEF Runs
        <4> QED
          BY <1>1, <4>1 DEF TurnInv, LaneInv
      <3> QED
        BY <1>2, <3>1 DEF PutAll
    <2>2. Late' => Late
      BY <1>2, <2>1 DEF Late, Outs
    <2> QED
      BY <1>1, <1>3, <2>2, LateFault
  <1> QED
    BY <1>7, <1>8, <1>9, <1>10 DEF WholeInv

\* A snapshot that is lost, or that the page does not apply.
LEMMA UnappliedReopens ==
  ASSUME Gapless, NEW i \in DOMAIN loads, loads[i].kind # "mount",
         Become(Continued([Now EXCEPT !.loads = RemoveAt(@, i)], loads[i]))
  PROVE  \E v : /\ Become(v) /\ Reopens(Now, v) /\ v.conn["message"] = conn["message"]
                /\ v.page.sending = page.sending
                /\ v.page.sending /\ v.page.timer => page.timer
                /\ \/ v.page = page /\ v.conn = conn
                   \/ CanApply(loads[i]) /\ (v.conn["empty"] = conn["empty"]
                                             \/ (page.local = "running" /\ ~page.sending))
  <1> DEFINE l == loads[i]
             w == [Now EXCEPT !.loads = RemoveAt(@, i)]
             v == Continued(w, l)
  <1>1. Core /\ LoadsInv
    BY DEF Gapless, WholeInv
  <1>2. Become(v)
    OBVIOUS
  <1>3. /\ w \in Views /\ w.page = page /\ w.conn = conn
        /\ Range(w.loads) \subseteq Range(loads) /\ l \in Loads /\ l \in Range(loads)
    BY <1>1, LoadGone
  <1> HIDE DEF w, l
  <1>4. /\ v.loads = w.loads
        /\ v.page.shown = w.page.shown /\ v.page.cursor = w.page.cursor
        /\ v.page.local = w.page.local /\ v.page.sending = w.page.sending
        /\ v.page.epoch = w.page.epoch
        /\ v.conn["message"] = w.conn["message"]
        /\ v.conn["empty"] \in {w.conn["empty"], Fresh("open", w.page.cursor)}
        /\ l.epoch # w.page.epoch => v = w
        /\ v.conn["empty"] # w.conn["empty"] =>
             l.kind = "run" /\ l.epoch = w.page.epoch /\ w.page.local = "running"
    BY <1>3, ContinuedIs
  <1>8. v.page.sending /\ v.page.timer => w.page.timer
    <2>1. w.page \in Pages /\ w.page.timer \in BOOLEAN
      BY <1>1, <1>3, PageIs DEF Pages
    <2>2. w.page.sending => ScheduleReconnect(w) = w
      BY DEF ScheduleReconnect
    <2>3. w.page.local # "completed" => StartEmptyStream(w).page = [w.page EXCEPT !.timer = FALSE]
      BY <1>3, StartIs
    <2>4. CASE v = w
      BY <2>4
    <2>5. CASE v = ScheduleReconnect(w)
      BY <1>4, <2>2, <2>5
    <2>6. CASE v = StartEmptyStream(w) /\ w.page.local = "running"
      BY <2>1, <2>3, <2>6 DEF Pages
    <2> QED
      BY <2>4, <2>5, <2>6 DEF Continued
  <1> HIDE DEF v
  <1>5. \A k \in Range(loads) : k.kind # "mount"
    BY <1>1, <1>3, NoMount DEF l
  <1>6. Now.page = page /\ Now.conn = conn /\ Now.loads = loads /\ NoConn.pc = "none"
    BY <1>1, PageIs
  <1>7. Reopens(Now, v)
    BY <1>3, <1>4, <1>5, <1>6 DEF Reopens
  <1>9. l.kind = "run" /\ l.epoch = page.epoch => ~page.sending
    BY <1>1, LoadGone DEF l
  <1>10. \/ v.page = page /\ v.conn = conn
         \/ CanApply(loads[i]) /\ (v.conn["empty"] = conn["empty"]
                                   \/ (page.local = "running" /\ ~page.sending))
    BY <1>3, <1>4, <1>9 DEF CanApply, l
  <1> QED
    BY <1>2, <1>3, <1>4, <1>7, <1>8, <1>10

LEMMA UnappliedTurns ==
  ASSUME Gapless, NEW i \in DOMAIN loads, loads[i].kind # "mount",
         Become(Continued([Now EXCEPT !.loads = RemoveAt(@, i)], loads[i])), UNCHANGED server,
         used'.faults = used.faults \/ used'.faults = used.faults + 1
  PROVE  TurnInv' /\ StreamInv' /\ WholeInv'
  <1>1. PICK v : /\ Become(v) /\ Reopens(Now, v) /\ v.conn["message"] = conn["message"]
                 /\ v.page.sending = page.sending
    BY UnappliedReopens
  <1>2. UNCHANGED <<evs, db, row, runner, hand>>
    BY DEF server
  <1>3. Core /\ NoConn.pc = "none"
    BY PageIs DEF Gapless
  <1> QED
    BY <1>1, <1>2, <1>3, Callback

LEMMA LoadFailsTurns ==
  ASSUME Gapless, NEW i \in DOMAIN loads, LoadFails(i)
  PROVE  TurnInv' /\ StreamInv' /\ WholeInv'
  <1>1. used'.faults = used.faults + 1
    BY DEF Gapless, UsedType, LoadFails
  <1> QED
    BY <1>1, UnappliedTurns DEF LoadFails

\* A first snapshot can be applied.
LEMMA UnappliedKind ==
  ASSUME Gapless, NEW i \in DOMAIN loads, ~CanApply(loads[i])
  PROVE  loads[i].kind # "mount"
  <1>1. Core /\ LoadsInv
    BY DEF Gapless, WholeInv
  <1> SUFFICES ASSUME loads[i].kind = "mount"
               PROVE  FALSE
    OBVIOUS
  <1>2. loads[i] \in Range(loads) /\ loads[i] \in Loads
    BY <1>1, LoadGone
  <1>3. page.epoch = 1
    BY <1>1, <1>2 DEF LoadsInv
  <1>4. loads[i].epoch <= page.epoch
    BY <1>1 DEF Core, HearsInv
  <1>5. loads[i].epoch \in Nat
    BY <1>2 DEF Loads
  <1>6. loads[i].epoch \in {0, 1}
    BY <1>3, <1>4, <1>5
  <1> QED
    BY <1>3, <1>6 DEF CanApply

LEMMA LoadDroppedTurns ==
  ASSUME Gapless, NEW i \in DOMAIN loads, LoadApply(i), ~CanApply(loads[i])
  PROVE  TurnInv' /\ StreamInv' /\ WholeInv'
  BY UnappliedKind, UnappliedTurns DEF LoadApply

\* The user queues a message, and it is accepted.
LEMMA QueueTurns ==
  ASSUME Gapless, QueueNextMessage, ~Refuses'
  PROVE  TurnInv' /\ StreamInv' /\ WholeInv'
  <1> DEFINE n == Now
             w == [n EXCEPT !.page.next = TRUE]
             v == Watch(w)
  <1>0. Core /\ LoadsInv
    BY DEF Gapless, WholeInv
  <1>1. n \in Views /\ n.page = page /\ n.conn = conn /\ n.loads = loads /\ NoConn.pc = "none"
    BY <1>0, PageIs
  <1>2. /\ page.local = "running" /\ Untouched /\ UNCHANGED <<evs, db, runner, hand>>
        /\ \/ row' = [row EXCEPT !.next = "queued"] /\ Become(v)
           \/ Become([n EXCEPT !.loads = Append(@, Load("refresh", 0))])
    BY DEF QueueNextMessage
  <1>3. used'.faults = used.faults
    BY DEF Gapless, UsedType, QueueNextMessage
  <1>4. ~Become([n EXCEPT !.loads = Append(@, Load("refresh", 0))])
    <2> SUFFICES ASSUME Become([n EXCEPT !.loads = Append(@, Load("refresh", 0))])
                 PROVE  FALSE
      OBVIOUS
    <2> DEFINE l == Load("refresh", 0)
    <2>1. loads \in Seq(Loads)
      BY <1>0, PageIs
    <2>2. loads' = Append(loads, l)
      BY <1>1 DEF Become
    <2>3. l.kind = "refresh"
      BY LoadIs
    <2> HIDE DEF l
    <2>4. Len(loads') \in DOMAIN loads' /\ loads'[Len(loads')] = l
      BY <2>1, <2>2
    <2> QED
      BY <2>3, <2>4 DEF Refuses, Waits
  <1>5. row'.task = row.task /\ row'.status = row.status /\ Become(v)
    BY <1>0, <1>2, <1>4, CoreIs DEF Rows
  <1> HIDE DEF n
  <1>6. /\ w \in Views /\ w.page = [page EXCEPT !.next = TRUE] /\ w.conn = conn
        /\ w.loads = loads
    BY <1>1 DEF Views, Pages
  <1> HIDE DEF w
  <1>7. /\ v \in Views /\ v.page = [w.page EXCEPT !.timer = FALSE]
        /\ v.conn["message"] = w.conn["message"]
        /\ v.conn["empty"] = IF w.page.local # "completed" /\ ~w.page.sending
                             THEN Fresh("open", w.page.cursor) ELSE NoConn
        /\ v.loads = w.loads
    BY <1>6, WatchIs
  <1> HIDE DEF v
  <1>8. /\ w.page.shown = page.shown /\ w.page.cursor = page.cursor /\ w.page.local = page.local
        /\ w.page.epoch = page.epoch /\ w.page.sending = page.sending /\ w.page \in Pages
    BY <1>0, <1>6, PageIs DEF Pages
  <1>9. /\ v.page.shown = page.shown /\ v.page.cursor = page.cursor /\ v.page.local = page.local
        /\ v.page.epoch = page.epoch /\ v.page.sending = page.sending
    BY <1>7, <1>8 DEF Pages
  <1>10. \A k \in Range(loads) : k.kind # "mount"
    BY <1>0, <1>2, NoMount
  <1>11. Reopens(n, v) /\ v.conn["message"] = conn["message"]
    BY <1>1, <1>6, <1>7, <1>8, <1>9, <1>10 DEF Reopens
  <1>12. Reopens(Now, v)
    BY <1>11 DEF n
  <1> QED
    BY <1>1, <1>2, <1>3, <1>5, <1>9, <1>11, <1>12, Callback

\* More that is shown leaves no gap behind an event.
LEMMA FromGrows ==
  ASSUME NEW p, NEW S, NEW T, From(p, S), S \subseteq T
  PROVE  From(p, T)
  BY DEF From

\* Nothing of the row's run comes before an event that is in its streams.
LEMMA FromHead ==
  ASSUME Core, TurnInv, NEW e \in DOMAIN evs, NEW S,
         evs[e].src = "out" =>
           e \in Outs(row.task) /\ \A d \in Outs(row.task) : d < e => d \in S
  PROVE  From(e, S \cup {e})
  <1>1. e \in Nat /\ \A d \in Outs(row.task) : d \in Nat
    BY CoreIs DEF Outs
  <1>2. CASE evs[e].src = "db"
    BY <1>2 DEF From
  <1>3. CASE evs[e].src = "out"
    <2>1. \A d \in Outs(row.task) : d <= e => d \in S \cup {e}
      BY <1>1, <1>3
    <2> QED
      BY <2>1 DEF From
  <1>4. CASE evs[e].src = "in"
    <2>1. evs[e].run \in 1..row.task
      BY <1>4 DEF TurnInv
    <2>2. row.task \in Runs /\ evs[e].run <= row.task
      BY <2>1, CoreIs DEF Rows, Runs
    <2>3. \A d \in Outs(row.task) : e < d
      BY <1>4, <2>2 DEF TurnInv
    <2>4. \A d \in Outs(row.task) : ~(d <= e)
      BY <1>1, <2>3
    <2> QED
      BY <2>4 DEF From
  <1>5. evs[e] \in Events
    BY CoreIs
  <1> QED
    BY <1>2, <1>3, <1>4, <1>5 DEF Events

LEMMA StreamGrows ==
  ASSUME NEW s, NEW S, NEW T, StreamWhole(s, S), S \subseteq T
  PROVE  StreamWhole(s, T)
  <1>1. From(s.pos, T \cup Range(s.chan))
    BY FromGrows DEF StreamWhole
  <1> QED
    BY <1>1 DEF StreamWhole

\* What a stream sends next is shown, and the rest still follows it.
LEMMA StreamTaken ==
  ASSUME NEW s, NEW k, NEW S, StreamWhole(s, S), s.chan \in Seq(Nat), s.chan # <<>>,
         k.pos = s.pos, k.chan = Tail(s.chan)
  PROVE  StreamWhole(k, S \cup {Head(s.chan)})
  <1> DEFINE e == Head(s.chan)
             T == S \cup {e}
  <1>1. /\ Len(s.chan) \in Nat \ {0} /\ 1 \in DOMAIN s.chan /\ e = s.chan[1]
        /\ \A i \in DOMAIN k.chan : i \in Nat \ {0} /\ i + 1 \in DOMAIN s.chan
                                    /\ k.chan[i] = s.chan[i + 1]
        /\ \A i \in DOMAIN s.chan : i \in Nat \ {0} /\ (i # 1 => i - 1 \in DOMAIN k.chan)
    OBVIOUS
  <1> HIDE DEF e
  <1>2. S \cup Range(s.chan) \subseteq T \cup Range(k.chan)
    <2>1. ASSUME NEW i \in DOMAIN s.chan
          PROVE  s.chan[i] \in T \cup Range(k.chan)
      <3>1. CASE i = 1
        BY <1>1, <3>1
      <3>2. CASE i # 1
        <4>1. i - 1 \in DOMAIN k.chan /\ (i - 1) + 1 = i
          BY <1>1, <3>2
        <4>2. k.chan[i - 1] = s.chan[i]
          BY <1>1, <4>1
        <4> QED
          BY <4>1, <4>2 DEF Range
      <3> QED
        BY <3>1, <3>2
    <2> QED
      BY <2>1 DEF Range
  <1>3. From(k.pos, T \cup Range(k.chan))
    BY <1>2, FromGrows DEF StreamWhole
  <1>4. ASSUME NEW i \in DOMAIN k.chan, evs[k.chan[i]].src = "out",
               NEW d \in Outs(evs[k.chan[i]].run), d < k.chan[i]
        PROVE  d \in T \/ \E j \in 1..(i - 1) : k.chan[j] = d
    <2>1. i + 1 \in DOMAIN s.chan /\ k.chan[i] = s.chan[i + 1] /\ i \in Nat \ {0}
      BY <1>1
    <2>2. d \in S \/ \E j \in 1..((i + 1) - 1) : s.chan[j] = d
      BY <1>4, <2>1 DEF StreamWhole
    <2>3. ASSUME NEW j \in 1..((i + 1) - 1), s.chan[j] = d
          PROVE  d \in T \/ \E n \in 1..(i - 1) : k.chan[n] = d
      <3>1. CASE j = 1
        BY <1>1, <2>3, <3>1
      <3>2. CASE j # 1
        <4>1. j \in DOMAIN s.chan
          BY <2>1, <2>3
        <4>2. j - 1 \in DOMAIN k.chan /\ (j - 1) + 1 = j /\ j - 1 \in 1..(i - 1)
          <5>1. j \in Nat /\ j <= i /\ j >= 1 /\ i \in Nat
            BY <2>1, <2>3
          <5>2. j - 1 \in DOMAIN k.chan
            BY <1>1, <3>2, <4>1
          <5>3. (j - 1) + 1 = j /\ j - 1 \in 1..(i - 1)
            BY <3>2, <5>1
          <5> QED
            BY <5>2, <5>3
        <4>3. k.chan[j - 1] = d
          BY <1>1, <2>3, <4>2
        <4> QED
          BY <4>2, <4>3
      <3> QED
        BY <3>1, <3>2
    <2> QED
      BY <2>2, <2>3
  <1> QED
    BY <1>3, <1>4 DEF StreamWhole, e

LEMMA ReceivedWhole ==
  ASSUME Core, TurnInv, StreamInv, PageWhole(Now), NEW c \in Streams, conn[c].chan # <<>>,
         NEW e, e = Head(conn[c].chan), NEW v,
         v.page.shown = page.shown \cup {e}, v.page.cursor \in {page.cursor, e},
         v.page.epoch = page.epoch, v.loads = loads,
         \A o \in Streams :
           \/ v.conn[o] = NoConn \/ v.conn[o] = Fresh("open", e)
           \/ o # c /\ v.conn[o] = conn[o]
           \/ o = c /\ v.conn[o] = Took1(c)
  PROVE  PageWhole(v)
  <1> DEFINE T == page.shown \cup {e}
  <1>1. Now.page = page /\ Now.conn = conn /\ Now.loads = loads
    BY PageIs
  <1>2. /\ e \in DOMAIN evs /\ e \in Nat /\ e \in Range(conn[c].chan) /\ conn[c].chan[1] = e
        /\ 1 \in DOMAIN conn[c].chan
        /\ Took1(c).pos = conn[c].pos /\ Took1(c).chan = Tail(conn[c].chan)
        /\ conn[c].chan \in Seq(Nat)
    <2>1. conn[c] \in Conns
      BY PageIs
    <2>2. conn[c].chan \in Seq(Nat)
      BY <2>1 DEF Conns
    <2>3. ClientTypeOK
      BY DEF Core
    <2>4. Head(conn[c].chan) \in DOMAIN evs
      BY <2>3, Took1Is
    <2> QED
      BY <2>2, <2>3, <2>4, Took1Is, CoreIs
  <1>3. evs[e].src = "out" =>
          /\ e \in Outs(row.task)
          /\ \A d \in Outs(evs[e].run) : d < e => d \in page.shown
    <2> SUFFICES ASSUME evs[e].src = "out"
                 PROVE  /\ e \in Outs(row.task)
                        /\ \A d \in Outs(evs[e].run) : d < e => d \in page.shown
      OBVIOUS
    <2>1. e \in Outs(row.task)
      BY <1>2 DEF StreamInv, Streams
    <2>2. StreamWhole(conn[c], page.shown)
      BY <1>1 DEF PageWhole, Streams
    <2>3. \A d \in Outs(evs[e].run) : d < e =>
            d \in page.shown \/ \E j \in 1..(1 - 1) : conn[c].chan[j] = d
      BY <1>2, <2>2 DEF StreamWhole
    <2>4. 1..(1 - 1) = {}
      OBVIOUS
    <2> QED
      BY <2>1, <2>3, <2>4
  <1>4. From(e, T)
    <2>1. evs[e].src = "out" => evs[e].run = row.task
      BY <1>3 DEF Outs
    <2> QED
      BY <1>2, <1>3, <2>1, FromHead
  <1>5. Whole(T)
    <2>1. Whole(page.shown)
      BY <1>1 DEF PageWhole
    <2> QED
      BY <1>3, <2>1 DEF Whole
  <1>6. From(v.page.cursor, T)
    <2>1. From(page.cursor, T)
      BY <1>1, FromGrows DEF PageWhole
    <2> QED
      BY <1>4, <2>1
  <1>7. StreamWhole(NoConn, T) /\ StreamWhole(Fresh("open", e), T)
    <2>1. /\ NoConn.pos = 0 /\ NoConn.chan = <<>> /\ DOMAIN <<>> = {} /\ Range(<<>>) = {}
          /\ Fresh("open", e).pos = e /\ Fresh("open", e).chan = <<>>
      BY <1>2, FreshIs DEF ConnPcs, Range
    <2>2. From(0, T) /\ T \cup {} = T
      BY DEF From
    <2> HIDE DEF T
    <2> QED
      BY <1>4, <2>1, <2>2 DEF StreamWhole
  <1>8. ASSUME NEW o \in Streams
        PROVE  StreamWhole(v.conn[o], T)
    <2>1. StreamWhole(conn[o], page.shown)
      BY <1>1 DEF PageWhole, Streams
    <2>2. StreamWhole(conn[o], T)
      BY <2>1, StreamGrows
    <2>3. o = c => StreamWhole(Took1(c), T)
      BY <1>2, <2>1, StreamTaken
    <2> QED
      BY <1>7, <2>2, <2>3
  <1>9. \A l \in Range(v.loads) : LoadWhole(l, v)
    BY <1>1 DEF PageWhole, LoadWhole, Applies
  <1> QED
    BY <1>5, <1>6, <1>8, <1>9 DEF PageWhole, Streams

\* What the page is after an event has come.
LEMMA ReceivedIs ==
  ASSUME Core, NEW c \in Streams, Receive(c), NEW e, e = Head(conn[c].chan)
  PROVE  /\ conn[c].chan # <<>> /\ UNCHANGED <<evs, db, row, runner, hand>> /\ used' = used
         /\ conn[c] # NoConn /\ (page.sending => c = "message")
         /\ e \in Nat /\ e \in Range(conn[c].chan) /\ e = conn[c].chan[1]
         /\ c = "message" /\ evs[e].kind \in {"done", "error"} =>
              conn["message"].pc = "end" /\ conn["message"].chan = <<e>>
         /\ \E v :
              /\ Become(v) /\ v.loads = loads /\ v.page.epoch = page.epoch /\ ~v.page.timer
              /\ v.page.shown = page.shown \cup {e}
              /\ v.page.cursor = IF e \in page.shown THEN page.cursor ELSE e
              /\ v.page.sending => page.sending
              /\ evs[e].kind \notin {"done", "error"} => v.page.sending = page.sending
              /\ IF e \in page.shown
                 THEN v.page.local = page.local
                 ELSE evs[e].kind \in {"done", "error"} =>
                        v.page.local = "completed" /\ ~v.page.sending /\ v.conn["empty"] = NoConn
              /\ evs[e].kind = "error" /\ e \in page.shown => v.page.sending = page.sending
              /\ v.page.sending => v.page.local \in {page.local, "waiting", "running"}
              /\ \/ v.conn["message"] = NoConn /\ c = "message" /\ evs[e].kind = "done"
                 \/ v.conn["message"] = IF c = "message" THEN Took1(c) ELSE conn["message"]
              /\ evs[e].kind # "done" =>
                   v.conn["message"] = IF c = "message" THEN Took1(c) ELSE conn["message"]
              /\ \/ v.conn["empty"] = IF c = "empty" THEN Took1(c) ELSE conn["empty"]
                 \/ c = "empty" /\ e \notin page.shown
                      /\ v.conn["empty"] \in {NoConn, Fresh("open", e)}
  <1> DEFINE w == Took(c)
             a == AppendEvent(w, e)
             z == [a EXCEPT !.page.sending = FALSE, !.conn["message"] = NoConn]
             v == IF c = "message" /\ evs[e].kind = "done" THEN z ELSE a
             k == Took1(c)
  <1>1. conn[c].chan # <<>> /\ UNCHANGED <<evs, db, row, runner, hand>> /\ used' = used
    BY DEF Receive, server
  <1>2. /\ w \in Views /\ w.page = page /\ w.loads = loads
        /\ w.conn = [conn EXCEPT ![c] = k]
    BY <1>1, TookIs
  <1>3. /\ e \in DOMAIN evs /\ e = conn[c].chan[1] /\ 1 \in DOMAIN conn[c].chan /\ k \in Conns
    BY <1>1, Took1Is DEF Core
  <1>4. e \in Nat /\ e \in Range(conn[c].chan)
    BY <1>3, CoreIs DEF Range
  <1>5. Become(v)
    BY DEF Receive
  <1> HIDE DEF w, k
  <1>6. Appended(w, e, a)
    BY <1>2, <1>4, AppendEventIs
  <1> HIDE DEF a
  <1>7. a \in Views /\ a.page \in Pages /\ a.conn \in [Streams -> Conns]
    BY <1>6 DEF Appended, Views
  <1>8. /\ z.page = [a.page EXCEPT !.sending = FALSE] /\ z.loads = a.loads
        /\ z.conn["message"] = NoConn /\ z.conn["empty"] = a.conn["empty"]
    BY <1>7, FreshIs DEF Views, Pages, Streams, ConnPcs
  <1> HIDE DEF z
  <1>9. /\ z.page.epoch = a.page.epoch /\ z.page.shown = a.page.shown /\ ~z.page.sending
        /\ z.page.cursor = a.page.cursor /\ z.page.local = a.page.local
        /\ z.page.timer = a.page.timer
    BY <1>7, <1>8 DEF Pages
  <1>10. /\ w.conn[c] = k /\ \A o \in Streams : o # c => w.conn[o] = conn[o]
    BY <1>2, PageIs DEF Streams
  <1>11. conn[c] # NoConn /\ conn[c].pc # "none"
    BY <1>1, PageIs
  <1>12. page.sending => c = "message" /\ conn["empty"] = NoConn
    BY <1>11, PageIs DEF Streams
  <1>13. ASSUME c = "message", evs[e].kind \in {"done", "error"}
         PROVE  conn["message"].pc = "end" /\ conn["message"].chan = <<e>>
    <2>1. conn["message"].pc = "end" /\ Len(conn["message"].chan) = 1
      BY <1>3, <1>13 DEF Core, ConnInv, ChanInv
    <2>2. conn["message"].chan \in Seq(Nat)
      BY CoreIs DEF Conns
    <2> QED
      BY <1>3, <1>13, <2>1, <2>2
  \* A message stream that carries something belongs to a page that sends.
  <1>14. c = "message" => page.sending
    BY <1>1, PageIs
  <1>15. /\ a.loads = loads /\ a.page.epoch = page.epoch /\ ~a.page.timer
         /\ a.page.shown = page.shown \cup {e}
         /\ a.page.cursor = IF e \in page.shown THEN page.cursor ELSE e
         /\ a.conn["message"] = w.conn["message"]
    BY <1>2, <1>6 DEF Appended
  <1>16. ASSUME e \in page.shown
         PROVE  a.conn = w.conn /\ a.page.local = page.local /\ a.page.sending = page.sending
    BY <1>2, <1>6, <1>16 DEF Appended
  <1>17. ASSUME e \notin page.shown, evs[e].kind \in {"done", "error"}
         PROVE  a.page.local = "completed" /\ ~a.page.sending /\ a.conn["empty"] = NoConn
    BY <1>2, <1>6, <1>17 DEF Appended
  <1>18. ASSUME e \notin page.shown, evs[e].kind \notin {"done", "error"}
         PROVE  /\ a.page.sending = page.sending
                /\ a.page.local \in {page.local, "waiting", "running"}
    BY <1>2, <1>6, <1>18 DEF Appended
  <1>19. a.conn["empty"] = w.conn["empty"]
         \/ (c = "empty" /\ e \notin page.shown /\ a.conn["empty"] \in {NoConn, Fresh("open", e)})
    <2>1. a.conn["empty"] \in {w.conn["empty"], NoConn, Fresh("open", e)}
      BY <1>6 DEF Appended
    <2>2. CASE c = "message"
      <3>1. w.conn["empty"] = NoConn /\ w.page.sending
        BY <1>2, <1>10, <1>12, <1>14, <2>2 DEF Streams
      <3>2. e \notin page.shown => a.conn["empty"] = NoConn
        BY <1>2, <1>6, <3>1 DEF Appended
      <3> QED
        BY <1>16, <3>1, <3>2
    <2>3. CASE c = "empty"
      BY <1>16, <2>1, <2>3
    <2> QED
      BY <2>2, <2>3 DEF Streams
  <1>20. /\ w.conn["message"] = IF c = "message" THEN k ELSE conn["message"]
         /\ w.conn["empty"] = IF c = "empty" THEN k ELSE conn["empty"]
    BY <1>10 DEF Streams
  <1>21. CASE c = "message" /\ evs[e].kind = "done"
    <2>1. v = z
      BY <1>21
    <2> HIDE DEF v
    <2>2. /\ v.loads = loads /\ v.page.epoch = page.epoch /\ ~v.page.timer
          /\ v.page.shown = page.shown \cup {e} /\ ~v.page.sending
          /\ v.page.cursor = IF e \in page.shown THEN page.cursor ELSE e
      BY <1>8, <1>9, <1>15, <2>1
    <2>3. IF e \in page.shown
          THEN v.page.local = page.local
          ELSE v.page.local = "completed" /\ v.conn["empty"] = NoConn
      BY <1>8, <1>9, <1>16, <1>17, <1>21, <2>1
    <2>4. v.conn["message"] = NoConn /\ evs[e].kind = "done" /\ c = "message"
      BY <1>8, <1>21, <2>1
    <2>5. v.conn["empty"] = conn["empty"] /\ c # "empty"
      BY <1>8, <1>19, <1>20, <1>21, <2>1
    <2> QED
      BY <1>1, <1>3, <1>4, <1>5, <1>11, <1>12, <1>13, <2>2, <2>3, <2>4, <2>5
  <1>22. CASE ~(c = "message" /\ evs[e].kind = "done")
    <2>1. v = a
      BY <1>22
    <2> HIDE DEF v
    <2>2. v.page.sending => page.sending /\ v.page.local \in {page.local, "waiting", "running"}
      BY <1>16, <1>17, <1>18, <2>1
    <2>3. evs[e].kind \notin {"done", "error"} => v.page.sending = page.sending
      BY <1>16, <1>18, <2>1
    <2>4. /\ v.loads = loads /\ v.page.epoch = page.epoch /\ ~v.page.timer
          /\ v.page.shown = page.shown \cup {e}
          /\ v.page.cursor = IF e \in page.shown THEN page.cursor ELSE e
      BY <1>15, <2>1
    <2>5. /\ IF e \in page.shown
             THEN v.page.local = page.local
             ELSE evs[e].kind \in {"done", "error"} =>
                    v.page.local = "completed" /\ ~v.page.sending /\ v.conn["empty"] = NoConn
          /\ evs[e].kind = "error" /\ e \in page.shown => v.page.sending = page.sending
      BY <1>16, <1>17, <2>1
    <2>6. v.conn["message"] = IF c = "message" THEN Took1(c) ELSE conn["message"]
      BY <1>15, <1>20, <2>1 DEF k
    <2>7. \/ v.conn["empty"] = IF c = "empty" THEN Took1(c) ELSE conn["empty"]
          \/ c = "empty" /\ e \notin page.shown /\ v.conn["empty"] \in {NoConn, Fresh("open", e)}
      BY <1>19, <1>20, <2>1 DEF k
    <2> QED
      BY <1>1, <1>3, <1>4, <1>5, <1>11, <1>12, <1>13, <2>2, <2>3, <2>4, <2>5, <2>6, <2>7
  <1> QED
    BY <1>21, <1>22

\* An event that arrives is shown after what comes before it.
LEMMA ReceiveTurns ==
  ASSUME Gapless, NEW c \in Streams, Receive(c)
  PROVE  TurnInv' /\ StreamInv' /\ WholeInv'
  <1>0. Core /\ UsedType /\ TurnInv /\ StreamInv /\ LoadsInv /\ LateInv /\ WholeInv
    BY DEF Gapless, WholeInv
  <1>1. PICK e : e = Head(conn[c].chan)
    OBVIOUS
  <1>2. /\ conn[c].chan # <<>> /\ UNCHANGED <<evs, db, row, runner, hand>> /\ used' = used
        /\ conn[c] # NoConn /\ (page.sending => c = "message") /\ e \in Nat
        /\ c = "message" /\ evs[e].kind \in {"done", "error"} => conn["message"].pc = "end"
    BY <1>0, <1>1, ReceivedIs
  <1>3. PICK v :
          /\ Become(v) /\ v.loads = loads /\ v.page.epoch = page.epoch
          /\ v.page.shown = page.shown \cup {e} /\ v.page.cursor \in {page.cursor, e}
          /\ v.page.sending => page.sending /\ v.page.local \in {page.local, "waiting", "running"}
          /\ evs[e].kind \notin {"done", "error"} => v.page.sending = page.sending
          /\ \/ v.conn["message"] = NoConn /\ c = "message" /\ evs[e].kind = "done"
             \/ v.conn["message"] = IF c = "message" THEN Took1(c) ELSE conn["message"]
          /\ \/ v.conn["empty"] = IF c = "empty" THEN Took1(c) ELSE conn["empty"]
             \/ c = "empty" /\ v.conn["empty"] \in {NoConn, Fresh("open", e)}
    BY <1>0, <1>1, ReceivedIs
  <1>4. /\ Took1(c).pc = conn[c].pc /\ Took1(c).run = conn[c].run /\ Took1(c).pos = conn[c].pos
        /\ Range(Took1(c).chan) \subseteq Range(conn[c].chan)
    BY <1>0, <1>2, Took1Is DEF Core
  <1>5. \A o \in Streams :
          \/ v.conn[o] = NoConn \/ v.conn[o] = Fresh("open", e)
          \/ o # c /\ v.conn[o] = conn[o]
          \/ o = c /\ v.conn[o] = Took1(c)
    BY <1>3 DEF Streams
  <1>6. TurnInv'
    BY <1>0, <1>2, SameTurns
  <1>7. StreamInv'
    <2>1. \/ Goes(conn'["message"], conn["message"])
          \/ conn["message"].pc \notin {"put", "add"} /\ conn'["message"] = NoConn
      <3>1. CASE v.conn["message"] = NoConn /\ c = "message" /\ evs[e].kind = "done"
        BY <1>2, <1>3, <3>1 DEF Become
      <3>2. CASE v.conn["message"] = IF c = "message" THEN Took1(c) ELSE conn["message"]
        BY <1>3, <1>4, <3>2 DEF Become, Goes, Streams
      <3> QED
        BY <1>3, <3>1, <3>2
    <2>2. \/ Goes(conn'["empty"], conn["empty"])
          \/ conn'["empty"] = NoConn \/ conn'["empty"] = Fresh("open", e)
      BY <1>3, <1>4 DEF Become, Goes, Streams
    <2> QED
      BY <1>0, <1>2, <2>1, <2>2, StreamsTurn
  <1>8. LoadsInv'
    <2>1. \A l \in Range(loads) : l.kind # "mount"
      BY <1>0, <1>2, NoMount DEF Streams
    <2>2. LoadsOf(v)
      <3>1. LoadsOf(Now) /\ Now.page = page /\ Now.loads = loads
        BY <1>0, LoadsIs, PageIs
      <3> QED
        BY <1>3, <2>1, <3>1 DEF LoadsOf, Applies
    <2> QED
      BY <1>2, <1>3, <2>2, LoadsBecome
  \* What takes the page out of its sending is the last event of the stream.
  <1>9. LateInv'
    <2>1. page.sending /\ ~Opening =>
            (page'.sending /\ ~Opening') \/ row.task = 0 \/ Through(row.task)
      <3>1. CASE evs[e].kind \in {"done", "error"}
        BY <1>0, <1>2, <3>1, EndIsThrough
      <3>2. CASE evs[e].kind \notin {"done", "error"}
        <4>1. page'.sending = page.sending /\ conn'["message"].pc = conn["message"].pc
          BY <1>3, <1>4, <3>2 DEF Become, Streams
        <4> QED
          BY <4>1 DEF Opening
      <3> QED
        BY <3>1, <3>2
    <2> QED
      BY <1>0, <1>2, <2>1, LateCallback
  <1>10. ASSUME Smooth'
         PROVE  PageWhole(Now)'
    <2>1. Smooth
      BY <1>0, <1>2, <1>10, FaultsAre, SmoothWas
    <2>2. PageWhole(Now)
      BY <1>0, <2>1 DEF WholeInv
    <2>3. PageWhole(v)
      BY <1>0, <1>1, <1>2, <1>3, <1>5, <2>2, ReceivedWhole
    <2> QED
      BY <1>2, <1>3, <2>3, WholeBecome
  <1> QED
    BY <1>6, <1>7, <1>8, <1>9, <1>10 DEF WholeInv

\* A page that does not send has no message stream, or one that has ended.
LEMMA SentIs ==
  ASSUME Core, StreamInv, ~page.sending
  PROVE  /\ conn["message"].chan = <<>> /\ conn["message"].pos = 0
         /\ conn["message"].pc \in {"none", "end"}
  <1>1. conn["message"].pc = "none" => conn["message"].chan = <<>> /\ conn["message"].pos = 0
    BY PageIs, FreshIs DEF Streams, ConnPcs
  <1> QED
    BY <1>1, PageIs DEF StreamInv

\* Without a run there is no output.
LEMMA NoRunNoOuts ==
  ASSUME Core, TurnInv, row.task = 0
  PROVE  Outs(row.task) = {}
  <1>1. \A e \in DOMAIN evs : evs[e].src # "out"
    <2>1. 1..0 = {}
      OBVIOUS
    <2>2. \A e \in DOMAIN evs : evs[e].src # "db" => evs[e].run \in 1..0
      BY DEF TurnInv
    <2> QED
      BY <2>1, <2>2
  <1> QED
    BY <1>1 DEF Outs

\* A snapshot is whole, and the page listens after its last event.
LEMMA AppliedWhole ==
  ASSUME Core, TurnInv, StreamInv, LoadsInv, PageWhole(Now), NEW l \in Range(loads),
         Applies(l, Now), l.read, NEW v, v.page.shown = Range(l.log),
         v.page.cursor = IF l.log = <<>> THEN page.cursor ELSE Last(l.log),
         v.page.cursor \in Nat, v.page.epoch = page.epoch,
         v.conn["message"] = conn["message"],
         v.conn["empty"] \in {NoConn, Fresh("open", v.page.cursor)},
         Range(v.loads) \subseteq Range(loads)
  PROVE  PageWhole(v)
  <1>1. Now.page = page /\ Now.conn = conn /\ Now.loads = loads
    BY PageIs
  <1>2. ~page.sending /\ (l.log = <<>> => row.task = 0)
    BY DEF LoadsInv
  <1>3. LoadWhole(l, Now)
    BY <1>1 DEF PageWhole
  <1>4. Whole(v.page.shown)
    BY <1>3 DEF LoadWhole
  <1>5. From(v.page.cursor, v.page.shown)
    <2>1. CASE l.log = <<>>
      BY <1>2, <2>1, NoRunNoOuts DEF From
    <2>2. CASE l.log # <<>>
      BY <1>3, <2>2 DEF LoadWhole
    <2> QED
      BY <2>1, <2>2
  <1>6. /\ NoConn.pos = 0 /\ NoConn.chan = <<>> /\ DOMAIN <<>> = {} /\ Range(<<>>) = {}
        /\ Fresh("open", v.page.cursor).pos = v.page.cursor
        /\ Fresh("open", v.page.cursor).chan = <<>>
    BY FreshIs DEF ConnPcs, Range
  <1>7. conn["message"].chan = <<>> /\ conn["message"].pos = 0
    BY <1>2, SentIs
  <1>8. \A s : s.chan = <<>> /\ s.pos \in {0, v.page.cursor} => StreamWhole(s, v.page.shown)
    <2>1. From(0, v.page.shown) /\ v.page.shown \cup {} = v.page.shown
      BY DEF From
    <2> QED
      BY <1>5, <1>6, <2>1 DEF StreamWhole
  <1>9. \A c \in {"message", "empty"} : StreamWhole(v.conn[c], v.page.shown)
    BY <1>6, <1>7, <1>8
  <1>10. \A k \in Range(v.loads) : LoadWhole(k, v)
    BY <1>1 DEF PageWhole, LoadWhole, Applies
  <1> QED
    BY <1>4, <1>5, <1>9, <1>10 DEF PageWhole

\* A snapshot that is applied is what the page shows, and what it listens after.
LEMMA AppliedIs ==
  ASSUME Gapless, NEW i \in DOMAIN loads, LoadApply(i), CanApply(loads[i])
  PROVE  \E v :
           LET l == loads[i] IN
           /\ Become(v) /\ UNCHANGED <<evs, db, row, runner, hand>> /\ used' = used
           /\ v \in Views /\ l.read /\ l \in Range(loads) /\ Applies(l, Now) /\ ~page.sending
           /\ v.page.shown = Range(l.log) /\ v.page.cursor \in Nat /\ v.page.epoch = page.epoch
           /\ v.page.cursor = IF l.log = <<>> THEN page.cursor ELSE Last(l.log)
           /\ v.page.sending = page.sending /\ v.page.local = l.status
           /\ v.conn["message"] = conn["message"]
           /\ v.conn["empty"] \in {NoConn, Fresh("open", v.page.cursor)}
           /\ l.status = "completed" => v.conn["empty"] = NoConn
           /\ Range(v.loads) \subseteq Range(loads)
           /\ v.loads = RemoveAt(loads, i)
  <1> DEFINE l == loads[i]
             n == Now
             g == [n EXCEPT !.loads = RemoveAt(@, i)]
             w == ApplySnapshot(g, l)
             v == Continued(w, l)
  <1>0. Core /\ LoadsInv
    BY DEF Gapless, WholeInv
  <1>1. /\ Become(v) /\ UNCHANGED <<evs, db, row, runner, hand>> /\ used' = used /\ l.read
    BY DEF LoadApply, server
  <1>2. /\ g \in Views /\ g.page = page /\ g.conn = conn
        /\ Range(g.loads) \subseteq Range(loads) /\ l \in Loads /\ l \in Range(loads)
    BY <1>0, LoadGone
  <1>3. Applies(l, Now)
    BY PageIs, <1>0 DEF CanApply, Applies
  <1>4. g.loads = RemoveAt(loads, i)
    <2>1. n \in Views /\ n.loads = loads
      BY <1>0, PageIs
    <2> HIDE DEF n, l, w, v
    <2>2. [n EXCEPT !.loads = RemoveAt(@, i)].loads = RemoveAt(loads, i)
      BY <2>1 DEF Views
    <2> QED
      BY <2>2
  <1> HIDE DEF n, g
  <1>5. /\ w \in Views /\ w.loads = g.loads
        /\ w.page.shown = Range(l.log)
        /\ w.page.cursor = IF l.log = <<>> THEN g.page.cursor ELSE Last(l.log)
        /\ w.page.sending = g.page.sending /\ w.page.epoch = g.page.epoch
        /\ w.page.local = l.status
        /\ w.conn["message"] = g.conn["message"]
        /\ w.conn["empty"] \in {NoConn, Fresh("open", w.page.cursor)}
        /\ l.status = "completed" => w.conn["empty"] = NoConn
    BY <1>2, ApplyIs
  <1>6. w.page.cursor \in Nat
    BY <1>5 DEF Views, Pages
  <1> HIDE DEF w
  <1>7. /\ v \in Views /\ v.loads = w.loads
        /\ v.page.shown = w.page.shown /\ v.page.cursor = w.page.cursor
        /\ v.page.sending = w.page.sending /\ v.page.epoch = w.page.epoch
        /\ v.page.local = w.page.local
        /\ v.conn["message"] = w.conn["message"]
        /\ v.conn["empty"] \in {w.conn["empty"], Fresh("open", w.page.cursor)}
        /\ v.conn["empty"] # w.conn["empty"] => w.page.local = "running"
    BY <1>2, <1>5, ContinuedIs
  <1>8. ~page.sending
    BY <1>0, <1>2, <1>3 DEF LoadsInv
  <1> HIDE DEF v
  <1> QED
    BY <1>1, <1>2, <1>3, <1>4, <1>5, <1>6, <1>7, <1>8

LEMMA LoadAppliedTurns ==
  ASSUME Gapless, NEW i \in DOMAIN loads, LoadApply(i), CanApply(loads[i])
  PROVE  TurnInv' /\ StreamInv' /\ WholeInv'
  <1> DEFINE l == loads[i]
  <1>0. Core /\ UsedType /\ TurnInv /\ StreamInv /\ LoadsInv /\ LateInv /\ WholeInv
    BY DEF Gapless, WholeInv
  <1>1. PICK v :
          /\ Become(v) /\ UNCHANGED <<evs, db, row, runner, hand>> /\ used' = used
          /\ v \in Views /\ l.read /\ l \in Range(loads) /\ Applies(l, Now) /\ ~page.sending
          /\ v.page.shown = Range(l.log) /\ v.page.cursor \in Nat /\ v.page.epoch = page.epoch
          /\ v.page.cursor = IF l.log = <<>> THEN page.cursor ELSE Last(l.log)
          /\ v.page.sending = page.sending /\ v.conn["message"] = conn["message"]
          /\ v.conn["empty"] \in {NoConn, Fresh("open", v.page.cursor)}
          /\ Range(v.loads) \subseteq Range(loads) /\ v.loads = RemoveAt(loads, i)
    BY AppliedIs
  <1>2. \A k \in Range(v.loads) : k.kind # "mount"
    <2>1. CASE l.kind = "mount"
      <3>1. loads = <<l>>
        BY <1>0, <1>1, <2>1 DEF LoadsInv
      <3>2. i = 1 /\ Len(loads) = 1
        BY <3>1
      <3>3. SubSeq(loads, 1, i - 1) = <<>> /\ SubSeq(loads, i + 1, Len(loads)) = <<>>
        BY <1>0, <3>2, PageIs
      <3>4. RemoveAt(loads, i) = <<>>
        BY <3>3 DEF RemoveAt
      <3> QED
        BY <1>1, <3>4 DEF Range
    <2>2. CASE l.kind # "mount"
      BY <1>0, <1>1, <2>2, NoMount
    <2> QED
      BY <2>1, <2>2
  <1> HIDE DEF l
  <1>3. TurnInv'
    BY <1>0, <1>1, SameTurns
  <1>4. StreamInv'
    <2>1. Goes(conn'["message"], conn["message"])
      BY <1>1 DEF Become, Goes
    <2>2. conn'["empty"] = NoConn \/ conn'["empty"] = Fresh("open", v.page.cursor)
      BY <1>1 DEF Become
    <2> QED
      BY <1>0, <1>1, <2>1, <2>2, StreamsTurn
  <1>5. LoadsInv'
    <2>1. LoadsOf(v)
      <3>1. LoadsOf(Now) /\ Now.page = page /\ Now.loads = loads
        BY <1>0, LoadsIs, PageIs
      <3> QED
        BY <1>1, <1>2, <3>1 DEF LoadsOf, Applies
    <2> QED
      BY <1>1, <2>1, LoadsBecome
  <1>6. LateInv'
    BY <1>0, <1>1, LateCallback
  <1>7. ASSUME Smooth'
        PROVE  PageWhole(Now)'
    <2>1. Smooth
      BY <1>0, <1>1, <1>7, FaultsAre, SmoothWas
    <2>2. PageWhole(Now)
      BY <1>0, <2>1 DEF WholeInv
    <2>3. PageWhole(v)
      BY <1>0, <1>1, <2>2, AppliedWhole
    <2> QED
      BY <1>1, <2>3, WholeBecome
  <1> QED
    BY <1>3, <1>4, <1>5, <1>6, <1>7 DEF WholeInv

\* The log may be continued after its last event, if the page does not send:
\* that event is of the row's run, or that run is through.
LEMMA FromLast ==
  ASSUME Core, TurnInv, LateInv, Smooth, ~page.sending, db # <<>>
  PROVE  From(Last(db), Range(db))
  <1> DEFINE p == Last(db)
             S == Range(db)
  <1>1. p \in S /\ p \in DOMAIN evs /\ evs[p] \in Events
    <2>1. db \in Seq(Nat) /\ Range(db) \subseteq DOMAIN evs
      BY CoreIs
    <2>2. Len(db) \in DOMAIN db
      BY <2>1
    <2>3. p \in S
      BY <2>2 DEF Last, Range
    <2> QED
      BY <2>1, <2>3, CoreIs
  <1>2. Whole(S)
    BY DEF TurnInv
  <1>3. S \cup {p} = S
    BY <1>1
  <1> HIDE DEF p, S
  <1>4. CASE evs[p].src = "out" /\ evs[p].run # row.task
    <2>1. evs[p].run \in 1..row.task /\ row.task \in 0..MaxRuns /\ MaxRuns \in Nat
      BY <1>1, <1>4, PageAssumption, CoreIs DEF TurnInv, Rows
    <2> DEFINE q == evs[p].run
    <2>2. q < row.task /\ q \in Runs /\ row.task # 0 /\ p \in Outs(q)
      BY <1>1, <1>4, <2>1 DEF Runs, Outs
    <2>3. ASSUME NEW d \in Outs(row.task), d <= p
          PROVE  d \in S \/ Ended(d)
      <3>1. d \in DOMAIN evs /\ evs[d].src = "out" /\ evs[d].run = row.task
        BY DEF Outs
      <3>2. d < p
        <4>1. d # p
          BY <1>4, <3>1
        <4>2. d \in Nat /\ p \in Nat
          BY <1>1, <3>1, CoreIs
        <4> QED
          BY <2>3, <4>1, <4>2
      <3>3. ~InTurn
        <4>1. ~(p < d)
          BY <1>1, <2>3, <3>1, CoreIs
        <4> QED
          BY <1>1, <1>4, <2>2, <3>1, <4>1 DEF InTurn
      <3>4. Late
        BY <2>2, <3>2 DEF Late
      <3>5. Through(row.task)
        BY <2>2, <3>3, <3>4 DEF LateInv, Smooth
      <3> QED
        BY <3>5 DEF Through, S
    <2> QED
      <3>1. From(p, S)
        BY <2>3 DEF From
      <3> QED
        BY <3>1 DEF p, S
  <1>5. CASE evs[p].src = "out" => evs[p].run = row.task
    <2>1. evs[p].src = "out" => p \in Outs(row.task) /\ \A d \in Outs(row.task) : d < p => d \in S
      BY <1>1, <1>2, <1>5 DEF Outs, Whole
    <2>2. From(p, S \cup {p})
      BY <1>1, <2>1, FromHead
    <2> QED
      BY <1>3, <2>2 DEF p, S
  <1> QED
    BY <1>4, <1>5

\* A snapshot is read: the log, in one piece.
LEMMA LoadReadTurns ==
  ASSUME Gapless, NEW i \in DOMAIN loads, LoadRead(i)
  PROVE  TurnInv' /\ StreamInv' /\ WholeInv'
  <1> DEFINE l == loads[i]
             k == [l EXCEPT !.read = TRUE, !.status = row.status,
                            !.next = row.next # "none", !.log = db]
             s == [loads EXCEPT ![i] = k]
             v == [page |-> page, conn |-> conn, loads |-> s]
  <1>0. Core /\ UsedType /\ TurnInv /\ StreamInv /\ LoadsInv /\ LateInv /\ WholeInv
    BY DEF Gapless, WholeInv
  <1>1. UNCHANGED <<evs, db, row, runner, hand, page, conn>> /\ used' = used
    BY DEF LoadRead, server
  <1>2. loads \in Seq(Loads) /\ l \in Loads /\ l \in Range(loads)
    BY <1>0, LoadGone, PageIs
  <1>3. loads' = s
    <2>1. loads' = [loads EXCEPT ![i].read = TRUE, ![i].status = row.status,
                                 ![i].next = row.next # "none", ![i].log = db]
      BY DEF LoadRead
    <2> QED
      BY <2>1, Zenon
  <1>4. k.kind = l.kind /\ k.epoch = l.epoch /\ k.read /\ k.log = db
    <2>1. \A x \in Loads : \A st, b, g :
            LET y == [x EXCEPT !.read = TRUE, !.status = st, !.next = b, !.log = g] IN
            y.kind = x.kind /\ y.epoch = x.epoch /\ y.read = TRUE /\ y.log = g
      BY DEF Loads
    <2> QED
      BY <1>2, <2>1
  <1> HIDE DEF l, k
  <1>5. \A x \in Range(s) : x \in Range(loads) \/ x = k
    BY <1>2 DEF Range
  <1>6. loads = <<l>> => s = <<k>>
    <2>1. i \in DOMAIN loads
      OBVIOUS
    <2> QED
      BY <2>1
  <1> HIDE DEF s
  <1>7. Become(v) /\ v.page = page /\ v.conn = conn /\ v.loads = s
    BY <1>1, <1>3 DEF Become
  <1> HIDE DEF v
  <1>8. Now.page = page /\ Now.conn = conn /\ Now.loads = loads
    BY <1>0, PageIs
  <1>9. l.kind = "mount" => s = <<k>>
    BY <1>0, <1>2, <1>6 DEF LoadsInv
  <1>10. db = <<>> /\ ~page.sending => row.task = 0
    BY <1>0, SentIs DEF StreamInv
  <1>11. TurnInv'
    BY <1>0, <1>1, SameTurns
  <1>12. StreamInv'
    BY <1>0, <1>1, StreamsTurn DEF Goes
  <1>13. LoadsInv'
    <2>1. LoadsOf(Now)
      BY <1>0, LoadsIs
    <2>2. ASSUME NEW x \in Range(s)
          PROVE  /\ x.kind # "refresh"
                 /\ IF x.kind = "mount"
                    THEN /\ s = <<x>> /\ page.local = "none" /\ page.epoch = 1
                         /\ ~page.timer /\ conn["message"] = NoConn /\ conn["empty"] = NoConn
                    ELSE x.epoch # 0
                 /\ Applies(x, v) => ~page.sending /\ (x.read /\ x.log = <<>> => row.task = 0)
      <3>1. CASE x = k
        BY <1>2, <1>4, <1>7, <1>8, <1>9, <1>10, <2>1, <3>1 DEF LoadsOf, Applies
      <3>2. CASE x \in Range(loads) /\ x # k
        <4>1. x.kind = "mount" => FALSE
          <5>0. SUFFICES ASSUME x.kind = "mount"
                       PROVE  FALSE
            OBVIOUS
          <5>1. loads = <<x>>
            BY <1>8, <2>1, <3>2, <5>0 DEF LoadsOf
          <5>2. x = l
            BY <1>2, <5>1 DEF Range
          <5>3. s = <<k>>
            BY <1>9, <5>0, <5>2
          <5> QED
            BY <2>2, <3>2, <5>3 DEF Range
        <4> QED
          BY <1>7, <1>8, <2>1, <3>2, <4>1 DEF LoadsOf, Applies
      <3> QED
        BY <1>5, <3>1, <3>2
    <2>3. LoadsOf(v)
      BY <1>7, <1>8, <2>1, <2>2 DEF LoadsOf
    <2> QED
      BY <1>1, <1>7, <2>3, LoadsBecome
  <1>14. LateInv'
    <2>1. page.sending /\ ~Opening => page'.sending /\ ~Opening'
      BY <1>1 DEF Opening
    <2> QED
      BY <1>0, <1>1, <2>1, LateCallback
  <1>15. ASSUME Smooth'
         PROVE  PageWhole(Now)'
    <2>1. Smooth
      BY <1>0, <1>1, <1>15, FaultsAre, SmoothWas
    <2>2. PageWhole(Now)
      BY <1>0, <2>1 DEF WholeInv
    <2>3. LoadWhole(k, v)
      <3>1. Whole(Range(db))
        BY <1>0 DEF TurnInv
      <3>2. Applies(k, v) => ~page.sending
        BY <1>0, <1>2, <1>4, <1>7, <1>8 DEF LoadsInv, Applies
      <3>3. ~page.sending /\ db # <<>> => From(Last(db), Range(db))
        BY <1>0, <2>1, FromLast
      <3> QED
        BY <1>4, <3>1, <3>2, <3>3 DEF LoadWhole
    <2>4. \A x \in Range(v.loads) : LoadWhole(x, v)
      BY <1>5, <1>7, <1>8, <2>2, <2>3 DEF PageWhole, LoadWhole, Applies
    <2>5. PageWhole(v)
      BY <1>7, <1>8, <2>2, <2>4 DEF PageWhole
    <2> QED
      BY <1>1, <1>7, <2>5, WholeBecome
  <1> QED
    BY <1>11, <1>12, <1>13, <1>14, <1>15 DEF WholeInv

\* A page that opens a run that way believes that it is on.
LEMMA OpensRunning ==
  ASSUME NEW w \in Views, NEW at \in {"claim", "start"}
  PROVE  OpenRunStream(w, at).page.local = "running"
  <1> DEFINE opened == [StopEmptyStream(w) EXCEPT !.page.epoch = @ + 1, !.page.sending = TRUE,
                                                  !.conn["message"] = Fresh(at, 0)]
  <1>1. OpenRunStream(w, at) = Assigned(opened, "running")
    BY DEF OpenRunStream
  <1>2. StopEmptyStream(w) \in Views /\ Fresh(at, 0) \in Conns
    BY StopIs, FreshIs DEF ConnPcs
  <1>3. opened \in Views
    BY <1>2, OpenedIs
  <1> HIDE DEF opened
  <1>4. Assigned(opened, "running").page = [opened.page EXCEPT !.local = "running", !.timer = FALSE]
    BY <1>3, AssignedIs DEF Statuses
  <1> QED
    BY <1>1, <1>3, <1>4 DEF Views, Pages

\* A page that waits for an answer still does when it gives it.
LEMMA OpensWaiting ==
  ASSUME NEW w \in Views
  PROVE  OpenRunStream(w, "resolved").page.local = w.page.local
  <1> DEFINE stop == StopEmptyStream(w)
  <1>1. stop \in Views /\ stop.page = [w.page EXCEPT !.timer = FALSE] /\ Fresh("resolved", 0) \in Conns
    BY StopIs, FreshIs DEF ConnPcs
  <1>2. OpenRunStream(w, "resolved") =
          [stop EXCEPT !.page.epoch = @ + 1, !.page.sending = TRUE,
                       !.conn["message"] = Fresh("resolved", 0)]
    BY DEF OpenRunStream
  <1> HIDE DEF stop
  <1>3. OpenRunStream(w, "resolved").page = [stop.page EXCEPT !.epoch = @ + 1, !.sending = TRUE]
    <2>1. \A s \in Views, f \in Conns :
            LET o == [s EXCEPT !.page.epoch = @ + 1, !.page.sending = TRUE, !.conn["message"] = f]
            IN o.page = [s.page EXCEPT !.epoch = @ + 1, !.sending = TRUE]
      BY OpenedIs
    <2> QED
      BY <1>1, <1>2, <2>1
  <1>4. stop.page.local = w.page.local
    BY <1>1 DEF Views, Pages
  <1>5. stop.page \in Pages
    BY <1>1 DEF Views
  <1> QED
    BY <1>3, <1>4, <1>5 DEF Pages

\* A page of a new epoch applies no snapshot that it asked for before.
LEMMA OlderLoads ==
  ASSUME Core, LoadsInv, page.local # "none", NEW v, v.page.epoch = page.epoch + 1,
         NEW l \in Range(loads)
  PROVE  ~Applies(l, v) /\ l.kind # "refresh" /\ l.epoch # 0
  <1>1. l.kind # "refresh" /\ l.epoch # 0
    BY NoMount DEF LoadsInv
  <1>2. PICK i \in DOMAIN loads : l = loads[i]
    BY DEF Range
  <1>3. l.epoch <= page.epoch
    BY <1>2 DEF Core, HearsInv
  <1>4. l.epoch \in Nat /\ page.epoch \in Nat
    BY <1>2, EpochIs, LoadGone DEF Loads
  <1>5. l.epoch # page.epoch + 1
    BY <1>3, <1>4
  <1> QED
    BY <1>1, <1>5 DEF Applies

\* A request that opens a run: the page sends, whatever was late is through.
LEMMA OpensTurn ==
  ASSUME Gapless, MayRun, NEW at \in {"claim", "start", "resolved"},
         Become(OpenRunStream(Now, at)), UNCHANGED <<server, used>>,
         at = "start" => row.task # 0, page.local # "none",
         IF at = "resolved" THEN page.local = "waiting" ELSE TRUE,
         row.status = "waiting" \/ ~page.sending
  PROVE  TurnInv' /\ StreamInv' /\ WholeInv'
  <1> DEFINE v == OpenRunStream(Now, at)
  <1>0. Core /\ UsedType /\ TurnInv /\ StreamInv /\ LoadsInv /\ LateInv /\ WholeInv
    BY DEF Gapless, WholeInv
  <1>1. UNCHANGED <<evs, db, row, runner, hand>> /\ used' = used /\ Become(v)
    BY DEF server
  <1>2. Now \in Views /\ Now.page = page /\ Now.conn = conn /\ Now.loads = loads
    BY <1>0, PageIs
  <1>3. /\ v.loads = loads /\ v.page.sending /\ v.page.epoch = page.epoch + 1
        /\ v.page.shown = page.shown /\ v.page.cursor = page.cursor
        /\ v.conn["message"] = Fresh(at, 0) /\ v.conn["empty"] = NoConn
    BY <1>2, OpenIs
  <1>4. v.page.local \in {"running", "waiting"}
    BY <1>2, OpensRunning, OpensWaiting
  <1> HIDE DEF v
  <1>5. row.status # "running" /\ conn["message"].pc \notin {"put", "add"}
    BY DEF MayRun, Untouched
  <1>6. TurnInv'
    BY <1>0, <1>1, SameTurns
  <1>7. StreamInv'
    BY <1>0, <1>1, <1>3, <1>5, StreamsTurn DEF Become, Opens
  <1>8. \A l \in Range(loads) : l.kind # "mount"
    BY <1>0, NoMount
  <1>9. \A l \in Range(loads) : ~Applies(l, v) /\ l.kind # "refresh" /\ l.epoch # 0
    BY <1>0, <1>3, OlderLoads
  <1>10. LoadsInv'
    <2>1. LoadsOf(v)
      BY <1>3, <1>4, <1>8, <1>9 DEF LoadsOf
    <2> QED
      BY <1>1, <2>1, LoadsBecome
  <1>11. LateInv'
    <2>1. page.sending /\ ~Opening => Through(row.task)
      BY <1>0 DEF TurnInv
    <2> QED
      BY <1>0, <1>1, <2>1, LateCallback
  <1>12. ASSUME Smooth'
         PROVE  PageWhole(Now)'
    <2>1. Smooth
      BY <1>0, <1>1, <1>12, FaultsAre, SmoothWas
    <2>2. PageWhole(Now)
      BY <1>0, <2>1 DEF WholeInv
    <2>3. /\ NoConn.pos = 0 /\ NoConn.chan = <<>> /\ DOMAIN <<>> = {} /\ Range(<<>>) = {}
          /\ Fresh(at, 0).pos = 0 /\ Fresh(at, 0).chan = <<>>
      BY FreshIs DEF ConnPcs, Range
    <2>4. \A s : s.pos = 0 /\ s.chan = <<>> => StreamWhole(s, page.shown)
      <3>1. From(0, page.shown) /\ page.shown \cup {} = page.shown
        BY DEF From
      <3> QED
        BY <2>3, <3>1 DEF StreamWhole
    <2>5. \A c \in {"message", "empty"} : StreamWhole(v.conn[c], v.page.shown)
      BY <1>3, <2>3, <2>4
    <2>6. \A l \in Range(v.loads) : LoadWhole(l, v)
      BY <1>2, <1>3, <1>9, <2>2 DEF PageWhole, LoadWhole
    <2>7. PageWhole(v)
      BY <1>2, <1>3, <2>2, <2>5, <2>6 DEF PageWhole
    <2> QED
      BY <1>1, <2>7, WholeBecome
  <1> QED
    BY <1>6, <1>7, <1>10, <1>11, <1>12 DEF WholeInv

LEMMA UserOpensTurn ==
  ASSUME Gapless, Send \/ ResolveInteraction \/ RunNextMessage
  PROVE  TurnInv' /\ StreamInv' /\ WholeInv'
  <1>0. Core /\ TurnInv /\ LoadsInv
    BY DEF Gapless, WholeInv
  <1>1. page.sending => page.local \in {"running", "waiting"}
    BY <1>0 DEF LoadsInv
  <1>2. CASE Send
    BY <1>1, <1>2, OpensTurn DEF Send
  <1>3. CASE ResolveInteraction
    BY <1>3, OpensTurn DEF ResolveInteraction
  <1>4. CASE RunNextMessage
    <2>1. row.task # 0
      BY <1>0, <1>4 DEF RunNextMessage, TurnInv
    <2> QED
      BY <1>1, <1>4, <2>1, OpensTurn DEF RunNextMessage
  <1> QED
    BY <1>2, <1>3, <1>4

\* A page that is loaded anew shows nothing.
LEMMA ReloadTurns ==
  ASSUME Gapless, Reload
  PROVE  TurnInv' /\ StreamInv' /\ WholeInv'
  <1> DEFINE l == Load("mount", 0)
             v == [page |-> NewPage, conn |-> [c \in DOMAIN conn |-> NoConn], loads |-> <<l>>]
  <1>0. Core /\ UsedType /\ TurnInv /\ StreamInv /\ LoadsInv /\ LateInv /\ WholeInv
    BY DEF Gapless, WholeInv
  <1>1. /\ UNCHANGED <<evs, db, row, runner, hand>> /\ Become(v)
        /\ conn["message"].pc \notin {"put", "add"}
    BY UntouchedIs DEF server, Reload, Become
  <1>2. used'.faults = used.faults + 1
    BY <1>0 DEF Reload, UsedType
  <1>3. /\ l.kind = "mount" /\ l.epoch = 0 /\ l.log = <<>> /\ ~l.read
        /\ Range(<<l>>) = {l}
    <2>1. l.kind = "mount" /\ l.epoch = 0 /\ l.log = <<>>
      BY LoadIs
    <2>2. ~l.read
      BY DEF Load
    <2> HIDE DEF l
    <2>3. Range(<<l>>) = {l}
      BY DEF Range
    <2> QED
      BY <2>1, <2>2, <2>3
  <1> HIDE DEF l
  <1>4. /\ v.page.shown = {} /\ v.page.cursor = 0 /\ v.page.local = "none" /\ ~v.page.sending
        /\ ~v.page.timer /\ v.page.epoch = 1 /\ v.loads = <<l>>
        /\ v.conn["message"] = NoConn /\ v.conn["empty"] = NoConn
    BY <1>0, PageIs DEF NewPage, Streams
  <1> HIDE DEF v
  <1>5. TurnInv'
    BY <1>0, <1>1, SameTurns
  <1>6. StreamInv'
    <2>1. conn'["message"] = NoConn /\ conn'["empty"] = NoConn
      BY <1>1, <1>4 DEF Become
    <2> QED
      BY <1>0, <1>1, <2>1, StreamsTurn
  <1>7. LoadsInv'
    <2>1. LoadsOf(v)
      BY <1>3, <1>4 DEF LoadsOf
    <2> QED
      BY <1>1, <2>1, LoadsBecome
  <1>8. LateInv'
    <2>1. Late' => Late
      BY <1>1 DEF Late, PutAll, Outs
    <2> QED
      BY <1>0, <1>2, <2>1, FaultsAre, LateFault
  <1>9. PageWhole(Now)'
    <2>1. /\ NoConn.pos = 0 /\ NoConn.chan = <<>> /\ DOMAIN <<>> = {} /\ Range(<<>>) = {}
      BY FreshIs DEF Range, ConnPcs
    <2>2. StreamWhole(NoConn, {})
      BY <2>1 DEF StreamWhole, From
    <2>3. Whole({}) /\ From(0, {})
      BY DEF Whole, From
    <2>4. LoadWhole(l, v)
      BY <1>3, <2>1, <2>3 DEF LoadWhole
    <2>5. PageWhole(v)
      BY <1>3, <1>4, <2>2, <2>3, <2>4 DEF PageWhole
    <2> QED
      BY <1>1, <2>5, WholeBecome
  <1> QED
    BY <1>5, <1>6, <1>7, <1>8, <1>9 DEF WholeInv

\* Outputs that are made come after every event that there is.
Ahead ==
  /\ Grown
  /\ \A q : \A d \in Outs(q)' : d \in Outs(q) \/ d > Len(evs)
  /\ \A d \in Outs(row.task)' : d \in Outs(row.task) \/ d > Len(evs)

LEMMA FromKept ==
  ASSUME ServerTypeOK, Ahead, NEW p \in 0..Len(evs), NEW S, From(p, S)
  PROVE  From(p, S)'
  <1>1. p = 0 \/ p \in DOMAIN evs
    BY ServerIs
  <1>2. p # 0 => evs'[p] = evs[p]
    BY <1>1 DEF Ahead, Grown
  <1>3. ASSUME NEW d \in Outs(row.task)', d <= p
        PROVE  d \in Outs(row.task) /\ evs'[d] = evs[d]
    <2>1. d \in DOMAIN evs'
      BY DEF Outs
    <2>2. d \in Nat /\ Len(evs) \in Nat
      BY <2>1, ServerIs DEF Ahead, Grown
    <2>3. ~(d > Len(evs))
      BY <1>3, <2>2
    <2>4. d \in Outs(row.task)
      BY <2>3 DEF Ahead
    <2> QED
      BY <2>4 DEF Ahead, Grown, Outs
  <1> QED
    BY <1>2, <1>3 DEF From, Ended

LEMMA StreamHeld ==
  ASSUME ServerTypeOK, Ahead, NEW s, NEW S, StreamWhole(s, S), s.pos \in 0..Len(evs),
         Range(s.chan) \subseteq DOMAIN evs
  PROVE  StreamWhole(s, S)'
  <1>1. From(s.pos, S \cup Range(s.chan))'
    BY FromKept DEF StreamWhole
  <1>2. ASSUME NEW i \in DOMAIN s.chan, evs'[s.chan[i]].src = "out",
               NEW q, q = evs'[s.chan[i]].run, NEW d \in Outs(q)', d < s.chan[i]
        PROVE  d \in S \/ \E j \in 1..(i - 1) : s.chan[j] = d
    <2>1. s.chan[i] \in DOMAIN evs
      BY DEF Range
    <2>2. evs'[s.chan[i]] = evs[s.chan[i]]
      BY <2>1 DEF Ahead, Grown
    <2>3. d \in DOMAIN evs'
      BY DEF Outs
    <2>4. d \in Nat /\ Len(evs) \in Nat /\ s.chan[i] \in 1..Len(evs)
      BY <2>1, <2>3, ServerIs DEF Ahead, Grown
    <2>5. ~(d > Len(evs))
      BY <1>2, <2>4
    <2>6. d \in Outs(q)
      BY <2>5 DEF Ahead
    <2> QED
      BY <1>2, <2>2, <2>6 DEF StreamWhole
  <1>3. \A i \in DOMAIN s.chan : evs'[s.chan[i]].src = "out" =>
          \A q : q = evs'[s.chan[i]].run =>
            \A d \in Outs(q)' : d < s.chan[i] => d \in S \/ \E j \in 1..(i - 1) : s.chan[j] = d
    BY <1>2
  <1> QED
    BY <1>1, <1>3 DEF StreamWhole, Outs

LEMMA WholeHeld ==
  ASSUME ServerTypeOK, Ahead, NEW S, S \subseteq DOMAIN evs, Whole(S)
  PROVE  Whole(S)'
  BY WholeKept DEF Ahead

LEMMA LoadHeld ==
  ASSUME ServerTypeOK, Ahead, NEW l \in Loads, Range(l.log) \subseteq DOMAIN evs,
         LoadWhole(l, Now), page'.epoch = page.epoch
  PROVE  LoadWhole(l, Now)'
  <1>1. Whole(Range(l.log))'
    BY WholeHeld DEF LoadWhole
  <1>2. Applies(l, Now)' <=> Applies(l, Now)
    BY DEF Applies, Now
  <1>3. ASSUME l.log # <<>>, From(Last(l.log), Range(l.log))
        PROVE  From(Last(l.log), Range(l.log))'
    <2>1. l.log \in Seq(Nat)
      BY DEF Loads
    <2>2. Len(l.log) \in DOMAIN l.log
      BY <1>3, <2>1
    <2>3. Last(l.log) \in Range(l.log)
      BY <2>2 DEF Last, Range
    <2>4. Last(l.log) \in 0..Len(evs)
      BY <2>3, ServerIs
    <2> QED
      BY <1>3, <2>4, FromKept
  <1> QED
    BY <1>1, <1>2, <1>3 DEF LoadWhole

\* The page is as whole as its streams, when nothing else of it changes.
LEMMA PageHeld ==
  ASSUME Core, Ahead, PageWhole(Now), page' = page, loads' = loads,
         \A c \in Streams : StreamWhole(conn[c], page.shown)'
  PROVE  PageWhole(Now)'
  <1>1. Now.page = page /\ Now.conn = conn /\ Now.loads = loads /\ ServerTypeOK
    BY PageIs DEF Core
  <1>2. Whole(page.shown)' /\ From(page.cursor, page.shown)'
    <2>1. page.shown \subseteq DOMAIN evs /\ page.cursor \in 0..Len(evs)
      BY PageIs
    <2>2. \A S : S = page.shown => Whole(S)'
      BY <1>1, <2>1, WholeHeld DEF PageWhole
    <2>3. \A p, S : p = page.cursor /\ S = page.shown => From(p, S)'
      BY <1>1, <2>1, FromKept DEF PageWhole
    <2> QED
      BY <2>2, <2>3 DEF Whole, From, Ended, Outs
  <1>3. \A l \in Range(loads) : LoadWhole(l, Now)'
    <2> TAKE l \in Range(loads)
    <2>1. PICK i \in DOMAIN loads : l = loads[i]
      BY DEF Range
    <2>2. l \in Loads /\ Range(l.log) \subseteq DOMAIN evs
      BY <2>1, LoadGone
    <2> QED
      BY <1>1, <2>2, LoadHeld DEF PageWhole
  <1> QED
    BY <1>2, <1>3 DEF PageWhole, Now, Streams

LEMMA SmoothGrown ==
  ASSUME ServerTypeOK, Grown, used.faults \in Nat,
         used'.faults = used.faults \/ used'.faults = used.faults + 1, Smooth'
  PROVE  Smooth
  <1>1. InTurn' => InTurn
    BY DEF InTurn, Grown
  <1>2. used'.faults <= 1 => used.faults <= 1
    OBVIOUS
  <1> QED
    BY <1>1, <1>2 DEF Smooth

\* A runner's step puts an event in front of all, and no older run becomes late.
LEMMA MovedPage ==
  ASSUME Core, UsedType, TurnInv, WholeInv, NEW r \in Runs, RunnerMoved(r),
         used'.faults = used.faults \/ used'.faults = used.faults + 1
  PROVE  WholeInv'
  <1>1. LoadsInv /\ LateInv /\ ServerTypeOK /\ used.faults \in Nat
    BY FaultsAre DEF WholeInv, Core
  <1>2. /\ page' = page /\ conn' = conn /\ loads' = loads /\ row'.task = row.task /\ Grown
        /\ \A q \in Runs : PutAll(q) => PutAll(q)'
        /\ Range(db) \subseteq Range(db)'
    BY DEF RunnerMoved, client
  <1>3. Len(evs) \in Nat /\ \A q : \A d \in Outs(q) : d \in 1..Len(evs)
    BY <1>1, ServerIs
  <1>4. \A q : \A d \in Outs(q)' : d \in Outs(q) \/ (d = Len(evs) + 1 /\ q = r /\ ~PutAll(r))
    BY DEF RunnerMoved
  <1>5. \A q : \A d \in Outs(q)' : d \in Outs(q) \/ d > Len(evs)
    BY <1>3, <1>4
  <1>6. Ahead
    <2>1. \A q : q = row'.task => \A d \in Outs(q)' : d \in Outs(q) \/ d > Len(evs)
      BY <1>5
    <2>2. \A d \in Outs(row.task)' : d \in Outs(row.task) \/ d > Len(evs)
      BY <1>2, <2>1 DEF Outs
    <2> QED
      BY <1>2, <1>5, <2>2 DEF Ahead
  <1>7. LoadsInv'
    <2>1. Now.page = page /\ Now.conn = conn /\ Now.loads = loads
      BY PageIs
    <2>2. Become(Now)
      BY <1>2, <2>1 DEF Become
    <2> QED
      BY <1>1, <1>2, <2>2, LoadsIs, LoadsBecome
  <1>8. Late' => Late
    <2> SUFFICES ASSUME Late'
                 PROVE  Late
      OBVIOUS
    <2>1. PICK q \in Runs : /\ q < row'.task
                            /\ ~PutAll(q)' \/ \E x \in Outs(q)', t \in {row'.task} : \E d \in Outs(t)' : d < x
      BY DEF Late, Outs
    <2>2. q < row.task
      BY <1>2, <2>1
    <2>3. CASE ~PutAll(q)'
      BY <1>2, <2>2, <2>3 DEF Late
    <2>4. ASSUME NEW x \in Outs(q)', NEW t, t = row'.task, NEW d \in Outs(t)', d < x
          PROVE  Late
      <3>1. CASE x \notin Outs(q)
        BY <1>4, <2>2, <3>1 DEF Late
      <3>2. CASE x \in Outs(q)
        <4>1. t = row.task
          BY <1>2, <2>4
        <4>2. d \in Outs(t)
          <5>1. x \in 1..Len(evs)
            BY <1>3, <3>2
          <5>2. d # Len(evs) + 1
            BY <1>3, <2>4, <5>1
          <5> QED
            BY <1>4, <5>2
        <4> QED
          BY <2>2, <2>4, <3>2, <4>1, <4>2 DEF Late
      <3> QED
        BY <3>1, <3>2
    <2> QED
      BY <2>1, <2>3, <2>4
  <1>9. ASSUME Through(row.task), row.task # 0
        PROVE  Through(row.task)'
    <2>1. row.task \in Runs
      BY <1>9, CoreIs DEF Runs, Rows
    <2>2. \A q : q = row.task => Through(q)'
      <3> SUFFICES ASSUME NEW q, q = row.task
                   PROVE  Through(q)'
        OBVIOUS
      <3>1. PutAll(q) /\ Through(q) /\ PutAll(q)'
        BY <1>2, <1>9, <2>1 DEF Through
      <3>2. Outs(q)' = Outs(q)
        BY <3>1 DEF RunnerMoved
      <3> QED
        BY <1>1, <1>2, <3>1, <3>2, ThroughKept
    <2> QED
      BY <1>2, <2>2 DEF Through, PutAll, Outs, Ended
  <1>10. LateInv'
    <2>1. CASE used'.faults = used.faults + 1
      BY <1>1, <1>8, <2>1, LateFault
    <2>2. CASE used'.faults = used.faults
      <3>1. (page.sending /\ ~Opening) <=> (page'.sending /\ ~Opening')
        BY <1>2 DEF Opening
      <3>2. row.task = 0 <=> row'.task = 0
        BY <1>2
      <3> HIDE DEF Late
      <3> QED
        BY <1>1, <1>8, <1>9, <2>2, <3>1, <3>2 DEF LateInv
    <2> QED
      BY <2>1, <2>2
  <1>11. ASSUME Smooth'
         PROVE  PageWhole(Now)'
    <2>1. Smooth
      BY <1>1, <1>2, <1>11, SmoothGrown
    <2>2. PageWhole(Now)
      BY <2>1 DEF WholeInv
    <2>3. \A c \in Streams : StreamWhole(conn[c], page.shown)'
      <3> SUFFICES ASSUME NEW c \in Streams
                   PROVE  StreamWhole(conn[c], page.shown)'
        OBVIOUS
      <3>1. /\ StreamWhole(conn[c], page.shown) /\ conn[c].pos \in 0..Len(evs)
            /\ Range(conn[c].chan) \subseteq DOMAIN evs
        BY <2>2, PageIs, CoreIs DEF PageWhole, Streams
      <3>2. \A s, S : s = conn[c] /\ S = page.shown => StreamWhole(s, S)'
        BY <1>1, <1>6, <3>1, StreamHeld
      <3> QED
        BY <1>2, <3>2 DEF StreamWhole, From, Ended, Outs
    <2> QED
      BY <1>2, <1>6, <2>2, <2>3, PageHeld
  <1> QED
    BY <1>7, <1>10, <1>11 DEF WholeInv

LEMMA RunnerTurns ==
  ASSUME Gapless, NEW r \in Runs, RunnerStep(r) \/ RunnerRaises(r)
  PROVE  TurnInv' /\ StreamInv' /\ WholeInv'
  <1>1. Core /\ UsedType /\ TurnInv /\ StreamInv /\ WholeInv
    BY DEF Gapless
  <1>2. TurnInv' /\ StreamInv' /\ RunnerMoved(r)
    BY <1>1, RunnerStepTurns
  <1>3. used'.faults = used.faults \/ used'.faults = used.faults + 1
    BY <1>1 DEF UsedType, RunnerStep, RunnerRaises, FlowSteps, FlowWaits, FlowFails, FinishOrClaim,
                Puts, Commit, Settle, Ends
  <1> QED
    BY <1>1, <1>2, <1>3, MovedPage

\* A reader goes on where it was, or sends what is next.
LEMMA NextSent ==
  ASSUME Core, TurnInv, StreamInv, NEW c \in Streams, Served(c),
         StreamWhole(conn[c], page.shown), NEW s, s = conn'[c], NEW S, S = page.shown
  PROVE  StreamWhole(s, S)'
  <1>0. /\ ServerTypeOK /\ Grown /\ conn[c].pos \in 0..Len(evs) /\ Len(evs) \in Nat
        /\ Range(conn[c].chan) \subseteq DOMAIN evs /\ row'.task = row.task
        /\ \A q : Outs(q)' = Outs(q)
    BY CoreIs DEF Served, Core
  <1>1. conn[c].chan \in Seq(Nat) /\ S \subseteq DOMAIN evs
    BY PageIs DEF Conns, Streams
  <1>2. Ahead
    <2>1. \A d \in Outs(row.task)' : d \in Outs(row.task)
      BY <1>0 DEF Outs
    <2> QED
      BY <1>0, <2>1 DEF Ahead
  <1>3. StreamWhole(conn[c], S)
    OBVIOUS
  <1>4. CASE s.chan = conn[c].chan /\ s.pos \in {conn[c].pos, 0}
    <2>1. StreamWhole(s, S)
      <3>1. From(0, S \cup Range(s.chan))
        BY DEF From
      <3> QED
        BY <1>3, <1>4, <3>1 DEF StreamWhole
    <2>2. s.pos \in 0..Len(evs)
      BY <1>0, <1>4
    <2>3. Range(s.chan) \subseteq DOMAIN evs
      BY <1>0, <1>4
    <2> QED
      BY <1>0, <1>2, <2>1, <2>2, <2>3, StreamHeld
  <1>5. ASSUME UNCHANGED <<evs, db, row>>, conn[c].pc = "get", conn[c].run = row.task,
               conn[c].pos # 0 => evs[conn[c].pos].src # "db",
               NEW e \in Outs(row.task), e > conn[c].pos,
               \A d \in Outs(row.task) : d > conn[c].pos => e <= d,
               s.chan = Append(conn[c].chan, e), s.pos \in {e, 0}
        PROVE  StreamWhole(s, S)'
    <2> DEFINE k == conn[c].chan
    <2>1. /\ e \in DOMAIN evs /\ evs[e].src = "out" /\ evs[e].run = row.task
          /\ \A d \in Outs(row.task) : d \in Nat
      BY <1>0, ServerIs DEF Outs
    <2>2. /\ e \in Nat /\ Range(s.chan) = Range(k) \cup {e} /\ Len(k) \in Nat
          /\ \A i \in DOMAIN s.chan : \/ i \in DOMAIN k /\ s.chan[i] = k[i]
                                      \/ i = Len(k) + 1 /\ s.chan[i] = e
          /\ \A i \in DOMAIN k : i \in DOMAIN s.chan /\ s.chan[i] = k[i] /\ i \in 1..Len(k)
      <3>1. e \in Nat
        BY <2>1, ServerIs, <1>0
      <3> QED
        BY <1>1, <1>5, <3>1, AppendRange
    <2> HIDE DEF k
    \* What is before the next output has been sent or shown, and no output
    \* is before its end.
    <2>3. \A d \in Outs(row.task) : d < e => d \in S \cup Range(k)
      <3> SUFFICES ASSUME NEW d \in Outs(row.task), d < e
                   PROVE  d \in S \cup Range(k)
        OBVIOUS
      <3>1. d <= conn[c].pos
        <4>1. d > conn[c].pos => e <= d
          BY <1>5
        <4>2. d \in Nat /\ conn[c].pos \in Nat /\ e \in Nat /\ d < e
          BY <1>0, <2>1, <2>2
        <4> QED
          BY <4>1, <4>2
      <3>2. conn[c].pos # 0
        BY <2>1, <3>1, <1>0, ServerIs DEF Outs
      <3>3. d \in S \cup Range(k) \/ Ended(d)
        BY <1>3, <1>5, <3>1, <3>2 DEF StreamWhole, From, k
      <3>4. ~Ended(d)
        <4>1. row.task \in Runs
          <5>1. evs[e].run \in 1..row.task
            BY <2>1 DEF TurnInv
          <5> QED
            BY <5>1, CoreIs DEF Rows, Runs
        <4>2. Ended(d) => e <= d
          BY <4>1 DEF TurnInv, LaneInv
        <4> QED
          BY <2>1, <2>2, <4>2
      <3> QED
        BY <3>3, <3>4
    <2>4. From(s.pos, S \cup Range(s.chan))
      <3>1. From(0, S \cup Range(s.chan))
        BY DEF From
      <3>2. \A d \in Outs(row.task) : d <= e => d \in S \cup Range(s.chan)
        BY <2>1, <2>2, <2>3
      <3>3. From(e, S \cup Range(s.chan))
        BY <3>2 DEF From
      <3> QED
        BY <1>5, <3>1, <3>3
    <2>5. ASSUME NEW i \in DOMAIN s.chan, evs[s.chan[i]].src = "out",
                 NEW d \in Outs(evs[s.chan[i]].run), d < s.chan[i]
          PROVE  d \in S \/ \E j \in 1..(i - 1) : s.chan[j] = d
      <3>1. CASE i \in DOMAIN k /\ s.chan[i] = k[i]
        <4>1. d \in S \/ \E j \in 1..(i - 1) : k[j] = d
          BY <1>3, <2>5, <3>1 DEF StreamWhole, k
        <4>2. \A j \in 1..(i - 1) : j \in DOMAIN k
          BY <2>2, <3>1, <1>1 DEF k
        <4> QED
          BY <2>2, <4>1, <4>2
      <3>2. CASE i = Len(k) + 1 /\ s.chan[i] = e
        <4>1. d \in S \cup Range(k)
          BY <2>1, <2>3, <2>5, <3>2
        <4>2. \A j \in DOMAIN k : j \in 1..(i - 1) /\ s.chan[j] = k[j]
          BY <2>2, <3>2
        <4> QED
          BY <4>1, <4>2 DEF Range
      <3> QED
        BY <2>2, <3>1, <3>2
    <2>6. StreamWhole(s, S)
      BY <2>4, <2>5 DEF StreamWhole
    <2>7. s.pos \in 0..Len(evs) /\ Range(s.chan) \subseteq DOMAIN evs
      <3>1. e \in 0..Len(evs)
        BY <1>0, <2>1, <2>2, ServerIs
      <3> QED
        BY <1>0, <1>5, <2>1, <2>2, <3>1 DEF k
    <2> QED
      BY <1>0, <1>2, <2>6, <2>7, StreamHeld
  <1>6. ASSUME NEW x \in Events, x.src = "db", evs' = Append(evs, x),
               s.chan = Append(conn[c].chan, Len(evs) + 1), s.pos = 0
        PROVE  StreamWhole(s, S)'
    <2> DEFINE k == conn[c].chan
               n == Len(evs) + 1
    <2>1. evs'[n].src = "db" /\ n \in Nat
      BY <1>0, <1>6, NewEvent
    <2> HIDE DEF n
    <2>2. \A i \in DOMAIN s.chan : \/ i \in DOMAIN k /\ s.chan[i] = k[i]
                                   \/ s.chan[i] = n
      BY <1>1, <1>6, <2>1 DEF n
    <2>3. \A i \in DOMAIN k : i \in DOMAIN s.chan /\ s.chan[i] = k[i] /\ i \in 1..Len(k)
          /\ Len(k) \in Nat
      BY <1>1, <1>6, <2>1 DEF n
    <2>4. ASSUME NEW i \in DOMAIN s.chan, evs'[s.chan[i]].src = "out",
                 NEW q, q = evs'[s.chan[i]].run, NEW d \in Outs(q)', d < s.chan[i]
          PROVE  d \in S \/ \E j \in 1..(i - 1) : s.chan[j] = d
      <3>1. i \in DOMAIN k /\ s.chan[i] = k[i]
        BY <2>1, <2>2, <2>4
      <3>2. k[i] \in DOMAIN evs
        BY <1>0, <3>1 DEF k, Range
      <3>3. evs'[k[i]] = evs[k[i]]
        BY <1>0, <3>2 DEF Grown
      <3>4. d \in Outs(q)
        BY <1>0
      <3>5. d \in S \/ \E j \in 1..(i - 1) : k[j] = d
        BY <1>3, <2>4, <3>1, <3>3, <3>4 DEF StreamWhole, k
      <3>6. \A j \in 1..(i - 1) : j \in DOMAIN k
        BY <2>3, <3>1, <1>1 DEF k
      <3> QED
        BY <2>3, <3>5, <3>6
    <2>5. \A i \in DOMAIN s.chan : evs'[s.chan[i]].src = "out" =>
            \A q : q = evs'[s.chan[i]].run =>
              \A d \in Outs(q)' : d < s.chan[i] => d \in S \/ \E j \in 1..(i - 1) : s.chan[j] = d
      BY <2>4
    <2>6. From(s.pos, S \cup Range(s.chan))'
      BY <1>6 DEF From
    <2> QED
      BY <2>5, <2>6 DEF StreamWhole, Outs
  <1> QED
    BY <1>4, <1>5, <1>6 DEF Served

\* A reader's step shows the page nothing and makes no runner late.
LEMMA ServedPage ==
  ASSUME Core, UsedType, TurnInv, StreamInv, WholeInv, NEW c \in Streams, Served(c), used' = used
  PROVE  WholeInv'
  <1>1. LoadsInv /\ LateInv /\ ServerTypeOK /\ used.faults \in Nat
    BY FaultsAre DEF WholeInv, Core
  <1>2. /\ page' = page /\ loads' = loads /\ runner' = runner /\ row'.task = row.task /\ Grown
        /\ (\A q : Outs(q)' = Outs(q)) /\ Only(c)
        /\ conn[c].pc \in {"open", "get", "missed", "idle"}
        /\ conn'[c].pc \in {"get", "missed", "idle", "end"}
    BY DEF Served
  <1>3. Range(db) \subseteq Range(db)'
    <2>1. db \in Seq(Nat)
      BY CoreIs
    <2>2. db' = db \/ db' = Append(db, Len(evs) + 1)
      BY DEF Served
    <2>3. \A n : Range(db) \subseteq Range(Append(db, n))
      BY <2>1, AppendRange
    <2>4. CASE db' = db
      BY <2>4
    <2>5. CASE db' = Append(db, Len(evs) + 1)
      BY <2>3, <2>5
    <2> QED
      BY <2>2, <2>4, <2>5
  <1>4. Outs(row.task)' = Outs(row.task)
    BY <1>2 DEF Outs
  <1>5. \A q : PutAll(q)' <=> PutAll(q)
    BY <1>2 DEF PutAll
  <1>6. Late' <=> Late
    BY <1>2, <1>4, <1>5 DEF Late
  <1>7. Opening' <=> Opening
    <2>1. CASE c = "message"
      BY <1>2, <2>1 DEF Opening
    <2>2. CASE c # "message"
      BY <1>2, <2>2 DEF Opening, Only, Streams
    <2> QED
      BY <2>1, <2>2
  <1>8. ASSUME Through(row.task)
        PROVE  Through(row.task)'
    <2>1. \A q : q = row.task => Through(q)'
      BY <1>1, <1>2, <1>3, <1>5, <1>8, ThroughKept DEF Through
    <2> QED
      BY <1>2, <2>1 DEF Through, PutAll, Outs, Ended
  <1>9. LateInv'
    <2> HIDE DEF Late
    <2> QED
      BY <1>1, <1>2, <1>6, <1>7, <1>8 DEF LateInv
  <1>10. LoadsInv'
    <2>1. \A l \in Range(loads) : l.kind # "mount"
      <3>1. conn[c] # NoConn
        BY <1>2, PageIs
      <3> QED
        BY <1>1, <3>1, NoMount DEF Streams
    <2> QED
      BY <1>1, <1>2, <2>1 DEF LoadsInv, Applies, Now
  <1>11. ASSUME Smooth'
         PROVE  PageWhole(Now)'
    <2>1. Smooth
      BY <1>1, <1>2, <1>11, SmoothGrown
    <2>2. PageWhole(Now) /\ Now.page = page /\ Now.conn = conn
      BY <2>1, PageIs DEF WholeInv
    <2>3. Ahead
      BY <1>2, <1>4 DEF Ahead
    <2>4. \A o \in Streams : StreamWhole(conn[o], page.shown)'
      <3> SUFFICES ASSUME NEW o \in Streams
                   PROVE  StreamWhole(conn[o], page.shown)'
        OBVIOUS
      <3>1. /\ StreamWhole(conn[o], page.shown) /\ conn[o].pos \in 0..Len(evs)
            /\ Range(conn[o].chan) \subseteq DOMAIN evs
        BY <2>2, PageIs, CoreIs DEF PageWhole, Streams
      <3>2. CASE o = c
        <4>1. \A s, S : s = conn'[c] /\ S = page.shown => StreamWhole(s, S)'
          BY <3>1, <3>2, NextSent
        <4> QED
          BY <1>2, <3>2, <4>1 DEF StreamWhole, From, Ended, Outs
      <3>3. CASE o # c
        <4>1. \A s, S : s = conn[o] /\ S = page.shown => StreamWhole(s, S)'
          BY <1>1, <2>3, <3>1, StreamHeld
        <4>2. conn'[o] = conn[o]
          BY <1>2, <3>3 DEF Only
        <4> QED
          BY <1>2, <4>1, <4>2 DEF StreamWhole, From, Ended, Outs
      <3> QED
        BY <3>2, <3>3
    <2> QED
      BY <1>2, <2>2, <2>3, <2>4, PageHeld
  <1> QED
    BY <1>9, <1>10, <1>11 DEF WholeInv

LEMMA ConnStepTurns ==
  ASSUME Gapless, NEW c \in Streams, ConnStep(c)
  PROVE  TurnInv' /\ StreamInv' /\ WholeInv'
  <1>1. Core /\ UsedType /\ TurnInv /\ StreamInv /\ WholeInv
    BY DEF Gapless
  <1>2. TurnInv' /\ Served(c)
    BY <1>1, ServedIs
  <1>3. StreamInv'
    BY <1>1, <1>2, StreamServed
  <1>4. used' = used
    BY DEF ConnStep, Open, Idles, Get, Misses, AsksTask, Refused
  <1> QED
    BY <1>1, <1>2, <1>3, <1>4, ServedPage

\* A message stream that gives the page an event which is no output.
LEMMA OwnSent ==
  ASSUME Core, Grown, Ahead, NEW k \in Conns, NEW s, NEW S, StreamWhole(k, S),
         k.pos \in 0..Len(evs), Range(k.chan) \subseteq DOMAIN evs, s.pos = k.pos,
         \/ s.chan = k.chan
         \/ \E x \in Events : /\ x.src # "out" /\ evs' = Append(evs, x)
                              /\ s.chan = Append(k.chan, Len(evs) + 1)
  PROVE  StreamWhole(s, S)'
  <1>0. ServerTypeOK /\ k.chan \in Seq(Nat)
    BY DEF Core, Conns
  <1>1. StreamWhole(k, S)'
    BY <1>0, StreamHeld
  <1>2. CASE s.chan = k.chan
    BY <1>1, <1>2 DEF StreamWhole
  <1>3. ASSUME NEW x \in Events, x.src # "out", evs' = Append(evs, x),
               s.chan = Append(k.chan, Len(evs) + 1)
        PROVE  StreamWhole(s, S)'
    <2> DEFINE n == Len(evs) + 1
    <2>1. evs'[n] = x /\ n \in Nat
      BY <1>0, <1>3, NewEvent
    <2> HIDE DEF n
    <2>2. s.chan = Append(k.chan, n)
      BY <1>3 DEF n
    <2>3. /\ \A i \in DOMAIN s.chan : (i \in DOMAIN k.chan /\ s.chan[i] = k.chan[i]) \/ s.chan[i] = n
          /\ \A i \in DOMAIN k.chan : i \in DOMAIN s.chan /\ s.chan[i] = k.chan[i] /\ i \in 1..Len(k.chan)
          /\ Len(k.chan) \in Nat /\ Range(s.chan) = Range(k.chan) \cup {n}
      BY <1>0, <2>1, <2>2, AppendRange
    <2>4. From(s.pos, S \cup Range(s.chan))'
      <3>1. From(k.pos, S \cup Range(k.chan))'
        BY <1>1 DEF StreamWhole
      <3>2. S \cup Range(k.chan) \subseteq S \cup Range(s.chan)
        BY <2>3
      <3> QED
        BY <3>1, <3>2 DEF From
    <2>5. ASSUME NEW i \in DOMAIN s.chan, evs'[s.chan[i]].src = "out",
                 NEW q, q = evs'[s.chan[i]].run, NEW d \in Outs(q)', d < s.chan[i]
          PROVE  d \in S \/ \E j \in 1..(i - 1) : s.chan[j] = d
      <3>1. i \in DOMAIN k.chan /\ s.chan[i] = k.chan[i]
        BY <1>3, <2>1, <2>3, <2>5
      <3>2. d \in S \/ \E j \in 1..(i - 1) : k.chan[j] = d
        BY <1>1, <2>5, <3>1 DEF StreamWhole, Outs
      <3>3. \A j \in 1..(i - 1) : j \in DOMAIN k.chan
        BY <2>3, <3>1, <1>0
      <3> QED
        BY <2>3, <3>2, <3>3
    <2>6. \A i \in DOMAIN s.chan : evs'[s.chan[i]].src = "out" =>
            \A q : q = evs'[s.chan[i]].run =>
              \A d \in Outs(q)' : d < s.chan[i] => d \in S \/ \E j \in 1..(i - 1) : s.chan[j] = d
      BY <2>5
    <2> QED
      BY <2>4, <2>6 DEF StreamWhole, Outs
  <1> QED
    BY <1>2, <1>3

\* The request that serves a message: its page sends, and when it starts a run
\* that one has put nothing, and what came before is through.
LEMMA MessagedPage ==
  ASSUME Core, UsedType, TurnInv, StreamInv, WholeInv, Messaged
  PROVE  WholeInv'
  <1>1. LoadsInv /\ LateInv /\ ServerTypeOK /\ used.faults \in Nat
    BY FaultsAre DEF WholeInv, Core
  <1>2. /\ page' = page /\ loads' = loads /\ used' = used /\ Grown /\ page.sending
        /\ Only("message") /\ conn'["message"].pos = conn["message"].pos
        /\ Range(db) \subseteq Range(db)'
        /\ \A q \in Runs : q <= row.task => (PutAll(q) => PutAll(q)')
    BY DEF Messaged
  <1>3. \/ /\ row'.task = row.task /\ (Opening' <=> Opening) /\ \A q : Outs(q)' = Outs(q)
        \/ /\ row'.task = row.task + 1 /\ Opening /\ ~Opening' /\ evs' = evs
           /\ Outs(row.task)' = {} /\ \A q : Outs(q)' = Outs(q)
    BY DEF Messaged, Outs
  <1>4. \A q : Outs(q)' = Outs(q)
    BY <1>3
  <1>5. row.task \in Nat /\ \A q \in Runs : q \in Nat \ {0}
    BY CoreIs DEF Runs
  <1>6. Ahead
    <2>1. \A d \in Outs(row.task)' : d \in Outs(row.task)
      BY <1>3 DEF Outs
    <2> QED
      BY <1>2, <1>4, <2>1 DEF Ahead
  <1>7. LoadsInv'
    <2>1. \A l \in Range(loads) : l.kind # "mount"
      BY <1>1, <1>2, NoMount
    <2>2. \A l \in Range(loads) : ~Applies(l, Now)
      BY <1>1, <1>2 DEF LoadsInv
    <2> QED
      BY <1>1, <1>2, <2>1, <2>2 DEF LoadsInv, Applies, Now
  <1>8. Late' => Late \/ (Opening /\ row.task # 0 /\ ~PutAll(row.task))
    <2>1. CASE row'.task = row.task
      <3>1. Outs(row.task)' = Outs(row.task)
        BY <2>1, <1>4 DEF Outs
      <3>2. \A q \in Runs : q < row.task => q <= row.task
        BY <1>5
      <3> QED
        BY <1>2, <1>4, <2>1, <3>1, <3>2 DEF Late
    <2>2. CASE row'.task = row.task + 1 /\ Opening /\ Outs(row.task)' = {}
      <3>1. \A q \in Runs : q < row'.task => q <= row.task /\ (q < row.task \/ q = row.task) /\ q # 0
        BY <1>5, <2>2
      <3>2. Late' => \E q \in Runs : q < row'.task /\ ~PutAll(q)'
        BY <2>2 DEF Late
      <3>3. Late' => \E q \in Runs : (q < row.task \/ q = row.task) /\ q # 0 /\ ~PutAll(q)
        BY <1>2, <3>1, <3>2
      <3> QED
        BY <2>2, <3>3 DEF Late
    <2> QED
      BY <1>3, <2>1, <2>2
  <1>9. LateInv'
    <2> SUFFICES ASSUME used.faults <= 1
                 PROVE  /\ used.faults = 0 => ~Late'
                        /\ used.faults = 0 \/ Late' =>
                             (page'.sending /\ ~Opening') \/ row'.task = 0 \/ Through(row.task)'
      BY <1>2 DEF LateInv
    <2>1. used.faults = 0 => ~Late'
      <3>1. used.faults = 0 => ~Late /\ (~Opening \/ row.task = 0 \/ Through(row.task))
        BY <1>1 DEF LateInv
      <3> QED
        BY <1>8, <3>1 DEF Through
    <2>2. CASE ~Opening'
      BY <1>2, <2>1, <2>2
    <2>3. CASE Opening'
      <3>1. row'.task = row.task /\ Opening
        BY <1>3, <2>3
      <3>2. used.faults = 0 \/ Late => row.task = 0 \/ Through(row.task)
        BY <1>1, <3>1 DEF LateInv
      <3>3. used.faults = 0 \/ Late' => row.task = 0 \/ Through(row.task)
        <4>1. ASSUME Late', ~Late
              PROVE  FALSE
          <5>1. \E q \in Runs : q < row.task /\ ~PutAll(q)' /\ PutAll(q)
            BY <1>4, <3>1, <4>1 DEF Late, Outs
          <5> QED
            BY <1>2, <1>5, <5>1
        <4> QED
          BY <3>2, <4>1
      <3>4. ASSUME Through(row.task), row.task # 0
            PROVE  Through(row.task)'
        <4>1. row.task \in Runs /\ row.task <= row.task
          BY <3>4, CoreIs DEF Runs, Rows
        <4>2. \A q : q = row.task => Through(q)'
          <5>1. \A q : q = row.task => PutAll(q)' /\ Outs(q)' = Outs(q)
            BY <1>2, <1>4, <3>4, <4>1 DEF Through
          <5> QED
            BY <1>1, <1>2, <3>4, <5>1, ThroughKept
        <4> QED
          BY <3>1, <4>2 DEF Through, PutAll, Outs, Ended
      <3> QED
        BY <2>1, <3>1, <3>3, <3>4
    <2> QED
      BY <2>2, <2>3
  <1>10. ASSUME Smooth'
         PROVE  PageWhole(Now)'
    <2>1. Smooth
      BY <1>1, <1>2, <1>10, SmoothGrown
    <2>2. PageWhole(Now) /\ Now.page = page /\ Now.conn = conn
      BY <2>1, PageIs DEF WholeInv
    <2>3. ASSUME NEW o \in Streams
          PROVE  StreamWhole(conn[o], page.shown)'
      <3>1. /\ StreamWhole(conn[o], page.shown) /\ conn[o].pos \in 0..Len(evs)
            /\ Range(conn[o].chan) \subseteq DOMAIN evs /\ conn[o] \in Conns
        BY <2>2, PageIs, CoreIs DEF PageWhole, Streams
      <3>2. conn'[o].pos = conn[o].pos
        BY <1>2 DEF Only, Streams
      <3>3. \/ conn'[o].chan = conn[o].chan
            \/ \E x \in Events : /\ x.src # "out" /\ evs' = Append(evs, x)
                                 /\ conn'[o].chan = Append(conn[o].chan, Len(evs) + 1)
        <4>1. CASE o = "message"
          BY <4>1 DEF Messaged
        <4>2. CASE o # "message"
          BY <1>2, <4>2 DEF Only
        <4> QED
          BY <4>1, <4>2
      <3>4. \A s, S : s = conn'[o] /\ S = page.shown => StreamWhole(s, S)'
        BY <1>2, <1>6, <3>1, <3>2, <3>3, OwnSent
      <3> QED
        BY <1>2, <3>4 DEF StreamWhole, From, Ended, Outs
    <2> QED
      BY <1>2, <1>6, <2>2, <2>3, PageHeld
  <1> QED
    BY <1>7, <1>9, <1>10 DEF WholeInv

LEMMA MessageStepTurns ==
  ASSUME Gapless, MessageStep
  PROVE  TurnInv' /\ StreamInv' /\ WholeInv'
  BY MessageTurns, MessagedPage DEF Gapless

\* Every step of a page of which no follow-up is refused keeps what keeps it
\* whole.
LEMMA GaplessKept ==
  ASSUME Gapless, [Next]_vars, QueueNextMessage => ~Refuses'
  PROVE  Gapless'
  <1>1. Core' /\ UsedType'
    BY CoreKept, UsedKept DEF Gapless
  <1>2. TurnInv' /\ StreamInv' /\ WholeInv'
    <2>1. ASSUME NEW r \in Runs, RunnerStep(r) \/ RunnerRaises(r)
          PROVE  TurnInv' /\ StreamInv' /\ WholeInv'
      BY <2>1, RunnerTurns
    <2>2. CASE MessageStep
      BY <2>2, MessageStepTurns
    <2>3. ASSUME NEW c \in Streams, ConnStep(c) \/ PageStep(c)
          PROVE  TurnInv' /\ StreamInv' /\ WholeInv'
      BY <2>3, ConnStepTurns, ReceiveTurns, StreamEndsTurns DEF PageStep
    <2>4. CASE ReconnectTimer
      BY <2>4, TimerTurns
    <2>5. ASSUME NEW i \in DOMAIN loads, LoadStep(i) \/ LoadFails(i)
          PROVE  TurnInv' /\ StreamInv' /\ WholeInv'
      BY <2>5, LoadReadTurns, LoadAppliedTurns, LoadDroppedTurns, LoadFailsTurns DEF LoadStep
    <2>6. CASE Send \/ ResolveInteraction \/ RunNextMessage
      BY <2>6, UserOpensTurn
    <2>7. CASE QueueNextMessage
      BY <2>7, QueueTurns
    <2>8. CASE Reload
      BY <2>8, ReloadTurns
    <2>9. CASE DropMessage \/ DropEmpty
      BY <2>9, DropsTurn
    <2>10. CASE Crash
      BY <2>10, CrashTurn
    <2>11. CASE UNCHANGED vars
      <3>1. /\ evs' = evs /\ db' = db /\ row' = row /\ runner' = runner /\ hand' = hand
            /\ conn' = conn /\ page' = page /\ loads' = loads /\ used' = used
        BY <2>11 DEF vars, server, client
      <3>2. Become(Now) /\ Reopens(Now, Now)
        BY <3>1, NowReopens DEF Gapless, Become, Now
      <3>3. Core /\ TurnInv /\ StreamInv /\ LateInv
        BY DEF Gapless, WholeInv
      <3>4. TurnInv'
        BY <3>1, <3>3, SameTurns
      <3>5. StreamInv'
        BY <3>1, <3>3 DEF StreamInv, Opening, Outs, PutAll
      <3>6. LateInv'
        BY <3>1, <3>3 DEF LateInv, Late, Opening, Outs, PutAll, Through, Ended
      <3>7. LoadsInv' /\ (Smooth' => PageWhole(Now)')
        BY <3>1, <3>2, CallbackPage
      <3> QED
        BY <3>4, <3>5, <3>6, <3>7 DEF WholeInv
    <2> QED
      BY <2>1, <2>2, <2>3, <2>4, <2>5, <2>6, <2>7, <2>8, <2>9, <2>10, <2>11
      DEF Next, UserStep, Streams
  <1> QED
    BY <1>1, <1>2 DEF Gapless

\* A session without events, and the page that loads it.
LEMMA GaplessAtFirst ==
  ASSUME Init
  PROVE  Gapless
  <1>0. Core /\ UsedType
    BY CoreAtFirst
  <1>1. /\ evs = <<>> /\ db = <<>> /\ row = [status |-> "pending", task |-> 0, next |-> "none"]
        /\ runner = [r \in Runs |-> "off"] /\ hand = [r \in Runs |-> 0]
        /\ conn = [c \in {"message", "empty"} |-> NoConn] /\ page = NewPage
        /\ loads = <<Load("mount", 0)>> /\ used.faults = 0
    BY DEF Init
  <1>2. /\ NoConn.pc = "none" /\ NoConn.pos = 0 /\ NoConn.chan = <<>>
        /\ Range(<<>>) = {} /\ DOMAIN <<>> = {} /\ DOMAIN evs = {} /\ Range(db) = {}
    BY <1>1, FreshIs DEF ConnPcs, Range
  <1>3. /\ Load("mount", 0).kind = "mount" /\ Load("mount", 0).epoch = 0
        /\ ~Load("mount", 0).read /\ Load("mount", 0).log = <<>>
        /\ Range(loads) = {Load("mount", 0)}
    <2>1. Range(loads) = {Load("mount", 0)}
      BY <1>1 DEF Range
    <2> QED
      BY <2>1 DEF Load
  <1>4. /\ page.shown = {} /\ page.cursor = 0 /\ page.local = "none"
        /\ ~page.sending /\ page.epoch = 1 /\ ~page.timer
    BY <1>1 DEF NewPage
  <1>5. \A q : Outs(q) = {}
    BY <1>2 DEF Outs
  <1>6. conn["message"] = NoConn /\ conn["empty"] = NoConn /\ row.task = 0 /\ row.status = "pending"
    BY <1>1
  <1>7. \A r \in Runs : runner[r] = "off" /\ ~(r <= 0) /\ ~(r < 0)
    BY <1>1, PageAssumption DEF Runs
  <1>8. TurnInv
    <2>1. ASSUME NEW r \in Runs
          PROVE  LaneInv(r)
      BY <1>5, <1>6, <1>7 DEF LaneInv, Active
    <2> QED
      BY <1>2, <1>6, <2>1 DEF TurnInv, Whole
  <1>9. ~Opening
    BY <1>2, <1>6 DEF Opening
  <1>10. StreamInv
    BY <1>2, <1>6, <1>9 DEF StreamInv
  <1>11. LoadsInv
    BY <1>1, <1>3, <1>4, <1>6 DEF LoadsInv
  <1>12. LateInv
    BY <1>6, <1>7 DEF LateInv, Late
  <1>13. PageWhole(Now)
    <2>1. /\ Now.page = page /\ Now.conn = conn /\ Now.loads = loads
      BY DEF Now
    <2>2. \A S : From(0, S)
      BY DEF From
    <2>3. Whole({})
      BY DEF Whole
    <2>4. \A c \in {"message", "empty"} : StreamWhole(conn[c], page.shown)
      BY <1>2, <1>6, <2>2 DEF StreamWhole
    <2>5. \A l \in Range(loads) : LoadWhole(l, Now)
      BY <1>2, <1>3, <2>3 DEF LoadWhole
    <2> QED
      BY <1>4, <2>1, <2>2, <2>3, <2>4, <2>5 DEF PageWhole
  <1> QED
    BY <1>0, <1>8, <1>10, <1>11, <1>12, <1>13 DEF Gapless, WholeInv

\* A whole page has no hole.
LEMMA GaplessIsNoHole == Gapless => (Smooth => NoHole)
  <1> SUFFICES ASSUME Gapless, Smooth
               PROVE  NoHole
    OBVIOUS
  <1>1. page.shown \subseteq DOMAIN evs /\ Whole(page.shown) /\ DOMAIN evs = 1..Len(evs)
        /\ Len(evs) \in Nat
    BY DEF Gapless, WholeInv, PageWhole, Now, Core, ClientTypeOK, ServerTypeOK
  <1>2. ASSUME NEW e \in page.shown, NEW d \in 1..e, evs[e].src = "out", evs[d].src = "out",
               evs[d].run = evs[e].run
        PROVE  d \in page.shown
    <2>1. e \in 1..Len(evs) /\ d \in DOMAIN evs /\ (d = e \/ d < e)
      BY <1>1
    <2>2. d \in Outs(evs[e].run)
      BY <1>2, <2>1 DEF Outs
    <2> QED
      BY <1>1, <1>2, <2>1, <2>2 DEF Whole
  <1> QED
    BY <1>2 DEF NoHole

\* Whatever connections, snapshots and restarts come in its way, the page shows
\* no gap: with an output of a run it shows all the earlier ones.  Two things
\* must not happen: a follow-up that is refused, whose snapshot the page applies
\* while a stream is still giving it events, and several faults that let the
\* outputs of two runs mix.
THEOREM NoHoleWhenSmooth == Spec /\ []~Refuses => [](Smooth => NoHole)
  <1>1. Init => Gapless
    BY GaplessAtFirst
  <1>2. Gapless /\ ~Refuses' /\ [Next]_vars => Gapless'
    BY GaplessKept
  <1>3. Gapless => (Smooth => NoHole)
    BY GaplessIsNoHole
  <1> QED
    BY <1>1, <1>2, <1>3, PTL DEF Spec

\* What is queued is counted.
LEMMA QueuesAre ==
  ASSUME UsedType, [Next]_vars
  PROVE  /\ used.queues \in Nat
         /\ used'.queues = used.queues \/ used'.queues = used.queues + 1
         /\ QueueNextMessage => used'.queues = used.queues + 1
  <1>0. used \in [steps : 0..MaxSteps, queues : 0..MaxQueues, faults : 0..MaxFaults,
                  crashed : BOOLEAN] /\ used.queues \in Nat
    BY PageAssumption DEF UsedType
  <1>1. QueueNextMessage => used'.queues = used.queues + 1
    BY <1>0 DEF QueueNextMessage
  <1>2. ASSUME ~QueueNextMessage
        PROVE  used'.queues = used.queues
    BY <1>0, <1>2
    DEF Next, RunnerStep, FlowSteps, FlowWaits, FlowFails, FinishOrClaim, Puts, Commit, Settle,
        Ends, RunnerRaises, MessageStep, Resolve, Claim, PutMessage, Invoke, StartNext, ConnStep,
        Open, Idles, Get, Misses, AsksTask, Refused, PageStep, Receive, StreamEnds, ReconnectTimer,
        LoadStep, LoadRead, LoadApply, LoadFails, UserStep, Send, ResolveInteraction,
        RunNextMessage, Reload, DropMessage, DropEmpty, Crash, vars
  <1> QED
    BY <1>0, <1>1, <1>2

\* Nothing is refused in a session in which nothing has been queued.
Calm == UsedType /\ (used.queues = 0 => Gapless)

LEMMA CalmKept ==
  ASSUME Calm, [Next]_vars
  PROVE  Calm' /\ (used'.queues = 0 => used.queues = 0 /\ ~QueueNextMessage)
  <1>1. UsedType /\ (used.queues = 0 => Gapless)
    BY DEF Calm
  <1>2. UsedType'
    BY <1>1, UsedKept
  <1>3. ASSUME used'.queues = 0
        PROVE  used.queues = 0 /\ ~QueueNextMessage
    <2>1. /\ used.queues \in Nat
          /\ used'.queues = used.queues \/ used'.queues = used.queues + 1
          /\ QueueNextMessage => used'.queues = used.queues + 1
      BY <1>1, QueuesAre
    <2> QED
      BY <1>3, <2>1
  <1>4. used'.queues = 0 => Gapless'
    BY <1>1, <1>3, GaplessKept
  <1> QED
    BY <1>2, <1>3, <1>4 DEF Calm

\* So it is with the first fault of a session in which the user has queued no
\* follow-up, of whatever runs it is made.
THEOREM NoHoleWithOneFault == Spec => [](used.queues = 0 /\ used.faults <= 1 => NoHole)
  <1>1. Init => Calm
    BY GaplessAtFirst DEF Gapless, Calm
  <1>2. Calm /\ [Next]_vars => Calm'
    BY CalmKept
  <1>3. Calm => (used.queues = 0 /\ used.faults <= 1 => NoHole)
    BY GaplessIsNoHole DEF Calm, Smooth
  <1> QED
    BY <1>1, <1>2, <1>3, PTL DEF Spec

-----------------------------------------------------------------------------
(* The listening stream starts after an event that a stream has *)

\* Up to the first fault of a session without follow-ups.
Sound == Gapless /\ RowSound /\ CursorInv
Counted == used'.faults \in {used.faults, used.faults + 1} /\ used'.faults <= 1

LEMMA SoundIs ==
  ASSUME Sound
  PROVE  /\ Core /\ UsedType /\ TurnInv /\ StreamInv /\ LoadsInv /\ RowSound
         /\ MessageSound(conn["message"], page) /\ ListenSound(conn["empty"])
         /\ PageSound(page, conn["empty"], used.faults)
         /\ \A l \in Range(loads) : LoadSound(l, Now)
         /\ used.faults \in Nat
  BY FaultsAre DEF Sound, Gapless, WholeInv, CursorInv, CursorOf, Now

LEMMA CursorBecomes ==
  ASSUME NEW v, Become(v), evs' = evs, CursorOf(v, used'.faults)
  PROVE  CursorInv'
  <1>1. \A p : Uuid(p)' <=> Uuid(p)
    BY DEF Uuid
  <1>2. /\ page' = v.page /\ conn' = v.conn /\ loads' = v.loads
    BY DEF Become
  <1>3. \A m, S : Foretold(m, S)' <=> Foretold(m, S)
    BY <1>1 DEF Foretold
  <1>4. \A m, p : MessageSound(m, p)' <=> MessageSound(m, p)
    BY <1>1, <1>3 DEF MessageSound
  <1>5. \A q : ListenSound(q)' <=> ListenSound(q)
    BY <1>1 DEF ListenSound
  <1>6. \A p, q, f : PageSound(p, q, f)' <=> PageSound(p, q, f)
    BY <1>1 DEF PageSound
  <1>7. \A l, w : w.page = v.page => (LoadSound(l, w)' <=> LoadSound(l, v))
    BY <1>1 DEF LoadSound, Applies
  <1> QED
    BY <1>2, <1>4, <1>5, <1>6, <1>7 DEF CursorOf, CursorInv, Now

LEMMA SourceKept ==
  ASSUME RowSound, UNCHANGED <<evs, db, row>>, conn'["message"].pc \notin {"start", "open"},
         conn["message"].pc \in {"claim", "put", "add"} =>
           conn'["message"].pc \in {"claim", "put", "add"},
         conn'["message"].pc = "resolved" => row.task # 0 \/ conn["message"].pc = "resolved"
  PROVE  RowSound'
  BY DEF RowSound, Uuid

\* A callback that shows nothing new.
LEMMA ReopensSound ==
  ASSUME Sound, Counted, NEW v, Become(v), Reopens(Now, v), UNCHANGED <<evs, db, row>>,
         v.conn["message"] = conn["message"]
           \/ (~v.page.sending /\ conn["message"].pc \notin {"claim", "put", "add"}),
         v.page.sending /\ v.page.timer => page.timer,
         v.conn["empty"] \in {conn["empty"], NoConn} \/ ~Uuid(page.cursor),
         Uuid(page.cursor) /\ ~v.page.sending =>
           page.local = "completed" \/ (used'.faults # 0 /\ v.conn["empty"] = NoConn /\ ~v.page.timer)
  PROVE  RowSound' /\ CursorInv'
  <1>1. /\ Core /\ RowSound /\ MessageSound(conn["message"], page) /\ ListenSound(conn["empty"])
        /\ PageSound(page, conn["empty"], used.faults)
        /\ \A l \in Range(loads) : LoadSound(l, Now)
    BY SoundIs
  <1>2. /\ NoConn.pc = "none" /\ NoConn.pos = 0 /\ NoConn.chan = <<>>
        /\ Range(<<>>) = {} /\ DOMAIN <<>> = {}
        /\ page.cursor \in Nat
        /\ Fresh("open", page.cursor).pos = page.cursor
        /\ Fresh("open", page.cursor).chan = <<>>
    <2>1. page.cursor \in Nat
      BY <1>1, PageIs, CoreIs
    <2> QED
      BY <2>1, FreshIs DEF ConnPcs, Range
  <1>3. Now.page = page /\ Now.conn = conn /\ Now.loads = loads
    BY <1>1, PageIs
  <1>4. /\ v.page.shown = page.shown /\ v.page.cursor = page.cursor
        /\ v.page.epoch = page.epoch /\ v.page.local = page.local
        /\ v.page.sending => page.sending
        /\ v.conn["message"] \in {conn["message"], NoConn}
        /\ v.conn["empty"] \in {conn["empty"], NoConn, Fresh("open", page.cursor)}
        /\ \A l \in Range(v.loads) : l \in Range(loads) \/ ~l.read
    BY <1>3 DEF Reopens
  <1>5. RowSound'
    <2>1. conn' = v.conn
      BY DEF Become
    <2>2. conn["message"].pc \notin {"start", "open"}
      BY <1>1 DEF RowSound
    <2> QED
      BY <1>1, <1>2, <1>4, <2>1, <2>2, SourceKept
  <1>6. MessageSound(v.conn["message"], v.page)
    BY <1>1, <1>2, <1>4 DEF MessageSound
  <1>7. ListenSound(v.conn["empty"])
    <2>1. ~Uuid(0)
      BY DEF Uuid
    <2> QED
      BY <1>1, <1>2, <1>4, <2>1 DEF ListenSound
  <1>8. PageSound(v.page, v.conn["empty"], used'.faults)
    BY <1>1, <1>4 DEF PageSound
  <1>9. \A l \in Range(v.loads) : LoadSound(l, v)
    BY <1>1, <1>3, <1>4 DEF LoadSound, Applies
  <1> QED
    BY <1>5, <1>6, <1>7, <1>8, <1>9, CursorBecomes DEF CursorOf

\* The end of a stream that the page has taken all of.
LEMMA StreamEndsSound ==
  ASSUME Sound, Counted, NEW c \in Streams, StreamEnds(c)
  PROVE  RowSound' /\ CursorInv'
  <1>1. /\ conn[c].pc = "end" /\ conn[c].chan = <<>> /\ UNCHANGED <<evs, db, row>> /\ used' = used
    BY DEF StreamEnds, server
  <1>2. /\ Core /\ LoadsInv /\ MessageSound(conn["message"], page)
        /\ PageSound(page, conn["empty"], used.faults) /\ Now \in Views
        /\ NoConn.pc = "none" /\ Range(<<>>) = {} /\ Now.page = page
    BY SoundIs, PageIs DEF Range
  <1>3. CASE c = "message"
    <2> DEFINE v == ReconcileRunStreamEnd(Now)
    <2>1. conn["message"].pc = "end" /\ conn["message"].chan = <<>> /\ conn["message"] # NoConn
      BY <1>1, <1>2, <1>3
    <2>2. /\ Reopens(Now, v) /\ v.conn["message"] = NoConn /\ v.conn["empty"] = conn["empty"]
          /\ ~v.page.sending /\ Become(v)
      BY <1>2, <1>3, <2>1, MessageReopens DEF StreamEnds
    <2>3. v.page.timer = page.timer
      <3>1. v.page = [page EXCEPT !.sending = FALSE] /\ page \in Pages
        BY <1>2, PageIs, RunStreamEndIs
      <3> HIDE DEF v
      <3> QED
        BY <3>1 DEF Pages
    <2>4. ~Foretold(conn["message"], page.shown)
      BY <1>2, <2>1 DEF Foretold
    <2>5. Uuid(page.cursor) => page.local = "completed"
                               \/ (used.faults # 0 /\ conn["empty"] = NoConn /\ ~page.timer)
      BY <1>2, <2>4 DEF MessageSound, PageSound
    <2> HIDE DEF v
    <2> QED
      BY <1>1, <2>1, <2>2, <2>3, <2>5, ReopensSound
  <1>4. CASE c = "empty"
    <2> DEFINE v == EmptyStreamEnd(Now)
    <2>1. conn["empty"] # NoConn
      BY <1>1, <1>2, <1>4
    <2>2. ~page.sending
      BY <1>2, <2>1, ListensIs
    <2>3. Reopens(Now, v) /\ v.conn["message"] = conn["message"] /\ v.page = page /\ Become(v)
      BY <1>2, <1>4, <2>1, <2>2, EmptyReopens DEF StreamEnds
    <2>4. v.conn["empty"] = NoConn
      <3>1. v.conn = [conn EXCEPT !["empty"] = NoConn] /\ conn \in [Streams -> Conns]
        BY <1>2, PageIs, EmptyStreamEndIs
      <3> HIDE DEF v
      <3> QED
        BY <3>1 DEF Streams
    <2>5. Uuid(page.cursor) => page.local = "completed" \/ (used.faults # 0 /\ ~page.timer)
      BY <1>2, <2>2 DEF PageSound
    <2> HIDE DEF v
    <2> QED
      BY <1>1, <2>2, <2>3, <2>4, <2>5, ReopensSound
  <1> QED
    BY <1>3, <1>4 DEF Streams

\* The message stream is lost, if there is one, and then the listening one.
LEMMA LostSound ==
  ASSUME Sound, Counted, used'.faults # used.faults, UNCHANGED <<evs, db, row>>, NEW w, NEW v,
         \/ w = Now
         \/ w = ReconcileRunStreamEnd(Now) /\ conn["message"] # NoConn /\ Untouched,
         v = w \/ v = Broken(w), Become(v)
  PROVE  RowSound' /\ CursorInv'
  <1>1. /\ Core /\ LoadsInv /\ PageSound(page, conn["empty"], used.faults) /\ Now \in Views
        /\ NoConn.pc = "none" /\ Now.page = page /\ Now.conn = conn /\ used.faults \in Nat
        /\ page \in Pages /\ conn \in [Streams -> Conns]
        /\ page.sending => conn["empty"] = NoConn
    BY SoundIs, PageIs DEF Streams
  <1>2. used'.faults # 0
    BY <1>1 DEF Counted
  <1>3. /\ w \in Views /\ Reopens(Now, w) /\ w.conn["empty"] = conn["empty"]
        /\ w.page.timer = page.timer /\ w.page.local = page.local /\ w.page.cursor = page.cursor
        /\ w.page.sending => page.sending
        /\ w.conn["message"] = conn["message"]
           \/ (~w.page.sending /\ conn["message"].pc \notin {"claim", "put", "add"})
    <2>1. CASE w = Now
      BY <1>1, <2>1, NowReopens
    <2>2. CASE w = ReconcileRunStreamEnd(Now) /\ conn["message"] # NoConn /\ Untouched
      <3>1. /\ Reopens(Now, w) /\ w.conn["message"] = NoConn /\ w.conn["empty"] = conn["empty"]
            /\ ~w.page.sending /\ w \in Views
        BY <1>1, <2>2, MessageReopens
      <3>2. w.page = [page EXCEPT !.sending = FALSE]
        BY <1>1, <2>2, RunStreamEndIs
      <3>3. w.page.timer = page.timer /\ w.page.local = page.local /\ w.page.cursor = page.cursor
        BY <1>1, <3>2 DEF Pages
      <3> QED
        BY <2>2, <3>1, <3>3 DEF Untouched
    <2> QED
      BY <2>1, <2>2
  <1>4. Uuid(page.cursor) /\ ~w.page.sending =>
          page.local = "completed" \/ (conn["empty"] = NoConn /\ ~page.timer)
    BY <1>1 DEF PageSound
  <1>5. CASE v = w
    BY <1>2, <1>3, <1>4, <1>5, ReopensSound
  <1>6. CASE v = Broken(w)
    <2>1. w.conn["empty"].pc = "none" => w.conn["empty"] = NoConn
      BY <1>1, <1>3, PageIs DEF Streams
    <2>2. /\ Reopens(Now, v) /\ v.conn["message"] = w.conn["message"]
          /\ v.page.sending = w.page.sending
      BY <1>1, <1>3, <1>6, BrokenReopens
    <2>3. v.conn["empty"] = NoConn
      <3>1. v.conn = [w.conn EXCEPT !["empty"] = NoConn] /\ w.conn \in [Streams -> Conns]
        BY <1>3, <1>6, <2>1, BrokenIs DEF Views
      <3> QED
        BY <3>1 DEF Streams
    <2>4. w.conn["empty"] = NoConn => v = w
      BY <1>1, <1>6 DEF Broken
    <2>5. v.page.sending => v.page.timer = page.timer
      BY <1>1, <1>3, <2>2, <2>4
    <2>6. Uuid(page.cursor) /\ ~v.page.sending => page.local = "completed" \/ ~v.page.timer
      BY <1>3, <1>4, <2>2, <2>4
    <2> QED
      BY <1>2, <1>3, <2>2, <2>3, <2>5, <2>6, ReopensSound
  <1> QED
    BY <1>5, <1>6

LEMMA DropsSound ==
  ASSUME Sound, Counted, DropMessage \/ DropEmpty \/ Crash
  PROVE  RowSound' /\ CursorInv'
  <1>1. used'.faults # used.faults
    <2>1. used \in [steps : 0..MaxSteps, queues : 0..MaxQueues, faults : 0..MaxFaults,
                    crashed : BOOLEAN] /\ used.faults \in Nat
      BY SoundIs DEF UsedType
    <2>2. CASE used' = [used EXCEPT !.faults = @ + 1]
      BY <2>1, <2>2
    <2>3. CASE used' = [used EXCEPT !.faults = @ + 1, !.crashed = TRUE]
      <3> DEFINE x == [used EXCEPT !.faults = @ + 1]
      <3>1. used' = [x EXCEPT !.crashed = TRUE]
        BY <2>3, Zenon
      <3>2. x.faults = used.faults + 1 /\ DOMAIN x = DOMAIN used
        BY <2>1
      <3> HIDE DEF x
      <3>3. used'.faults = x.faults
        BY <2>1, <3>1, <3>2
      <3> QED
        BY <2>1, <3>2, <3>3
    <2> QED
      BY <2>2, <2>3 DEF DropMessage, DropEmpty, Crash
  <1>2. UNCHANGED <<evs, db, row>>
    BY DEF DropMessage, DropEmpty, Crash, server
  <1>3. CASE DropMessage
    BY <1>1, <1>2, <1>3, LostSound DEF DropMessage
  <1>4. CASE DropEmpty
    BY <1>1, <1>2, <1>4, LostSound DEF DropEmpty
  <1>5. CASE Crash
    <2> DEFINE w == IF conn["message"] = NoConn THEN Now ELSE ReconcileRunStreamEnd(Now)
    <2>1. Become(Broken(w)) /\ Untouched
      BY <1>5 DEF Crash
    <2> QED
      BY <1>1, <1>2, <2>1, LostSound
  <1> QED
    BY <1>3, <1>4, <1>5

\* The timer of a page that listens from an event of the API is off.
LEMMA TimerSound ==
  ASSUME Sound, Counted, ReconnectTimer
  PROVE  RowSound' /\ CursorInv'
  <1>1. PICK v : /\ Become(v) /\ Reopens(Now, v) /\ v.conn["message"] = conn["message"]
                 /\ v.page.sending = page.sending /\ ~v.page.timer
                 /\ v.conn["empty"] = conn["empty"] \/ (page.local # "completed" /\ ~page.sending)
    BY TimerReopens DEF Sound
  <1>2. UNCHANGED <<evs, db, row>> /\ page.timer
    BY DEF ReconnectTimer, server
  <1>3. PageSound(page, conn["empty"], used.faults)
    BY SoundIs
  <1>4. Uuid(page.cursor) /\ ~page.sending => page.local = "completed"
    BY <1>2, <1>3 DEF PageSound
  <1> QED
    BY <1>1, <1>2, <1>4, ReopensSound

\* A snapshot that is lost is the first fault: the page has an id to listen from.
LEMMA UnappliedSound ==
  ASSUME Sound, Counted, NEW i \in DOMAIN loads,
         LoadFails(i) \/ (LoadApply(i) /\ ~CanApply(loads[i]))
  PROVE  RowSound' /\ CursorInv'
  <1>0. /\ Core /\ UsedType /\ PageSound(page, conn["empty"], used.faults) /\ used.faults \in Nat
        /\ Gapless
    BY SoundIs DEF Sound
  <1>1. UNCHANGED <<evs, db, row>>
    BY DEF LoadFails, LoadApply, server
  <1>2. CASE LoadFails(i)
    <2>1. loads[i].kind # "mount"
          /\ Become(Continued([Now EXCEPT !.loads = RemoveAt(@, i)], loads[i]))
      BY <1>2 DEF LoadFails
    <2>2. PICK v : /\ Become(v) /\ Reopens(Now, v) /\ v.conn["message"] = conn["message"]
                   /\ v.page.sending = page.sending
                   /\ v.page.sending /\ v.page.timer => page.timer
                   /\ \/ v.page = page /\ v.conn = conn
                      \/ CanApply(loads[i]) /\ (v.conn["empty"] = conn["empty"]
                                                \/ (page.local = "running" /\ ~page.sending))
      BY <1>0, <2>1, UnappliedReopens
    <2>3. used'.faults = used.faults + 1
      BY <1>0, <1>2 DEF LoadFails, UsedType
    <2>4. used.faults = 0
      BY <1>0, <2>3 DEF Counted
    <2>5. Uuid(page.cursor) /\ ~page.sending => page.local = "completed"
      BY <1>0, <2>4 DEF PageSound
    <2> QED
      BY <1>1, <2>2, <2>5, ReopensSound
  <1>3. CASE LoadApply(i) /\ ~CanApply(loads[i])
    <2>1. loads[i].kind # "mount"
      BY <1>0, <1>3, UnappliedKind
    <2>2. Become(Continued([Now EXCEPT !.loads = RemoveAt(@, i)], loads[i]))
      BY <1>3 DEF LoadApply
    <2>3. PICK v : /\ Become(v) /\ Reopens(Now, v) /\ v.page = page /\ v.conn = conn
      BY <1>0, <1>3, <2>1, <2>2, UnappliedReopens
    <2>4. used'.faults = used.faults
      BY <1>3 DEF LoadApply
    <2> QED
      BY <1>0, <1>1, <2>3, <2>4, ReopensSound DEF PageSound
  <1> QED
    BY <1>2, <1>3

\* The cursor of a page that applies a log is its last event.
LEMMA AppliedSound ==
  ASSUME Sound, Counted, NEW i \in DOMAIN loads, LoadApply(i), CanApply(loads[i])
  PROVE  RowSound' /\ CursorInv'
  <1> DEFINE l == loads[i]
  <1>1. /\ Core /\ LoadsInv /\ RowSound /\ StreamInv /\ Now.page = page /\ Now.loads = loads
        /\ page.cursor \in 0..Len(evs) /\ Len(evs) \in Nat
        /\ \A x \in Range(loads) : LoadSound(x, Now)
    BY SoundIs, PageIs, CoreIs
  <1>2. PICK v :
           /\ Become(v) /\ UNCHANGED <<evs, db, row, runner, hand>> /\ used' = used
           /\ v \in Views /\ l.read /\ l \in Range(loads) /\ Applies(l, Now) /\ ~page.sending
           /\ v.page.shown = Range(l.log) /\ v.page.cursor \in Nat /\ v.page.epoch = page.epoch
           /\ v.page.cursor = IF l.log = <<>> THEN page.cursor ELSE Last(l.log)
           /\ v.page.sending = page.sending /\ v.page.local = l.status
           /\ v.conn["message"] = conn["message"]
           /\ v.conn["empty"] \in {NoConn, Fresh("open", v.page.cursor)}
           /\ l.status = "completed" => v.conn["empty"] = NoConn
           /\ Range(v.loads) \subseteq Range(loads)
    BY AppliedIs DEF Sound
  <1> HIDE DEF l
  <1>3. l.status # "completed" => ~Uuid(v.page.cursor)
    <2>1. CASE l.log = <<>>
      <3>1. row.task = 0
        BY <1>1, <1>2, <2>1 DEF LoadsInv
      <3>2. evs = <<>> /\ Len(<<>>) = 0
        BY <1>1, <3>1 DEF RowSound
      <3>3. page.cursor = 0
        BY <1>1, <3>2
      <3> QED
        BY <1>2, <2>1, <3>3 DEF Uuid
    <2>2. CASE l.log # <<>>
      BY <1>1, <1>2, <2>2 DEF LoadSound
    <2> QED
      BY <2>1, <2>2
  <1>4. conn["message"].chan = <<>> /\ Range(<<>>) = {}
    BY <1>1, <1>2, SentIs DEF Range
  <1>5. MessageSound(v.conn["message"], v.page)
    BY <1>2, <1>4 DEF MessageSound
  <1>6. ListenSound(v.conn["empty"])
    <2>1. /\ NoConn.pos = 0 /\ NoConn.chan = <<>>
          /\ Fresh("open", v.page.cursor).pos = v.page.cursor
          /\ Fresh("open", v.page.cursor).chan = <<>>
      BY <1>2, FreshIs DEF ConnPcs
    <2>2. ~Uuid(0)
      BY DEF Uuid
    <2> QED
      BY <1>2, <1>3, <1>4, <2>1, <2>2 DEF ListenSound
  <1>7. PageSound(v.page, v.conn["empty"], used'.faults)
    BY <1>2, <1>3 DEF PageSound
  <1>8. \A x \in Range(v.loads) : LoadSound(x, v)
    BY <1>1, <1>2 DEF LoadSound, Applies
  <1>9. RowSound'
    <2>1. conn'["message"] = conn["message"]
      BY <1>2 DEF Become
    <2> QED
      BY <1>1, <1>2, <2>1, SourceKept DEF RowSound
  <1> QED
    BY <1>2, <1>5, <1>6, <1>7, <1>8, <1>9, CursorBecomes DEF CursorOf

\* What a snapshot reads is the log, and it will be applied when nothing runs.
LEMMA ReadSound ==
  ASSUME Sound, Counted, NEW i \in DOMAIN loads, LoadRead(i)
  PROVE  RowSound' /\ CursorInv'
  <1> DEFINE l == loads[i]
             k == [l EXCEPT !.read = TRUE, !.status = row.status,
                            !.next = row.next # "none", !.log = db]
             s == [loads EXCEPT ![i] = k]
             v == [page |-> page, conn |-> conn, loads |-> s]
  <1>1. /\ Core /\ LoadsInv /\ RowSound /\ StreamInv /\ Now.page = page /\ Now.loads = loads
        /\ MessageSound(conn["message"], page) /\ ListenSound(conn["empty"])
        /\ PageSound(page, conn["empty"], used.faults)
        /\ \A x \in Range(loads) : LoadSound(x, Now)
    BY SoundIs, PageIs
  <1>2. UNCHANGED <<evs, db, row, runner, hand, page, conn>> /\ used' = used
    BY DEF LoadRead, server
  <1>3. loads \in Seq(Loads) /\ l \in Loads /\ l \in Range(loads)
    BY <1>1, LoadGone, PageIs
  <1>4. loads' = s
    <2>1. loads' = [loads EXCEPT ![i].read = TRUE, ![i].status = row.status,
                                 ![i].next = row.next # "none", ![i].log = db]
      BY DEF LoadRead
    <2> QED
      BY <2>1, Zenon
  <1>5. k.epoch = l.epoch /\ k.log = db /\ k.status = row.status
    <2>1. \A x \in Loads : \A st, b, g :
            LET y == [x EXCEPT !.read = TRUE, !.status = st, !.next = b, !.log = g] IN
            y.epoch = x.epoch /\ y.log = g /\ y.status = st
      BY DEF Loads
    <2> QED
      BY <1>3, <2>1
  <1> HIDE DEF l, k
  <1>6. \A x \in Range(s) : x \in Range(loads) \/ x = k
    BY <1>3 DEF Range
  <1> HIDE DEF s
  <1>7. Become(v) /\ v.page = page /\ v.conn = conn /\ v.loads = s
    BY <1>2, <1>4 DEF Become
  <1> HIDE DEF v
  <1>8. LoadSound(k, v)
    <2>1. ASSUME Applies(k, v), row.status # "completed", db # <<>>
          PROVE  ~Uuid(Last(db))
      <3>1. ~page.sending
        BY <1>1, <1>3, <1>5, <1>7, <2>1 DEF LoadsInv, Applies
      <3>2. conn["message"].pc \in {"none", "end"}
        BY <1>1, <3>1, SentIs
      <3> QED
        BY <1>1, <2>1, <3>2 DEF RowSound
    <2> QED
      BY <1>5, <2>1 DEF LoadSound
  <1>9. \A x \in Range(v.loads) : LoadSound(x, v)
    BY <1>1, <1>6, <1>7, <1>8 DEF LoadSound, Applies
  <1>10. CursorOf(v, used'.faults)
    BY <1>1, <1>2, <1>7, <1>9 DEF CursorOf
  <1>11. RowSound'
    BY <1>1, <1>2, SourceKept DEF RowSound
  <1> QED
    BY <1>2, <1>7, <1>10, <1>11, CursorBecomes

\* The stream after its first event: what the API made has gone with it.
LEMMA MessageTaken ==
  ASSUME Core, conn["message"].chan # <<>>, NEW e, e = Head(conn["message"].chan),
         MessageSound(conn["message"], page), NEW p, page.sending,
         p.shown = page.shown \cup {e}, p.cursor = IF e \in page.shown THEN page.cursor ELSE e
  PROVE  MessageSound(Took1("message"), p)
  <1> DEFINE m == conn["message"]
             k == Took1("message")
  <1>1. /\ k.pc = m.pc /\ k.chan = Tail(m.chan) /\ e = m.chan[1] /\ 1 \in DOMAIN m.chan
        /\ \A i \in DOMAIN k.chan : /\ i \in Nat /\ i + 1 \in DOMAIN m.chan
                                    /\ k.chan[i] = m.chan[i + 1]
        /\ Range(k.chan) \subseteq Range(m.chan)
    BY Took1Is DEF Core, Streams
  <1>2. m.chan \in Seq(Nat) /\ m.chan # <<>>
    BY CoreIs DEF Conns
  <1>3. \A x \in Range(m.chan) : x = e \/ x \in Range(k.chan)
    <2>1. \A i \in DOMAIN m.chan : i = 1 \/ (i - 1 \in DOMAIN k.chan /\ k.chan[i - 1] = m.chan[i])
      <3> DEFINE t == Tail(m.chan)
                 s == m.chan
      <3>1. s \in Seq(Nat) /\ t \in Seq(Nat) /\ Len(t) = Len(s) - 1
        BY <1>2, TailIs
      <3>2. k.chan = t /\ \A i \in DOMAIN t : i + 1 \in DOMAIN s /\ t[i] = s[i + 1]
        BY <1>1
      <3> HIDE DEF t, s
      <3>3. \A i \in DOMAIN s : i = 1 \/ (i - 1 \in DOMAIN t /\ (i - 1) + 1 = i)
        BY <3>1
      <3>4. \A i \in DOMAIN s : i = 1 \/ (i - 1 \in DOMAIN t /\ t[i - 1] = s[i])
        BY <3>2, <3>3
      <3> QED
        BY <3>2, <3>4 DEF s
    <2> QED
      BY <1>1, <2>1 DEF Range
  <1> HIDE DEF k, m
  <1>4. m.pc # "resolved" /\ MessageSound(m, page)
    BY <1>2 DEF MessageSound, m
  <1>5. \A x \in Range(k.chan) : ~Uuid(x)
    <2>1. \A i \in DOMAIN k.chan : i \in Nat /\ ~Uuid(m.chan[i + 1])
      BY <1>1, <1>4 DEF MessageSound
    <2> QED
      BY <1>1, <2>1 DEF Range
  <1>6. ASSUME Uuid(p.cursor)
        PROVE  Foretold(k, p.shown)
    <2>1. Foretold(m, page.shown)
      <3>1. e \in Range(m.chan)
        BY <1>1 DEF Range
      <3> QED
        BY <1>4, <1>6, <3>1 DEF MessageSound
    <2>2. CASE m.pc \in {"resolved", "claim", "put"}
      BY <1>1, <2>2 DEF Foretold
    <2>3. CASE \E x \in Range(m.chan) : ~Uuid(x) /\ x \notin page.shown
      <3>1. PICK x \in Range(m.chan) : ~Uuid(x) /\ x \notin page.shown
        BY <2>3
      <3>2. x # e
        BY <1>6, <3>1
      <3> QED
        BY <1>3, <3>1, <3>2 DEF Foretold
    <2> QED
      BY <2>1, <2>2, <2>3 DEF Foretold
  <1>7. \A i \in DOMAIN k.chan : ~Uuid(k.chan[i])
    BY <1>5 DEF Range
  <1> QED
    BY <1>1, <1>4, <1>5, <1>6, <1>7 DEF MessageSound, k

\* The page takes an event of the API's for its cursor only while the run's
\* message is behind it, or when the session is completed.
LEMMA ReceiveSound ==
  ASSUME Sound, Counted, NEW c \in Streams, Receive(c)
  PROVE  RowSound' /\ CursorInv'
  <1> DEFINE e == Head(conn[c].chan)
  <1>1. /\ Core /\ StreamInv /\ RowSound /\ Now.page = page /\ Now.loads = loads
        /\ MessageSound(conn["message"], page) /\ ListenSound(conn["empty"])
        /\ PageSound(page, conn["empty"], used.faults)
        /\ \A l \in Range(loads) : LoadSound(l, Now)
    BY SoundIs, PageIs
  <1>2. /\ conn[c].chan # <<>> /\ UNCHANGED <<evs, db, row, runner, hand>> /\ used' = used
        /\ conn[c] # NoConn /\ (page.sending => c = "message")
        /\ e \in Nat /\ e \in Range(conn[c].chan) /\ e = conn[c].chan[1]
        /\ c = "message" /\ evs[e].kind \in {"done", "error"} =>
             conn["message"].pc = "end" /\ conn["message"].chan = <<e>>
    BY <1>1, ReceivedIs
  <1>3. PICK v :
          /\ Become(v) /\ v.loads = loads /\ v.page.epoch = page.epoch /\ ~v.page.timer
          /\ v.page.shown = page.shown \cup {e}
          /\ v.page.cursor = IF e \in page.shown THEN page.cursor ELSE e
          /\ v.page.sending => page.sending
          /\ evs[e].kind \notin {"done", "error"} => v.page.sending = page.sending
          /\ IF e \in page.shown
             THEN v.page.local = page.local
             ELSE evs[e].kind \in {"done", "error"} =>
                    v.page.local = "completed" /\ ~v.page.sending /\ v.conn["empty"] = NoConn
          /\ evs[e].kind = "error" /\ e \in page.shown => v.page.sending = page.sending
          /\ \/ v.conn["message"] = NoConn /\ c = "message" /\ evs[e].kind = "done"
             \/ v.conn["message"] = IF c = "message" THEN Took1(c) ELSE conn["message"]
          /\ evs[e].kind # "done" =>
               v.conn["message"] = IF c = "message" THEN Took1(c) ELSE conn["message"]
          /\ \/ v.conn["empty"] = IF c = "empty" THEN Took1(c) ELSE conn["empty"]
             \/ c = "empty" /\ e \notin page.shown
                  /\ v.conn["empty"] \in {NoConn, Fresh("open", e)}
    BY <1>1, ReceivedIs
  <1>4. /\ NoConn.pc = "none" /\ NoConn.pos = 0 /\ NoConn.chan = <<>>
        /\ Range(<<>>) = {} /\ DOMAIN <<>> = {}
        /\ Fresh("open", e).pos = e /\ Fresh("open", e).chan = <<>> /\ ~Uuid(0)
    BY <1>2, FreshIs DEF ConnPcs, Range, Uuid
  <1>5. /\ Took1(c).pc = conn[c].pc /\ Took1(c).pos = conn[c].pos
        /\ Range(Took1(c).chan) \subseteq Range(conn[c].chan)
    BY <1>1, <1>2, Took1Is DEF Core
  <1>6. c = "message" => page.sending /\ conn["empty"] = NoConn
    BY <1>1, <1>2, PageIs DEF Streams
  <1> HIDE DEF e
  <1>7. MessageSound(v.conn["message"], v.page)
    <2>1. CASE c = "message" /\ v.conn["message"] = Took1("message")
      <3>1. MessageSound(Took1("message"), v.page)
        BY <1>1, <1>2, <1>3, <1>6, <2>1, MessageTaken DEF e
      <3> QED
        BY <2>1, <3>1
    <2>2. CASE c = "message" /\ v.conn["message"] = NoConn /\ evs[e].kind = "done"
      <3>1. ~v.page.sending \/ e \in page.shown
        BY <1>3, <2>2
      <3>2. e \in page.shown => ~Uuid(page.cursor)
        <4>1. /\ conn["message"].pc = "end" /\ Range(<<e>>) = {e}
              /\ Range(conn["message"].chan) = {e}
          BY <1>2, <2>2 DEF Range
        <4>2. e \in page.shown => ~Foretold(conn["message"], page.shown)
          BY <4>1 DEF Foretold
        <4> QED
          BY <1>1, <1>6, <2>2, <4>2 DEF MessageSound
      <3>3. ~(v.page.sending /\ Uuid(v.page.cursor))
        BY <1>3, <3>1, <3>2
      <3> QED
        BY <1>4, <2>2, <3>3 DEF MessageSound
    <2>3. CASE c = "empty"
      <3>1. ~page.sending /\ v.conn["message"] = conn["message"] /\ ~v.page.sending
        BY <1>2, <1>3, <2>3
      <3>2. conn["message"].chan = <<>>
        BY <1>1, <3>1, SentIs
      <3> QED
        BY <1>4, <3>1, <3>2 DEF MessageSound
    <2> QED
      BY <1>3, <2>1, <2>2, <2>3 DEF Streams
  <1>8. c = "empty" /\ Uuid(e) => evs[e].kind = "error"
    BY <1>1, <1>2 DEF ListenSound
  <1>9. ListenSound(v.conn["empty"])
    <2>1. CASE v.conn["empty"] = IF c = "empty" THEN Took1(c) ELSE conn["empty"]
      <3>1. CASE c = "empty"
        BY <1>1, <1>5, <2>1, <3>1 DEF ListenSound
      <3>2. CASE c # "empty"
        BY <1>1, <2>1, <3>2
      <3> QED
        BY <3>1, <3>2
    <2>2. CASE c = "empty" /\ e \notin page.shown /\ v.conn["empty"] \in {NoConn, Fresh("open", e)}
      <3>1. v.conn["empty"] = NoConn \/ (v.conn["empty"] = Fresh("open", e) /\ ~Uuid(e))
        BY <1>3, <1>8, <2>2
      <3> QED
        BY <1>4, <3>1 DEF ListenSound
    <2> QED
      BY <1>3, <2>1, <2>2
  <1>10. PageSound(v.page, v.conn["empty"], used'.faults)
    <2>1. ASSUME Uuid(v.page.cursor), ~v.page.sending
          PROVE  v.page.local = "completed"
      <3>1. CASE c = "message" /\ e \in page.shown
        <4>1. evs[e].kind = "done"
          BY <1>3, <1>6, <2>1, <3>1
        <4>2. /\ conn["message"].pc = "end" /\ Range(<<e>>) = {e}
              /\ Range(conn["message"].chan) = {e}
          BY <1>2, <3>1, <4>1 DEF Range
        <4>3. ~Foretold(conn["message"], page.shown)
          BY <3>1, <4>2 DEF Foretold
        <4> QED
          BY <1>1, <1>3, <1>6, <2>1, <3>1, <4>3 DEF MessageSound
      <3>2. CASE c = "message" /\ e \notin page.shown
        BY <1>3, <1>6, <2>1, <3>2
      <3>3. CASE c = "empty" /\ e \in page.shown
        BY <1>1, <1>2, <1>3, <2>1, <3>3 DEF PageSound
      <3>4. CASE c = "empty" /\ e \notin page.shown
        BY <1>3, <1>8, <2>1, <3>4
      <3> QED
        BY <3>1, <3>2, <3>3, <3>4 DEF Streams
    <2> QED
      BY <1>3, <2>1 DEF PageSound
  <1>11. \A l \in Range(v.loads) : LoadSound(l, v)
    BY <1>1, <1>3 DEF LoadSound, Applies
  <1>12. RowSound'
    <2>1. conn' = v.conn
      BY <1>3 DEF Become
    <2>2. \/ v.conn["message"].pc = conn["message"].pc
          \/ v.conn["message"].pc = "none" /\ conn["message"].pc = "end"
      BY <1>2, <1>3, <1>4, <1>5
    <2> QED
      BY <1>1, <1>2, <2>1, <2>2, SourceKept DEF RowSound
  <1> QED
    BY <1>2, <1>3, <1>7, <1>9, <1>10, <1>11, <1>12, CursorBecomes DEF CursorOf

\* A run that the page opens: what the API makes for it comes before its message.
LEMMA OpensSound ==
  ASSUME Sound, MayRun, NEW at \in {"claim", "resolved"},
         Become(OpenRunStream(Now, at)), UNCHANGED <<server, used>>, page.local # "none",
         at = "resolved" => row.status = "waiting"
  PROVE  RowSound' /\ CursorInv'
  <1> DEFINE v == OpenRunStream(Now, at)
  <1>1. /\ Core /\ LoadsInv /\ RowSound /\ Now \in Views /\ Now.page = page /\ Now.loads = loads
    BY SoundIs, PageIs
  <1>2. /\ v.loads = loads /\ v.page.sending /\ v.page.epoch = page.epoch + 1 /\ ~v.page.timer
        /\ v.page.cursor = page.cursor
        /\ v.conn["message"] = Fresh(at, 0) /\ v.conn["empty"] = NoConn
    BY <1>1, OpenIs
  <1>3. Become(v) /\ UNCHANGED <<evs, db, row>> /\ used' = used
    BY DEF server
  <1> HIDE DEF v
  <1>4. /\ Fresh(at, 0).pc = at /\ Fresh(at, 0).chan = <<>> /\ Range(<<>>) = {} /\ DOMAIN <<>> = {}
        /\ NoConn.pos = 0 /\ NoConn.chan = <<>>
    BY FreshIs DEF ConnPcs, Range
  <1>5. MessageSound(v.conn["message"], v.page)
    BY <1>2, <1>4 DEF MessageSound, Foretold
  <1>6. ListenSound(v.conn["empty"]) /\ PageSound(v.page, v.conn["empty"], used'.faults)
    BY <1>2, <1>4 DEF ListenSound, PageSound, Uuid
  <1>7. \A l \in Range(v.loads) : LoadSound(l, v)
    BY <1>1, <1>2, OlderLoads DEF LoadSound
  <1>8. RowSound'
    <2>1. conn' = v.conn /\ conn["message"].pc \notin {"claim", "put", "add"}
      BY <1>3 DEF Become, MayRun, Untouched
    <2>2. at = "resolved" => row.task # 0
      BY SoundIs DEF TurnInv
    <2> QED
      BY <1>1, <1>2, <1>3, <1>4, <2>1, <2>2, SourceKept
  <1> QED
    BY <1>3, <1>5, <1>6, <1>7, <1>8, CursorBecomes DEF CursorOf

LEMMA UserOpensSound ==
  ASSUME Sound, Send \/ ResolveInteraction \/ RunNextMessage
  PROVE  RowSound' /\ CursorInv'
  <1>1. CASE Send
    BY <1>1, OpensSound DEF Send
  <1>2. CASE ResolveInteraction
    BY <1>2, OpensSound DEF ResolveInteraction
  <1>3. ~RunNextMessage
    BY DEF RunNextMessage, Sound, RowSound
  <1> QED
    BY <1>1, <1>2, <1>3

\* A page that is loaded anew has no cursor.
LEMMA ReloadSound ==
  ASSUME Sound, Reload
  PROVE  RowSound' /\ CursorInv'
  <1> DEFINE l == Load("mount", 0)
             v == [page |-> NewPage, conn |-> [c \in DOMAIN conn |-> NoConn], loads |-> <<l>>]
  <1>1. Core /\ RowSound
    BY SoundIs
  <1>2. /\ UNCHANGED <<evs, db, row>> /\ Become(v) /\ conn' = v.conn
        /\ conn["message"].pc \notin {"claim", "put", "add"}
    BY DEF server, Reload, Become, Untouched
  <1>3. ~l.read /\ Range(<<l>>) = {l}
    <2>1. ~l.read
      BY DEF Load
    <2> HIDE DEF l
    <2> QED
      BY <2>1 DEF Range
  <1> HIDE DEF l
  <1>4. /\ v.page.cursor = 0 /\ ~v.page.sending /\ v.loads = <<l>>
        /\ v.conn["message"] = NoConn /\ v.conn["empty"] = NoConn
    BY <1>1, PageIs DEF NewPage, Streams
  <1> HIDE DEF v
  <1>5. /\ NoConn.pc = "none" /\ NoConn.pos = 0 /\ NoConn.chan = <<>>
        /\ Range(<<>>) = {} /\ DOMAIN <<>> = {} /\ ~Uuid(0)
    BY FreshIs DEF ConnPcs, Range, Uuid
  <1>6. /\ MessageSound(v.conn["message"], v.page) /\ ListenSound(v.conn["empty"])
        /\ PageSound(v.page, v.conn["empty"], used'.faults)
    BY <1>4, <1>5 DEF MessageSound, ListenSound, PageSound
  <1>7. \A x \in Range(v.loads) : LoadSound(x, v)
    BY <1>3, <1>4 DEF LoadSound
  <1>8. RowSound'
    BY <1>1, <1>2, <1>4, <1>5, SourceKept
  <1> QED
    BY <1>2, <1>6, <1>7, <1>8, CursorBecomes DEF CursorOf

\* An id stays what it was.
LEMMA UuidKept ==
  ASSUME Core, Grown, NEW p \in 0..Len(evs)
  PROVE  /\ Uuid(p)' <=> Uuid(p)
         /\ p # 0 => p \in DOMAIN evs /\ evs'[p] = evs[p]
  <1>1. p # 0 => p \in DOMAIN evs
    BY CoreIs
  <1> QED
    BY <1>1 DEF Uuid, Grown

LEMMA MessageHeld ==
  ASSUME Sound, Grown, NEW m, m = conn["message"], NEW p, p = page
  PROVE  MessageSound(m, p)'
  <1>1. /\ Core /\ MessageSound(m, p) /\ p.cursor \in 0..Len(evs) /\ m.chan \in Seq(Nat)
        /\ Range(m.chan) \subseteq DOMAIN evs /\ DOMAIN evs \subseteq 0..Len(evs)
    BY SoundIs, PageIs, CoreIs DEF Streams, Conns
  <1>2. \A e \in Range(m.chan) : (Uuid(e)' <=> Uuid(e)) /\ evs'[e] = evs[e]
    BY <1>1, UuidKept DEF Grown
  <1>3. Uuid(p.cursor)' <=> Uuid(p.cursor)
    BY <1>1, UuidKept
  <1>4. \A i \in DOMAIN m.chan : m.chan[i] \in Range(m.chan)
    BY DEF Range
  <1>5. Foretold(m, p.shown)' <=> Foretold(m, p.shown)
    BY <1>2 DEF Foretold
  <1>6. \A i \in DOMAIN m.chan :
          (Uuid(m.chan[i])' <=> Uuid(m.chan[i])) /\ evs'[m.chan[i]] = evs[m.chan[i]]
    BY <1>2, <1>4
  <1> QED
    BY <1>1, <1>2, <1>3, <1>5, <1>6 DEF MessageSound

LEMMA ListenHeld ==
  ASSUME Sound, Grown, NEW q, q = conn["empty"]
  PROVE  ListenSound(q)'
  <1>1. /\ Core /\ ListenSound(q) /\ q.pos \in 0..Len(evs)
        /\ Range(q.chan) \subseteq DOMAIN evs /\ DOMAIN evs \subseteq 0..Len(evs)
    BY SoundIs, CoreIs DEF Streams
  <1>2. \A e \in Range(q.chan) : (Uuid(e)' <=> Uuid(e)) /\ evs'[e] = evs[e]
    BY <1>1, UuidKept DEF Grown
  <1>3. Uuid(q.pos)' <=> Uuid(q.pos)
    BY <1>1, UuidKept
  <1> QED
    BY <1>1, <1>2, <1>3 DEF ListenSound

\* What the server does leaves the page and its snapshots alone.
LEMMA CursorHeld ==
  ASSUME Sound, Counted, Grown, UNCHANGED <<page, loads>>,
         NEW m, m = conn'["message"], NEW p, p = page, NEW q, q = conn'["empty"],
         MessageSound(m, p)', ListenSound(q)', q = conn["empty"] \/ conn["empty"] # NoConn
  PROVE  CursorInv'
  <1>1. /\ Core /\ PageSound(page, conn["empty"], used.faults) /\ used.faults \in Nat
        /\ page.cursor \in 0..Len(evs) /\ Now.page = page
        /\ \A l \in Range(loads) : LoadSound(l, Now)
    BY SoundIs, PageIs
  <1>2. Uuid(page.cursor)' <=> Uuid(page.cursor)
    <2>1. \A x \in 0..Len(evs) : Uuid(x)' <=> Uuid(x)
      BY <1>1, UuidKept
    <2> QED
      BY <1>1, <2>1 DEF Uuid
  <1>3. used.faults # 0 => used'.faults # 0
    BY <1>1 DEF Counted
  <1>4. PageSound(page, conn["empty"], used.faults)'
    BY <1>1, <1>2, <1>3 DEF PageSound
  <1>5. \A l \in Range(loads) : \A w : w.page = page => LoadSound(l, w)'
    <2> SUFFICES ASSUME NEW l \in Range(loads), NEW w, w.page = page
                 PROVE  LoadSound(l, w)'
      OBVIOUS
    <2>1. PICK i \in DOMAIN loads : l = loads[i]
      BY DEF Range
    <2>2. l.log \in Seq(Nat) /\ Range(l.log) \subseteq DOMAIN evs
      BY <1>1, <2>1, PageIs, CoreIs, LoadGone DEF Loads, ClientTypeOK
    <2>3. l.log # <<>> => Last(l.log) \in Range(l.log)
      <3>1. l.log # <<>> => Len(l.log) \in DOMAIN l.log
        BY <2>2
      <3> QED
        BY <3>1 DEF Last, Range
    <2>4. DOMAIN evs \subseteq 0..Len(evs)
      BY <1>1, CoreIs
    <2>5. l.log # <<>> => (Uuid(Last(l.log))' <=> Uuid(Last(l.log)))
      BY <1>1, <2>2, <2>3, <2>4, UuidKept
    <2> QED
      BY <1>1, <2>5 DEF LoadSound, Applies
  <1>6. \A l \in Range(loads)' : LoadSound(l, Now)'
    <2>1. Range(loads)' = Range(loads) /\ Now'.page = page
      BY DEF Range, Now
    <2> QED
      BY <1>5, <2>1 DEF LoadSound, Applies, Uuid
  <1>7. MessageSound(conn["message"], page)' /\ ListenSound(conn["empty"])'
    BY DEF MessageSound, ListenSound, Foretold, Uuid
  <1> QED
    BY <1>4, <1>6, <1>7 DEF CursorInv, CursorOf, Now

\* What a runner does to the row and the log.
LEMMA RunnerRow ==
  ASSUME Sound, NEW r \in Runs, RunnerStep(r) \/ RunnerRaises(r)
  PROVE  /\ row'.next = "none" /\ row'.task = row.task /\ row.task # 0
         /\ row'.status \in {row.status, "completed"} \/ row.status = "running"
         /\ db' = db \/ (hand[r] \in DOMAIN evs /\ ~Uuid(hand[r]) /\ db' = Append(db, hand[r]))
  <1>1. /\ ServerTypeOK /\ RunInv /\ TurnInv /\ row.next = "none" /\ row \in Rows
        /\ RunnerInv(r) /\ runner \in [Runs -> RunnerPcs]
    BY SoundIs, CoreIs, RunInvIs DEF RowSound
  <1>2. ~At(r, "off")
    BY <1>1, AfterIs DEF RunnerStep, RunnerRaises, FlowSteps, FlowWaits, FlowFails, FinishOrClaim,
                         Puts, Commit, Settle, Ends, At
  <1>3. row.task # 0 /\ (runner[r] \in Active => row.status = "running")
    BY <1>1, <1>2, RunnerOf
  <1>4. row'.next = "none" /\ row'.task = row.task
    BY <1>1 DEF RunnerStep, RunnerRaises, FlowSteps, FlowWaits, FlowFails, FinishOrClaim,
                Puts, Commit, Settle, Ends, Rows
  <1>5. row'.status \in {row.status, "completed"} \/ row.status = "running"
    BY <1>1, <1>3 DEF RunnerStep, RunnerRaises, FlowSteps, FlowWaits, FlowFails, FinishOrClaim,
                      Puts, Commit, Settle, Ends, Rows, Active
  <1>6. runner[r] \in DOMAIN After => hand[r] \in DOMAIN evs /\ ~Uuid(hand[r])
    BY <1>1 DEF RunnerInv, Outs, Uuid
  <1>7. db' = db \/ (runner[r] \in DOMAIN After /\ db' = Append(db, hand[r]))
    BY DEF RunnerStep, RunnerRaises, FlowSteps, FlowWaits, FlowFails, FinishOrClaim,
           Puts, Commit, Settle, Ends
  <1> QED
    BY <1>3, <1>4, <1>5, <1>6, <1>7

LEMMA LastIs ==
  ASSUME NEW s \in Seq(Nat), NEW e \in Nat
  PROVE  /\ s # <<>> => Last(s) \in Range(s)
         /\ Append(s, e) # <<>> /\ Last(Append(s, e)) = e
  BY DEF Last, Range

\* The listening stream, and what a message stream waits for, are left alone.
LEMMA RunnerSound ==
  ASSUME Sound, Counted, NEW r \in Runs, RunnerStep(r) \/ RunnerRaises(r)
  PROVE  RowSound' /\ CursorInv'
  <1>1. /\ Core /\ TurnInv /\ StreamInv /\ RowSound /\ ServesInv /\ db \in Seq(Nat)
        /\ Range(db) \subseteq DOMAIN evs /\ DOMAIN evs \subseteq 0..Len(evs) /\ Len(evs) \in Nat
    BY SoundIs, CoreIs
  <1>2. UNCHANGED <<conn, page, loads>> /\ Grown
    BY <1>1, RunnerStepTurns DEF RunnerMoved, client
  <1>3. MessageSound(conn["message"], page)' /\ ListenSound(conn["empty"])'
    <2>1. \A m, p : m = conn["message"] /\ p = page => MessageSound(m, p)'
      BY <1>2, MessageHeld
    <2>2. \A q : q = conn["empty"] => ListenSound(q)'
      BY <1>2, ListenHeld
    <2> QED
      BY <1>2, <2>1, <2>2 DEF MessageSound, ListenSound, Foretold, Uuid
  <1>4. CursorInv'
    <2>1. \A m, p, q : m = conn'["message"] /\ p = page /\ q = conn'["empty"]
                       /\ MessageSound(m, p)' /\ ListenSound(q)' => CursorInv'
      BY <1>2, CursorHeld
    <2> QED
      BY <1>2, <1>3, <2>1 DEF MessageSound, ListenSound, Foretold, Uuid
  <1>5. /\ row'.next = "none" /\ row'.task = row.task /\ row.task # 0
        /\ row'.status \in {row.status, "completed"} \/ row.status = "running"
        /\ db' = db \/ (hand[r] \in DOMAIN evs /\ ~Uuid(hand[r]) /\ db' = Append(db, hand[r]))
    BY RunnerRow
  <1>6. (db # <<>> /\ Uuid(Last(db)))' => db # <<>> /\ Uuid(Last(db))
    <2>1. \A p \in DOMAIN evs : Uuid(p)' <=> Uuid(p)
      BY <1>1, <1>2, UuidKept
    <2>2. CASE db' = db
      BY <1>1, <2>1, <2>2, LastIs DEF Uuid
    <2>3. CASE hand[r] \in DOMAIN evs /\ ~Uuid(hand[r]) /\ db' = Append(db, hand[r])
      <3>1. Last(db') = hand[r]
        BY <1>1, <2>3, LastIs
      <3> QED
        BY <2>1, <2>3, <3>1 DEF Uuid
    <2> QED
      BY <1>5, <2>2, <2>3
  <1>7. row.status = "running" => conn["message"].pc # "claim"
    BY <1>1 DEF StreamInv, Opening
  <1>8. (db # <<>> /\ Uuid(Last(db)))' =>
          row'.status = "completed" \/ conn["message"].pc \in {"claim", "put", "add"}
    <2>1. CASE row.status = "running"
      BY <1>1, <1>6, <2>1 DEF RowSound
    <2>2. CASE row.status # "running"
      BY <1>1, <1>5, <1>6, <2>2 DEF RowSound
    <2> QED
      BY <2>1, <2>2
  <1> QED
    BY <1>1, <1>2, <1>4, <1>5, <1>8 DEF RowSound

\* The message stream gets nothing, or an event that a stream has, which is the
\* run's message if the run is not on yet.
LEMMA MessageGrows ==
  ASSUME Sound, Grown, NEW m, NEW k, k = conn["message"], NEW p, p = page, m.pc # "resolved",
         \/ m.chan = k.chan /\ (k.pc \in {"claim", "put"} => m.pc \in {"claim", "put"})
         \/ /\ \E e \in DOMAIN evs' : /\ m.chan = Append(k.chan, e) /\ ~Uuid(e)'
                                      /\ k.pc \in {"claim", "put"} => e \notin p.shown,
         k.pc # "resolved"
  PROVE  MessageSound(m, p)'
  <1>1. /\ Core /\ k.chan \in Seq(Nat) /\ DOMAIN evs \subseteq 0..Len(evs)
        /\ MessageSound(k, p)'
    BY SoundIs, CoreIs, MessageHeld DEF Conns
  <1>2. CASE m.chan = k.chan /\ (k.pc \in {"claim", "put"} => m.pc \in {"claim", "put"})
    <2>1. Foretold(k, p.shown)' => Foretold(m, p.shown)'
      BY <1>2 DEF Foretold
    <2> QED
      BY <1>1, <1>2, <2>1 DEF MessageSound
  <1>3. CASE \E e \in DOMAIN evs' : /\ m.chan = Append(k.chan, e) /\ ~Uuid(e)'
                                    /\ k.pc \in {"claim", "put"} => e \notin p.shown
    <2>1. PICK e \in DOMAIN evs' : /\ m.chan = Append(k.chan, e) /\ ~Uuid(e)'
                                   /\ k.pc \in {"claim", "put"} => e \notin p.shown
      BY <1>3
    <2>2. e \in Nat
      BY DEF Grown
    <2>3. /\ Range(m.chan) = Range(k.chan) \cup {e}
          /\ \A i \in DOMAIN m.chan : (i \in DOMAIN k.chan /\ m.chan[i] = k.chan[i]) \/ m.chan[i] = e
      <3>1. /\ DOMAIN m.chan = DOMAIN k.chan \cup {Len(k.chan) + 1}
            /\ \A i \in DOMAIN k.chan : m.chan[i] = k.chan[i]
            /\ m.chan[Len(k.chan) + 1] = e
        BY <1>1, <2>1, <2>2
      <3> QED
        BY <3>1 DEF Range
    <2>4. Foretold(k, p.shown)' => Foretold(m, p.shown)'
      <3>1. CASE k.pc \in {"claim", "put"}
        BY <2>1, <2>3, <3>1 DEF Foretold
      <3>2. CASE k.pc \notin {"claim", "put"}
        BY <2>3, <3>2 DEF Foretold
      <3> QED
        BY <3>1, <3>2
    <2>5. (\E f \in Range(m.chan) : Uuid(f)') => (\E f \in Range(k.chan) : Uuid(f)')
      BY <2>1, <2>3
    <2>6. \A i \in DOMAIN m.chan : Uuid(m.chan[i])' => i = 1 /\ evs'[m.chan[i]].kind = "resolved"
      BY <1>1, <2>1, <2>3 DEF MessageSound
    <2>7. (p.sending /\ Uuid(p.cursor)') \/ (\E f \in Range(m.chan) : Uuid(f)') => Foretold(m, p.shown)'
      BY <1>1, <2>4, <2>5 DEF MessageSound
    <2> QED
      BY <2>6, <2>7 DEF MessageSound
  <1> QED
    BY <1>2, <1>3

\* The listening stream gets nothing, or an event that a stream has, or an error.
LEMMA ListenGrows ==
  ASSUME Sound, Grown, NEW q, NEW k, k = conn["empty"], ~Uuid(q.pos)',
         \/ q.chan = k.chan
         \/ \E e \in DOMAIN evs' : q.chan = Append(k.chan, e) /\ (Uuid(e)' => evs'[e].kind = "error")
  PROVE  ListenSound(q)'
  <1>1. k.chan \in Seq(Nat) /\ ListenSound(k)'
    BY SoundIs, CoreIs, ListenHeld DEF Conns
  <1>2. CASE q.chan = k.chan
    BY <1>1, <1>2 DEF ListenSound
  <1>3. CASE \E e \in DOMAIN evs' : q.chan = Append(k.chan, e) /\ (Uuid(e)' => evs'[e].kind = "error")
    <2>1. PICK e \in DOMAIN evs' : q.chan = Append(k.chan, e) /\ (Uuid(e)' => evs'[e].kind = "error")
      BY <1>3
    <2>2. e \in Nat
      BY DEF Grown
    <2>3. Range(q.chan) = Range(k.chan) \cup {e}
      BY <1>1, <2>1, <2>2, AppendRange
    <2> QED
      BY <1>1, <2>1, <2>3 DEF ListenSound
  <1> QED
    BY <1>2, <1>3

\* A reader takes events from a stream, or ends an idle row's request.
LEMMA ConnStepSound ==
  ASSUME Sound, Counted, NEW c \in Streams, ConnStep(c)
  PROVE  RowSound' /\ CursorInv'
  <1> DEFINE m == conn["message"]
             q == conn["empty"]
  <1>1. /\ Core /\ TurnInv /\ StreamInv /\ RowSound /\ db \in Seq(Nat)
        /\ ListenSound(q) /\ Len(evs) \in Nat /\ ServerTypeOK
        /\ \A o \in Streams : conn[o].pos \in 0..Len(evs)
    BY SoundIs, CoreIs
  <1>2. Served(c)
    BY <1>1, ServedIs
  <1>3. /\ Grown /\ UNCHANGED <<page, loads>> /\ row'.task = row.task
        /\ \A o \in Streams \ {c} : conn'[o] = conn[o]
        /\ conn[c].pc \in {"open", "get", "missed", "idle"}
        /\ conn'[c].pc \in {"get", "missed", "idle", "end"}
    BY <1>2 DEF Served, Only
  <1>4. m.pos # 0 => evs[m.pos].src # "db"
    BY <1>1 DEF StreamInv
  <1>5. q.pos # 0 => evs[q.pos].src # "db"
    BY <1>1 DEF ListenSound, Uuid
  <1>6. /\ m.pc # "open" /\ row.next = "none"
        /\ m.pc # "start"
    BY <1>1 DEF RowSound
  <1>7. DOMAIN evs = 1 .. Len(evs)
    BY <1>1, CoreIs
  <1>8. \/ /\ UNCHANGED <<evs, db, row>> /\ conn'[c].chan = conn[c].chan
           /\ conn'[c].pos \in {conn[c].pos, 0}
        \/ /\ UNCHANGED <<evs, db, row>>
           /\ \E e \in Outs(row.task) :
                conn'[c].chan = Append(conn[c].chan, e) /\ conn'[c].pos \in {e, 0}
        \/ /\ c = "empty" /\ row'.status = "completed" /\ row'.next = "none" /\ row.task # 0
           /\ \E x \in Events : x.src = "db" /\ x.kind = "error" /\ evs' = Append(evs, x)
           /\ db' = Append(db, Len(evs) + 1)
           /\ conn'[c].chan = Append(conn[c].chan, Len(evs) + 1) /\ conn'[c].pos = 0
    BY <1>2, <1>4, <1>5, <1>6 DEF Served, Streams
  <1>9. \A p \in 0..Len(evs) : Uuid(p)' <=> Uuid(p)
    BY <1>1, <1>3, UuidKept
  <1>10. MessageSound(m, page)' /\ m'.pc \notin {"start", "open"}
    <2>1. CASE c = "empty"
      <3>1. m' = m
        BY <1>3, <2>1 DEF Streams
      <3>2. \A k, p : k = m /\ p = page => MessageSound(k, p)'
        BY <1>3, MessageHeld
      <3> QED
        BY <1>3, <1>6, <3>1, <3>2 DEF MessageSound, Foretold, Uuid
    <2>2. CASE c = "message"
      <3>1. \/ m'.chan = m.chan
            \/ \E e \in DOMAIN evs' : m'.chan = Append(m.chan, e) /\ ~Uuid(e)'
        <4>1. \A e \in Outs(row.task) : e \in DOMAIN evs /\ ~Uuid(e)
          BY DEF Outs, Uuid
        <4> QED
          BY <1>3, <1>7, <1>8, <1>9, <2>2, <4>1 DEF Grown
      <3>2. m.pc \notin {"claim", "put", "resolved"} /\ m'.pc \notin {"resolved", "start", "open"}
        BY <1>3, <1>6, <2>2
      <3>3. \A k, p : k = m' /\ p = page => MessageSound(k, p)'
        BY <1>3, <3>1, <3>2, MessageGrows
      <3> QED
        BY <1>3, <3>2, <3>3 DEF MessageSound, Foretold, Uuid
    <2> QED
      BY <2>1, <2>2 DEF Streams
  <1>11. ListenSound(q)' /\ (q' = q \/ q # NoConn)
    <2>1. CASE c = "message"
      <3>1. q' = q
        BY <1>3, <2>1 DEF Streams
      <3>2. \A k : k = q => ListenSound(k)'
        BY <1>3, ListenHeld
      <3> QED
        BY <3>1, <3>2 DEF ListenSound, Uuid
    <2>2. CASE c = "empty"
      <3>1. /\ ~Uuid(q.pos)'
            /\ \/ q'.chan = q.chan
               \/ \E e \in DOMAIN evs' :
                    q'.chan = Append(q.chan, e) /\ (Uuid(e)' => evs'[e].kind = "error")
        <4>1. CASE UNCHANGED evs /\ q'.chan = q.chan /\ q'.pos \in {q.pos, 0}
          BY <1>1, <1>5, <4>1 DEF Uuid
        <4>2. CASE UNCHANGED evs /\ \E e \in Outs(row.task) :
                q'.chan = Append(q.chan, e) /\ q'.pos \in {e, 0}
          BY <4>2 DEF Uuid, Outs
        <4>3. CASE /\ \E x \in Events : x.src = "db" /\ x.kind = "error" /\ evs' = Append(evs, x)
                   /\ q'.chan = Append(q.chan, Len(evs) + 1) /\ q'.pos = 0
          <5>1. Len(evs) + 1 \in DOMAIN evs' /\ evs'[Len(evs) + 1].kind = "error"
            BY <1>1, <4>3, NewEvent
          <5> QED
            BY <4>3, <5>1 DEF Uuid
        <4> QED
          BY <1>8, <2>2, <4>1, <4>2, <4>3
      <3>2. \A k : k = q' => ListenSound(k)'
        BY <1>3, <3>1, ListenGrows DEF Uuid
      <3>3. q # NoConn
        BY <1>3, <2>2, FreshIs DEF ConnPcs
      <3> QED
        BY <3>2, <3>3 DEF ListenSound, Uuid
    <2> QED
      BY <2>1, <2>2 DEF Streams
  <1>12. CursorInv'
    <2>1. q' = q \/ q # NoConn
      BY <1>11
    <2>2. ASSUME NEW k, k = conn'["message"], NEW p, p = page, NEW l, l = conn'["empty"],
                 MessageSound(k, p)', ListenSound(l)'
          PROVE  CursorInv'
      <3>1. l = conn["empty"] \/ conn["empty"] # NoConn
        BY <2>1, <2>2
      <3> QED
        BY <1>3, <2>2, <3>1, CursorHeld
    <2> QED
      BY <1>3, <1>10, <1>11, <2>2 DEF MessageSound, ListenSound, Foretold, Uuid
  <1>13. RowSound'
    <2>1. CASE UNCHANGED <<evs, db, row>>
      <3>1. m.pc \in {"claim", "put", "add", "resolved"} => m' = m
        BY <1>3, <2>1 DEF Streams
      <3>2. m'.pc = "resolved" => m.pc = "resolved"
        BY <1>3 DEF Streams
      <3> QED
        BY <1>1, <1>10, <2>1, <3>1, <3>2, SourceKept
    <2>2. CASE row'.status = "completed" /\ row'.next = "none" /\ row.task # 0
      BY <1>3, <1>10, <2>2 DEF RowSound
    <2> QED
      BY <1>8, <2>1, <2>2
  <1> QED
    BY <1>12, <1>13

\* The event that the API makes comes first, and the run's message follows it.
LEMMA MessageStepSound ==
  ASSUME Sound, Counted, MessageStep
  PROVE  RowSound' /\ CursorInv'
  <1> DEFINE m == conn["message"]
             q == conn["empty"]
  <1>1. /\ Core /\ TurnInv /\ StreamInv /\ RowSound /\ ServesInv /\ db \in Seq(Nat) /\ row \in Rows
        /\ ServerTypeOK /\ ClientTypeOK /\ "message" \in Streams /\ Len(evs) \in Nat
        /\ DOMAIN evs = 1 .. Len(evs) /\ row.task \in Nat /\ MessageSound(m, page)
        /\ page.shown \subseteq DOMAIN evs /\ conn \in [Streams -> Conns]
    BY SoundIs, CoreIs, PageIs DEF Streams
  <1>2. /\ Grown /\ UNCHANGED <<page, loads>> /\ q' = q
    BY <1>1, MessageTurns DEF Messaged, Only, Streams
  <1>3. ListenSound(q)'
    <2>1. \A k : k = q => ListenSound(k)'
      BY <1>2, ListenHeld
    <2> QED
      BY <1>2, <2>1 DEF ListenSound, Uuid
  <1>4. MessageSound(m, page)' => CursorInv'
    <2>1. ASSUME NEW k, k = conn'["message"], NEW p, p = page, NEW l, l = conn'["empty"],
                 MessageSound(k, p)', ListenSound(l)'
          PROVE  CursorInv'
      <3>1. l = conn["empty"] \/ conn["empty"] # NoConn
        BY <1>2, <2>1
      <3> QED
        BY <1>2, <2>1, <3>1, CursorHeld
    <2> QED
      BY <1>2, <1>3, <2>1 DEF MessageSound, ListenSound, Foretold, Uuid
  <1>5. ASSUME m'.pc # "resolved", m.pc # "resolved",
               \/ m'.chan = m.chan /\ (m.pc \in {"claim", "put"} => m'.pc \in {"claim", "put"})
               \/ /\ \E e \in DOMAIN evs' : /\ m'.chan = Append(m.chan, e) /\ ~Uuid(e)'
                                            /\ m.pc \in {"claim", "put"} => e \notin page.shown
        PROVE  CursorInv'
    <2>1. \A k, p : k = m' /\ p = page => MessageSound(k, p)'
      BY <1>2, <1>5, MessageGrows
    <2> QED
      BY <1>2, <1>4, <2>1 DEF MessageSound, Foretold, Uuid
  <1>6. CASE Resolve
    <2> DEFINE x == Event("resolved", "db", 0)
               n == Len(evs) + 1
    <2>1. x \in Events /\ x.kind = "resolved" /\ x.src = "db"
      BY PageAssumption DEF Event, Events, Kinds
    <2>2. /\ evs' = Append(evs, x) /\ db' = Append(db, n) /\ UNCHANGED row
          /\ Yield("message", n, "claim") /\ m.pc = "resolved"
      BY <1>6 DEF Resolve, ApiEvent
    <2> HIDE DEF x
    <2>3. /\ evs'[n] = x /\ n \in DOMAIN evs' /\ n \in Nat
      BY <1>1, <2>1, <2>2, NewEvent
    <2>4. m'.pc = "claim" /\ m'.chan = Append(m.chan, n) /\ m.chan = <<>>
      <3>1. "claim" \in ConnPcs
        BY DEF ConnPcs
      <3>2. m'.pc = "claim" /\ m'.chan = Append(m.chan, n)
        BY <1>1, <2>2, <2>3, <3>1, YieldIs
      <3> QED
        BY <1>1, <2>2, <3>2 DEF MessageSound
    <2>5. m'.chan = <<n>>
      BY <2>3, <2>4
    <2>6. DOMAIN m'.chan = {1} /\ m'.chan[1] = n
      BY <2>5
    <2>7. CursorInv'
      BY <1>4, <2>1, <2>3, <2>4, <2>6 DEF MessageSound, Foretold
    <2>8. RowSound'
      BY <1>1, <2>2, <2>4 DEF RowSound
    <2> QED
      BY <2>7, <2>8
  <1>7. CASE Claim
    <2>1. /\ m.pc = "claim" /\ row' = [row EXCEPT !.status = "running", !.task = NextRun]
          /\ conn' = [conn EXCEPT !["message"].pc = "put", !["message"].run = NextRun]
          /\ UNCHANGED <<evs, db>>
      BY <1>7 DEF Claim
    <2>2. m'.pc = "put" /\ m'.chan = m.chan
      <3>1. \A k \in Conns : \A r : LET f == [k EXCEPT !.pc = "put", !.run = r] IN
              f.pc = "put" /\ f.chan = k.chan
        BY DEF Conns, ConnPcs
      <3>2. conn' = [conn EXCEPT !["message"] = [conn["message"] EXCEPT !.pc = "put", !.run = NextRun]]
        BY <1>1, <2>1
      <3> QED
        BY <1>1, <3>1, <3>2
    <2>3. CursorInv'
      BY <1>5, <2>1, <2>2
    <2>4. row'.next = row.next /\ row'.task # 0
      BY <1>1, <2>1 DEF Rows, NextRun
    <2>5. RowSound'
      BY <1>1, <2>1, <2>2, <2>4 DEF RowSound, Uuid
    <2> QED
      BY <2>3, <2>5
  <1>8. CASE PutMessage
    <2> DEFINE x == Event("user", "in", m.run)
    <2>0. PICK n : n = Len(evs) + 1
      OBVIOUS
    <2>1. m.run \in 0..MaxRuns
      BY <1>1, CoreIs DEF Conns
    <2>2. x \in Events /\ x.src = "in"
      BY <2>1 DEF Event, Events, Kinds
    <2>3. /\ evs' = Append(evs, x) /\ UNCHANGED <<db, row>>
          /\ Yield("message", n, "add") /\ m.pc = "put"
      BY <1>8, <2>0 DEF PutMessage
    <2> HIDE DEF x
    <2>4. /\ evs'[n] = x /\ n \in DOMAIN evs' /\ n \in Nat /\ n \notin DOMAIN evs
      BY <1>1, <2>0, <2>2, <2>3, NewEvent
    <2>5. m'.pc = "add" /\ m'.chan = Append(m.chan, n)
      <3>1. "add" \in ConnPcs
        BY DEF ConnPcs
      <3> QED
        BY <1>1, <2>3, <2>4, <3>1, YieldIs
    <2>6. CursorInv'
      <3>1. ~Uuid(n)'
        BY <2>2, <2>4 DEF Uuid
      <3>2. n \notin page.shown
        BY <1>1, <2>4
      <3>3. m'.pc # "resolved" /\ m.pc # "resolved"
        BY <2>3, <2>5
      <3>4. \E e \in DOMAIN evs' : m'.chan = Append(m.chan, e) /\ ~Uuid(e)' /\ e \notin page.shown
        BY <2>4, <2>5, <3>1, <3>2
      <3> QED
        BY <1>5, <3>3, <3>4
    <2>7. row.task # 0
      BY <1>1, <2>3, PageAssumption DEF ServesInv, Runs
    <2>8. RowSound'
      BY <1>1, <2>3, <2>5, <2>7 DEF RowSound
    <2> QED
      BY <2>6, <2>8
  <1>9. CASE Invoke
    <2> DEFINE u == CHOOSE e \in DOMAIN evs : evs[e].kind = "user" /\ evs[e].run = m.run
    <2>1. m.pc = "add" /\ db' = Append(db, u) /\ UNCHANGED <<evs, row>> /\ Serve("message", "get")
      BY <1>9 DEF Invoke
    <2>2. u \in DOMAIN evs /\ evs[u].kind = "user"
      BY <1>1, <2>1 DEF ServesInv
    <2> HIDE DEF u
    <2>3. ~Uuid(u)
      BY <1>1, <2>2 DEF TurnInv, Uuid
    <2>4. m'.pc = "get" /\ m'.chan = m.chan
      <3>1. "get" \in ConnPcs
        BY DEF ConnPcs
      <3> QED
        BY <1>1, <2>1, <3>1, ServeIs
    <2>5. CursorInv'
      BY <1>5, <2>1, <2>4
    <2>6. row.task # 0
      BY <1>1, <2>1, PageAssumption DEF ServesInv, Runs
    <2>7. Last(db') = u
      BY <1>1, <2>1, <2>2, LastIs
    <2>8. RowSound'
      BY <1>1, <2>1, <2>3, <2>4, <2>6, <2>7 DEF RowSound, Uuid
    <2> QED
      BY <2>5, <2>8
  <1>10. ~StartNext
    BY <1>1 DEF StartNext, RowSound
  <1> QED
    BY <1>6, <1>7, <1>8, <1>9, <1>10 DEF MessageStep

\* Every step but a follow-up keeps it.
LEMMA SoundKept ==
  ASSUME Sound, Counted, [Next]_vars, ~QueueNextMessage
  PROVE  RowSound' /\ CursorInv'
  <1>1. ASSUME NEW r \in Runs, RunnerStep(r) \/ RunnerRaises(r)
        PROVE  RowSound' /\ CursorInv'
    BY <1>1, RunnerSound
  <1>2. CASE MessageStep
    BY <1>2, MessageStepSound
  <1>3. ASSUME NEW c \in Streams, ConnStep(c) \/ PageStep(c)
        PROVE  RowSound' /\ CursorInv'
    BY <1>3, ConnStepSound, ReceiveSound, StreamEndsSound DEF PageStep
  <1>4. CASE ReconnectTimer
    BY <1>4, TimerSound
  <1>5. ASSUME NEW i \in DOMAIN loads, LoadStep(i) \/ LoadFails(i)
        PROVE  RowSound' /\ CursorInv'
    BY <1>5, ReadSound, AppliedSound, UnappliedSound DEF LoadStep
  <1>6. CASE Send \/ ResolveInteraction \/ RunNextMessage
    BY <1>6, UserOpensSound
  <1>7. CASE Reload
    BY <1>7, ReloadSound
  <1>8. CASE DropMessage \/ DropEmpty \/ Crash
    BY <1>8, DropsSound
  <1>9. CASE UNCHANGED vars
    <2>1. /\ evs' = evs /\ db' = db /\ row' = row /\ conn' = conn /\ page' = page
          /\ loads' = loads /\ used' = used
      BY <1>9 DEF vars, server, client
    <2>2. RowSound /\ CursorInv
      BY DEF Sound
    <2>3. RowSound'
      BY <2>1, <2>2 DEF RowSound, Uuid
    <2>4. Become(Now) /\ CursorOf(Now, used'.faults)
      BY <2>1, <2>2 DEF Become, Now, CursorInv
    <2> QED
      BY <2>1, <2>3, <2>4, CursorBecomes
  <1> QED
    BY <1>1, <1>2, <1>3, <1>4, <1>5, <1>6, <1>7, <1>8, <1>9 DEF Next, UserStep, Streams

LEMMA SoundAtFirst ==
  ASSUME Init
  PROVE  RowSound /\ CursorInv
  <1>1. /\ evs = <<>> /\ db = <<>> /\ row = [status |-> "pending", task |-> 0, next |-> "none"]
        /\ conn = [c \in {"message", "empty"} |-> NoConn] /\ page = NewPage
        /\ loads = <<Load("mount", 0)>>
    BY DEF Init
  <1>2. /\ NoConn.pc = "none" /\ NoConn.pos = 0 /\ NoConn.chan = <<>>
        /\ Range(<<>>) = {} /\ DOMAIN <<>> = {}
    BY FreshIs DEF ConnPcs, Range
  <1>3. ~Load("mount", 0).read /\ Range(loads) = {Load("mount", 0)}
    <2>1. Range(loads) = {Load("mount", 0)}
      BY <1>1 DEF Range
    <2> QED
      BY <2>1 DEF Load
  <1>4. page.cursor = 0 /\ ~page.sending
    BY <1>1 DEF NewPage
  <1>5. conn["message"] = NoConn /\ conn["empty"] = NoConn /\ row.next = "none"
    BY <1>1
  <1>6. RowSound
    BY <1>1, <1>2, <1>5 DEF RowSound
  <1>7. MessageSound(NoConn, page) /\ ListenSound(NoConn) /\ PageSound(page, NoConn, used.faults)
    BY <1>2, <1>4 DEF MessageSound, ListenSound, PageSound, Uuid
  <1>8. \A l \in Range(loads) : LoadSound(l, Now)
    BY <1>3 DEF LoadSound
  <1> QED
    BY <1>5, <1>6, <1>7, <1>8 DEF CursorInv, CursorOf, Now

\* A listening reader of a session without follow-ups starts after an event of
\* a stream, until the second fault: an event that the API makes is the last of
\* the log, and the page's cursor, only while no run is on or the run's message
\* is still to come.
THEOREM ResumesWithOneFault ==
  Spec => [](used.queues = 0 /\ used.faults <= 1 => ResumesFromOutput)
  <1> DEFINE Once == used.queues = 0 /\ used.faults <= 1
             IInv == Calm /\ (Once => RowSound /\ CursorInv)
  <1>1. Init => IInv
    BY GaplessAtFirst, SoundAtFirst DEF Gapless, Calm
  <1>2. IInv /\ [Next]_vars => IInv'
    <2> SUFFICES ASSUME IInv, [Next]_vars
                 PROVE  IInv'
      OBVIOUS
    <2>1. Calm /\ Calm' /\ (used'.queues = 0 => used.queues = 0 /\ ~QueueNextMessage)
      BY CalmKept
    <2>2. used.faults \in Nat /\ used'.faults \in {used.faults, used.faults + 1}
      BY <2>1, StepCounts, FaultsAre DEF Calm, Counts, UsedType
    <2>3. ASSUME used'.queues = 0, used'.faults <= 1
          PROVE  RowSound' /\ CursorInv'
      <3>1. used.queues = 0 /\ ~QueueNextMessage /\ Gapless
        BY <2>1, <2>3 DEF Calm
      <3>2. used.faults <= 1
        BY <2>2, <2>3
      <3>3. Sound /\ Counted
        BY <2>2, <2>3, <3>1, <3>2 DEF Sound, Counted
      <3> QED
        BY <3>1, <3>3, SoundKept
    <2> QED
      BY <2>1, <2>3
  <1>3. IInv => (Once => ResumesFromOutput)
    BY DEF CursorInv, CursorOf, ListenSound, Uuid, ResumesFromOutput, Now
  <1> QED
    BY <1>1, <1>2, <1>3, PTL DEF Spec
=============================================================================
