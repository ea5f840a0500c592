------------------------- MODULE SessionPage_proofs -------------------------
(* PageInv and DoneIsTrue are invariants of SessionPage, for any number of  *)
(* runs, events, follow-ups and faults, any operations and any of its faults.*)
EXTENDS SessionPageInv, FiniteSetTheorems, SequenceTheorems, TLAPS

-----------------------------------------------------------------------------
(* Numbers and sequences *)

\* A set of numbers has a least one: the intervals up to its members are finite
\* sets, of which one has no strict part among them.
LEMMA LeastNumber ==
  ASSUME NEW T, T \subseteq Nat, T # {}
  PROVE  \E x \in T : \A y \in T : x <= y
  <1> DEFINE Upto == {0 .. k : k \in T}
  <1>1. Upto \subseteq FiniteSubsetsOf(Nat)
    <2>1. \A k \in T : IsFiniteSet(0 .. k)
      BY FS_Interval
    <2> QED
      BY <2>1 DEF FiniteSubsetsOf
  <1>2. Upto # {}
    OBVIOUS
  <1> HIDE DEF Upto
  <1>3. PICK X \in Upto : \A Y \in Upto : <<Y, X>> \notin StrictSubsetOrdering(Nat)
    BY <1>1, <1>2, FS_StrictSubsetOrderingWellFounded, WFMin
  <1>4. PICK x \in T : X = 0 .. x
    BY DEF Upto
  <1>5. ASSUME NEW y \in T, y < x
        PROVE  FALSE
    <2>1. 0 .. y \in Upto
      BY DEF Upto
    <2>2. 0 .. y \subseteq 0 .. x /\ 0 .. y # 0 .. x /\ 0 .. x \subseteq Nat
      BY <1>5
    <2> QED
      BY <1>3, <1>4, <2>1, <2>2 DEF StrictSubsetOrdering
  <1> QED
    BY <1>5

\* What an appended sequence holds.
LEMMA AppendRange ==
  ASSUME NEW S, NEW s \in Seq(S), NEW e
  PROVE  Range(Append(s, e)) = Range(s) \cup {e}
  <1>1. /\ DOMAIN Append(s, e) = 1 .. Len(s) + 1
        /\ \A i \in 1 .. Len(s) : Append(s, e)[i] = s[i]
        /\ Append(s, e)[Len(s) + 1] = e
        /\ DOMAIN s = 1 .. Len(s) /\ Len(s) \in Nat
    OBVIOUS
  <1> QED
    BY <1>1 DEF Range

\* The tail of a sequence holds nothing else, in the same order.
LEMMA TailIs ==
  ASSUME NEW S, NEW s \in Seq(S), s # <<>>
  PROVE  /\ Tail(s) \in Seq(S) /\ Len(Tail(s)) = Len(s) - 1 /\ Len(s) \in Nat \ {0}
         /\ \A i \in DOMAIN Tail(s) : i \in Nat /\ i + 1 \in DOMAIN s /\ Tail(s)[i] = s[i + 1]
         /\ Range(Tail(s)) \subseteq Range(s)
         /\ Head(s) \in Range(s) /\ Head(s) = s[1] /\ 1 \in DOMAIN s
  <1>1. /\ Tail(s) \in Seq(S) /\ Len(Tail(s)) = Len(s) - 1 /\ Len(s) \in Nat \ {0}
        /\ \A i \in DOMAIN Tail(s) : i \in Nat /\ i + 1 \in DOMAIN s /\ Tail(s)[i] = s[i + 1]
        /\ Head(s) = s[1] /\ 1 \in DOMAIN s
    OBVIOUS
  <1> QED
    BY <1>1 DEF Range

\* The requests that stay when one has been answered.
LEMMA RemoveAtIs ==
  ASSUME NEW S, NEW s \in Seq(S), NEW i \in DOMAIN s
  PROVE  /\ RemoveAt(s, i) \in Seq(S)
         /\ Range(RemoveAt(s, i)) \subseteq Range(s)
         /\ \A m \in Range(s) : m = s[i] \/ m \in Range(RemoveAt(s, i))
  <1> DEFINE n == Len(s)
             a == SubSeq(s, 1, i - 1)
             z == SubSeq(s, i + 1, n)
  <1>0. n \in Nat /\ DOMAIN s = 1 .. n /\ i \in 1 .. n
    OBVIOUS
  <1>1. a \in Seq(S) /\ Len(a) = i - 1 /\ \A j \in 1 .. i - 1 : a[j] = s[j]
    BY <1>0
  <1>2. z \in Seq(S) /\ Len(z) = n - i /\ \A j \in 1 .. n - i : z[j] = s[i + j]
    BY <1>0
  <1>3. RemoveAt(s, i) = a \o z
    BY DEF RemoveAt
  <1> HIDE DEF a, z, n
  <1>4. RemoveAt(s, i) \in Seq(S) /\ Range(RemoveAt(s, i)) = Range(a) \cup Range(z)
    <2>1. \A s1, s2 \in Seq(S) : Range(s1 \o s2) = Range(s1) \cup Range(s2)
      BY RangeConcatenation
    <2> QED
      BY <1>1, <1>2, <1>3, <2>1
  <1>5. DOMAIN a = 1 .. i - 1 /\ DOMAIN z = 1 .. n - i
    BY <1>0, <1>1, <1>2
  <1>6. Range(a) \cup Range(z) \subseteq Range(s)
    <2>1. \A j \in 1 .. i - 1 : j \in 1 .. n /\ a[j] = s[j]
      BY <1>0, <1>1
    <2>2. \A j \in 1 .. n - i : i + j \in 1 .. n /\ z[j] = s[i + j]
      BY <1>0, <1>2
    <2> QED
      BY <1>0, <1>5, <2>1, <2>2 DEF Range
  <1>7. ASSUME NEW j \in 1 .. n, j # i
        PROVE  s[j] \in Range(a) \cup Range(z)
    <2>1. CASE j < i
      BY <1>0, <1>1, <1>5, <2>1 DEF Range
    <2>2. CASE i < j
      <3>1. j - i \in 1 .. n - i /\ z[j - i] = s[j]
        BY <1>0, <1>2, <2>2
      <3> QED
        BY <1>5, <3>1 DEF Range
    <2> QED
      BY <1>0, <1>7, <2>1, <2>2
  <1> QED
    BY <1>0, <1>4, <1>6, <1>7 DEF Range

-----------------------------------------------------------------------------
(* The functions of the composable *)

Streams == {"message", "empty"}
Views == [page : Pages, conn : [Streams -> Conns], loads : Seq(Loads)]

\* A request that has just been made.
LEMMA FreshIs ==
  ASSUME NEW at \in ConnPcs, NEW from \in Nat
  PROVE  /\ Fresh(at, from) \in Conns /\ NoConn \in Conns
         /\ Fresh(at, from).pc = at /\ Fresh(at, from).run = 0
         /\ Fresh(at, from).pos = from /\ Fresh(at, from).chan = <<>>
         /\ NoConn.pc = "none" /\ NoConn.run = 0 /\ NoConn.pos = 0 /\ NoConn.chan = <<>>
  <1>1. NoConn \in Conns
    BY PageAssumption DEF NoConn, Conns, ConnPcs
  <1>2. NoConn.pc = "none" /\ NoConn.run = 0 /\ NoConn.pos = 0 /\ NoConn.chan = <<>>
    BY DEF NoConn
  <1>3. \A n \in Conns : LET f == [n EXCEPT !.pc = at, !.pos = from]
                        IN f \in Conns /\ f.pc = at /\ f.run = n.run /\ f.pos = from /\ f.chan = n.chan
    BY DEF Conns
  <1> QED
    BY <1>1, <1>2, <1>3 DEF Fresh

\* The listening stream is closed, and its timer with it.
LEMMA StopIs ==
  ASSUME NEW w \in Views
  PROVE  /\ StopEmptyStream(w) \in Views
         /\ StopEmptyStream(w).page = [w.page EXCEPT !.timer = FALSE]
         /\ StopEmptyStream(w).conn["message"] = w.conn["message"]
         /\ StopEmptyStream(w).conn["empty"] = NoConn
         /\ StopEmptyStream(w).loads = w.loads
  <1>1. NoConn \in Conns
    BY FreshIs DEF ConnPcs
  <1>2. [w.page EXCEPT !.timer = FALSE] \in Pages
    BY DEF Views, Pages
  <1> QED
    BY <1>1, <1>2 DEF StopEmptyStream, Views, Streams

\* It is opened from the cursor, unless the page thinks the session is over.
LEMMA StartIs ==
  ASSUME NEW w \in Views, w.page.local # "completed"
  PROVE  /\ StartEmptyStream(w) \in Views
         /\ StartEmptyStream(w).page = [w.page EXCEPT !.timer = FALSE]
         /\ StartEmptyStream(w).conn["message"] = w.conn["message"]
         /\ StartEmptyStream(w).conn["empty"] = Fresh("open", w.page.cursor)
         /\ StartEmptyStream(w).loads = w.loads
  <1>1. Fresh("open", w.page.cursor) \in Conns
    BY FreshIs DEF ConnPcs, Views, Pages
  <1> QED
    BY <1>1, StopIs DEF StartEmptyStream, Views, Streams

\* The watcher leaves a page with the listening stream that it should have.
LEMMA WatchIs ==
  ASSUME NEW w \in Views
  PROVE  /\ Watch(w) \in Views
         /\ Watch(w).page = [w.page EXCEPT !.timer = FALSE]
         /\ Watch(w).conn["message"] = w.conn["message"]
         /\ Watch(w).conn["empty"] = IF w.page.local # "completed" /\ ~w.page.sending
                                     THEN Fresh("open", w.page.cursor) ELSE NoConn
         /\ Watch(w).loads = w.loads
  BY StopIs, StartIs DEF Watch

\* Assigning the session writes the status and lets the watcher decide.
LEMMA AssignedIs ==
  ASSUME NEW w \in Views, NEW st \in Statuses
  PROVE  /\ Assigned(w, st) \in Views
         /\ Assigned(w, st).page = [w.page EXCEPT !.local = st, !.timer = FALSE]
         /\ Assigned(w, st).conn["message"] = w.conn["message"]
         /\ Assigned(w, st).conn["empty"] = IF st # "completed" /\ ~w.page.sending
                                            THEN Fresh("open", w.page.cursor) ELSE NoConn
         /\ Assigned(w, st).loads = w.loads
  <1> DEFINE v == [w EXCEPT !.page.local = st]
  <1>1. /\ v \in Views /\ v.page = [w.page EXCEPT !.local = st]
        /\ v.conn = w.conn /\ v.loads = w.loads
    BY DEF Views, Pages
  <1> HIDE DEF v
  <1>2. /\ v.page.local = st /\ v.page.sending = w.page.sending /\ v.page.cursor = w.page.cursor
        /\ [v.page EXCEPT !.timer = FALSE] = [w.page EXCEPT !.local = st, !.timer = FALSE]
    BY <1>1 DEF Views, Pages
  <1>3. Assigned(w, st) = Watch(v)
    BY DEF Assigned, v
  <1>4. /\ Watch(v) \in Views
        /\ Watch(v).page = [v.page EXCEPT !.timer = FALSE]
        /\ Watch(v).conn["message"] = v.conn["message"]
        /\ Watch(v).conn["empty"] = IF v.page.local # "completed" /\ ~v.page.sending
                                    THEN Fresh("open", v.page.cursor) ELSE NoConn
        /\ Watch(v).loads = v.loads
    BY <1>1, WatchIs
  <1> QED
    BY <1>1, <1>2, <1>3, <1>4

\* What an event that arrives does to the page: it is shown, the timer is off,
\* and it tells the status, and with it whether to listen.
Appended(w, e, v) ==
  /\ v \in Views /\ v.loads = w.loads /\ v.conn["message"] = w.conn["message"]
  /\ v.page.epoch = w.page.epoch /\ ~v.page.timer
  /\ v.page.shown = w.page.shown \cup {e}
  /\ v.page.cursor = IF e \in w.page.shown THEN w.page.cursor ELSE e
  /\ v.conn["empty"] \in {w.conn["empty"], NoConn, Fresh("open", e)}
  /\ e \in w.page.shown => /\ v.conn = w.conn /\ v.page.local = w.page.local
                           /\ v.page.sending = w.page.sending
  /\ e \notin w.page.shown =>
       /\ evs[e].kind \in {"done", "error"} =>
            v.page.local = "completed" /\ ~v.page.sending /\ v.conn["empty"] = NoConn
       /\ evs[e].kind \notin {"done", "error"} => v.page.sending = w.page.sending
       /\ evs[e].kind = "wait" => v.page.local = "waiting"
       /\ Stirring(e) => v.page.local = "running"
       /\ evs[e].kind \notin {"done", "error", "wait"} /\ ~Stirring(e) =>
            v.page.local = w.page.local
       /\ w.page.sending /\ w.conn["empty"] = NoConn => v.conn["empty"] = NoConn
       /\ v.page.local = "running" /\ v.conn["empty"] = NoConn =>
            w.conn["empty"] = NoConn \/ v.page.sending

\* An event that arrives is dropped, or shown and followed by what its kind says.
LEMMA AppendEventIs ==
  ASSUME NEW w \in Views, NEW e \in Nat
  PROVE  Appended(w, e, AppendEvent(w, e))
  <1> DEFINE calm == [w EXCEPT !.page.timer = FALSE]
             more == [calm EXCEPT !.page.shown = @ \cup {e}, !.page.cursor = e]
             rest == [more EXCEPT !.page.sending = FALSE]
             next == [more EXCEPT !.page.next = FALSE]
             v == AppendEvent(w, e)
             k == evs[e].kind
  <1>1. /\ calm \in Views /\ calm.loads = w.loads /\ calm.conn = w.conn
        /\ calm.page = [w.page EXCEPT !.timer = FALSE]
    BY DEF Views, Pages
  <1> HIDE DEF calm
  <1>2. /\ more \in Views /\ more.loads = w.loads /\ more.conn = w.conn
        /\ more.page = [calm.page EXCEPT !.shown = @ \cup {e}, !.cursor = e]
    BY <1>1 DEF Views, Pages
  <1> HIDE DEF more
  <1>3. /\ rest \in Views /\ rest.loads = w.loads /\ rest.conn = w.conn
        /\ rest.page = [more.page EXCEPT !.sending = FALSE]
        /\ next \in Views /\ next.loads = w.loads /\ next.conn = w.conn
        /\ next.page = [more.page EXCEPT !.next = FALSE]
    BY <1>2 DEF Views, Pages
  <1> HIDE DEF rest, next
  <1>4. v = IF e \in w.page.shown THEN calm
            ELSE CASE k \in {"done", "error"} -> Assigned(rest, "completed")
                   [] k = "wait" -> Assigned(more, "waiting")
                   [] k \in {"step", "resolved"} -> Assigned(more, "running")
                   [] k = "next" /\ w.page.next -> Watch(next)
                   [] OTHER -> more
    BY DEF AppendEvent, calm, more, rest, next
  <1> SUFFICES Appended(w, e, v)
    BY DEF v
  <1> HIDE DEF v, k
  <1>5. /\ w.page \in Pages /\ calm.page \in Pages /\ more.page \in Pages
        /\ rest.page \in Pages /\ next.page \in Pages
        /\ w.conn \in [Streams -> Conns]
    BY <1>1, <1>2, <1>3 DEF Views
  <1>6. /\ more.page.shown = w.page.shown \cup {e} /\ more.page.cursor = e
        /\ ~more.page.timer /\ more.page.epoch = w.page.epoch
        /\ more.page.local = w.page.local /\ more.page.sending = w.page.sending
    BY <1>1, <1>2, <1>5 DEF Pages
  <1>7. NoConn.pc = "none" /\ Fresh("open", e).pc = "open"
    BY FreshIs DEF ConnPcs
  <1>8. CASE e \in w.page.shown
    <2>1. v = calm
      BY <1>4, <1>8
    <2>2. /\ v.page.shown = w.page.shown /\ v.page.cursor = w.page.cursor /\ ~v.page.timer
          /\ v.page.epoch = w.page.epoch /\ v.page.local = w.page.local
          /\ v.page.sending = w.page.sending /\ w.page.shown \cup {e} = w.page.shown
      BY <1>1, <1>5, <1>8, <2>1 DEF Pages
    <2> QED
      BY <1>1, <1>8, <2>1, <2>2 DEF Appended
  <1>9. CASE e \notin w.page.shown /\ k \in {"done", "error"}
    <2>1. v = Assigned(rest, "completed") /\ "completed" \in Statuses
      BY <1>4, <1>9 DEF Statuses
    <2>2. /\ v \in Views /\ v.loads = w.loads /\ v.conn["message"] = w.conn["message"]
          /\ v.page = [rest.page EXCEPT !.local = "completed", !.timer = FALSE]
          /\ v.conn["empty"] = NoConn
      <3>1. /\ Assigned(rest, "completed") \in Views
            /\ Assigned(rest, "completed").page
                 = [rest.page EXCEPT !.local = "completed", !.timer = FALSE]
            /\ Assigned(rest, "completed").conn["message"] = rest.conn["message"]
            /\ Assigned(rest, "completed").conn["empty"] = NoConn
            /\ Assigned(rest, "completed").loads = rest.loads
        BY <1>3, <2>1, AssignedIs
      <3> QED
        BY <1>3, <2>1, <3>1
    <2>3. /\ v.page.shown = w.page.shown \cup {e} /\ v.page.cursor = e /\ ~v.page.timer
          /\ v.page.epoch = w.page.epoch /\ v.page.local = "completed" /\ ~v.page.sending
      BY <1>3, <1>5, <1>6, <2>2 DEF Pages
    <2> QED
      BY <1>7, <1>9, <2>2, <2>3 DEF Appended, k, Stirring
  <1>10. CASE e \notin w.page.shown /\ k \in {"wait", "step", "resolved"}
    <2> DEFINE st == IF k = "wait" THEN "waiting" ELSE "running"
    <2>1. v = Assigned(more, st) /\ st \in Statuses /\ st # "completed"
      BY <1>4, <1>10 DEF Statuses
    <2> HIDE DEF st
    <2>2. /\ v \in Views /\ v.loads = w.loads /\ v.conn["message"] = w.conn["message"]
          /\ v.page = [more.page EXCEPT !.local = st, !.timer = FALSE]
          /\ v.conn["empty"] = IF ~w.page.sending THEN Fresh("open", e) ELSE NoConn
      <3>1. /\ Assigned(more, st) \in Views
            /\ Assigned(more, st).page = [more.page EXCEPT !.local = st, !.timer = FALSE]
            /\ Assigned(more, st).conn["message"] = more.conn["message"]
            /\ Assigned(more, st).conn["empty"] =
                 IF st # "completed" /\ ~more.page.sending
                 THEN Fresh("open", more.page.cursor) ELSE NoConn
            /\ Assigned(more, st).loads = more.loads
        BY <1>2, <2>1, AssignedIs
      <3> QED
        BY <1>2, <1>6, <2>1, <3>1
    <2>3. /\ v.page.shown = w.page.shown \cup {e} /\ v.page.cursor = e /\ ~v.page.timer
          /\ v.page.epoch = w.page.epoch /\ v.page.local = st
          /\ v.page.sending = w.page.sending
      BY <1>5, <1>6, <2>2 DEF Pages
    <2> QED
      BY <1>7, <1>10, <2>2, <2>3 DEF Appended, k, st, Stirring
  <1>11. CASE e \notin w.page.shown /\ k = "next" /\ w.page.next
    <2>1. v = Watch(next)
      BY <1>4, <1>11
    <2>2. /\ v \in Views /\ v.loads = w.loads /\ v.conn["message"] = w.conn["message"]
          /\ v.page = [next.page EXCEPT !.timer = FALSE]
          /\ v.conn["empty"] = IF next.page.local # "completed" /\ ~next.page.sending
                               THEN Fresh("open", next.page.cursor) ELSE NoConn
      BY <1>3, <2>1, WatchIs
    <2>3. /\ v.page.shown = w.page.shown \cup {e} /\ v.page.cursor = e /\ ~v.page.timer
          /\ v.page.epoch = w.page.epoch /\ v.page.local = w.page.local
          /\ v.page.sending = w.page.sending
          /\ next.page.local = w.page.local /\ next.page.sending = w.page.sending
          /\ next.page.cursor = e
      BY <1>3, <1>5, <1>6, <2>2 DEF Pages
    <2> QED
      BY <1>7, <1>11, <2>2, <2>3 DEF Appended, k, Stirring
  <1>12. CASE e \notin w.page.shown /\ k \notin {"done", "error", "wait", "step", "resolved"}
                /\ ~(k = "next" /\ w.page.next)
    <2>1. v = more
      BY <1>4, <1>12
    <2> QED
      BY <1>2, <1>6, <1>12, <2>1 DEF Appended, k, Stirring
  <1> QED
    BY <1>8, <1>9, <1>10, <1>11, <1>12

\* Closing the message stream asks for a snapshot.
LEMMA RunStreamEndIs ==
  ASSUME NEW w \in Views
  PROVE  LET v == ReconcileRunStreamEnd(w) IN
         /\ v \in Views /\ v.page = [w.page EXCEPT !.sending = FALSE]
         /\ v.conn = [w.conn EXCEPT !["message"] = NoConn]
         /\ v.loads = Append(w.loads, Load("run", w.page.epoch))
  <1>1. NoConn \in Conns
    BY FreshIs DEF ConnPcs
  <1>2. Load("run", w.page.epoch) \in Loads
    BY DEF Load, Loads, Views, Pages, Statuses
  <1>3. [w.page EXCEPT !.sending = FALSE] \in Pages
    BY DEF Views, Pages
  <1>4. Append(w.loads, Load("run", w.page.epoch)) \in Seq(Loads)
    BY <1>2 DEF Views
  <1>5. [w.conn EXCEPT !["message"] = NoConn] \in [Streams -> Conns]
    BY <1>1 DEF Views
  <1> HIDE DEF Load
  <1> QED
    BY <1>3, <1>4, <1>5 DEF ReconcileRunStreamEnd, Views

\* The end of a listening stream closes it and asks for a snapshot.
LEMMA EmptyStreamEndIs ==
  ASSUME NEW w \in Views
  PROVE  LET v == EmptyStreamEnd(w) IN
         /\ v \in Views /\ v.page = w.page
         /\ v.conn = [w.conn EXCEPT !["empty"] = NoConn]
         /\ v.loads = Append(w.loads, Load("empty", w.page.epoch))
  <1>1. NoConn \in Conns
    BY FreshIs DEF ConnPcs
  <1>2. Load("empty", w.page.epoch) \in Loads
    BY DEF Load, Loads, Views, Pages, Statuses
  <1>4. Append(w.loads, Load("empty", w.page.epoch)) \in Seq(Loads)
    BY <1>2 DEF Views
  <1>5. [w.conn EXCEPT !["empty"] = NoConn] \in [Streams -> Conns]
    BY <1>1 DEF Views
  <1> QED
    BY <1>4, <1>5 DEF EmptyStreamEnd, Views

\* A reconnect is scheduled only for a page that listens.
LEMMA ReconnectIs ==
  ASSUME NEW w \in Views
  PROVE  LET v == ScheduleReconnect(w) IN
         /\ v \in Views /\ v.conn = w.conn /\ v.loads = w.loads
         /\ v.page = [w.page EXCEPT !.timer = IF w.page.sending \/ w.page.local = "completed"
                                              THEN @ ELSE TRUE]
  <1>1. CASE w.page.sending \/ w.page.local = "completed"
    BY <1>1 DEF ScheduleReconnect, Views, Pages
  <1>2. CASE ~(w.page.sending \/ w.page.local = "completed")
    BY <1>2 DEF ScheduleReconnect, Views, Pages
  <1> QED
    BY <1>1, <1>2

\* Opening it, before the status is assigned.
LEMMA OpenedIs ==
  ASSUME NEW s \in Views, NEW f \in Conns
  PROVE  LET o == [s EXCEPT !.page.epoch = @ + 1, !.page.sending = TRUE, !.conn["message"] = f]
         IN /\ o \in Views /\ o.loads = s.loads
            /\ o.page = [s.page EXCEPT !.epoch = @ + 1, !.sending = TRUE]
            /\ o.conn["message"] = f /\ o.conn["empty"] = s.conn["empty"]
  <1> DEFINE o1 == [s EXCEPT !.page.epoch = s.page.epoch + 1]
             o2 == [o1 EXCEPT !.page.sending = TRUE]
             o3 == [o2 EXCEPT !.conn["message"] = f]
             o == [s EXCEPT !.page.epoch = @ + 1, !.page.sending = TRUE, !.conn["message"] = f]
  <1>1. s.page.epoch + 1 \in Nat /\ s.page \in Pages
    BY DEF Views, Pages
  <1>2. /\ o1 \in Views /\ o1.page = [s.page EXCEPT !.epoch = s.page.epoch + 1]
        /\ o1.conn = s.conn /\ o1.loads = s.loads
    <2>1. \A n \in Nat : LET q == [s EXCEPT !.page.epoch = n]
                        IN /\ q \in Views /\ q.page = [s.page EXCEPT !.epoch = n]
                           /\ q.conn = s.conn /\ q.loads = s.loads
      BY DEF Views, Pages
    <2> QED
      BY <1>1, <2>1
  <1> HIDE DEF o1
  <1>3. /\ o2 \in Views /\ o2.page = [o1.page EXCEPT !.sending = TRUE]
        /\ o2.conn = s.conn /\ o2.loads = s.loads
    BY <1>2 DEF Views, Pages
  <1> HIDE DEF o2
  <1>4. /\ o3 \in Views /\ o3.page = o2.page /\ o3.loads = s.loads
        /\ o3.conn["message"] = f /\ o3.conn["empty"] = s.conn["empty"]
    BY <1>3 DEF Views, Streams
  <1>5. o = o3
    BY Zenon DEF o1, o2
  <1> HIDE DEF o3, o
  <1>6. o3.page = [s.page EXCEPT !.epoch = @ + 1, !.sending = TRUE]
    BY <1>1, <1>2, <1>3, <1>4 DEF Pages
  <1> QED
    BY <1>4, <1>5, <1>6 DEF o

\* A new epoch, with its message stream and no other.
LEMMA OpenIs ==
  ASSUME NEW w \in Views, NEW at \in {"claim", "start", "resolved"}
  PROVE  LET v == OpenRunStream(w, at) IN
         /\ v \in Views /\ v.loads = w.loads
         /\ v.page.sending /\ v.page.epoch = w.page.epoch + 1
         /\ v.page.shown = w.page.shown /\ v.page.cursor = w.page.cursor /\ ~v.page.timer
         /\ v.conn["message"] = Fresh(at, 0) /\ v.conn["empty"] = NoConn
  <1> DEFINE stop == StopEmptyStream(w)
             opened == [stop EXCEPT !.page.epoch = @ + 1, !.page.sending = TRUE,
                                    !.conn["message"] = Fresh(at, 0)]
             v == OpenRunStream(w, at)
  <1>1. /\ stop \in Views /\ stop.page = [w.page EXCEPT !.timer = FALSE]
        /\ stop.conn["empty"] = NoConn /\ stop.loads = w.loads
    BY StopIs
  <1>2. v = IF at = "resolved" THEN opened ELSE Assigned(opened, "running")
    BY DEF OpenRunStream
  <1> HIDE DEF stop, v
  <1>3. Fresh(at, 0) \in Conns
    BY FreshIs DEF ConnPcs
  <1>4. /\ opened \in Views /\ opened.loads = w.loads
        /\ opened.page = [stop.page EXCEPT !.epoch = @ + 1, !.sending = TRUE]
        /\ opened.conn["message"] = Fresh(at, 0) /\ opened.conn["empty"] = NoConn
    <2>1. \A s \in Views, f \in Conns :
            LET o == [s EXCEPT !.page.epoch = @ + 1, !.page.sending = TRUE, !.conn["message"] = f]
            IN /\ o \in Views /\ o.loads = s.loads
               /\ o.page = [s.page EXCEPT !.epoch = @ + 1, !.sending = TRUE]
               /\ o.conn["message"] = f /\ o.conn["empty"] = s.conn["empty"]
      BY OpenedIs
    <2> QED
      BY <1>1, <1>3, <2>1
  <1> HIDE DEF opened
  <1>5. /\ opened.page.sending /\ opened.page.epoch = w.page.epoch + 1
        /\ opened.page.shown = w.page.shown /\ opened.page.cursor = w.page.cursor
        /\ ~opened.page.timer /\ opened.page \in Pages
    BY <1>1, <1>4 DEF Views, Pages
  <1>6. CASE at = "resolved"
    BY <1>2, <1>4, <1>5, <1>6 DEF v
  <1>7. CASE at # "resolved"
    <2>1. v = Assigned(opened, "running") /\ "running" \in Statuses
      BY <1>2, <1>7 DEF Statuses
    <2>2. /\ v \in Views /\ v.page = [opened.page EXCEPT !.local = "running", !.timer = FALSE]
          /\ v.conn["message"] = opened.conn["message"] /\ v.conn["empty"] = NoConn
          /\ v.loads = opened.loads
      BY <1>4, <1>5, <2>1, AssignedIs
    <2>3. /\ v.page.sending /\ v.page.epoch = w.page.epoch + 1 /\ ~v.page.timer
          /\ v.page.shown = w.page.shown /\ v.page.cursor = w.page.cursor
      BY <1>5, <2>2 DEF Pages
    <2> QED
      BY <1>4, <2>2, <2>3 DEF v
  <1> QED
    BY <1>6, <1>7

\* The page as it is, is a page.
LEMMA NowIs ==
  ASSUME ClientTypeOK
  PROVE  Now \in Views /\ Now.page = page /\ Now.conn = conn /\ Now.loads = loads
  BY DEF ClientTypeOK, Now, Views, Streams

\* A snapshot that is applied decides on the listening stream.
LEMMA ApplyIs ==
  ASSUME NEW w \in Views, NEW l \in Loads
  PROVE  LET v == ApplySnapshot(w, l) IN
         /\ v \in Views /\ v.loads = w.loads
         /\ v.page.shown = Range(l.log) /\ v.page.cursor \in {w.page.cursor} \cup Range(l.log)
         /\ v.page.cursor = IF l.log = <<>> THEN w.page.cursor ELSE Last(l.log)
         /\ v.page.local = l.status /\ v.page.sending = w.page.sending
         /\ v.page.epoch = w.page.epoch
         /\ v.conn["message"] = w.conn["message"]
         /\ v.conn["empty"] = IF l.status # "completed" /\ ~w.page.sending
                              THEN Fresh("open", v.page.cursor) ELSE NoConn
  <1> DEFINE c == IF l.log = <<>> THEN w.page.cursor ELSE Last(l.log)
             x == [w EXCEPT !.page.shown = Range(l.log), !.page.next = l.next,
                            !.page.cursor = IF l.log = <<>> THEN @ ELSE Last(l.log)]
             v == ApplySnapshot(w, l)
  <1>1. l.log \in Seq(Nat) /\ l.status \in Statuses /\ l.next \in BOOLEAN
    BY DEF Loads
  <1>2. w.page \in Pages /\ w.page.cursor \in Nat
    BY DEF Views, Pages
  <1>3. Range(l.log) \subseteq Nat
    BY <1>1 DEF Range
  <1>4. c \in Nat /\ c \in {w.page.cursor} \cup Range(l.log)
    <2>1. CASE l.log = <<>>
      BY <1>2, <2>1
    <2>2. CASE l.log # <<>>
      <3>1. Len(l.log) \in DOMAIN l.log /\ Last(l.log) = l.log[Len(l.log)]
        BY <1>1, <2>2 DEF Last
      <3>2. Last(l.log) \in Range(l.log)
        BY <3>1 DEF Range
      <3> QED
        BY <1>3, <2>2, <3>2
    <2> QED
      BY <2>1, <2>2
  <1> DEFINE x1 == [w EXCEPT !.page.shown = Range(l.log)]
             x2 == [x1 EXCEPT !.page.next = l.next]
             x3 == [x2 EXCEPT !.page.cursor = c]
  <1>5. x = x3
    BY Zenon
  <1> HIDE DEF c, x
  <1>6. /\ x1 \in Views /\ x1.loads = w.loads /\ x1.conn = w.conn
        /\ x1.page = [w.page EXCEPT !.shown = Range(l.log)]
    BY <1>3 DEF Views, Pages
  <1> HIDE DEF x1
  <1>7. /\ x2 \in Views /\ x2.loads = w.loads /\ x2.conn = w.conn
         /\ x2.page = [x1.page EXCEPT !.next = l.next]
    BY <1>1, <1>6 DEF Views, Pages
  <1> HIDE DEF x2
  <1>8. /\ x3 \in Views /\ x3.loads = w.loads /\ x3.conn = w.conn
         /\ x3.page = [x2.page EXCEPT !.cursor = c]
    BY <1>4, <1>7 DEF Views, Pages
  <1> HIDE DEF x3
  <1>9. /\ x \in Views /\ x.loads = w.loads /\ x.conn = w.conn
        /\ x.page = [w.page EXCEPT !.shown = Range(l.log), !.next = l.next, !.cursor = c]
    BY <1>2, <1>5, <1>6, <1>7, <1>8 DEF Pages
  <1>10. v = Assigned(x, l.status)
    BY DEF ApplySnapshot, x
  <1> HIDE DEF v
  <1>11. /\ x.page.shown = Range(l.log) /\ x.page.cursor = c /\ x.page.sending = w.page.sending
        /\ x.page.epoch = w.page.epoch
    BY <1>2, <1>9 DEF Pages
  <1>12. /\ v \in Views /\ v.page = [x.page EXCEPT !.local = l.status, !.timer = FALSE]
         /\ v.conn["message"] = x.conn["message"] /\ v.loads = x.loads
         /\ v.conn["empty"] = IF l.status # "completed" /\ ~x.page.sending
                              THEN Fresh("open", x.page.cursor) ELSE NoConn
    <2>1. /\ Assigned(x, l.status) \in Views
          /\ Assigned(x, l.status).page = [x.page EXCEPT !.local = l.status, !.timer = FALSE]
          /\ Assigned(x, l.status).conn["message"] = x.conn["message"]
          /\ Assigned(x, l.status).conn["empty"] =
               IF l.status # "completed" /\ ~x.page.sending
               THEN Fresh("open", x.page.cursor) ELSE NoConn
          /\ Assigned(x, l.status).loads = x.loads
      BY <1>1, <1>9, AssignedIs
    <2> QED
      BY <1>10, <2>1
  <1>13. /\ v.page.shown = x.page.shown /\ v.page.cursor = x.page.cursor
         /\ v.page.local = l.status /\ v.page.sending = x.page.sending
         /\ v.page.epoch = x.page.epoch
    BY <1>9, <1>12 DEF Views, Pages
  <1>14. v.page.cursor = IF l.log = <<>> THEN w.page.cursor ELSE Last(l.log)
    BY <1>11, <1>13 DEF c
  <1> QED
    BY <1>4, <1>9, <1>11, <1>12, <1>13, <1>14 DEF v

\* What follows a snapshot, applied or lost.
LEMMA ContinuedIs ==
  ASSUME NEW w \in Views, NEW l \in Loads
  PROVE  LET v == Continued(w, l) IN
         /\ v \in Views /\ v.loads = w.loads
         /\ v.page.shown = w.page.shown /\ v.page.cursor = w.page.cursor
         /\ v.page.local = w.page.local /\ v.page.sending = w.page.sending
         /\ v.page.epoch = w.page.epoch
         /\ v.conn["message"] = w.conn["message"]
         /\ v.conn["empty"] \in {w.conn["empty"], Fresh("open", w.page.cursor)}
         /\ l.epoch # w.page.epoch => v = w
         /\ v.conn["empty"] # w.conn["empty"] =>
              l.kind = "run" /\ l.epoch = w.page.epoch /\ w.page.local = "running"
         /\ l.epoch = w.page.epoch /\ l.kind = "empty" /\ w.page.local = "running" =>
              w.page.sending \/ v.page.timer
         /\ l.epoch = w.page.epoch /\ l.kind = "run" /\ w.page.local = "running" =>
              v.conn["empty"] # NoConn
         /\ l.kind \notin Told => v = w
  <1> DEFINE v == Continued(w, l)
  <1>1. w.page \in Pages /\ w.conn \in [Streams -> Conns]
    BY DEF Views
  <1>2. NoConn.pc = "none" /\ Fresh("open", w.page.cursor).pc = "open"
    BY <1>1, FreshIs DEF ConnPcs, Pages
  <1>3. CASE l.epoch # w.page.epoch
    BY <1>3 DEF Continued, Told
  <1>4. CASE l.epoch = w.page.epoch /\ l.kind = "empty"
    <2>1. v = ScheduleReconnect(w)
      BY <1>4 DEF Continued
    <2>2. /\ v \in Views /\ v.conn = w.conn /\ v.loads = w.loads
          /\ v.page = [w.page EXCEPT !.timer = IF w.page.sending \/ w.page.local = "completed"
                                               THEN @ ELSE TRUE]
      BY <2>1, ReconnectIs
    <2> HIDE DEF v
    <2>3. /\ v.page.shown = w.page.shown /\ v.page.cursor = w.page.cursor
          /\ v.page.local = w.page.local /\ v.page.sending = w.page.sending
          /\ v.page.epoch = w.page.epoch
          /\ w.page.local = "running" => w.page.sending \/ v.page.timer
      BY <1>1, <2>2 DEF Pages
    <2> QED
      BY <1>4, <2>2, <2>3 DEF v, Told
  <1>5. CASE l.epoch = w.page.epoch /\ l.kind = "run" /\ w.page.local = "running"
               /\ w.conn["empty"] = NoConn
    <2>1. v = StartEmptyStream(w)
      BY <1>5 DEF Continued
    <2>2. /\ v \in Views /\ v.page = [w.page EXCEPT !.timer = FALSE]
          /\ v.conn["message"] = w.conn["message"]
          /\ v.conn["empty"] = Fresh("open", w.page.cursor)
          /\ v.loads = w.loads
      BY <1>5, <2>1, StartIs
    <2> HIDE DEF v
    <2>3. /\ v.page.shown = w.page.shown /\ v.page.cursor = w.page.cursor
          /\ v.page.local = w.page.local /\ v.page.sending = w.page.sending
          /\ v.page.epoch = w.page.epoch
      BY <1>1, <2>2 DEF Pages
    <2> QED
      BY <1>2, <1>5, <2>2, <2>3 DEF v, Told
  <1>6. CASE /\ l.epoch = w.page.epoch /\ l.kind # "empty"
             /\ ~(l.kind = "run" /\ w.page.local = "running" /\ w.conn["empty"] = NoConn)
    <2>1. v = w
      BY <1>6 DEF Continued
    <2> QED
      BY <1>6, <2>1 DEF Told
  <1> QED
    BY <1>3, <1>4, <1>5, <1>6

\* A listening stream that breaks leaves a timer or a snapshot behind.
LEMMA BrokenIs ==
  ASSUME NEW w \in Views, w.conn["empty"].pc = "none" => w.conn["empty"] = NoConn
  PROVE  LET v == Broken(w) IN
         /\ v \in Views /\ v.conn = [w.conn EXCEPT !["empty"] = NoConn]
         /\ v.page.shown = w.page.shown /\ v.page.cursor = w.page.cursor
         /\ v.page.local = w.page.local /\ v.page.sending = w.page.sending
         /\ v.page.epoch = w.page.epoch
         /\ v.loads \in {w.loads, Append(w.loads, Load("empty", w.page.epoch))}
         /\ w.page.timer => v.page.timer
         /\ w.conn["empty"].pc # "none" /\ w.page.local = "running" =>
              w.page.sending \/ v.page.timer \/ v.loads # w.loads
  <1> DEFINE v == Broken(w)
             bare == [w EXCEPT !.conn["empty"] = NoConn]
  <1>1. w.page \in Pages /\ w.conn \in [Streams -> Conns]
    BY DEF Views
  <1>2. /\ bare \in Views /\ bare.page = w.page /\ bare.loads = w.loads
        /\ bare.conn = [w.conn EXCEPT !["empty"] = NoConn]
    BY FreshIs DEF Views, Streams, ConnPcs
  <1>3. CASE w.conn["empty"].pc = "none"
    <2>1. v = w
      BY <1>3 DEF Broken
    <2> QED
      BY <1>1, <1>3, <2>1 DEF Streams
  <1>4. CASE w.conn["empty"].pc = "open"
    <2>1. v = ScheduleReconnect(bare)
      BY <1>4 DEF Broken
    <2> HIDE DEF bare
    <2>2. /\ v \in Views /\ v.conn = bare.conn /\ v.loads = bare.loads
          /\ v.page = [bare.page EXCEPT !.timer =
                         IF bare.page.sending \/ bare.page.local = "completed" THEN @ ELSE TRUE]
      BY <1>2, <2>1, ReconnectIs
    <2> HIDE DEF v
    <2>3. /\ v.page.shown = w.page.shown /\ v.page.cursor = w.page.cursor
          /\ v.page.local = w.page.local /\ v.page.sending = w.page.sending
          /\ v.page.epoch = w.page.epoch /\ w.page.timer => v.page.timer
          /\ w.page.local = "running" => w.page.sending \/ v.page.timer
      BY <1>1, <1>2, <2>2 DEF Pages
    <2> QED
      BY <1>2, <2>2, <2>3 DEF v
  <1>5. CASE w.conn["empty"].pc \notin {"none", "open"}
    <2> DEFINE u == ScheduleReconnect(w)
    <2>1. v = EmptyStreamEnd(u)
      BY <1>5 DEF Broken
    <2>2. /\ u \in Views /\ u.conn = w.conn /\ u.loads = w.loads
          /\ u.page = [w.page EXCEPT !.timer = IF w.page.sending \/ w.page.local = "completed"
                                               THEN @ ELSE TRUE]
      BY ReconnectIs
    <2> HIDE DEF u
    <2>3. /\ v \in Views /\ v.page = u.page /\ v.conn = [u.conn EXCEPT !["empty"] = NoConn]
          /\ v.loads = Append(u.loads, Load("empty", u.page.epoch))
      BY <2>1, <2>2, EmptyStreamEndIs
    <2> HIDE DEF v
    <2>4. /\ u.page.shown = w.page.shown /\ u.page.cursor = w.page.cursor
          /\ u.page.local = w.page.local /\ u.page.sending = w.page.sending
          /\ u.page.epoch = w.page.epoch /\ w.page.timer => u.page.timer
          /\ w.page.local = "running" => w.page.sending \/ u.page.timer
      BY <1>1, <2>2 DEF Pages
    <2> QED
      BY <2>2, <2>3, <2>4 DEF v
  <1> QED
    BY <1>3, <1>4, <1>5

-----------------------------------------------------------------------------
(* The server *)

\* Events are made and stay.
Grown ==
  /\ evs' \in Seq(Events) /\ DOMAIN evs \subseteq DOMAIN evs' /\ Len(evs) <= Len(evs')
  /\ \A e \in DOMAIN evs : evs'[e] = evs[e]

\* Where no event is made, the outputs of the runs are what they were.
LEMMA SameEvents ==
  ASSUME ServerTypeOK, evs' = evs
  PROVE  /\ Grown /\ \A r : Outs(r)' = Outs(r)
         /\ Len(evs) \in Nat /\ DOMAIN evs = 1 .. Len(evs)
  <1>1. Len(evs) \in Nat /\ evs \in Seq(Events) /\ DOMAIN evs = 1 .. Len(evs)
    BY DEF ServerTypeOK
  <1> QED
    BY <1>1 DEF Grown, Outs

\* A new event has the next place and belongs to the output it was put into.
LEMMA NewEvent ==
  ASSUME ServerTypeOK, NEW x \in Events, evs' = Append(evs, x)
  PROVE  /\ Grown /\ Len(evs) \in Nat /\ DOMAIN evs = 1 .. Len(evs) /\ Len(evs') = Len(evs) + 1
         /\ DOMAIN evs' = DOMAIN evs \cup {Len(evs) + 1} /\ Len(evs) + 1 \notin DOMAIN evs
         /\ evs'[Len(evs) + 1] = x /\ Len(evs) + 1 \in Nat \ {0}
         /\ \A r : Outs(r)' = Outs(r) \cup (IF x.src = "out" /\ x.run = r
                                            THEN {Len(evs) + 1} ELSE {})
  <1>1. evs \in Seq(Events) /\ Len(evs) \in Nat /\ DOMAIN evs = 1 .. Len(evs)
    BY DEF ServerTypeOK
  <1>2. /\ evs' \in Seq(Events) /\ Len(evs') = Len(evs) + 1 /\ DOMAIN evs' = 1 .. Len(evs) + 1
        /\ \A e \in 1 .. Len(evs) : evs'[e] = evs[e]
        /\ evs'[Len(evs) + 1] = x
    BY <1>1
  <1>3. DOMAIN evs' = DOMAIN evs \cup {Len(evs) + 1} /\ Len(evs) + 1 \notin DOMAIN evs
        /\ Len(evs) + 1 \in Nat \ {0} /\ Len(evs) <= Len(evs')
    BY <1>1, <1>2
  <1>4. \A r : Outs(r)' = Outs(r) \cup (IF x.src = "out" /\ x.run = r
                                        THEN {Len(evs) + 1} ELSE {})
    <2>1. \A e \in DOMAIN evs : evs'[e] = evs[e]
      BY <1>1, <1>2
    <2> QED
      BY <1>2, <1>3, <2>1 DEF Outs
  <1> QED
    BY <1>1, <1>2, <1>3, <1>4 DEF Grown

\* Where a commit takes a runner.
LEMMA AfterIs ==
  /\ DOMAIN After = {"commit", "waits", "fails", "last"}
  /\ After["commit"] = "flow" /\ After["waits"] = "waiting" /\ After["fails"] = "failing"
  /\ After["last"] = "closing"
  BY DEF After

\* A runner that has no part in a step.
LEMMA RunnerKept ==
  ASSUME ServerTypeOK, Grown, NEW q \in Runs, RunnerInv(q),
         Range(db) \subseteq Range(db)', hand'[q] = hand[q], runner'[q] = runner[q],
         Outs(q)' = Outs(q), row'.task \in Nat, row.task <= row'.task,
         At(q, "finish") /\ q = row'.task => row'.status # "running",
         \A e \in DOMAIN evs' \ DOMAIN evs : ~(evs'[e].kind = "done" /\ evs'[e].run = q),
         \A e \in Range(db)' \ Range(db) : ~(evs'[e].kind = "done" /\ evs'[e].run = q)
  PROVE  RunnerInv(q)'
  <1>1. row.task \in Nat /\ q \in Nat
    BY PageAssumption DEF ServerTypeOK, Runs
  <1>2. (q > row.task => At(q, "off"))'
    BY <1>1 DEF RunnerInv, At
  <1>3. (IF runner[q] \in DOMAIN After THEN hand[q] \in Outs(q) ELSE hand[q] = 0)'
    <2>1. (DOMAIN After)' = DOMAIN After
      BY AfterIs DEF After
    <2> QED
      BY <2>1 DEF RunnerInv
  <1>4. (~At(q, "over") => Outs(q) \subseteq Range(db) \cup {hand[q]})'
    BY DEF RunnerInv, At
  <1>5. (\A e \in DOMAIN evs : Done(e, q) => runner[q] \in {"last", "closing", "over"})'
    BY DEF RunnerInv, Done, Grown
  <1>6. (\A e \in Range(db) : Done(e, q) => Outs(q) \subseteq Range(db))'
    BY DEF RunnerInv, Done, Grown, ServerTypeOK
  <1>7. (At(q, "finish") /\ q = row.task => row.status # "running")'
    BY DEF At
  <1> QED
    BY <1>2, <1>3, <1>4, <1>5, <1>6, <1>7 DEF RunnerInv

\* The DoneEvents stay true.
TrueDones == \A e \in DOMAIN evs : evs[e].kind = "done" =>
               evs[e].run \in Runs /\ (evs[e].run = row.task => row.status # "running")

\* The server's invariant: each runner's, and the DoneEvents are true.
LEMMA RunInvIs == RunInv <=> (\A r \in Runs : RunnerInv(r)) /\ TrueDones
  BY DEF RunInv, TrueDones

\* DoneEvents stay true while the row keeps its task and is not started.
LEMMA DonesKept ==
  ASSUME ServerTypeOK, Grown, TrueDones, row'.task = row.task,
         row.status # "running" => row'.status # "running",
         \A e \in DOMAIN evs' \ DOMAIN evs : evs'[e].kind = "done" =>
            evs'[e].run \in Runs /\ (evs'[e].run = row.task => row'.status # "running")
  PROVE  TrueDones'
  BY DEF TrueDones, Grown

\* A runner puts an event.
LEMMA PutKeeps ==
  ASSUME ServerTypeOK, RunInv, NEW r \in Runs, NEW k \in Kinds \ {"resolved"}, NEW pc \in RunnerPcs,
         Put(r, k, pc), UNCHANGED <<db, row>>,
         runner[r] \in {"flow", "accept", "finish", "raise"}, pc \in DOMAIN After,
         k = "done" => pc = "last" /\ runner[r] = "finish"
  PROVE  /\ ServerTypeOK' /\ RunInv' /\ Grown
         /\ \A d \in Outs(row.task)' \ Outs(row.task) :
              Stirring(d)' => k = "step" /\ r = row.task
         /\ k = "step" => \A e \in DOMAIN evs : ~Done(e, r)
  <1> DEFINE n == Len(evs) + 1
             x == Event(k, "out", r)
  <1>1. x \in Events /\ x.kind = k /\ x.src = "out" /\ x.run = r
    BY PageAssumption DEF Event, Events, Runs
  <1>2. evs' = Append(evs, x) /\ hand' = [hand EXCEPT ![r] = n] /\ runner' = [runner EXCEPT ![r] = pc]
    BY DEF Put, Goto
  <1> HIDE DEF x
  <1>3. /\ Grown /\ Len(evs) \in Nat /\ DOMAIN evs = 1 .. Len(evs) /\ Len(evs') = n
        /\ DOMAIN evs' = DOMAIN evs \cup {n} /\ n \notin DOMAIN evs /\ evs'[n] = x
        /\ n \in Nat \ {0}
        /\ \A q : Outs(q)' = Outs(q) \cup (IF r = q THEN {n} ELSE {})
    BY <1>1, <1>2, NewEvent
  <1> HIDE DEF n
  <1>4. hand \in [Runs -> 0..Len(evs)] /\ runner \in [Runs -> RunnerPcs] /\ Range(db) \subseteq DOMAIN evs
    BY DEF ServerTypeOK
  <1>5. ServerTypeOK'
    <2>1. hand' \in [Runs -> 0..Len(evs')]
      BY <1>2, <1>3, <1>4 DEF Grown
    <2>2. runner' \in [Runs -> RunnerPcs]
      BY <1>2, <1>4
    <2> QED
      BY <1>3, <2>1, <2>2 DEF ServerTypeOK, Grown
  <1>6. runner[r] \notin DOMAIN After /\ runner[r] \notin {"off", "over", "last", "closing"}
    BY AfterIs
  <1>7. RunnerInv(r) /\ (\A q \in Runs : RunnerInv(q)) /\ TrueDones
    BY RunInvIs
  <1>8. hand[r] = 0 /\ Outs(r) \subseteq Range(db) /\ \A e \in DOMAIN evs : ~Done(e, r)
    <2>1. hand[r] = 0
      BY <1>6, <1>7 DEF RunnerInv
    <2>2. Outs(r) \subseteq Range(db) \cup {hand[r]}
      BY <1>6, <1>7 DEF RunnerInv, At
    <2>3. 0 \notin Outs(r)
      BY <1>3 DEF Outs
    <2>4. \A e \in DOMAIN evs : ~Done(e, r)
      BY <1>6, <1>7 DEF RunnerInv
    <2> QED
      BY <2>1, <2>2, <2>3, <2>4
  <1>9. RunnerInv(r)'
    <2>1. runner'[r] = pc /\ hand'[r] = n /\ Outs(r)' = Outs(r) \cup {n}
      BY <1>2, <1>3, <1>4
    <2>2. (r > row.task => At(r, "off"))'
      BY <1>6, <1>7 DEF RunnerInv, At
    <2>3. (IF runner[r] \in DOMAIN After THEN hand[r] \in Outs(r) ELSE hand[r] = 0)'
      BY <2>1 DEF After
    <2>4. (~At(r, "over") => Outs(r) \subseteq Range(db) \cup {hand[r]})'
      BY <1>8, <2>1
    <2>5. (\A e \in DOMAIN evs : Done(e, r) => runner[r] \in {"last", "closing", "over"})'
      BY <1>1, <1>3, <1>8, <2>1 DEF Done, Grown
    <2>6. (\A e \in Range(db) : Done(e, r) => Outs(r) \subseteq Range(db))'
      BY <1>3, <1>4, <1>8 DEF Done, Grown
    <2>7. (At(r, "finish") /\ r = row.task => row.status # "running")'
      BY <2>1, AfterIs DEF At
    <2> QED
      BY <2>2, <2>3, <2>4, <2>5, <2>6, <2>7 DEF RunnerInv
  <1>10. ASSUME NEW q \in Runs, q # r
         PROVE  RunnerInv(q)'
    <2>1. hand'[q] = hand[q] /\ runner'[q] = runner[q] /\ Outs(q)' = Outs(q)
      BY <1>2, <1>3, <1>4, <1>10
    <2>2. row'.task \in Nat /\ row.task <= row'.task /\ Range(db)' = Range(db)
      BY PageAssumption DEF ServerTypeOK
    <2>3. \A e \in DOMAIN evs' \ DOMAIN evs : ~(evs'[e].kind = "done" /\ evs'[e].run = q)
      BY <1>1, <1>3, <1>10
    <2>4. At(q, "finish") /\ q = row'.task => row'.status # "running"
      BY <1>7 DEF RunnerInv
    <2> QED
      BY <1>3, <1>7, <2>1, <2>2, <2>3, <2>4, RunnerKept
  <1>11. TrueDones'
    <2>1. k = "done" => r \in Runs /\ (r = row.task => row.status # "running")
      BY <1>7 DEF RunnerInv, At
    <2>2. \A e \in DOMAIN evs' \ DOMAIN evs : evs'[e].kind = "done" =>
            evs'[e].run \in Runs /\ (evs'[e].run = row.task => row'.status # "running")
      BY <1>1, <1>3, <2>1
    <2> QED
      BY <1>3, <1>7, <2>2, DonesKept
  <1>12. \A d \in Outs(row.task)' \ Outs(row.task) : Stirring(d)' => k = "step" /\ r = row.task
    <2>1. \A d \in Outs(row.task)' \ Outs(row.task) : d = n /\ r = row.task
      BY <1>3
    <2>2. \A d : d = n /\ Stirring(d)' => k = "step"
      BY <1>1, <1>3 DEF Stirring
    <2> QED
      BY <2>1, <2>2
  <1>13. RunInv'
    BY <1>9, <1>10, <1>11, RunInvIs DEF RunInv, TrueDones
  <1> QED
    BY <1>3, <1>5, <1>8, <1>12, <1>13

Rows == [status : Statuses, task : 0..MaxRuns, next : {"none", "queued", "processing"}]

\* A runner that neither puts nor commits an event of its own.
LEMMA MoveKeeps ==
  ASSUME ServerTypeOK, RunInv, NEW r \in Runs, NEW pc \in RunnerPcs,
         runner' = [runner EXCEPT ![r] = pc], UNCHANGED <<evs, hand>>,
         db' = db \/ \E u \in DOMAIN evs : evs[u].kind # "done" /\ db' = Append(db, u),
         runner[r] \notin DOMAIN After \cup {"off", "over"}, pc \notin DOMAIN After \cup {"off"},
         row' \in Rows, row'.task = row.task,
         row.status # "running" => row'.status # "running",
         pc = "finish" /\ r = row.task => row'.status # "running",
         runner[r] = "closing" => pc = "over"
  PROVE  ServerTypeOK' /\ RunInv' /\ Grown /\ Range(db) \subseteq Range(db)'
  <1>1. /\ Grown /\ (\A q : Outs(q)' = Outs(q))
        /\ Len(evs) \in Nat /\ DOMAIN evs = 1 .. Len(evs)
    BY SameEvents
  <1>2. (\A q \in Runs : RunnerInv(q)) /\ TrueDones
    BY RunInvIs
  <1>3. /\ runner \in [Runs -> RunnerPcs] /\ row.task \in Nat
        /\ db \in Seq(Nat) /\ Range(db) \subseteq DOMAIN evs
    BY PageAssumption DEF ServerTypeOK
  <1>0. /\ db' \in Seq(Nat) /\ Range(db) \subseteq Range(db)' /\ Range(db)' \subseteq DOMAIN evs
        /\ \A e \in Range(db)' \ Range(db) : evs[e].kind # "done"
    <2>1. CASE db' = db
      BY <1>3, <2>1
    <2>2. ASSUME NEW u \in DOMAIN evs, evs[u].kind # "done", db' = Append(db, u)
          PROVE  /\ db' \in Seq(Nat) /\ Range(db') = Range(db) \cup {u}
                 /\ u \in DOMAIN evs /\ evs[u].kind # "done"
      BY <1>1, <1>3, <2>2, AppendRange
    <2> QED
      BY <1>3, <2>1, <2>2
  <1>4. ServerTypeOK'
    BY <1>0 DEF ServerTypeOK, Rows
  <1>5. RunnerInv(r)'
    <2>1. runner'[r] = pc /\ hand'[r] = hand[r] /\ Outs(r)' = Outs(r)
      BY <1>1, <1>3
    <2>2. (r > row.task => At(r, "off"))'
      BY <1>2 DEF RunnerInv, At
    <2>3. (IF runner[r] \in DOMAIN After THEN hand[r] \in Outs(r) ELSE hand[r] = 0)'
      BY <1>2, <2>1 DEF RunnerInv, After
    <2>4. (~At(r, "over") => Outs(r) \subseteq Range(db) \cup {hand[r]})'
      BY <1>0, <1>2, <2>1 DEF RunnerInv, At
    <2>5. (\A e \in DOMAIN evs : Done(e, r) => runner[r] \in {"last", "closing", "over"})'
      BY <1>2, <2>1, AfterIs DEF RunnerInv, Done
    <2>6. (\A e \in Range(db) : Done(e, r) => Outs(r) \subseteq Range(db))'
      BY <1>0, <1>2, <2>1 DEF RunnerInv, Done
    <2>7. (At(r, "finish") /\ r = row.task => row.status # "running")'
      BY <2>1 DEF At
    <2> QED
      BY <2>2, <2>3, <2>4, <2>5, <2>6, <2>7 DEF RunnerInv
  <1>6. ASSUME NEW q \in Runs, q # r
        PROVE  RunnerInv(q)'
    <2>1. hand'[q] = hand[q] /\ runner'[q] = runner[q] /\ Outs(q)' = Outs(q)
      BY <1>1, <1>3, <1>6
    <2>2. row'.task \in Nat /\ row.task <= row'.task
      BY <1>3
    <2>3. At(q, "finish") /\ q = row'.task => row'.status # "running"
      BY <1>2 DEF RunnerInv
    <2>4. \A e \in Range(db)' \ Range(db) : ~(evs'[e].kind = "done" /\ evs'[e].run = q)
      BY <1>0
    <2> QED
      BY <1>0, <1>1, <1>2, <2>1, <2>2, <2>3, <2>4, RunnerKept
  <1>7. TrueDones'
    BY <1>1, <1>2, DonesKept
  <1> QED
    BY <1>0, <1>1, <1>4, <1>5, <1>6, <1>7 DEF RunInv, TrueDones

\* The transaction that follows a put.
LEMMA CommitKeeps ==
  ASSUME ServerTypeOK, RunInv, NEW r \in Runs, Commit(r)
  PROVE  /\ ServerTypeOK' /\ RunInv' /\ Grown /\ Range(db) \subseteq Range(db)'
         /\ row'.task = row.task /\ row'.status = row.status
         /\ \A q : Outs(q)' = Outs(q)
  <1>1. /\ Grown /\ (\A q : Outs(q)' = Outs(q))
        /\ Len(evs) \in Nat /\ DOMAIN evs = 1 .. Len(evs)
    BY SameEvents DEF Commit
  <1>2. (\A q \in Runs : RunnerInv(q)) /\ TrueDones
    BY RunInvIs
  <1>3. /\ runner \in [Runs -> RunnerPcs] /\ row.task \in Nat /\ hand \in [Runs -> 0..Len(evs)]
        /\ db \in Seq(Nat) /\ Range(db) \subseteq DOMAIN evs
    BY PageAssumption DEF ServerTypeOK
  <1>4. /\ runner[r] \in DOMAIN After /\ db' = Append(db, hand[r]) /\ evs' = evs
        /\ hand' = [hand EXCEPT ![r] = 0] /\ runner' = [runner EXCEPT ![r] = After[runner[r]]]
    BY DEF Commit, Goto
  <1>5. hand[r] \in Outs(r) /\ hand[r] \in DOMAIN evs /\ hand[r] \in Nat
    BY <1>1, <1>2, <1>4 DEF RunnerInv, Outs
  <1>6. db' \in Seq(Nat) /\ Range(db)' = Range(db) \cup {hand[r]}
    BY <1>3, <1>4, <1>5, AppendRange
  <1>7. row' \in Rows /\ row'.task = row.task /\ row'.status = row.status
    BY DEF Commit, ServerTypeOK, Rows
  <1>8. After[runner[r]] \in {"flow", "waiting", "failing", "closing"}
        /\ (runner[r] # "last" => After[runner[r]] # "closing")
        /\ (runner[r] = "last" => After[runner[r]] = "closing")
    BY <1>4, AfterIs
  <1>9. ServerTypeOK'
    BY <1>1, <1>3, <1>4, <1>5, <1>6, <1>7, <1>8 DEF ServerTypeOK, Rows, RunnerPcs
  <1>10. RunnerInv(r)'
    <2>1. runner'[r] = After[runner[r]] /\ hand'[r] = 0 /\ Outs(r)' = Outs(r)
      BY <1>1, <1>3, <1>4
    <2>2. (r > row.task => At(r, "off"))'
      BY <1>2, <1>4, <1>7, AfterIs DEF RunnerInv, At
    <2>3. (IF runner[r] \in DOMAIN After THEN hand[r] \in Outs(r) ELSE hand[r] = 0)'
      BY <1>8, <2>1, AfterIs DEF After
    <2>0. Outs(r) \subseteq Range(db)'
      BY <1>2, <1>4, <1>6, AfterIs DEF RunnerInv, At
    <2>4. (~At(r, "over") => Outs(r) \subseteq Range(db) \cup {hand[r]})'
      BY <2>0, <2>1
    <2>5. (\A e \in DOMAIN evs : Done(e, r) => runner[r] \in {"last", "closing", "over"})'
      BY <1>2, <1>4, <1>8, <2>1, AfterIs DEF RunnerInv, Done
    <2>6. (\A e \in Range(db) : Done(e, r) => Outs(r) \subseteq Range(db))'
      BY <2>0, <2>1
    <2>7. (At(r, "finish") /\ r = row.task => row.status # "running")'
      BY <1>8, <2>1 DEF At
    <2> QED
      BY <2>2, <2>3, <2>4, <2>5, <2>6, <2>7 DEF RunnerInv
  <1>11. ASSUME NEW q \in Runs, q # r
         PROVE  RunnerInv(q)'
    <2>1. hand'[q] = hand[q] /\ runner'[q] = runner[q] /\ Outs(q)' = Outs(q)
      BY <1>1, <1>3, <1>4, <1>11
    <2>2. row'.task \in Nat /\ row.task <= row'.task
      BY <1>3, <1>7
    <2>3. At(q, "finish") /\ q = row'.task => row'.status # "running"
      BY <1>2, <1>7 DEF RunnerInv
    <2>4. \A e \in Range(db)' \ Range(db) : ~(evs'[e].kind = "done" /\ evs'[e].run = q)
      BY <1>4, <1>5, <1>6, <1>11 DEF Outs
    <2>5. \A e \in DOMAIN evs' \ DOMAIN evs : ~(evs'[e].kind = "done" /\ evs'[e].run = q)
      BY <1>4
    <2>6. RunnerInv(q) /\ Range(db) \subseteq Range(db)'
      BY <1>2, <1>6
    <2> QED
      BY <1>1, <2>1, <2>2, <2>3, <2>4, <2>5, <2>6, RunnerKept
  <1>12. TrueDones'
    BY <1>1, <1>2, <1>4, <1>7, DonesKept
  <1> QED
    BY <1>1, <1>6, <1>7, <1>9, <1>10, <1>11, <1>12 DEF RunInv, TrueDones

\* An event that the API makes itself.
LEMMA ApiKeeps ==
  ASSUME ServerTypeOK, RunInv, NEW x \in Events, evs' = Append(evs, x),
         x.src # "out", x.kind # "done", UNCHANGED <<runner, hand>>,
         db' \in {db, Append(db, Len(evs) + 1)},
         row' \in Rows, row'.task = row.task,
         row.status # "running" => row'.status # "running"
  PROVE  /\ ServerTypeOK' /\ RunInv' /\ Grown /\ Range(db) \subseteq Range(db)'
         /\ db' # db => Len(evs) + 1 \in Range(db)'
         /\ \A q : Outs(q)' = Outs(q)
  <1>1. /\ Grown /\ Len(evs) \in Nat /\ DOMAIN evs = 1 .. Len(evs) /\ Len(evs') = Len(evs) + 1
        /\ DOMAIN evs' = DOMAIN evs \cup {Len(evs) + 1} /\ Len(evs) + 1 \notin DOMAIN evs
        /\ evs'[Len(evs) + 1] = x /\ Len(evs) + 1 \in Nat \ {0}
        /\ \A q : Outs(q)' = Outs(q)
    <2>1. /\ Grown /\ Len(evs) \in Nat /\ DOMAIN evs = 1 .. Len(evs)
          /\ Len(evs') = Len(evs) + 1
          /\ DOMAIN evs' = DOMAIN evs \cup {Len(evs) + 1} /\ Len(evs) + 1 \notin DOMAIN evs
          /\ evs'[Len(evs) + 1] = x /\ Len(evs) + 1 \in Nat \ {0}
          /\ \A q : Outs(q)' = Outs(q) \cup (IF x.src = "out" /\ x.run = q
                                             THEN {Len(evs) + 1} ELSE {})
      BY NewEvent
    <2>2. \A q : Outs(q)' = Outs(q)
      BY <2>1
    <2> QED
      BY <2>1, <2>2
  <1>2. (\A q \in Runs : RunnerInv(q)) /\ TrueDones
    BY RunInvIs
  <1>3. /\ runner \in [Runs -> RunnerPcs] /\ row.task \in Nat /\ hand \in [Runs -> 0..Len(evs)]
        /\ db \in Seq(Nat) /\ Range(db) \subseteq DOMAIN evs
    BY PageAssumption DEF ServerTypeOK
  <1>4. /\ db' \in Seq(Nat) /\ Range(db) \subseteq Range(db)'
        /\ Range(db)' \subseteq Range(db) \cup {Len(evs) + 1}
        /\ db' # db => Len(evs) + 1 \in Range(db)'
    <2>1. CASE db' = db
      BY <1>3, <2>1
    <2>2. CASE db' = Append(db, Len(evs) + 1)
      <3>1. db' \in Seq(Nat) /\ Range(db') = Range(db) \cup {Len(evs) + 1}
        BY <1>1, <1>3, <2>2, AppendRange
      <3> QED
        BY <3>1
    <2> QED
      BY <2>1, <2>2
  <1>5. ServerTypeOK'
    BY <1>1, <1>3, <1>4 DEF ServerTypeOK, Rows, Grown
  <1>6. ASSUME NEW q \in Runs
        PROVE  RunnerInv(q)'
    <2>1. hand'[q] = hand[q] /\ runner'[q] = runner[q] /\ Outs(q)' = Outs(q)
      BY <1>1
    <2>2. row'.task \in Nat /\ row.task <= row'.task
      BY <1>3
    <2>3. At(q, "finish") /\ q = row'.task => row'.status # "running"
      BY <1>2 DEF RunnerInv
    <2>4. \A e \in Range(db)' \ Range(db) : ~(evs'[e].kind = "done" /\ evs'[e].run = q)
      BY <1>1, <1>4
    <2>5. \A e \in DOMAIN evs' \ DOMAIN evs : ~(evs'[e].kind = "done" /\ evs'[e].run = q)
      BY <1>1
    <2>6. RunnerInv(q)
      BY <1>2
    <2> QED
      BY <1>1, <1>4, <2>1, <2>2, <2>3, <2>4, <2>5, <2>6, RunnerKept
  <1>7. TrueDones'
    BY <1>1, <1>2, DonesKept
  <1> QED
    BY <1>1, <1>4, <1>5, <1>6, <1>7 DEF RunInv, TrueDones

\* The row is claimed for the next run, and its runner made.
LEMMA ClaimKeeps ==
  ASSUME ServerTypeOK, RunInv, NextRun \in Runs, NEW pc \in {"made", "poll"},
         row' = [row EXCEPT !.status = "running", !.task = NextRun], Goto(NextRun, pc),
         UNCHANGED <<evs, db, hand>>
  PROVE  /\ ServerTypeOK' /\ RunInv' /\ Grown /\ row'.task = NextRun
         /\ \A e \in DOMAIN evs : ~Done(e, NextRun)
         /\ runner'[NextRun] = pc
  <1> DEFINE n == NextRun
  <1>1. /\ Grown /\ (\A q : Outs(q)' = Outs(q))
        /\ Len(evs) \in Nat /\ DOMAIN evs = 1 .. Len(evs)
    BY SameEvents
  <1>2. (\A q \in Runs : RunnerInv(q)) /\ TrueDones
    BY RunInvIs
  <1>3. /\ runner \in [Runs -> RunnerPcs] /\ row.task \in Nat /\ row \in Rows
        /\ Range(db) \subseteq DOMAIN evs /\ hand \in [Runs -> 0..Len(evs)]
    BY PageAssumption DEF ServerTypeOK, Rows
  <1>4. /\ n = row.task + 1 /\ n \in Runs /\ row' \in Rows /\ row'.task = n /\ Runs \subseteq Nat
        /\ n \in Nat
    <2>1. n = row.task + 1 /\ n \in Runs
      BY DEF NextRun
    <2>2. Runs \subseteq Nat /\ \A q \in Runs : q \in 0..MaxRuns
      BY PageAssumption DEF Runs
    <2>3. row' = [row EXCEPT !.status = "running", !.task = n]
      OBVIOUS
    <2> HIDE DEF n
    <2>4. row' \in Rows /\ row'.task = n
      BY <1>3, <2>1, <2>2, <2>3 DEF Rows, Statuses
    <2> QED
      BY <2>1, <2>2, <2>4
  <1>5. runner' = [runner EXCEPT ![n] = pc] /\ runner'[n] = pc /\ pc \in RunnerPcs
    BY <1>3, <1>4 DEF Goto, RunnerPcs
  <1> HIDE DEF n
  <1>6. At(n, "off") /\ hand[n] = 0 /\ Outs(n) \subseteq Range(db)
        /\ \A e \in DOMAIN evs : ~Done(e, n)
    <2>1. RunnerInv(n) /\ n > row.task
      BY <1>2, <1>3, <1>4
    <2>2. At(n, "off")
      BY <2>1 DEF RunnerInv
    <2>3. hand[n] = 0
      BY <2>1, <2>2, AfterIs DEF RunnerInv, At
    <2>4. Outs(n) \subseteq Range(db)
      BY <1>1, <2>1, <2>2, <2>3 DEF RunnerInv, At, Outs
    <2>5. \A e \in DOMAIN evs : ~Done(e, n)
      BY <2>1, <2>2 DEF RunnerInv, At
    <2> QED
      BY <2>2, <2>3, <2>4, <2>5
  <1>7. ServerTypeOK'
    BY <1>3, <1>4, <1>5 DEF ServerTypeOK, Rows
  <1>8. ASSUME NEW q \in Runs, q = n
        PROVE  RunnerInv(q)'
    <2>1. runner'[q] = pc /\ hand'[q] = 0 /\ Outs(q)' = Outs(q) /\ row'.task = q
      BY <1>1, <1>4, <1>5, <1>6, <1>8
    <2>2. (q > row.task => At(q, "off"))'
      BY <1>4, <2>1
    <2>3. (IF runner[q] \in DOMAIN After THEN hand[q] \in Outs(q) ELSE hand[q] = 0)'
      BY <2>1, AfterIs DEF After
    <2>4. (~At(q, "over") => Outs(q) \subseteq Range(db) \cup {hand[q]})'
      BY <1>6, <1>8, <2>1
    <2>5. (\A e \in DOMAIN evs : Done(e, q) => runner[q] \in {"last", "closing", "over"})'
      BY <1>6, <1>8 DEF Done
    <2>6. (\A e \in Range(db) : Done(e, q) => Outs(q) \subseteq Range(db))'
      BY <1>6, <1>8, <2>1
    <2>7. (At(q, "finish") /\ q = row.task => row.status # "running")'
      BY <2>1 DEF At
    <2> QED
      BY <2>2, <2>3, <2>4, <2>5, <2>6, <2>7 DEF RunnerInv
  <1>9. ASSUME NEW q \in Runs, q # n
        PROVE  RunnerInv(q)'
    <2>1. hand'[q] = hand[q] /\ runner'[q] = runner[q] /\ Outs(q)' = Outs(q)
      BY <1>1, <1>3, <1>5, <1>9
    <2>2. row'.task \in Nat /\ row.task <= row'.task /\ q # row'.task
      BY <1>3, <1>4, <1>9
    <2> QED
      BY <1>1, <1>2, <2>1, <2>2, RunnerKept
  <1>10. TrueDones'
    BY <1>2, <1>4, <1>6 DEF TrueDones, Done
  <1> QED
    BY <1>1, <1>4, <1>5, <1>6, <1>7, <1>8, <1>9, <1>10 DEF RunInv, TrueDones, n

\* The process of the server goes, with every runner.
LEMMA CrashKeeps ==
  ASSUME ServerTypeOK, RunInv,
         runner' = [r \in Runs |-> IF At(r, "off") THEN "off" ELSE "over"],
         hand' = [r \in Runs |-> 0], UNCHANGED <<evs, db, row>>
  PROVE  ServerTypeOK' /\ RunInv' /\ Grown
  <1>1. /\ Grown /\ (\A q : Outs(q)' = Outs(q))
        /\ Len(evs) \in Nat /\ DOMAIN evs = 1 .. Len(evs)
    BY SameEvents
  <1>2. (\A q \in Runs : RunnerInv(q)) /\ TrueDones
    BY RunInvIs
  <1>3. ServerTypeOK'
    BY <1>1 DEF ServerTypeOK, RunnerPcs
  <1>4. ASSUME NEW q \in Runs
        PROVE  RunnerInv(q)'
    <2>1. /\ hand'[q] = 0 /\ Outs(q)' = Outs(q) /\ RunnerInv(q)
          /\ runner'[q] = IF runner[q] = "off" THEN "off" ELSE "over"
      BY <1>1, <1>2 DEF At
    <2>2. (q > row.task => At(q, "off"))'
      BY <2>1 DEF RunnerInv, At
    <2>3. (IF runner[q] \in DOMAIN After THEN hand[q] \in Outs(q) ELSE hand[q] = 0)'
      BY <2>1, AfterIs DEF After
    <2>4. (~At(q, "over") => Outs(q) \subseteq Range(db) \cup {hand[q]})'
      <3>1. ASSUME runner[q] = "off"
            PROVE  hand[q] = 0 /\ Outs(q) \subseteq Range(db) \cup {hand[q]}
        BY <2>1, <3>1, AfterIs DEF RunnerInv, At
      <3> QED
        BY <2>1, <3>1 DEF At
    <2>5. (\A e \in DOMAIN evs : Done(e, q) => runner[q] \in {"last", "closing", "over"})'
      BY <2>1 DEF RunnerInv, Done
    <2>6. (\A e \in Range(db) : Done(e, q) => Outs(q) \subseteq Range(db))'
      BY <2>1 DEF RunnerInv, Done
    <2>7. (At(q, "finish") /\ q = row.task => row.status # "running")'
      BY <2>1 DEF At
    <2> QED
      BY <2>2, <2>3, <2>4, <2>5, <2>6, <2>7 DEF RunnerInv
  <1>5. TrueDones'
    BY <1>2 DEF TrueDones
  <1> QED
    BY <1>1, <1>3, <1>4, <1>5 DEF RunInv, TrueDones

\* What the page and its requests know stays true of a server that goes on.
LEMMA ClientTypeKept ==
  ASSUME ServerTypeOK, ClientTypeOK, Grown, UNCHANGED client
  PROVE  ClientTypeOK'
  <1>1. Len(evs) \in Nat /\ Len(evs') \in Nat /\ Len(evs) <= Len(evs')
    BY DEF ServerTypeOK, Grown
  <1>2. \A n \in 0..Len(evs) : n \in 0..Len(evs')
    BY <1>1
  <1>3. conn' = conn /\ page' = page /\ loads' = loads
    BY DEF client
  <1> QED
    BY <1>2, <1>3 DEF ClientTypeOK, Grown

\* Settled says nothing new when no stirring event comes after a DoneEvent.
LEMMA SettledKept ==
  ASSUME ServerTypeOK, Grown, row'.task = row.task,
         \A d \in Range(conn'["message"].chan) \cup Outs(row.task)' : Stirring(d)' =>
            \/ d \in Range(conn["message"].chan) \cup Outs(row.task)
            \/ \A e \in DOMAIN evs : ~Done(e, row.task),
         Range(conn["message"].chan) \subseteq DOMAIN evs
  PROVE  \A seen \in SUBSET DOMAIN evs : \A st : Settled(seen, st) => Settled(seen, st)'
  <1>1. Outs(row.task) \subseteq DOMAIN evs
    BY DEF Outs
  <1>2. \A d \in DOMAIN evs : /\ Stirring(d)' <=> Stirring(d)
                              /\ Done(d, row.task)' <=> Done(d, row.task)
    BY DEF Stirring, Done, Grown
  <1> SUFFICES ASSUME NEW seen \in SUBSET DOMAIN evs, NEW st, Settled(seen, st),
                      \E e \in seen : Done(e, row.task)'
               PROVE  /\ st # "running"
                      /\ \A d \in (Range(conn["message"].chan) \cup Outs(row.task))' :
                           Stirring(d)' => d \in seen
    BY DEF Settled
  <1>3. \E e \in seen : Done(e, row.task)
    BY <1>2
  <1>4. /\ st # "running"
        /\ \A d \in Range(conn["message"].chan) \cup Outs(row.task) : Stirring(d) => d \in seen
    BY <1>3 DEF Settled
  <1>5. ASSUME NEW d \in Range(conn'["message"].chan) \cup Outs(row.task)', Stirring(d)'
        PROVE  d \in seen
    <2>1. d \in Range(conn["message"].chan) \cup Outs(row.task)
      BY <1>3, <1>5
    <2> QED
      BY <1>1, <1>2, <1>4, <1>5, <2>1
  <1> QED
    BY <1>4, <1>5

\* Outputs only grow.
LEMMA OutsGrow ==
  ASSUME Grown
  PROVE  \A r : Outs(r) \subseteq Outs(r)'
  BY DEF Outs, Grown

\* What the server does on its own leaves the page's invariant alone, unless it
\* adds a step to a run that is done.
LEMMA ClientKept ==
  ASSUME ServerTypeOK, ClientTypeOK, ConnInv, HearsInv, SettledInv, Grown,
         Range(db) \subseteq Range(db)', UNCHANGED client, row'.task = row.task,
         At(row.task, "made") => At(row.task, "made")',
         \A d \in Outs(row.task)' \ Outs(row.task) : Stirring(d)' =>
            \A e \in DOMAIN evs : ~Done(e, row.task)
  PROVE  ClientTypeOK' /\ ConnInv' /\ HearsInv' /\ SettledInv'
  <1>1. conn' = conn /\ page' = page /\ loads' = loads
    BY DEF client
  <1>2. ClientTypeOK'
    BY ClientTypeKept
  <1>3. /\ Range(conn["message"].chan) \subseteq DOMAIN evs
        /\ \A i \in DOMAIN conn["message"].chan : conn["message"].chan[i] \in DOMAIN evs
        /\ page.shown \in SUBSET DOMAIN evs
        /\ \A i \in DOMAIN loads : Range(loads[i].log) \in SUBSET DOMAIN evs
    BY DEF ClientTypeOK, Range
  <1>4. Opening' <=> Opening
    BY <1>1 DEF Opening
  <1>5. ServesInv'
    BY <1>1, <1>4 DEF ConnInv, ServesInv, NextRun, Grown
  <1>6. ChanInv'
    BY <1>1, <1>3, <1>4, OutsGrow DEF ConnInv, ChanInv, Stirring, Grown
  <1>7. ConnInv'
    BY <1>1, <1>4, <1>5, <1>6 DEF ConnInv
  <1>8. HearsInv'
    BY <1>1 DEF HearsInv
  <1>9. \A seen \in SUBSET DOMAIN evs : \A st : Settled(seen, st) => Settled(seen, st)'
    BY <1>1, <1>3, SettledKept
  <1>10. SettledInv'
    <2>1. ASSUME ~Opening, page.sending
          PROVE  Settled(page.shown, page.local)'
      <3>1. Settled(page.shown, page.local)
        BY <2>1 DEF SettledInv
      <3> QED
        BY <1>1, <1>3, <1>9, <3>1 DEF Settled
    <2>2. ASSUME ~Opening, NEW i \in DOMAIN loads
          PROVE  Settled(Range(loads[i].log), loads[i].status)'
      <3>1. Settled(Range(loads[i].log), loads[i].status)
        BY <2>2 DEF SettledInv
      <3> QED
        BY <1>1, <1>3, <1>9, <3>1 DEF Settled
    <2> QED
      BY <1>1, <1>4, <2>1, <2>2 DEF SettledInv
  <1> QED
    BY <1>2, <1>7, <1>8, <1>10

Core == ServerTypeOK /\ ClientTypeOK /\ RunInv /\ ConnInv /\ HearsInv /\ SettledInv

\* A step of a runner.
LEMMA RunnerKeeps ==
  ASSUME Core, NEW r \in Runs, RunnerStep(r) \/ RunnerRaises(r)
  PROVE  Core'
  <1>0. /\ runner \in [Runs -> RunnerPcs] /\ row.task \in Nat /\ row \in Rows
        /\ ServerTypeOK /\ RunInv
    BY PageAssumption DEF Core, ServerTypeOK, Rows
  <1>1. ASSUME NEW k \in Kinds \ {"resolved"}, NEW pc \in RunnerPcs, Put(r, k, pc),
               UNCHANGED <<db, row, client>>,
               runner[r] \in {"flow", "accept", "finish", "raise"}, pc \in DOMAIN After,
               k = "done" => pc = "last" /\ runner[r] = "finish"
        PROVE  Core'
    <2>1. /\ ServerTypeOK' /\ RunInv' /\ Grown
          /\ \A d \in Outs(row.task)' \ Outs(row.task) :
               Stirring(d)' => k = "step" /\ r = row.task
          /\ k = "step" => \A e \in DOMAIN evs : ~Done(e, r)
      BY <1>0, <1>1, PutKeeps
    <2>2. At(row.task, "made") => At(row.task, "made")'
      BY <1>0, <1>1 DEF At, Put, Goto
    <2>3. ClientTypeOK' /\ ConnInv' /\ HearsInv' /\ SettledInv'
      BY <1>1, <2>1, <2>2, ClientKept DEF Core
    <2> QED
      BY <2>1, <2>3 DEF Core
  <1>2. ASSUME NEW pc \in RunnerPcs, Goto(r, pc), UNCHANGED <<evs, db, hand, client>>,
               runner[r] \notin DOMAIN After \cup {"off", "over", "made"},
               pc \notin DOMAIN After \cup {"off"},
               row' \in Rows, row'.task = row.task,
               row.status # "running" => row'.status # "running",
               pc = "finish" /\ r = row.task => row'.status # "running",
               runner[r] = "closing" => pc = "over"
        PROVE  Core'
    <2>1. ServerTypeOK' /\ RunInv' /\ Grown
      BY <1>0, <1>2, MoveKeeps DEF Goto
    <2>2. At(row.task, "made") => At(row.task, "made")'
      BY <1>0, <1>2 DEF At, Goto
    <2>3. Outs(row.task)' = Outs(row.task) /\ Range(db)' = Range(db)
      BY <1>0, <1>2, SameEvents
    <2>4. ClientTypeOK' /\ ConnInv' /\ HearsInv' /\ SettledInv'
      BY <1>2, <2>1, <2>2, <2>3, ClientKept DEF Core
    <2> QED
      BY <2>1, <2>4 DEF Core
  <1>3. CASE FlowSteps(r)
    BY <1>1, <1>3, AfterIs DEF FlowSteps, At, Kinds, RunnerPcs
  <1>4. CASE FlowWaits(r)
    BY <1>1, <1>4, AfterIs DEF FlowWaits, At, Kinds, RunnerPcs
  <1>5. CASE FlowFails(r)
    BY <1>1, <1>5, AfterIs DEF FlowFails, At, Kinds, RunnerPcs
  <1>6. CASE FinishOrClaim(r)
    <2>1. /\ row' \in Rows /\ row'.task = row.task
          /\ row.status # "running" => row'.status # "running"
          /\ runner[r] \notin DOMAIN After \cup {"off", "over", "made", "closing"}
          /\ UNCHANGED <<evs, db, hand, client>>
      BY <1>0, <1>6, AfterIs DEF FinishOrClaim, Rows, Statuses
    <2>2. \/ Goto(r, "finish") /\ row'.status = "completed"
          \/ Goto(r, "accept")
      BY <1>0, <1>6 DEF FinishOrClaim, Rows
    <2> QED
      BY <1>2, <2>1, <2>2, AfterIs DEF RunnerPcs
  <1>7. CASE Puts(r)
    BY <1>1, <1>7, AfterIs DEF Puts, At, Kinds, RunnerPcs
  <1>8. CASE Commit(r)
    <2>1. /\ ServerTypeOK' /\ RunInv' /\ Grown /\ Range(db) \subseteq Range(db)'
          /\ row'.task = row.task /\ \A q : Outs(q)' = Outs(q)
      BY <1>0, <1>8, CommitKeeps
    <2>2. At(row.task, "made") => At(row.task, "made")'
      BY <1>0, <1>8, <2>1, AfterIs DEF At, Goto, Commit
    <2>3. UNCHANGED client /\ Outs(row.task)' = Outs(row.task)
      BY <1>8, <2>1 DEF Commit
    <2>4. ClientTypeOK' /\ ConnInv' /\ HearsInv' /\ SettledInv'
      BY <2>1, <2>2, <2>3, ClientKept DEF Core
    <2> QED
      BY <2>1, <2>4 DEF Core
  <1>9. CASE Settle(r)
    <2>1. row' \in Rows /\ row'.task = row.task /\ row'.status # "running"
      BY <1>0, <1>9 DEF Settle, Rows, Statuses
    <2> QED
      BY <1>0, <1>2, <1>9, <2>1, AfterIs DEF Settle, RunnerPcs
  <1>10. CASE Ends(r)
    BY <1>0, <1>2, <1>10, AfterIs DEF Ends, RunnerPcs, At
  <1>11. CASE RunnerRaises(r)
    <2>1. row' \in Rows /\ row'.task = row.task /\ row'.status # "running"
      BY <1>0, <1>11 DEF RunnerRaises, Rows, Statuses
    <2> QED
      BY <1>0, <1>2, <1>11, <2>1, AfterIs DEF RunnerRaises, RunnerPcs
  <1> QED
    BY <1>3, <1>4, <1>5, <1>6, <1>7, <1>8, <1>9, <1>10, <1>11 DEF RunnerStep

-----------------------------------------------------------------------------
(* The requests *)

Only(c) == conn' \in [Streams -> Conns] /\ \A o \in Streams \ {c} : conn'[o] = conn[o]

\* A request moves on.
LEMMA ServeIs ==
  ASSUME ClientTypeOK, NEW c \in Streams, NEW pc \in ConnPcs, Serve(c, pc)
  PROVE  /\ Only(c) /\ conn'[c].pc = pc /\ conn'[c].run = conn[c].run
         /\ conn'[c].pos = conn[c].pos /\ conn'[c].chan = conn[c].chan
  <1>1. conn \in [Streams -> Conns]
    BY DEF ClientTypeOK, Streams
  <1> QED
    BY <1>1 DEF Serve, Only, Conns

\* A request sends an event.
LEMMA YieldIs ==
  ASSUME ClientTypeOK, NEW c \in Streams, NEW e \in Nat, NEW pc \in ConnPcs, Yield(c, e, pc)
  PROVE  /\ Only(c) /\ conn'[c].pc = pc /\ conn'[c].run = conn[c].run
         /\ conn'[c].pos = conn[c].pos /\ conn'[c].chan = Append(conn[c].chan, e)
  <1>1. conn \in [Streams -> Conns]
    BY DEF ClientTypeOK, Streams
  <1>2. \A n \in Conns :
          LET f == [n EXCEPT !.chan = Append(n.chan, e), !.pc = pc] IN
          /\ f \in Conns /\ f.pc = pc /\ f.run = n.run /\ f.pos = n.pos
          /\ f.chan = Append(n.chan, e)
    <2> SUFFICES ASSUME NEW n \in Conns
                 PROVE  LET f == [n EXCEPT !.chan = Append(n.chan, e), !.pc = pc] IN
                        /\ f \in Conns /\ f.pc = pc /\ f.run = n.run /\ f.pos = n.pos
                        /\ f.chan = Append(n.chan, e)
      OBVIOUS
    <2>1. Append(n.chan, e) \in Seq(Nat)
      BY DEF Conns
    <2> QED
      BY <2>1 DEF Conns
  <1>3. conn' = [conn EXCEPT ![c] = [conn[c] EXCEPT !.chan = Append(conn[c].chan, e), !.pc = pc]]
    BY <1>1 DEF Yield
  <1> QED
    BY <1>1, <1>2, <1>3 DEF Only

\* A request ends with some last events.
LEMMA LeaveIs ==
  ASSUME ClientTypeOK, NEW c \in Streams, NEW more \in Seq(Nat), Leave(c, more)
  PROVE  /\ Only(c) /\ conn'[c].pc = "end" /\ conn'[c].run = 0 /\ conn'[c].pos = 0
         /\ conn'[c].chan = conn[c].chan \o more
  <1>1. conn \in [Streams -> Conns]
    BY DEF ClientTypeOK, Streams
  <1>2. \A n \in Conns, s \in Seq(Nat) :
          LET f == [n EXCEPT !.pc = "end", !.chan = s] IN
          f \in Conns /\ f.pc = "end" /\ f.run = n.run /\ f.pos = n.pos /\ f.chan = s
    BY DEF Conns, ConnPcs
  <1>3. NoConn \in Conns /\ NoConn.run = 0 /\ NoConn.pos = 0
    BY FreshIs DEF ConnPcs
  <1>4. conn[c].chan \o more \in Seq(Nat)
    BY <1>1 DEF Conns
  <1>5. conn' = [conn EXCEPT ![c] = [NoConn EXCEPT !.pc = "end", !.chan = conn[c].chan \o more]]
    BY DEF Leave
  <1> QED
    BY <1>1, <1>2, <1>3, <1>4, <1>5 DEF Only

\* The end of a stream, with or without a last event.
LEMMA LeaveOneIs ==
  ASSUME ClientTypeOK, NEW c \in Streams, NEW e \in Nat, Leave(c, <<e>>)
  PROVE  /\ Only(c) /\ conn'[c].pc = "end" /\ conn'[c].run = 0 /\ conn'[c].pos = 0
         /\ conn'[c].chan = Append(conn[c].chan, e)
  <1>1. conn[c].chan \in Seq(Nat)
    BY DEF ClientTypeOK, Streams, Conns
  <1>2. conn[c].chan \o <<e>> = Append(conn[c].chan, e)
    BY <1>1
  <1>3. <<e>> \in Seq(Nat)
    OBVIOUS
  <1> QED
    BY <1>2, <1>3, LeaveIs

\* A request ends without an event.
LEMMA LeaveNoneIs ==
  ASSUME ClientTypeOK, NEW c \in Streams, Leave(c, <<>>)
  PROVE  /\ Only(c) /\ conn'[c].pc = "end" /\ conn'[c].run = 0 /\ conn'[c].pos = 0
         /\ conn'[c].chan = conn[c].chan
  <1>1. conn[c].chan \in Seq(Nat)
    BY DEF ClientTypeOK, Streams, Conns
  <1>2. conn[c].chan \o <<>> = conn[c].chan
    BY <1>1
  <1>3. <<>> \in Seq(Nat)
    OBVIOUS
  <1> QED
    BY <1>2, <1>3, LeaveIs

\* The server works on a request of the page.
LEMMA ServedTypes ==
  ASSUME Core, Grown, NEW c \in Streams, Only(c),
         UNCHANGED <<page, loads>>, conn[c].pc \notin {"none", "end"}, conn'[c].pc # "none",
         conn'[c].pos \in 0..Len(evs'), Range(conn'[c].chan) \subseteq DOMAIN evs'
  PROVE  ClientTypeOK' /\ HearsInv' /\ page' = page /\ loads' = loads
  <1>1. Len(evs) \in Nat /\ Len(evs') \in Nat /\ Len(evs) <= Len(evs')
    BY DEF Core, ServerTypeOK, Grown
  <1>2. \A n \in 0..Len(evs) : n \in 0..Len(evs')
    BY <1>1
  <1>3. ClientTypeOK /\ HearsInv /\ DOMAIN evs \subseteq DOMAIN evs'
    BY DEF Core, Grown
  <1>4. \A o \in Streams : /\ conn'[o].pos \in 0..Len(evs')
                           /\ Range(conn'[o].chan) \subseteq DOMAIN evs'
    BY <1>2, <1>3 DEF Only, ClientTypeOK, Streams
  <1>5. ClientTypeOK'
    BY <1>2, <1>3, <1>4 DEF Only, ClientTypeOK, Streams
  <1>6. HearsInv'
    <2>1. page' = page /\ loads' = loads
      OBVIOUS
    <2>2. /\ conn'["message"].pc = "none" <=> conn["message"].pc = "none"
          /\ conn'["empty"].pc = "none" <=> conn["empty"].pc = "none"
      BY DEF Only, Streams
    <2>3. c = "message" => page.sending
      BY <1>3 DEF HearsInv
    <2>4. c = "empty" => conn'["message"] = conn["message"]
      BY DEF Only, Streams
    <2> QED
      BY <1>3, <2>1, <2>2, <2>3, <2>4 DEF HearsInv, Streams
  <1> QED
    BY <1>5, <1>6

\* A sequence that may have got one more element.
LEMMA AppendsOrNot ==
  ASSUME NEW S, NEW s \in Seq(S), NEW e \in S, NEW t, t = s \/ t = Append(s, e)
  PROVE  /\ t \in Seq(S) /\ Range(t) \subseteq Range(s) \cup {e} /\ Len(t) \in Nat
         /\ \A i \in DOMAIN t : (i \in DOMAIN s /\ t[i] = s[i]) \/ (i = Len(t) /\ t[i] = e)
  <1>1. CASE t = s
    BY <1>1
  <1>2. CASE t = Append(s, e)
    <2>1. Range(Append(s, e)) = Range(s) \cup {e}
      BY AppendRange
    <2>2. \A i \in DOMAIN Append(s, e) : (i \in DOMAIN s /\ Append(s, e)[i] = s[i])
                                \/ (i = Len(Append(s, e)) /\ Append(s, e)[i] = e)
      OBVIOUS
    <2> QED
      BY <1>2, <2>1, <2>2
  <1> QED
    BY <1>1, <1>2

\* ... on the message stream, of the same run.
LEMMA MessageServed ==
  ASSUME Core, Grown, Range(db) \subseteq Range(db)', Only("message"),
         UNCHANGED <<page, loads>>, conn["message"].pc \notin {"none", "end"},
         conn'["message"].pc # "none",
         conn'["message"].pos \in 0..Len(evs'), row'.task = row.task,
         Outs(row.task)' = Outs(row.task), Opening' <=> Opening, ServesInv',
         conn'["message"].pc \in {"get", "missed"} => conn'["message"].run \in Runs,
         NEW e \in Nat,
         \/ conn'["message"].chan = conn["message"].chan
         \/ /\ e \in DOMAIN evs' /\ conn'["message"].chan = Append(conn["message"].chan, e)
            /\ evs'[e].kind \in {"done", "error"} => conn'["message"].pc = "end"
            /\ evs'[e].kind = "done" => evs'[e].run = row.task
            /\ evs'[e].kind \in {"step", "resolved"} =>
                 IF Opening THEN e \in Range(db)' ELSE e \in Outs(row.task)
  PROVE  ClientTypeOK' /\ ConnInv' /\ HearsInv' /\ SettledInv'
  <1> DEFINE ch == conn["message"].chan
             dh == conn'["message"].chan
  <1>1. /\ ch \in Seq(Nat) /\ Range(ch) \subseteq DOMAIN evs /\ e \in Nat
        /\ \A i \in DOMAIN ch : ch[i] \in DOMAIN evs
        /\ DOMAIN evs \subseteq DOMAIN evs' /\ \A i \in DOMAIN evs : evs'[i] = evs[i]
    BY DEF Core, ClientTypeOK, Grown, Conns, Range
  <1>2. /\ Range(dh) \subseteq Range(ch) \cup {e} /\ Len(dh) \in Nat
        /\ \A i \in DOMAIN dh : (i \in DOMAIN ch /\ dh[i] = ch[i]) \/ (i = Len(dh) /\ dh[i] = e)
    <2>1. dh = ch \/ dh = Append(ch, e)
      OBVIOUS
    <2> HIDE DEF ch, dh
    <2>2. ch \in Seq(Nat) /\ e \in Nat
      BY <1>1
    <2>3. Range(dh) \subseteq Range(ch) \cup {e}
      BY <2>1, <2>2, AppendsOrNot
    <2>4. Len(dh) \in Nat
      BY <2>1, <2>2, AppendsOrNot
    <2>5. \A i \in DOMAIN dh :
            (i \in DOMAIN ch /\ dh[i] = ch[i]) \/ (i = Len(dh) /\ dh[i] = e)
      <3>1. CASE dh = ch
        BY <3>1
      <3>2. CASE dh = Append(ch, e)
        BY <2>2, <3>2
      <3> QED
        BY <2>1, <3>1, <3>2
    <2> QED
      BY <2>3, <2>4, <2>5
  <1>3. /\ ClientTypeOK' /\ HearsInv' /\ page' = page /\ loads' = loads
        /\ conn'["empty"] = conn["empty"]
    <2>1. "message" \in Streams /\ conn'["empty"] = conn["empty"]
      BY DEF Streams, Only
    <2>2. Range(conn'["message"].chan) \subseteq DOMAIN evs'
      <3>1. CASE dh = ch
        BY <1>1, <3>1
      <3>2. CASE dh # ch
        BY <1>1, <1>2, <3>2
      <3> QED
        BY <3>1, <3>2
    <2> QED
      BY <2>1, <2>2, ServedTypes
  <1>4. \A i \in DOMAIN ch :
           /\ evs[ch[i]].kind \notin {"done", "error"}
           /\ Stirring(ch[i]) => ch[i] \in Range(db) \/ (~Opening /\ ch[i] \in Outs(row.task))
    BY DEF Core, ConnInv, ChanInv
  <1>5. \A i \in DOMAIN dh : \/ i \in DOMAIN ch /\ dh[i] = ch[i]
                             \/ /\ i = Len(dh) /\ dh[i] = e
                                /\ evs'[e].kind \in {"done", "error"} => conn'["message"].pc = "end"
                                /\ evs'[e].kind = "done" => evs'[e].run = row.task
                                /\ evs'[e].kind \in {"step", "resolved"} =>
                                     IF Opening THEN e \in Range(db)' ELSE e \in Outs(row.task)
    BY <1>2
  <1>6. ChanInv'
    <2> HIDE DEF ch, dh
    <2>1. ASSUME NEW i \in DOMAIN dh
          PROVE  /\ evs'[dh[i]].kind \in {"done", "error"} => i = Len(dh) /\ conn'["message"].pc = "end"
                 /\ evs'[dh[i]].kind = "done" => evs'[dh[i]].run = row.task
                 /\ evs'[dh[i]].kind \in {"step", "resolved"} =>
                      dh[i] \in Range(db)' \/ (~Opening /\ dh[i] \in Outs(row.task))
      BY <1>1, <1>4, <1>5 DEF Stirring
    <2> QED
      BY <2>1 DEF ChanInv, dh, Stirring
  <1>7. ConnInv'
    <2>1. \A o \in {"message", "empty"} :
            /\ conn'[o].pc = "none" => conn'[o] = NoConn
            /\ conn'[o].pc \in {"get", "missed"} => conn'[o].run \in Runs
      BY <1>3 DEF Core, ConnInv
    <2> QED
      BY <1>3, <1>6, <2>1 DEF Core, ConnInv
  <1>8. SettledInv'
    <2>1. ASSUME ~Opening
          PROVE  \A seen \in SUBSET DOMAIN evs : \A st : Settled(seen, st) => Settled(seen, st)'
      <3>1. \A d \in Range(conn'["message"].chan) \cup Outs(row.task)' : Stirring(d)' =>
              d \in Range(conn["message"].chan) \cup Outs(row.task)
        <4>1. \A d \in Range(dh) : \E i \in DOMAIN dh : d = dh[i]
          BY DEF Range
        <4>2. \A i \in DOMAIN ch : ch[i] \in Range(ch)
          BY DEF Range
        <4> QED
          BY <1>5, <2>1, <4>1, <4>2 DEF Stirring
      <3> QED
        BY <1>1, <3>1, SettledKept DEF Core
    <2>2. /\ page.shown \in SUBSET DOMAIN evs
          /\ \A i \in DOMAIN loads : Range(loads[i].log) \in SUBSET DOMAIN evs
      BY DEF Core, ClientTypeOK
    <2>3. ASSUME ~Opening, page.sending
          PROVE  Settled(page.shown, page.local)'
      <3>1. Settled(page.shown, page.local)
        BY <2>3 DEF Core, SettledInv
      <3> QED
        BY <1>3, <2>1, <2>2, <2>3, <3>1 DEF Settled
    <2>4. ASSUME ~Opening, NEW i \in DOMAIN loads
          PROVE  Settled(Range(loads[i].log), loads[i].status)'
      <3>1. Settled(Range(loads[i].log), loads[i].status)
        BY <2>4 DEF Core, SettledInv
      <3> QED
        BY <1>3, <2>1, <2>2, <2>4, <3>1 DEF Settled
    <2> QED
      BY <1>3, <2>3, <2>4 DEF SettledInv
  <1> QED
    BY <1>3, <1>6, <1>7, <1>8

\* ... on the listening stream.
LEMMA EmptyServed ==
  ASSUME Core, Grown, Range(db) \subseteq Range(db)', Only("empty"),
         UNCHANGED <<page, loads>>, conn["empty"].pc \notin {"none", "end"},
         conn'["empty"].pc \in {"get", "missed", "idle", "end"},
         conn'["empty"].pos \in 0..Len(evs'), row'.task = row.task, runner' = runner,
         Outs(row.task)' = Outs(row.task),
         conn'["empty"].pc \in {"get", "missed"} => conn'["empty"].run \in Runs,
         NEW e \in Nat,
         \/ conn'["empty"].chan = conn["empty"].chan
         \/ e \in DOMAIN evs' /\ conn'["empty"].chan = Append(conn["empty"].chan, e)
  PROVE  ClientTypeOK' /\ ConnInv' /\ HearsInv' /\ SettledInv'
  <1>1. /\ conn["empty"].chan \in Seq(Nat) /\ Range(conn["empty"].chan) \subseteq DOMAIN evs
        /\ e \in Nat /\ DOMAIN evs \subseteq DOMAIN evs'
        /\ \A i \in DOMAIN evs : evs'[i] = evs[i]
        /\ \A i \in DOMAIN conn["message"].chan : conn["message"].chan[i] \in DOMAIN evs
        /\ Range(conn["message"].chan) \subseteq DOMAIN evs
    <2>1. conn["empty"].chan \in Seq(Nat) /\ Range(conn["empty"].chan) \subseteq DOMAIN evs
          /\ Range(conn["message"].chan) \subseteq DOMAIN evs
      BY DEF Core, ClientTypeOK, Conns
    <2>2. \A i \in DOMAIN conn["message"].chan : conn["message"].chan[i] \in DOMAIN evs
      BY <2>1 DEF Range
    <2>3. /\ e \in Nat /\ DOMAIN evs \subseteq DOMAIN evs'
          /\ \A i \in DOMAIN evs : evs'[i] = evs[i]
      BY DEF Grown
    <2> QED
      BY <2>1, <2>2, <2>3
  <1>2. Range(conn'["empty"].chan) \subseteq Range(conn["empty"].chan) \cup {e}
    <2> DEFINE s == conn["empty"].chan
               t == conn'["empty"].chan
    <2>1. t = s \/ t = Append(s, e)
      OBVIOUS
    <2> HIDE DEF s, t
    <2>2. s \in Seq(Nat)
      BY <1>1 DEF s
    <2>3. Range(t) \subseteq Range(s) \cup {e}
      BY <1>1, <2>1, <2>2, AppendsOrNot
    <2> QED
      BY <2>3 DEF s, t
  <1>3. /\ ClientTypeOK' /\ HearsInv' /\ page' = page /\ loads' = loads
        /\ conn'["message"] = conn["message"]
    <2>1. "empty" \in Streams /\ conn'["message"] = conn["message"]
      BY DEF Streams, Only
    <2>2. Range(conn'["empty"].chan) \subseteq DOMAIN evs'
      <3>1. CASE conn'["empty"].chan = conn["empty"].chan
        BY <1>1, <3>1
      <3>2. CASE conn'["empty"].chan # conn["empty"].chan
        BY <1>1, <1>2, <3>2
      <3> QED
        BY <3>1, <3>2
    <2> QED
      BY <2>1, <2>2, ServedTypes
  <1>4. Opening' <=> Opening
    BY <1>3 DEF Opening
  <1>5. ServesInv'
    BY <1>1, <1>3, <1>4 DEF Core, ConnInv, ServesInv, NextRun, At
  <1>6. ChanInv'
    BY <1>1, <1>3, <1>4 DEF Core, ConnInv, ChanInv, Stirring
  <1>7. ConnInv'
    <2>1. \A o \in {"message", "empty"} :
            /\ conn'[o].pc = "none" => conn'[o] = NoConn
            /\ conn'[o].pc \in {"get", "missed"} => conn'[o].run \in Runs
      BY <1>3 DEF Core, ConnInv
    <2> QED
      BY <1>3, <1>4, <1>5, <1>6, <2>1 DEF Core, ConnInv
  <1>8. SettledInv'
    <2>1. \A seen \in SUBSET DOMAIN evs : \A st : Settled(seen, st) => Settled(seen, st)'
      BY <1>1, <1>3, SettledKept DEF Core
    <2>2. /\ page.shown \in SUBSET DOMAIN evs
          /\ \A i \in DOMAIN loads : Range(loads[i].log) \in SUBSET DOMAIN evs
      BY DEF Core, ClientTypeOK
    <2>3. ASSUME ~Opening, NEW i \in DOMAIN loads
          PROVE  Settled(Range(loads[i].log), loads[i].status)'
      <3>1. Settled(Range(loads[i].log), loads[i].status)
        BY <2>3 DEF Core, SettledInv
      <3> QED
        BY <1>3, <2>1, <2>2, <3>1 DEF Settled
    <2>4. ~page.sending
      BY DEF Core, HearsInv
    <2> QED
      BY <1>3, <1>4, <2>3, <2>4 DEF SettledInv
  <1> QED
    BY <1>3, <1>7, <1>8

\* What the invariant says of the server and the streams.
LEMMA CoreIs ==
  ASSUME Core
  PROVE  /\ ServerTypeOK /\ ClientTypeOK /\ RunInv /\ ConnInv /\ ServesInv
         /\ runner \in [Runs -> RunnerPcs] /\ row.task \in Nat /\ row \in Rows
         /\ Len(evs) \in Nat /\ DOMAIN evs = 1 .. Len(evs) /\ evs \in Seq(Events)
         /\ conn["message"] \in Conns /\ conn["empty"] \in Conns
         /\ \A c \in Streams : /\ conn[c].pos \in 0..Len(evs)
                               /\ Range(conn[c].chan) \subseteq DOMAIN evs
         /\ Range(db) \subseteq DOMAIN evs /\ db \in Seq(Nat)
  BY PageAssumption DEF Core, ServerTypeOK, ClientTypeOK, ConnInv, Rows, Streams

\* The resolved interaction goes to the log before it goes to the page.
LEMMA ResolveKeeps ==
  ASSUME Core, Resolve
  PROVE  Core'
  <1> DEFINE x == Event("resolved", "db", 0)
             e == Len(evs) + 1
  <1>1. x \in Events /\ x.kind = "resolved" /\ x.src = "db"
    BY PageAssumption DEF Event, Events, Kinds
  <1>2. evs' = Append(evs, x) /\ db' = Append(db, e)
    BY DEF Resolve, ApiEvent
  <1> HIDE DEF x
  <1>3. /\ Grown /\ Len(evs) \in Nat /\ Len(evs') = e
        /\ DOMAIN evs' = DOMAIN evs \cup {e} /\ e \notin DOMAIN evs
        /\ evs'[e] = x /\ e \in Nat \ {0}
    BY <1>1, <1>2, NewEvent, CoreIs
  <1>4. /\ ServerTypeOK' /\ RunInv' /\ Range(db) \subseteq Range(db)'
        /\ db' # db => e \in Range(db)'
        /\ \A q : Outs(q)' = Outs(q)
    BY <1>1, <1>2, ApiKeeps, CoreIs DEF Resolve, Rows
  <1>5. Range(db') = Range(db) \cup {e}
    BY <1>2, <1>3, AppendRange, CoreIs
  <1> HIDE DEF e
  <1>6. "message" \in Streams /\ "claim" \in ConnPcs
    BY DEF Streams, ConnPcs
  <1>7. Yield("message", e, "claim") /\ row' = row /\ runner' = runner /\ page' = page
        /\ loads' = loads /\ conn["message"].pc = "resolved"
    BY DEF Resolve, e
  <1>8. /\ Only("message") /\ conn'["message"].pc = "claim"
        /\ conn'["message"].pos = conn["message"].pos
        /\ conn'["message"].chan = Append(conn["message"].chan, e)
    BY <1>3, <1>6, <1>7, YieldIs, CoreIs
  <1>9. Opening' /\ Opening /\ ServesInv'
    BY <1>7, <1>8, CoreIs DEF Opening, ServesInv, NextRun
  <1>10. conn'["message"].pos \in 0..Len(evs')
    BY <1>3, <1>6, <1>8, CoreIs DEF e
  <1>11. ClientTypeOK' /\ ConnInv' /\ HearsInv' /\ SettledInv'
    BY <1>1, <1>3, <1>4, <1>5, <1>7, <1>8, <1>9, <1>10, MessageServed
  <1> QED
    BY <1>4, <1>11 DEF Core

\* The stream of a new run: nothing that it carries is of that run.
LEMMA ClaimServed ==
  ASSUME Core, NEW pc \in {"made", "poll"}, Opening,
         row' = [row EXCEPT !.status = "running", !.task = NextRun], Goto(NextRun, pc),
         UNCHANGED <<evs, db, hand, page, loads>>, Only("message"),
         conn'["message"].pc \in {"put", "open"},
         conn'["message"].chan = conn["message"].chan, conn'["message"].pos = conn["message"].pos,
         conn'["message"].pc = "put" => conn'["message"].run = NextRun /\ pc = "made"
  PROVE  Core'
  <1>0. NextRun \in Runs /\ Runs \subseteq Nat
    BY PageAssumption, CoreIs DEF ServesInv, Runs
  <1>1. /\ ServerTypeOK' /\ RunInv' /\ Grown /\ row'.task = NextRun
        /\ \A e \in DOMAIN evs : ~Done(e, NextRun)
        /\ runner'[NextRun] = pc
    BY <1>0, ClaimKeeps, CoreIs
  <1>2. /\ "message" \in Streams /\ conn'["empty"] = conn["empty"]
        /\ conn["message"].pc \in {"resolved", "claim", "start"}
    BY DEF Streams, Only, Opening
  <1>3. ClientTypeOK' /\ HearsInv' /\ page' = page /\ loads' = loads
    <2>1. conn'["message"].pos \in 0..Len(evs') /\ Range(conn'["message"].chan) \subseteq DOMAIN evs'
      BY <1>2, CoreIs
    <2> QED
      BY <1>1, <1>2, <2>1, ServedTypes
  <1>4. ~Opening'
    BY DEF Opening
  <1>5. ServesInv'
    BY <1>0, <1>1, <1>4 DEF ServesInv, At
  <1>6. ChanInv'
    <2>1. \A i \in DOMAIN conn["message"].chan :
            /\ evs[conn["message"].chan[i]].kind \notin {"done", "error"}
            /\ Stirring(conn["message"].chan[i]) => conn["message"].chan[i] \in Range(db)
      BY <1>2 DEF Core, ConnInv, ChanInv, Opening
    <2> QED
      BY <2>1 DEF ChanInv, Stirring
  <1>7. ConnInv'
    <2>1. \A o \in {"message", "empty"} :
            /\ conn'[o].pc = "none" => conn'[o] = NoConn
            /\ conn'[o].pc \in {"get", "missed"} => conn'[o].run \in Runs
      BY <1>2 DEF Core, ConnInv
    <2>2. page'.epoch <= row'.task + 1
      <3>1. page.epoch <= row.task + 2 /\ NextRun = row.task + 1 /\ page.epoch \in Nat
        BY DEF Core, ConnInv, NextRun, ClientTypeOK, Pages
      <3> QED
        BY <1>1, <3>1, CoreIs
    <2> QED
      BY <1>2, <1>4, <1>5, <1>6, <2>1, <2>2 DEF Core, ConnInv
  <1>8. SettledInv'
    <2>1. \A e \in DOMAIN evs : ~Done(e, row.task)'
      BY <1>1 DEF Done
    <2>2. /\ page.shown \in SUBSET DOMAIN evs
          /\ \A i \in DOMAIN loads : Range(loads[i].log) \in SUBSET DOMAIN evs
      BY DEF Core, ClientTypeOK
    <2> QED
      BY <1>3, <2>1, <2>2 DEF SettledInv, Settled
  <1> QED
    BY <1>1, <1>3, <1>7, <1>8 DEF Core

\* The claim makes the run that the message stream belongs to.
LEMMA ClaimStepKeeps ==
  ASSUME Core, Claim
  PROVE  Core'
  <1>1. Opening /\ NextRun \in Runs /\ NextRun \in 0..MaxRuns
    BY PageAssumption, CoreIs DEF Claim, Opening, ServesInv, Runs
  <1>2. /\ Only("message") /\ conn'["message"].pc = "put" /\ conn'["message"].run = NextRun
        /\ conn'["message"].chan = conn["message"].chan
        /\ conn'["message"].pos = conn["message"].pos
    <2>1. conn \in [Streams -> Conns]
      BY DEF Core, ClientTypeOK, Streams
    <2>2. conn' = [conn EXCEPT !["message"].pc = "put", !["message"].run = NextRun]
      BY DEF Claim
    <2>3. \A n \in 0..MaxRuns :
            LET f == [conn["message"] EXCEPT !.pc = "put", !.run = n] IN
            f \in Conns /\ f.pc = "put" /\ f.run = n /\ f.chan = conn["message"].chan
            /\ f.pos = conn["message"].pos
      BY CoreIs DEF Conns, ConnPcs
    <2>4. conn' = [conn EXCEPT !["message"] = [conn["message"] EXCEPT !.pc = "put", !.run = NextRun]]
      BY <2>1, <2>2 DEF Streams
    <2> QED
      BY <1>1, <2>1, <2>3, <2>4 DEF Only, Streams
  <1> QED
    BY <1>1, <1>2, ClaimServed DEF Claim

\* So does the start of the queued message.
LEMMA StartNextKeeps ==
  ASSUME Core, StartNext
  PROVE  Core'
  <1>1. Opening
    BY DEF StartNext, Opening
  <1>2. /\ Only("message") /\ conn'["message"].pc = "open"
        /\ conn'["message"].chan = conn["message"].chan
        /\ conn'["message"].pos = conn["message"].pos
    BY ServeIs, CoreIs DEF StartNext, Streams, ConnPcs
  <1> QED
    BY <1>1, <1>2, ClaimServed DEF StartNext

\* The user's message goes to the input stream and to the page.
LEMMA PutMessageKeeps ==
  ASSUME Core, PutMessage
  PROVE  Core'
  <1> DEFINE x == Event("user", "in", conn["message"].run)
             e == Len(evs) + 1
  <1>1. x \in Events /\ x.kind = "user" /\ x.src = "in" /\ x.run = conn["message"].run
    BY PageAssumption, CoreIs DEF Event, Events, Kinds, Conns
  <1>2. evs' = Append(evs, x)
    BY DEF PutMessage
  <1> HIDE DEF x
  <1>3. /\ Grown /\ Len(evs) \in Nat /\ Len(evs') = e
        /\ DOMAIN evs' = DOMAIN evs \cup {e} /\ e \notin DOMAIN evs
        /\ evs'[e] = x /\ e \in Nat \ {0}
    BY <1>1, <1>2, NewEvent, CoreIs
  <1>4. /\ ServerTypeOK' /\ RunInv' /\ Range(db) \subseteq Range(db)'
        /\ \A q : Outs(q)' = Outs(q)
    BY <1>1, <1>2, ApiKeeps, CoreIs DEF PutMessage, Rows
  <1> HIDE DEF e
  <1>6. "message" \in Streams /\ "add" \in ConnPcs
    BY DEF Streams, ConnPcs
  <1>7. Yield("message", e, "add") /\ row' = row /\ runner' = runner /\ page' = page
        /\ loads' = loads /\ conn["message"].pc = "put"
    BY DEF PutMessage, e
  <1>8. /\ Only("message") /\ conn'["message"].pc = "add"
        /\ conn'["message"].run = conn["message"].run
        /\ conn'["message"].pos = conn["message"].pos
        /\ conn'["message"].chan = Append(conn["message"].chan, e)
    BY <1>3, <1>6, <1>7, YieldIs, CoreIs
  <1>9. ~Opening' /\ ~Opening
    BY <1>7, <1>8 DEF Opening
  <1>10. conn'["message"].pos \in 0..Len(evs')
    BY <1>3, <1>6, <1>8, CoreIs DEF e
  <1>11. ServesInv'
    <2>1. \E d \in DOMAIN evs' : evs'[d].kind = "user" /\ evs'[d].run = conn'["message"].run
      BY <1>1, <1>3, <1>8
    <2> QED
      BY <1>7, <1>8, <1>9, <2>1, CoreIs DEF ServesInv, At
  <1>12. ClientTypeOK' /\ ConnInv' /\ HearsInv' /\ SettledInv'
    BY <1>1, <1>3, <1>4, <1>7, <1>8, <1>9, <1>10, <1>11, MessageServed
  <1> QED
    BY <1>4, <1>12 DEF Core

\* The message is committed and its run is started.
LEMMA InvokeKeeps ==
  ASSUME Core, Invoke
  PROVE  Core'
  <1> DEFINE r == conn["message"].run
             u == CHOOSE e \in DOMAIN evs : evs[e].kind = "user" /\ evs[e].run = r
  <1>1. /\ r = row.task /\ r \in Runs /\ runner[r] = "made"
        /\ \E e \in DOMAIN evs : evs[e].kind = "user" /\ evs[e].run = r
    BY CoreIs DEF Invoke, ServesInv, At
  <1>2. u \in DOMAIN evs /\ evs[u].kind = "user"
    BY <1>1
  <1>3. /\ db' = Append(db, u) /\ Goto(r, "flow") /\ Serve("message", "get")
        /\ UNCHANGED <<evs, row, hand, page, loads>> /\ conn["message"].pc = "add"
    BY DEF Invoke
  <1> HIDE DEF u, r
  <1>4. ServerTypeOK' /\ RunInv' /\ Grown /\ Range(db) \subseteq Range(db)'
    BY <1>1, <1>2, <1>3, MoveKeeps, CoreIs, AfterIs DEF Goto, RunnerPcs
  <1>5. /\ Only("message") /\ conn'["message"].pc = "get"
        /\ conn'["message"].run = conn["message"].run
        /\ conn'["message"].pos = conn["message"].pos
        /\ conn'["message"].chan = conn["message"].chan
    BY <1>3, ServeIs, CoreIs DEF Streams, ConnPcs
  <1>6. ~Opening' /\ ~Opening
    BY <1>3, <1>5 DEF Opening
  <1>7. ServesInv'
    BY <1>1, <1>3, <1>5, <1>6 DEF ServesInv, r
  <1>8. conn'["message"].pos \in 0..Len(evs')
    BY <1>3, <1>5, CoreIs DEF Streams
  <1>9. Outs(row.task)' = Outs(row.task)
    BY <1>3, SameEvents, CoreIs
  <1>10. conn'["message"].run \in Runs /\ 0 \in Nat
    BY <1>1, <1>5 DEF r
  <1>11. ClientTypeOK' /\ ConnInv' /\ HearsInv' /\ SettledInv'
    BY <1>3, <1>4, <1>5, <1>6, <1>7, <1>8, <1>9, <1>10, MessageServed
  <1> QED
    BY <1>4, <1>11 DEF Core

\* A step of the page leaves the server as it is.
LEMMA SameServer ==
  ASSUME Core, UNCHANGED server
  PROVE  /\ ServerTypeOK' /\ RunInv' /\ Grown /\ Range(db)' = Range(db)
         /\ row' = row /\ runner' = runner /\ evs' = evs /\ db' = db
         /\ \A q : Outs(q)' = Outs(q)
  <1>1. UNCHANGED <<evs, db, row, runner, hand>>
    BY DEF server
  <1>2. Grown /\ \A q : Outs(q)' = Outs(q)
    BY <1>1, SameEvents, CoreIs
  <1>3. ServerTypeOK'
    BY <1>1 DEF Core, ServerTypeOK
  <1>4. \A r \in Runs : RunnerInv(r)'
    BY <1>1, <1>2, CoreIs, RunInvIs DEF RunnerInv, At, After, Done
  <1>5. TrueDones'
    BY <1>1, CoreIs, RunInvIs DEF TrueDones
  <1> QED
    BY <1>1, <1>2, <1>3, <1>4, <1>5 DEF RunInv, TrueDones

\* A reader of the output stream, or one that has none to read.
LEMMA ReaderKeeps ==
  ASSUME Core, Grown, ServerTypeOK', RunInv', Range(db) \subseteq Range(db)',
         NEW c \in Streams, Only(c), UNCHANGED <<runner, page, loads>>,
         conn[c].pc \in {"open", "get", "missed", "idle"},
         conn'[c].pc \in {"get", "missed", "idle", "end"},
         conn'[c].pos \in 0..Len(evs'), row'.task = row.task,
         Outs(row.task)' = Outs(row.task),
         conn'[c].pc \in {"get", "missed"} =>
            \/ conn'[c].run = row.task /\ row.task \in Runs
            \/ conn'[c].run = conn[c].run /\ conn[c].pc \in {"get", "missed"},
         NEW e \in Nat,
         \/ conn'[c].chan = conn[c].chan
         \/ /\ e \in DOMAIN evs' /\ conn'[c].chan = Append(conn[c].chan, e)
            /\ evs'[e].kind \in {"done", "error"} => conn'[c].pc = "end"
            /\ evs'[e].kind \in {"done", "step", "resolved"} =>
                 conn[c].pc = "get" /\ e \in Outs(conn[c].run)
  PROVE  Core'
  <1>1. conn'[c].pc \in {"get", "missed"} => conn'[c].run \in Runs
    BY DEF Core, ConnInv, Streams
  <1>2. CASE c = "empty"
    <2>1. ClientTypeOK' /\ ConnInv' /\ HearsInv' /\ SettledInv'
      BY <1>1, <1>2, EmptyServed
    <2> QED
      BY <2>1 DEF Core
  <1>3. CASE c = "message"
    <2>1. ~Opening /\ ~Opening'
      BY <1>3 DEF Opening
    <2>2. ServesInv'
      BY <1>3, <2>1, CoreIs DEF ServesInv
    <2>3. conn["message"].pc = "get" => conn["message"].run = row.task
      BY CoreIs DEF ServesInv
    <2>4. \A d \in Outs(row.task) : d \in DOMAIN evs /\ evs[d].run = row.task /\ evs'[d] = evs[d]
      BY DEF Outs, Grown
    <2>5. \/ conn'["message"].chan = conn["message"].chan
          \/ /\ e \in DOMAIN evs' /\ conn'["message"].chan = Append(conn["message"].chan, e)
             /\ evs'[e].kind \in {"done", "error"} => conn'["message"].pc = "end"
             /\ evs'[e].kind = "done" => evs'[e].run = row.task
             /\ evs'[e].kind \in {"step", "resolved"} =>
                  IF Opening THEN e \in Range(db)' ELSE e \in Outs(row.task)
      BY <1>3, <2>1, <2>3, <2>4
    <2>6. ClientTypeOK' /\ ConnInv' /\ HearsInv' /\ SettledInv'
      BY <1>1, <1>3, <2>1, <2>2, <2>5, MessageServed
    <2> QED
      BY <2>6 DEF Core
  <1> QED
    BY <1>2, <1>3 DEF Streams

\* A reader of the output stream takes a step.
LEMMA ConnStepKeeps ==
  ASSUME Core, NEW c \in Streams, ConnStep(c)
  PROVE  Core'
  <1>0. /\ conn[c].pos \in 0..Len(evs) /\ Len(evs) \in Nat /\ 0 \in Nat
        /\ conn[c].run \in 0..MaxRuns
        /\ {"get", "missed", "idle", "end"} \subseteq ConnPcs
    BY CoreIs DEF Streams, Conns, ConnPcs
  <1>1. CASE Open(c)
    <2>1. conn[c].pc = "open" /\ UNCHANGED <<runner, hand, page, loads>>
      BY <1>1 DEF Open
    <2>2. CASE /\ Registered(row.task)
               /\ conn' = [conn EXCEPT ![c].pc = "get", ![c].run = row.task]
               /\ UNCHANGED <<evs, db, row>>
      <3>1. row.task \in 0..MaxRuns /\ row.task \in Runs
        BY <2>2, PageAssumption, CoreIs DEF Registered, Rows, Runs
      <3>2. /\ Only(c) /\ conn'[c].pc = "get" /\ conn'[c].run = row.task
            /\ conn'[c].chan = conn[c].chan /\ conn'[c].pos = conn[c].pos
        <4>1. conn \in [Streams -> Conns]
          BY DEF Core, ClientTypeOK, Streams
        <4>2. \A k \in Conns, n \in 0..MaxRuns :
                LET f == [k EXCEPT !.pc = "get", !.run = n] IN
                f \in Conns /\ f.pc = "get" /\ f.run = n /\ f.chan = k.chan /\ f.pos = k.pos
          BY DEF Conns, ConnPcs
        <4>3. conn' = [conn EXCEPT ![c] = [conn[c] EXCEPT !.pc = "get", !.run = row.task]]
          BY <2>2, <4>1
        <4> QED
          BY <3>1, <4>1, <4>2, <4>3 DEF Only
      <3>3. UNCHANGED server
        BY <2>1, <2>2 DEF server
      <3> QED
        BY <1>0, <2>1, <3>1, <3>2, <3>3, SameServer, ReaderKeeps
    <2>3. CASE /\ row.status = "running"
               /\ row' = [row EXCEPT !.status = "completed",
                                     !.next = IF @ = "processing" THEN "queued" ELSE @]
               /\ ApiEvent("error") /\ Leave(c, <<Len(evs) + 1>>)
      <3> DEFINE x == Event("error", "db", 0)
                 e == Len(evs) + 1
      <3>1. x \in Events /\ x.kind = "error" /\ x.src = "db"
        BY PageAssumption DEF Event, Events, Kinds
      <3>2. evs' = Append(evs, x) /\ db' = Append(db, e)
        BY <2>3 DEF ApiEvent
      <3> HIDE DEF x
      <3>3. /\ Grown /\ Len(evs') = e /\ DOMAIN evs' = DOMAIN evs \cup {e}
            /\ evs'[e] = x /\ e \in Nat \ {0}
        BY <3>1, <3>2, NewEvent, CoreIs
      <3>4. row' \in Rows /\ row'.task = row.task /\ row'.status = "completed"
        BY <2>3, CoreIs DEF Rows, Statuses
      <3>5. /\ ServerTypeOK' /\ RunInv' /\ Range(db) \subseteq Range(db)'
            /\ \A q : Outs(q)' = Outs(q)
        BY <2>1, <3>1, <3>2, <3>4, ApiKeeps, CoreIs
      <3>6. /\ Only(c) /\ conn'[c].pc = "end" /\ conn'[c].pos = 0
            /\ conn'[c].chan = Append(conn[c].chan, e)
        BY <2>3, <3>3, LeaveOneIs, CoreIs
      <3>7. conn'[c].pos \in 0..Len(evs') /\ e \in DOMAIN evs'
        BY <3>3, <3>6
      <3> HIDE DEF e
      <3> QED
        BY <2>1, <3>1, <3>3, <3>4, <3>5, <3>6, <3>7, ReaderKeeps
    <2>4. CASE Serve(c, "idle") /\ UNCHANGED <<evs, db, row>>
      <3>1. UNCHANGED server
        BY <2>1, <2>4 DEF server
      <3>2. /\ Only(c) /\ conn'[c].pc = "idle"
            /\ conn'[c].chan = conn[c].chan /\ conn'[c].pos = conn[c].pos
        BY <1>0, <2>4, ServeIs, CoreIs
      <3> QED
        BY <1>0, <2>1, <3>1, <3>2, SameServer, ReaderKeeps
    <2> QED
      BY <1>1, <2>2, <2>3, <2>4 DEF Open
  <1>2. CASE Idles(c)
    <2>1. /\ Only(c) /\ conn'[c].pc = "end" /\ conn'[c].chan = conn[c].chan /\ conn'[c].pos = 0
      BY <1>2, LeaveNoneIs, CoreIs DEF Idles
    <2>2. conn[c].pc = "idle" /\ UNCHANGED server /\ UNCHANGED <<page, loads>>
      BY <1>2 DEF Idles
    <2>3. conn'[c].pos \in 0..Len(evs')
      BY <1>0, <2>1, <2>2, SameServer
    <2> QED
      BY <1>0, <2>1, <2>2, <2>3, SameServer, ReaderKeeps
  <1>3. CASE Get(c)
    <2> DEFINE e == Min(Ready(c))
    <2>1. e \in Ready(c)
      <3>1. Ready(c) \subseteq Nat /\ Ready(c) # {}
        BY <1>3, CoreIs DEF Ready, Get
      <3>2. \E m \in Ready(c) : \A y \in Ready(c) : m <= y
        BY <3>1, LeastNumber
      <3> QED
        BY <3>2 DEF Min
    <2>2. /\ conn[c].pc = "get" /\ UNCHANGED server /\ UNCHANGED <<page, loads>>
          /\ IF Terminal(evs[e].kind) THEN Leave(c, <<e>>)
             ELSE conn' = [conn EXCEPT ![c].pos = e, ![c].chan = Append(@, e)]
      BY <1>3 DEF Get
    <2> HIDE DEF e
    <2>3. e \in Nat /\ e \in DOMAIN evs /\ e \in 0..Len(evs) /\ e \in Outs(conn[c].run)
      BY <1>0, <2>1, CoreIs DEF Ready, Outs
    <2>4. CASE Terminal(evs[e].kind)
      <3>1. /\ Only(c) /\ conn'[c].pc = "end" /\ conn'[c].pos = 0
            /\ conn'[c].chan = Append(conn[c].chan, e)
        BY <2>2, <2>3, <2>4, LeaveOneIs, CoreIs
      <3>2. conn'[c].pos \in 0..Len(evs')
        BY <1>0, <2>2, <3>1, SameServer
      <3> QED
        BY <2>2, <2>3, <3>1, <3>2, SameServer, ReaderKeeps
    <2>5. CASE ~Terminal(evs[e].kind)
      <3>1. /\ Only(c) /\ conn'[c].pc = "get" /\ conn'[c].run = conn[c].run /\ conn'[c].pos = e
            /\ conn'[c].chan = Append(conn[c].chan, e)
        <4>1. conn \in [Streams -> Conns]
          BY DEF Core, ClientTypeOK, Streams
        <4>2. \A k \in Conns, s \in Seq(Nat) :
                LET f == [k EXCEPT !.pos = e, !.chan = s] IN
                f \in Conns /\ f.pc = k.pc /\ f.run = k.run /\ f.chan = s /\ f.pos = e
          BY <2>3 DEF Conns
        <4>3. conn' = [conn EXCEPT ![c] = [conn[c] EXCEPT !.pos = e, !.chan = Append(conn[c].chan, e)]]
          BY <2>2, <2>5, <4>1
        <4>4. Append(conn[c].chan, e) \in Seq(Nat)
          BY <2>3, <4>1 DEF Conns
        <4> QED
          BY <2>2, <4>1, <4>2, <4>3, <4>4 DEF Only
      <3>2. evs[e].kind \notin {"done", "error"}
        BY <2>5 DEF Terminal
      <3> QED
        BY <2>2, <2>3, <3>1, <3>2, SameServer, ReaderKeeps
    <2> QED
      BY <2>4, <2>5
  <1>4. CASE Misses(c)
    <2>1. /\ conn[c].pc = "get" /\ UNCHANGED server /\ UNCHANGED <<page, loads>>
          /\ Serve(c, "missed")
      BY <1>4 DEF Misses
    <2>2. /\ Only(c) /\ conn'[c].pc = "missed" /\ conn'[c].run = conn[c].run
          /\ conn'[c].chan = conn[c].chan /\ conn'[c].pos = conn[c].pos
      BY <1>0, <2>1, ServeIs, CoreIs
    <2> QED
      BY <1>0, <2>1, <2>2, SameServer, ReaderKeeps
  <1>5. CASE AsksTask(c)
    <2>1. /\ conn[c].pc = "missed" /\ UNCHANGED server /\ UNCHANGED <<page, loads>>
          /\ Leave(c, <<>>) \/ Serve(c, "get")
      BY <1>5 DEF AsksTask
    <2>2. CASE Leave(c, <<>>)
      <3>1. Only(c) /\ conn'[c].pc = "end" /\ conn'[c].chan = conn[c].chan /\ conn'[c].pos = 0
        BY <2>2, LeaveNoneIs, CoreIs
      <3>2. conn'[c].pos \in 0..Len(evs')
        BY <1>0, <2>1, <3>1, SameServer
      <3> QED
        BY <1>0, <2>1, <3>1, <3>2, SameServer, ReaderKeeps
    <2>3. CASE Serve(c, "get")
      <3>1. /\ Only(c) /\ conn'[c].pc = "get" /\ conn'[c].run = conn[c].run
            /\ conn'[c].chan = conn[c].chan /\ conn'[c].pos = conn[c].pos
        BY <1>0, <2>3, ServeIs, CoreIs
      <3> QED
        BY <1>0, <2>1, <3>1, SameServer, ReaderKeeps
    <2> QED
      BY <2>1, <2>2, <2>3
  <1>6. CASE Refused(c)
    <2> DEFINE x == Event("error", "db", 0)
               e == Len(evs) + 1
    <2>1. x \in Events /\ x.kind = "error" /\ x.src = "db"
      BY PageAssumption DEF Event, Events, Kinds
    <2>2. /\ evs' = Append(evs, x) /\ db' = Append(db, e) /\ Leave(c, <<e>>)
          /\ conn[c].pc = "get" /\ UNCHANGED <<row, runner, hand, page, loads>>
      BY <1>6 DEF ApiEvent, Refused
    <2> HIDE DEF x
    <2>3. /\ Grown /\ Len(evs') = e /\ DOMAIN evs' = DOMAIN evs \cup {e}
          /\ evs'[e] = x /\ e \in Nat \ {0}
      BY <2>1, <2>2, NewEvent, CoreIs
    <2>5. /\ ServerTypeOK' /\ RunInv' /\ Range(db) \subseteq Range(db)'
          /\ \A q : Outs(q)' = Outs(q)
      BY <2>1, <2>2, ApiKeeps, CoreIs DEF Rows
    <2>6. /\ Only(c) /\ conn'[c].pc = "end" /\ conn'[c].pos = 0
          /\ conn'[c].chan = Append(conn[c].chan, e)
      BY <2>2, <2>3, LeaveOneIs, CoreIs
    <2>7. conn'[c].pos \in 0..Len(evs') /\ e \in DOMAIN evs'
      BY <2>3, <2>6
    <2> HIDE DEF e
    <2> QED
      BY <2>1, <2>2, <2>3, <2>5, <2>6, <2>7, ReaderKeeps
  <1> QED
    BY <1>1, <1>2, <1>3, <1>4, <1>5, <1>6 DEF ConnStep

-----------------------------------------------------------------------------
(* The page *)

\* What a callback may make of the page within an epoch.
Took1(c) == [conn[c] EXCEPT !.chan = Tail(@)]
WithinEpoch(v) ==
  /\ v \in Views
  /\ \/ v.conn["message"] = conn["message"]
     \/ v.conn["message"] = NoConn /\ ~Opening
     \/ v.conn["message"] = Took1("message") /\ conn["message"].chan # <<>>
  /\ \/ v.conn["empty"] = conn["empty"] \/ v.conn["empty"] = NoConn
     \/ v.conn["empty"] = Took1("empty") /\ conn["empty"].chan # <<>>
     \/ \E n \in 0..Len(evs) : v.conn["empty"] = Fresh("open", n)
  /\ v.page.epoch = page.epoch /\ v.page.shown \subseteq DOMAIN evs
  /\ v.page.cursor \in 0..Len(evs)
  /\ \A l \in Range(v.loads) :
       l \in Range(loads) \/ /\ l.log = <<>> /\ l.epoch \in {0, page.epoch}
                             /\ l.kind = "run" => ~v.page.sending

\* What it must leave there: who sends has its stream, who believes in a run
\* will be told more, and a DoneEvent that is shown settles it.
Informed(v) ==
  /\ v.page.sending => /\ page.sending /\ v.conn["message"].pc # "none"
                       /\ v.conn["empty"].pc = "none"
  /\ v.conn["message"].pc # "none" =>
       v.page.sending \/ (v.conn["message"].pc = "end" /\ v.conn["message"].chan = <<>>)
  /\ v.page.local = "running" =>
       \/ v.conn["message"].pc # "none" \/ v.conn["empty"].pc # "none" \/ v.page.timer
       \/ \E l \in Range(v.loads) : l.kind \in Told /\ l.epoch = page.epoch
  /\ v.page.sending /\ ~Opening => Settled(v.page.shown, v.page.local)

\* A stream whose first event was taken.
LEMMA Took1Is ==
  ASSUME ClientTypeOK, NEW c \in Streams, conn[c].chan # <<>>
  PROVE  /\ Took1(c) \in Conns /\ Took1(c).pc = conn[c].pc /\ Took1(c).run = conn[c].run
         /\ Took1(c).pos = conn[c].pos /\ Took1(c).chan = Tail(conn[c].chan)
         /\ Len(Took1(c).chan) = Len(conn[c].chan) - 1 /\ Len(conn[c].chan) \in Nat \ {0}
         /\ \A i \in DOMAIN Took1(c).chan : /\ i \in Nat /\ i + 1 \in DOMAIN conn[c].chan
                                            /\ Took1(c).chan[i] = conn[c].chan[i + 1]
         /\ Range(Took1(c).chan) \subseteq Range(conn[c].chan)
         /\ Head(conn[c].chan) \in Range(conn[c].chan) /\ Head(conn[c].chan) = conn[c].chan[1]
         /\ 1 \in DOMAIN conn[c].chan /\ Head(conn[c].chan) \in DOMAIN evs
  <1>1. conn[c] \in Conns /\ conn[c].chan \in Seq(Nat) /\ Range(conn[c].chan) \subseteq DOMAIN evs
    BY DEF ClientTypeOK, Streams, Conns
  <1>2. /\ Tail(conn[c].chan) \in Seq(Nat)
        /\ Len(Tail(conn[c].chan)) = Len(conn[c].chan) - 1 /\ Len(conn[c].chan) \in Nat \ {0}
        /\ \A i \in DOMAIN Tail(conn[c].chan) :
             /\ i \in Nat /\ i + 1 \in DOMAIN conn[c].chan
             /\ Tail(conn[c].chan)[i] = conn[c].chan[i + 1]
        /\ Range(Tail(conn[c].chan)) \subseteq Range(conn[c].chan)
        /\ Head(conn[c].chan) \in Range(conn[c].chan) /\ Head(conn[c].chan) = conn[c].chan[1]
        /\ 1 \in DOMAIN conn[c].chan
    BY <1>1, TailIs
  <1>3. \A n \in Conns, s \in Seq(Nat) : LET f == [n EXCEPT !.chan = s] IN
          f \in Conns /\ f.pc = n.pc /\ f.run = n.run /\ f.pos = n.pos /\ f.chan = s
    BY DEF Conns
  <1> DEFINE s == Tail(conn[c].chan)
             k == conn[c]
  <1>4. Took1(c) = [k EXCEPT !.chan = s] /\ k \in Conns /\ s \in Seq(Nat)
    BY <1>1, <1>2 DEF Took1
  <1>5. /\ Took1(c) \in Conns /\ Took1(c).pc = conn[c].pc /\ Took1(c).run = conn[c].run
        /\ Took1(c).pos = conn[c].pos /\ Took1(c).chan = Tail(conn[c].chan)
    <2> HIDE DEF s, k
    <2>1. /\ Took1(c) \in Conns /\ Took1(c).pc = k.pc /\ Took1(c).run = k.run
          /\ Took1(c).pos = k.pos /\ Took1(c).chan = s
      BY <1>3, <1>4
    <2> QED
      BY <2>1 DEF s, k
  <1> QED
    BY <1>1, <1>2, <1>5

\* A callback within an epoch that leaves the page informed keeps its invariant.
LEMMA WithinEpochKeeps ==
  ASSUME Core, NEW v, WithinEpoch(v), Informed(v), Become(v),
         evs' = evs, db' = db, row'.task = row.task,
         runner' = runner \/ conn["message"].pc \notin {"put", "add"}
  PROVE  ClientTypeOK' /\ ConnInv' /\ HearsInv' /\ SettledInv'
  <1> DEFINE m == conn["message"]
             n == v.conn["message"]
             e == v.conn["empty"]
  <1>1. /\ page' = v.page /\ conn' = v.conn /\ loads' = v.loads
        /\ v \in Views /\ v.conn \in [Streams -> Conns] /\ v.page \in Pages
        /\ v.loads \in Seq(Loads)
    BY DEF Become, WithinEpoch, Views
  <1>2. /\ NoConn.pc = "none" /\ NoConn.pos = 0 /\ NoConn.chan = <<>> /\ NoConn \in Conns
        /\ \A p \in Nat : /\ Fresh("open", p).pc = "open" /\ Fresh("open", p).pos = p
                          /\ Fresh("open", p).chan = <<>>
    BY FreshIs DEF ConnPcs
  <1>3. /\ Len(evs) \in Nat /\ DOMAIN evs = 1..Len(evs) /\ ClientTypeOK
        /\ \A c \in Streams : /\ conn[c].pos \in 0..Len(evs) /\ conn[c] \in Conns
                              /\ Range(conn[c].chan) \subseteq DOMAIN evs
        /\ Range(<<>>) = {}
    BY CoreIs DEF Core, Streams, Range
  <1>4. \A c \in Streams : v.conn[c].pos \in 0..Len(evs) /\ Range(v.conn[c].chan) \subseteq DOMAIN evs
    <2>1. n.pos \in 0..Len(evs) /\ Range(n.chan) \subseteq DOMAIN evs
      BY <1>2, <1>3, Took1Is DEF WithinEpoch, Streams
    <2>2. e.pos \in 0..Len(evs) /\ Range(e.chan) \subseteq DOMAIN evs
      BY <1>2, <1>3, Took1Is DEF WithinEpoch, Streams
    <2> QED
      BY <2>1, <2>2 DEF Streams
  <1>5. \A l \in Range(v.loads) :
           /\ l \in Loads /\ Range(l.log) \subseteq DOMAIN evs
           /\ l.epoch <= page.epoch
           /\ l.kind = "run" /\ l.epoch = page.epoch => ~v.page.sending
           /\ ~Opening => Settled(Range(l.log), l.status)
    <2> SUFFICES ASSUME NEW l \in Range(v.loads)
                 PROVE  /\ l \in Loads /\ Range(l.log) \subseteq DOMAIN evs
                        /\ l.epoch <= page.epoch
                        /\ l.kind = "run" /\ l.epoch = page.epoch => ~v.page.sending
                        /\ ~Opening => Settled(Range(l.log), l.status)
      OBVIOUS
    <2>1. l \in Loads
      BY <1>1 DEF Range
    <2>2. CASE l \in Range(loads)
      <3>1. PICK i \in DOMAIN loads : l = loads[i]
        BY <2>2 DEF Range
      <3>2. v.page.sending => page.sending
        BY DEF Informed
      <3> QED
        BY <2>1, <3>1, <3>2 DEF Core, ClientTypeOK, HearsInv, SettledInv
    <2>3. CASE /\ l.log = <<>> /\ l.epoch \in {0, page.epoch}
               /\ l.kind = "run" => ~v.page.sending
      <3>1. 0 <= page.epoch /\ page.epoch <= page.epoch
        BY DEF Core, ClientTypeOK, Pages
      <3> QED
        BY <1>3, <2>1, <2>3, <3>1 DEF Settled
    <2> QED
      BY <2>2, <2>3 DEF WithinEpoch
  <1>6. \A i \in DOMAIN v.loads : v.loads[i] \in Range(v.loads)
    BY DEF Range
  <1>7. ClientTypeOK'
    <2>1. page.epoch \in 1..MaxRuns + 1
      BY DEF Core, ClientTypeOK
    <2> QED
      BY <1>1, <1>4, <1>5, <1>6, <2>1 DEF ClientTypeOK, WithinEpoch, Streams
  <1>8. Opening' <=> Opening
    BY <1>1, <1>2, <1>3, Took1Is DEF Opening, WithinEpoch, Streams
  <1>9. n.pc # "none" => n.pc = m.pc /\ n.run = m.run
    BY <1>2, <1>3, Took1Is DEF WithinEpoch, Streams
  <1>10. ServesInv'
    BY <1>1, <1>8, <1>9 DEF Core, ConnInv, ServesInv, NextRun, At
  <1>11. ChanInv'
    <2>1. \A i \in DOMAIN m.chan :
            /\ evs[m.chan[i]].kind \in {"done", "error"} => i = Len(m.chan) /\ m.pc = "end"
            /\ evs[m.chan[i]].kind = "done" => evs[m.chan[i]].run = row.task
            /\ Stirring(m.chan[i]) =>
                 m.chan[i] \in Range(db) \/ (~Opening /\ m.chan[i] \in Outs(row.task))
      BY DEF Core, ConnInv, ChanInv
    <2>2. Outs(row.task)' = Outs(row.task)
      BY DEF Outs
    <2>3. \A i \in DOMAIN n.chan :
            /\ evs[n.chan[i]].kind \in {"done", "error"} => i = Len(n.chan) /\ n.pc = "end"
            /\ evs[n.chan[i]].kind = "done" => evs[n.chan[i]].run = row.task
            /\ Stirring(n.chan[i]) =>
                 n.chan[i] \in Range(db) \/ (~Opening' /\ n.chan[i] \in Outs(row.task))
      <3>1. CASE n = m
        BY <1>8, <2>1, <3>1
      <3>2. CASE n = NoConn
        BY <1>2, <3>2
      <3>3. CASE n = Took1("message") /\ m.chan # <<>>
        <4>1. /\ n.pc = m.pc /\ Len(n.chan) = Len(m.chan) - 1 /\ Len(m.chan) \in Nat
              /\ \A i \in DOMAIN n.chan : /\ i \in Nat /\ i + 1 \in DOMAIN m.chan
                                          /\ n.chan[i] = m.chan[i + 1]
          BY <1>3, <3>3, Took1Is DEF Streams
        <4> HIDE DEF m, n
        <4> QED
          BY <1>8, <2>1, <4>1
      <3> QED
        BY <3>1, <3>2, <3>3 DEF WithinEpoch
    <2> QED
      BY <1>1, <2>2, <2>3 DEF ChanInv, Stirring
  <1>12. ConnInv'
    <2>1. e.pc \in {"none", "open", "get", "missed", "idle", "end"}
      BY <1>2, <1>3, Took1Is DEF WithinEpoch, Core, ConnInv, Streams
    <2>2. \A c \in {"message", "empty"} :
            /\ conn[c].pc = "none" => conn[c] = NoConn
            /\ conn[c].pc \in {"get", "missed"} => conn[c].run \in Runs
      BY DEF Core, ConnInv
    <2>3. (n.pc = "none" => n = NoConn) /\ (n.pc \in {"get", "missed"} => n.run \in Runs)
      BY <1>2, <1>3, <2>2, Took1Is DEF WithinEpoch, Streams
    <2>4. (e.pc = "none" => e = NoConn) /\ (e.pc \in {"get", "missed"} => e.run \in Runs)
      BY <1>2, <1>3, <2>2, Took1Is DEF WithinEpoch, Streams
    <2>5. v.page.epoch <= row.task + (IF Opening' THEN 2 ELSE 1)
      BY <1>8 DEF WithinEpoch, Core, ConnInv
    <2> QED
      BY <1>1, <1>10, <1>11, <2>1, <2>3, <2>4, <2>5 DEF ConnInv
  <1>13. HearsInv'
    <2>1. /\ v.page.sending => n.pc # "none" /\ e.pc = "none"
          /\ n.pc # "none" => v.page.sending \/ (n.pc = "end" /\ n.chan = <<>>)
      BY DEF Informed
    <2>2. \A i \in DOMAIN v.loads :
            /\ v.loads[i].epoch <= v.page.epoch
            /\ v.loads[i].kind = "run" /\ v.loads[i].epoch = v.page.epoch => ~v.page.sending
      BY <1>5, <1>6 DEF WithinEpoch
    <2>3. v.page.local = "running" =>
            \/ n.pc # "none" \/ e.pc # "none" \/ v.page.timer
            \/ \E i \in DOMAIN v.loads : v.loads[i].kind \in Told /\ v.loads[i].epoch = v.page.epoch
      <3>1. \A l \in Range(v.loads) : \E i \in DOMAIN v.loads : l = v.loads[i]
        BY DEF Range
      <3> QED
        BY <3>1 DEF Informed, WithinEpoch
    <2> QED
      BY <1>1, <2>1, <2>2, <2>3 DEF HearsInv, Told
  <1>14. SettledInv'
    <2>1. Range(n.chan) \subseteq Range(m.chan)
      BY <1>2, <1>3, Took1Is DEF WithinEpoch, Streams
    <2>2. Grown /\ Outs(row.task)' = Outs(row.task)
      BY SameEvents, CoreIs
    <2>3. \A seen \in SUBSET DOMAIN evs : \A st : Settled(seen, st) => Settled(seen, st)'
      BY <1>1, <1>3, <2>1, <2>2, SettledKept, CoreIs DEF Streams
    <2>4. ASSUME ~Opening, v.page.sending
          PROVE  Settled(v.page.shown, v.page.local)'
      <3>1. Settled(v.page.shown, v.page.local) /\ v.page.shown \in SUBSET DOMAIN evs
        BY <2>4 DEF Informed, WithinEpoch
      <3> QED
        BY <2>3, <3>1
    <2>5. ASSUME ~Opening, NEW i \in DOMAIN v.loads
          PROVE  Settled(Range(v.loads[i].log), v.loads[i].status)'
      <3>1. /\ Settled(Range(v.loads[i].log), v.loads[i].status)
            /\ Range(v.loads[i].log) \in SUBSET DOMAIN evs
        BY <1>5, <1>6, <2>5
      <3> QED
        BY <2>3, <3>1
    <2> QED
      BY <1>1, <1>8, <2>4, <2>5 DEF SettledInv, Settled
  <1> QED
    BY <1>7, <1>12, <1>13, <1>14

\* What the invariant says of the page.
LEMMA PageIs ==
  ASSUME Core
  PROVE  /\ Now \in Views /\ Now.page = page /\ Now.conn = conn /\ Now.loads = loads
         /\ page \in Pages /\ conn \in [Streams -> Conns] /\ loads \in Seq(Loads)
         /\ page.shown \subseteq DOMAIN evs /\ page.cursor \in 0..Len(evs)
         /\ page.sending => conn["message"].pc # "none" /\ conn["empty"].pc = "none"
         /\ conn["message"].pc # "none" =>
              page.sending \/ (conn["message"].pc = "end" /\ conn["message"].chan = <<>>)
         /\ \A c \in Streams : conn[c].pc = "none" => conn[c] = NoConn
         /\ NoConn.pc = "none" /\ NoConn.chan = <<>>
         /\ page.local = "running" =>
              \/ conn["message"].pc # "none" \/ conn["empty"].pc # "none" \/ page.timer
              \/ \E l \in Range(loads) : l.kind \in Told /\ l.epoch = page.epoch
         /\ page.sending /\ ~Opening => Settled(page.shown, page.local)
         /\ 0 \in 0..Len(evs)
  <1>1. Now \in Views /\ Now.page = page /\ Now.conn = conn /\ Now.loads = loads
    BY NowIs DEF Core
  <1>2. /\ page \in Pages /\ conn \in [Streams -> Conns] /\ loads \in Seq(Loads)
        /\ page.shown \subseteq DOMAIN evs /\ page.cursor \in 0..Len(evs)
    BY DEF Core, ClientTypeOK, Streams
  <1>3. /\ page.sending => conn["message"].pc # "none" /\ conn["empty"].pc = "none"
        /\ conn["message"].pc # "none" =>
             page.sending \/ (conn["message"].pc = "end" /\ conn["message"].chan = <<>>)
    BY DEF Core, HearsInv
  <1>4. \A c \in Streams : conn[c].pc = "none" => conn[c] = NoConn
    BY DEF Core, ConnInv, Streams
  <1>5. NoConn.pc = "none" /\ NoConn.chan = <<>>
    BY FreshIs DEF ConnPcs
  <1>6. page.local = "running" =>
          \/ conn["message"].pc # "none" \/ conn["empty"].pc # "none" \/ page.timer
          \/ \E l \in Range(loads) : l.kind \in Told /\ l.epoch = page.epoch
    BY DEF Core, HearsInv, Range
  <1>7. page.sending /\ ~Opening => Settled(page.shown, page.local)
    BY DEF Core, SettledInv
  <1>8. 0 \in 0..Len(evs)
    BY CoreIs
  <1> QED
    BY <1>1, <1>2, <1>3, <1>4, <1>5, <1>6, <1>7, <1>8

\* The same for a callback during which the server does nothing.
LEMMA CallbackKeeps ==
  ASSUME Core, NEW v, WithinEpoch(v), Informed(v), Become(v), UNCHANGED server
  PROVE  Core'
  <1>1. /\ ServerTypeOK' /\ RunInv' /\ row' = row /\ runner' = runner /\ evs' = evs /\ db' = db
    BY SameServer
  <1>2. ClientTypeOK' /\ ConnInv' /\ HearsInv' /\ SettledInv'
    BY <1>1, WithinEpochKeeps
  <1> QED
    BY <1>1, <1>2 DEF Core

\* The page when it has taken the first event of a stream.
LEMMA TookIs ==
  ASSUME Core, NEW c \in Streams, conn[c].chan # <<>>
  PROVE  /\ Took(c) \in Views /\ Took(c).page = page /\ Took(c).loads = loads
         /\ Took(c).conn = [conn EXCEPT ![c] = Took1(c)]
  <1> DEFINE n == Now
  <1>1. n \in Views /\ n.page = page /\ n.conn = conn /\ n.loads = loads
    BY PageIs
  <1>2. Took1(c) \in Conns
    BY Took1Is DEF Core
  <1>3. \A g \in Conns : LET f == [n EXCEPT !.conn[c] = g] IN
          f \in Views /\ f.page = n.page /\ f.loads = n.loads /\ f.conn = [n.conn EXCEPT ![c] = g]
    <2> HIDE DEF n
    <2> QED
      BY <1>1 DEF Views
  <1>4. Took(c) = [n EXCEPT !.conn[c] = [n.conn[c] EXCEPT !.chan = Tail(n.conn[c].chan)]]
    BY Zenon DEF Took
  <1> HIDE DEF n
  <1>5. Took1(c) = [n.conn[c] EXCEPT !.chan = Tail(n.conn[c].chan)]
    BY <1>1 DEF Took1
  <1> QED
    BY <1>1, <1>2, <1>3, <1>4, <1>5

\* An event arrives: on a message stream a DoneEvent closes it, and is settled.
LEMMA ReceiveKeeps ==
  ASSUME Core, NEW c \in Streams, Receive(c)
  PROVE  Core'
  <1> DEFINE e == Head(conn[c].chan)
             w == Took(c)
             a == AppendEvent(w, e)
             z == [a EXCEPT !.page.sending = FALSE, !.conn["message"] = NoConn]
  <1>1. conn[c].chan # <<>> /\ UNCHANGED server
    BY DEF Receive
  <1>2. /\ w \in Views /\ w.page = page /\ w.loads = loads
        /\ w.conn = [conn EXCEPT ![c] = Took1(c)]
    BY <1>1, TookIs
  <1>3. /\ Took1(c).pc = conn[c].pc /\ Took1(c).chan = Tail(conn[c].chan)
        /\ Len(Took1(c).chan) = Len(conn[c].chan) - 1
        /\ e \in DOMAIN evs /\ e \in Range(conn[c].chan) /\ e = conn[c].chan[1]
        /\ 1 \in DOMAIN conn[c].chan /\ Took1(c) \in Conns
    BY <1>1, Took1Is DEF Core
  <1>4. e \in Nat /\ e \in 0..Len(evs)
    BY <1>3, CoreIs
  <1>5. Become(IF c = "message" /\ evs[e].kind = "done" THEN z ELSE a)
    BY DEF Receive
  <1> HIDE DEF w
  <1>6. Appended(w, e, a)
    BY <1>2, <1>4, AppendEventIs
  <1> HIDE DEF a, e
  <1>7. a \in Views /\ a.page \in Pages /\ a.loads = loads /\ a.conn["message"] = w.conn["message"]
        /\ a.conn \in [Streams -> Conns]
    BY <1>2, <1>6 DEF Appended, Views
  <1>8. conn[c] # NoConn /\ conn[c].pc # "none"
    BY <1>1, PageIs
  <1>9. Fresh("open", e).pc = "open"
    BY <1>4, FreshIs DEF ConnPcs
  <1>10. WithinEpoch(a)
    <2>1. a.conn["message"] \in {conn["message"], Took1("message")}
          /\ (a.conn["message"] = Took1("message") /\ a.conn["message"] # conn["message"] =>
                conn["message"].chan # <<>>)
      BY <1>1, <1>2, <1>7, PageIs DEF Streams
    <2>2. \/ a.conn["empty"] = conn["empty"] \/ a.conn["empty"] = NoConn
          \/ a.conn["empty"] = Took1("empty") /\ conn["empty"].chan # <<>>
          \/ a.conn["empty"] = Fresh("open", e)
      BY <1>1, <1>2, <1>6, PageIs DEF Streams, Appended
    <2>3. /\ a.page.epoch = page.epoch /\ a.page.shown \subseteq DOMAIN evs
          /\ a.page.cursor \in 0..Len(evs)
      BY <1>2, <1>3, <1>4, <1>6, PageIs DEF Appended
    <2> QED
      BY <1>4, <1>7, <2>1, <2>2, <2>3 DEF WithinEpoch
  <1>11. CASE c = "empty"
    <2>1. ~page.sending /\ conn["empty"].pc # "none" /\ a.conn["message"] = conn["message"]
      BY <1>2, <1>7, <1>8, <1>11, PageIs DEF Streams
    <2>2. ~a.page.sending
      BY <1>2, <1>6, <2>1 DEF Appended
    <2>3. a.page.local = "running" => a.conn["empty"].pc # "none"
      <3>1. w.conn["empty"].pc # "none" /\ w.conn["empty"] # NoConn
        BY <1>2, <1>3, <1>11, <2>1, PageIs DEF Streams
      <3>2. CASE e \in w.page.shown
        BY <1>6, <3>1, <3>2 DEF Appended
      <3>3. CASE e \notin w.page.shown
        BY <1>6, <1>9, <2>2, <3>1, <3>3 DEF Appended
      <3> QED
        BY <3>2, <3>3
    <2>4. Informed(a)
      BY <2>1, <2>2, <2>3, PageIs DEF Informed
    <2>5. Become(a)
      BY <1>5, <1>11
    <2> QED
      BY <1>1, <1>10, <2>4, <2>5, CallbackKeeps
  <1>12. ASSUME c = "message"
         PROVE  /\ page.sending /\ conn["empty"].pc = "none" /\ w.conn["empty"] = NoConn
                /\ a.conn["message"] = Took1("message") /\ a.conn["empty"].pc = "none"
                /\ evs[e].kind \in {"done", "error"} =>
                     conn["message"].pc = "end" /\ Took1("message").chan = <<>> /\ ~Opening
                /\ evs[e].kind = "done" => evs[e].run = row.task
    <2>1. page.sending /\ conn["empty"].pc = "none"
      BY <1>1, <1>8, <1>12, PageIs
    <2>2. w.conn["empty"] = NoConn /\ a.conn["message"] = Took1("message")
      BY <1>2, <1>7, <1>12, <2>1, PageIs DEF Streams
    <2>3. a.conn["empty"].pc = "none"
      <3>1. CASE e \in w.page.shown
        BY <1>6, <2>2, <3>1, PageIs DEF Appended
      <3>2. CASE e \notin w.page.shown
        BY <1>2, <1>6, <2>1, <2>2, <3>2, PageIs DEF Appended
      <3> QED
        BY <3>1, <3>2
    <2>4. /\ evs[e].kind \in {"done", "error"} => 1 = Len(conn["message"].chan) /\ conn["message"].pc = "end"
          /\ evs[e].kind = "done" => evs[e].run = row.task
      BY <1>3, <1>12 DEF Core, ConnInv, ChanInv
    <2>5. ASSUME evs[e].kind \in {"done", "error"}
          PROVE  Took1("message").chan = <<>>
      <3>1. Len(Took1("message").chan) = 0
        <4>1. Len(Took1("message").chan) = Len(conn["message"].chan) - 1
          BY <1>3, <1>12
        <4>2. Len(conn["message"].chan) = 1
          BY <2>4, <2>5
        <4> QED
          BY <4>1, <4>2
      <3>2. Took1("message").chan \in Seq(Nat)
        BY <1>3, <1>12 DEF Conns
      <3> QED
        BY <3>1, <3>2
    <2>6. conn["message"].pc = "end" => ~Opening
      BY DEF Opening
    <2> QED
      BY <2>1, <2>2, <2>3, <2>4, <2>5, <2>6
  <1>13. CASE c = "message" /\ evs[e].kind = "done"
    <2>1. Become(z)
      BY <1>5, <1>13
    <2>2. /\ z \in Views /\ z.page = [a.page EXCEPT !.sending = FALSE] /\ z.loads = a.loads
          /\ z.conn["message"] = NoConn /\ z.conn["empty"] = a.conn["empty"]
      BY <1>7, FreshIs DEF Views, Pages, Streams, ConnPcs
    <2> HIDE DEF z
    <2>3. /\ z.page.epoch = a.page.epoch /\ z.page.shown = a.page.shown
          /\ z.page.cursor = a.page.cursor /\ ~z.page.sending /\ z.page.local = a.page.local
      BY <1>7, <2>2 DEF Pages
    <2>4. WithinEpoch(z)
      BY <1>10, <1>12, <1>13, <2>2, <2>3, <1>7 DEF WithinEpoch
    <2>5. a.page.local # "running"
      <3>1. CASE e \in page.shown
        <4>1. Settled(page.shown, page.local)
          BY <1>12, <1>13, PageIs
        <4> QED
          BY <1>2, <1>6, <1>12, <1>13, <3>1, <4>1 DEF Settled, Done, Appended
      <3>2. CASE e \notin page.shown
        BY <1>2, <1>6, <1>13, <3>2 DEF Appended
      <3> QED
        BY <3>1, <3>2
    <2>6. Informed(z)
      BY <2>2, <2>3, <2>5, PageIs DEF Informed
    <2> QED
      BY <1>1, <2>1, <2>4, <2>6, CallbackKeeps
  <1>14. CASE c = "message" /\ evs[e].kind # "done"
    <2>1. Become(a)
      BY <1>5, <1>14
    <2>2. a.page.sending => page.sending
      BY <1>12, <1>14
    <2>3. a.conn["message"].pc # "none" /\ Took1("message").pc = conn["message"].pc
      BY <1>3, <1>8, <1>12, <1>14
    <2>4. a.page.sending \/ (a.conn["message"].pc = "end" /\ a.conn["message"].chan = <<>>)
      <3>1. CASE e \in page.shown
        BY <1>2, <1>6, <1>12, <1>14, <3>1 DEF Appended
      <3>2. CASE e \notin page.shown /\ evs[e].kind # "error"
        BY <1>2, <1>6, <1>12, <1>14, <3>2 DEF Appended
      <3>3. CASE evs[e].kind = "error"
        BY <1>12, <1>14, <2>3, <3>3
      <3> QED
        BY <3>1, <3>2, <3>3
    <2>5. ASSUME a.page.sending, ~Opening
          PROVE  Settled(a.page.shown, a.page.local)
      <3>1. Settled(page.shown, page.local)
        BY <1>12, <1>14, <2>5, PageIs
      <3>2. a.page.shown = page.shown \cup {e}
        BY <1>2, <1>6 DEF Appended
      <3> SUFFICES ASSUME \E x \in page.shown \cup {e} : Done(x, row.task)
                   PROVE  /\ a.page.local # "running"
                          /\ \A d \in Range(conn["message"].chan) \cup Outs(row.task) :
                               Stirring(d) => d \in page.shown \cup {e}
        BY <3>2 DEF Settled
      <3>3. \E x \in page.shown : Done(x, row.task)
        BY <1>14 DEF Done
      <3>4. /\ page.local # "running"
            /\ \A d \in Range(conn["message"].chan) \cup Outs(row.task) :
                 Stirring(d) => d \in page.shown
        BY <3>1, <3>3 DEF Settled
      <3>5. Stirring(e) => e \in page.shown
        BY <1>3, <1>14, <3>4
      <3>6. a.page.local # "running"
        <4>1. CASE e \in page.shown
          BY <1>2, <1>6, <3>4, <4>1 DEF Appended
        <4>2. CASE e \notin page.shown
          BY <1>2, <1>6, <3>4, <3>5, <4>2 DEF Appended
        <4> QED
          BY <4>1, <4>2
      <3> QED
        BY <3>4, <3>6
    <2>6. Informed(a)
      BY <1>12, <1>14, <2>2, <2>3, <2>4, <2>5 DEF Informed
    <2> QED
      BY <1>1, <1>10, <2>1, <2>6, CallbackKeeps
  <1> QED
    BY <1>11, <1>13, <1>14 DEF Streams

\* A snapshot that is asked for.
LEMMA LoadIs ==
  ASSUME NEW k \in {"mount", "run", "empty", "refresh"}, NEW n \in Nat
  PROVE  /\ Load(k, n) \in Loads /\ Load(k, n).kind = k /\ Load(k, n).epoch = n
         /\ Load(k, n).log = <<>> /\ Range(Load(k, n).log) = {}
  BY DEF Load, Loads, Statuses, Range

\* A request for a snapshot joins the queue.
LEMMA AppendLoad ==
  ASSUME NEW s \in Seq(Loads), NEW k \in {"mount", "run", "empty", "refresh"}, NEW n \in Nat
  PROVE  /\ Append(s, Load(k, n)) \in Seq(Loads)
         /\ Range(Append(s, Load(k, n))) = Range(s) \cup {Load(k, n)}
  BY LoadIs, AppendRange

\* The epoch is a positive number.
LEMMA EpochIs ==
  ASSUME Core
  PROVE  page.epoch \in Nat /\ 0 <= page.epoch /\ 1 <= page.epoch
  BY PageAssumption DEF Core, ClientTypeOK

\* The message stream is over, for the page.
LEMMA MessageOver ==
  ASSUME Core, ~Opening
  PROVE  LET v == ReconcileRunStreamEnd(Now) IN WithinEpoch(v) /\ Informed(v)
  <1> DEFINE v == ReconcileRunStreamEnd(Now)
             l == Load("run", page.epoch)
  <1>1. /\ v \in Views /\ v.page = [page EXCEPT !.sending = FALSE]
        /\ v.conn = [conn EXCEPT !["message"] = NoConn] /\ v.loads = Append(loads, l)
    BY PageIs, RunStreamEndIs
  <1>2. /\ l.kind = "run" /\ l.epoch = page.epoch /\ l.log = <<>>
        /\ Range(Append(loads, l)) = Range(loads) \cup {l}
    BY LoadIs, AppendLoad, EpochIs, PageIs
  <1> HIDE DEF v, l
  <1>3. /\ v.page.shown = page.shown /\ v.page.cursor = page.cursor /\ v.page.epoch = page.epoch
        /\ ~v.page.sending
    BY <1>1, PageIs DEF Pages
  <1>4. v.conn["message"] = NoConn /\ v.conn["empty"] = conn["empty"]
    BY <1>1, PageIs DEF Streams
  <1>5. WithinEpoch(v)
    BY <1>1, <1>2, <1>3, <1>4, PageIs DEF WithinEpoch
  <1>6. Informed(v)
    BY <1>1, <1>2, <1>3, <1>4, PageIs DEF Informed, Told
  <1> QED
    BY <1>5, <1>6 DEF v

\* A stream ends, and a snapshot is asked for.
LEMMA StreamEndsKeeps ==
  ASSUME Core, NEW c \in Streams, StreamEnds(c)
  PROVE  Core'
  <1>1. conn[c].pc = "end" /\ conn[c].chan = <<>> /\ UNCHANGED server
    BY DEF StreamEnds
  <1>2. CASE c = "message"
    <2>1. ~Opening /\ Become(ReconcileRunStreamEnd(Now))
      BY <1>1, <1>2 DEF StreamEnds, Opening
    <2> QED
      BY <1>1, <2>1, MessageOver, CallbackKeeps
  <1>3. CASE c = "empty"
    <2> DEFINE v == EmptyStreamEnd(Now)
               l == Load("empty", page.epoch)
    <2>1. Become(v)
      BY <1>3 DEF StreamEnds
    <2>2. /\ v \in Views /\ v.page = page
          /\ v.conn = [conn EXCEPT !["empty"] = NoConn] /\ v.loads = Append(loads, l)
      BY PageIs, EmptyStreamEndIs
    <2>3. /\ l.kind = "empty" /\ l.epoch = page.epoch /\ l.log = <<>>
          /\ Range(Append(loads, l)) = Range(loads) \cup {l}
      BY LoadIs, AppendLoad, EpochIs, PageIs
    <2> HIDE DEF v, l
    <2>4. v.conn["empty"] = NoConn /\ v.conn["message"] = conn["message"]
      BY <2>2, PageIs DEF Streams
    <2>5. WithinEpoch(v)
      BY <2>2, <2>3, <2>4, PageIs DEF WithinEpoch
    <2>6. Informed(v)
      BY <2>2, <2>3, <2>4, PageIs DEF Informed, Told
    <2> QED
      BY <1>1, <2>1, <2>5, <2>6, CallbackKeeps
  <1> QED
    BY <1>2, <1>3 DEF Streams

\* A request that may be broken has started its run.
LEMMA UntouchedIs ==
  ASSUME Untouched
  PROVE  ~Opening /\ conn["message"].pc \notin {"put", "add"}
  BY DEF Untouched, Opening

\* The listening stream breaks; the message stream may have broken before.
LEMMA EmptyBreaks ==
  ASSUME Core, NEW w, w = Now \/ (w = ReconcileRunStreamEnd(Now) /\ ~Opening)
  PROVE  WithinEpoch(Broken(w)) /\ Informed(Broken(w))
  <1> DEFINE v == Broken(w)
             l == Load("empty", page.epoch)
             g == Load("run", page.epoch)
  <1>0. NoConn.pc = "none"
    BY PageIs
  <1>1. /\ w \in Views /\ w.conn["empty"] = conn["empty"] /\ w.page \in Pages
        /\ w.page.shown = page.shown /\ w.page.cursor = page.cursor /\ w.page.epoch = page.epoch
        /\ w.page.local = page.local /\ w.page.timer = page.timer
        /\ w.conn \in [Streams -> Conns]
        /\ \/ w.page.sending = page.sending /\ w.conn["message"] = conn["message"] /\ w.loads = loads
           \/ /\ ~w.page.sending /\ w.conn["message"] = NoConn /\ ~Opening
              /\ w.loads = Append(loads, g)
    <2>1. CASE w = Now
      BY <2>1, PageIs
    <2>2. CASE w = ReconcileRunStreamEnd(Now) /\ ~Opening
      <3>1. /\ w \in Views /\ w.page = [page EXCEPT !.sending = FALSE]
            /\ w.conn = [conn EXCEPT !["message"] = NoConn] /\ w.loads = Append(loads, g)
        BY <2>2, PageIs, RunStreamEndIs
      <3> HIDE DEF g
      <3> QED
        BY <2>2, <3>1, PageIs DEF Pages, Streams, Views
    <2> QED
      BY <2>1, <2>2
  <1>2. /\ v \in Views /\ v.conn = [w.conn EXCEPT !["empty"] = NoConn]
        /\ v.page.shown = page.shown /\ v.page.cursor = page.cursor
        /\ v.page.local = page.local /\ v.page.sending = w.page.sending
        /\ v.page.epoch = page.epoch
        /\ v.loads \in {w.loads, Append(w.loads, l)}
        /\ page.timer => v.page.timer
        /\ conn["empty"].pc # "none" /\ page.local = "running" =>
             w.page.sending \/ v.page.timer \/ v.loads # w.loads
    <2>1. w.conn["empty"].pc = "none" => w.conn["empty"] = NoConn
      BY <1>1, PageIs DEF Streams
    <2>2. /\ v \in Views /\ v.conn = [w.conn EXCEPT !["empty"] = NoConn]
          /\ v.page.shown = w.page.shown /\ v.page.cursor = w.page.cursor
          /\ v.page.local = w.page.local /\ v.page.sending = w.page.sending
          /\ v.page.epoch = w.page.epoch
          /\ v.loads \in {w.loads, Append(w.loads, Load("empty", w.page.epoch))}
          /\ w.page.timer => v.page.timer
          /\ w.conn["empty"].pc # "none" /\ w.page.local = "running" =>
               w.page.sending \/ v.page.timer \/ v.loads # w.loads
      BY <1>1, <2>1, BrokenIs
    <2> HIDE DEF v
    <2> QED
      BY <1>1, <2>2
  <1> HIDE DEF v
  <1>3. /\ l.kind = "empty" /\ l.epoch = page.epoch /\ l.log = <<>>
        /\ g.kind = "run" /\ g.epoch = page.epoch /\ g.log = <<>>
    BY LoadIs, EpochIs
  <1>4. /\ Range(loads) \subseteq Range(w.loads) /\ Range(w.loads) \subseteq Range(loads) \cup {g}
        /\ w.loads # loads => g \in Range(w.loads)
        /\ w.loads \in Seq(Loads)
    <2>1. Range(Append(loads, g)) = Range(loads) \cup {g} /\ Append(loads, g) \in Seq(Loads)
      BY AppendLoad, EpochIs, PageIs
    <2> QED
      BY <1>1, <2>1, PageIs
  <1>5. /\ Range(w.loads) \subseteq Range(v.loads) /\ Range(v.loads) \subseteq Range(w.loads) \cup {l}
        /\ v.loads # w.loads => l \in Range(v.loads)
    <2>1. Range(Append(w.loads, l)) = Range(w.loads) \cup {l}
      BY <1>4, AppendLoad, EpochIs
    <2> QED
      BY <1>2, <2>1
  <1> HIDE DEF l, g
  <1>6. v.conn["empty"] = NoConn /\ v.conn["message"] = w.conn["message"]
    BY <1>1, <1>2 DEF Streams
  <1>7. WithinEpoch(v)
    <2>1. v.conn["message"] = conn["message"] \/ (v.conn["message"] = NoConn /\ ~Opening)
      BY <1>1, <1>6
    <2>2. \A k \in Range(v.loads) : k \in Range(loads) \/ k = l \/ (k = g /\ ~v.page.sending)
      BY <1>1, <1>2, <1>4, <1>5
    <2> QED
      BY <1>2, <1>3, <1>6, <2>1, <2>2, PageIs DEF WithinEpoch
  <1>8. Informed(v)
    <2>1. v.page.sending => page.sending /\ v.conn["message"].pc # "none"
      BY <1>0, <1>1, <1>2, <1>6, PageIs
    <2>2. v.conn["message"].pc # "none" =>
            v.page.sending \/ (v.conn["message"].pc = "end" /\ v.conn["message"].chan = <<>>)
      BY <1>0, <1>1, <1>2, <1>6, PageIs
    <2>3. ASSUME v.page.local = "running"
          PROVE  \/ v.conn["message"].pc # "none" \/ v.page.timer
                 \/ \E k \in Range(v.loads) : k.kind \in Told /\ k.epoch = page.epoch
      <3>1. l \in Range(v.loads) \/ g \in Range(v.loads) =>
              \E k \in Range(v.loads) : k.kind \in Told /\ k.epoch = page.epoch
        BY <1>3 DEF Told
      <3>2. Range(loads) \subseteq Range(v.loads)
        BY <1>4, <1>5
      <3>3. CASE w.loads # loads
        BY <1>4, <1>5, <3>1, <3>3
      <3>4. CASE w.loads = loads /\ conn["empty"].pc # "none"
        BY <1>2, <1>5, <2>1, <2>3, <3>1, <3>4
      <3>5. CASE w.conn["message"] = conn["message"] /\ conn["empty"].pc = "none"
        BY <1>2, <1>6, <2>3, <3>2, <3>5, PageIs
      <3>6. Append(loads, g) # loads
        BY PageIs
      <3> QED
        BY <1>1, <3>3, <3>4, <3>5, <3>6
    <2>4. v.page.sending /\ ~Opening => Settled(v.page.shown, v.page.local)
      BY <1>1, <1>2, <2>1, PageIs
    <2> QED
      BY <1>0, <1>6, <2>1, <2>2, <2>3, <2>4 DEF Informed
  <1> QED
    BY <1>7, <1>8 DEF v

\* A connection is lost.
LEMMA DropsKeep ==
  ASSUME Core, DropMessage \/ DropEmpty
  PROVE  Core'
  <1>1. CASE DropMessage
    BY <1>1, UntouchedIs, MessageOver, CallbackKeeps DEF DropMessage
  <1>2. CASE DropEmpty
    BY <1>2, EmptyBreaks, CallbackKeeps DEF DropEmpty
  <1> QED
    BY <1>1, <1>2

\* The server restarts: both connections are lost and every runner is over.
LEMMA CrashStepKeeps ==
  ASSUME Core, Crash
  PROVE  Core'
  <1> DEFINE w == IF conn["message"] = NoConn THEN Now ELSE ReconcileRunStreamEnd(Now)
  <1>1. /\ Untouched /\ Become(Broken(w)) /\ UNCHANGED <<evs, db, row>>
        /\ runner' = [r \in Runs |-> IF At(r, "off") THEN "off" ELSE "over"]
        /\ hand' = [r \in Runs |-> 0]
    BY DEF Crash
  <1>2. ~Opening /\ conn["message"].pc \notin {"put", "add"}
    BY <1>1, UntouchedIs
  <1>3. w = Now \/ (w = ReconcileRunStreamEnd(Now) /\ ~Opening)
    BY <1>2
  <1> HIDE DEF w
  <1>4. WithinEpoch(Broken(w)) /\ Informed(Broken(w))
    BY <1>3, EmptyBreaks
  <1>5. ServerTypeOK' /\ RunInv'
    BY <1>1, CrashKeeps, CoreIs
  <1>6. ClientTypeOK' /\ ConnInv' /\ HearsInv' /\ SettledInv'
    BY <1>1, <1>2, <1>4, WithinEpochKeeps
  <1> QED
    BY <1>5, <1>6 DEF Core

\* The timer opens a listening stream unless the page sends or has one.
LEMMA ReconnectTimerKeeps ==
  ASSUME Core, ReconnectTimer
  PROVE  Core'
  <1> DEFINE n == Now
             w == [n EXCEPT !.page.timer = FALSE]
             v == IF conn["empty"] = NoConn /\ ~page.sending THEN StartEmptyStream(w) ELSE w
  <1>1. Become(v) /\ UNCHANGED server
    BY DEF ReconnectTimer
  <1>2. /\ w \in Views /\ w.page = [page EXCEPT !.timer = FALSE] /\ w.conn = conn /\ w.loads = loads
    <2>1. n \in Views /\ n.page = page /\ n.conn = conn /\ n.loads = loads
      BY PageIs
    <2> HIDE DEF n
    <2> QED
      BY <2>1 DEF Views, Pages
  <1> HIDE DEF w, n
  <1>3. /\ w.page.shown = page.shown /\ w.page.cursor = page.cursor /\ w.page.epoch = page.epoch
        /\ w.page.local = page.local /\ w.page.sending = page.sending /\ w.page \in Pages
    BY <1>2, PageIs DEF Pages
  <1>4. CASE conn["empty"] = NoConn /\ ~page.sending /\ page.local # "completed"
    <2>1. v = StartEmptyStream(w)
      BY <1>4
    <2>2. /\ v \in Views /\ v.page = [w.page EXCEPT !.timer = FALSE]
          /\ v.conn["message"] = conn["message"]
          /\ v.conn["empty"] = Fresh("open", page.cursor) /\ v.loads = loads
      BY <1>2, <1>3, <1>4, <2>1, StartIs
    <2> HIDE DEF v
    <2>3. /\ v.page.shown = page.shown /\ v.page.cursor = page.cursor
          /\ v.page.epoch = page.epoch /\ v.page.sending = page.sending
      BY <1>3, <2>2 DEF Pages
    <2>4. v.conn["empty"].pc # "none"
      BY <2>2, FreshIs, PageIs DEF ConnPcs, Pages
    <2>5. WithinEpoch(v)
      BY <2>2, <2>3, PageIs DEF WithinEpoch
    <2>6. Informed(v)
      BY <1>4, <2>2, <2>3, <2>4, PageIs DEF Informed
    <2> QED
      BY <1>1, <2>5, <2>6, CallbackKeeps
  <1>5. CASE ~(conn["empty"] = NoConn /\ ~page.sending /\ page.local # "completed")
    <2>1. v = w
      BY <1>3, <1>5 DEF StartEmptyStream
    <2> HIDE DEF v
    <2>2. WithinEpoch(w)
      BY <1>2, <1>3, PageIs DEF WithinEpoch
    <2>3. page.local = "running" => conn["message"].pc # "none" \/ conn["empty"].pc # "none"
      BY <1>5, PageIs DEF Streams
    <2>4. Informed(w)
      BY <1>2, <1>3, <2>3, PageIs DEF Informed
    <2> QED
      BY <1>1, <2>1, <2>2, <2>4, CallbackKeeps
  <1> QED
    BY <1>4, <1>5

\* What a snapshot says, when it is read, is settled.
LEMMA LogIsSettled ==
  ASSUME Core, ~Opening
  PROVE  Settled(Range(db), row.status)
  <1> SUFFICES ASSUME NEW e \in Range(db), Done(e, row.task)
               PROVE  /\ row.status # "running"
                      /\ \A d \in Range(conn["message"].chan) \cup Outs(row.task) :
                           Stirring(d) => d \in Range(db)
    BY DEF Settled
  <1>1. e \in DOMAIN evs /\ evs[e].kind = "done" /\ evs[e].run = row.task
    BY CoreIs DEF Done
  <1>2. row.task \in Runs /\ row.status # "running"
    BY <1>1, CoreIs, RunInvIs DEF TrueDones
  <1>3. Outs(row.task) \subseteq Range(db)
    BY <1>2, CoreIs, RunInvIs DEF RunnerInv
  <1>4. \A d \in Range(conn["message"].chan) : Stirring(d) => d \in Range(db)
    BY <1>3 DEF Core, ConnInv, ChanInv, Range
  <1> QED
    BY <1>2, <1>3, <1>4

\* The server answers a request for a snapshot.
LEMMA LoadReadKeeps ==
  ASSUME Core, NEW i \in DOMAIN loads, LoadRead(i)
  PROVE  Core'
  <1>1. /\ UNCHANGED server /\ conn' = conn /\ page' = page
        /\ loads' = [loads EXCEPT ![i].read = TRUE, ![i].status = row.status,
                                  ![i].next = row.next # "none", ![i].log = db]
    BY DEF LoadRead
  <1>2. ServerTypeOK' /\ RunInv' /\ row' = row /\ runner' = runner /\ evs' = evs /\ db' = db
    BY <1>1, SameServer
  <1> DEFINE l == [loads[i] EXCEPT !.read = TRUE, !.status = row.status,
                                   !.next = row.next # "none", !.log = db]
  <1>3. loads \in Seq(Loads) /\ loads[i] \in Loads
    BY PageIs
  <1>4. loads' = [loads EXCEPT ![i] = l]
    BY <1>1, Zenon
  <1>5. /\ l \in Loads /\ l.kind = loads[i].kind /\ l.epoch = loads[i].epoch
        /\ l.status = row.status /\ l.log = db
    <2>2. row.status \in Statuses /\ db \in Seq(Nat)
      BY CoreIs DEF Rows
    <2> DEFINE b == row.next # "none"
               k == loads[i]
               st == row.status
    <2>3. b \in BOOLEAN
      OBVIOUS
    <2>4. l = [k EXCEPT !.read = TRUE, !.status = st, !.next = b, !.log = db]
      OBVIOUS
    <2>5. k \in Loads /\ st \in Statuses
      BY <1>3, <2>2
    <2> HIDE DEF b, l, k, st
    <2>6. /\ l \in Loads /\ l.kind = k.kind /\ l.epoch = k.epoch
          /\ l.status = st /\ l.log = db
      BY <2>2, <2>3, <2>4, <2>5 DEF Loads
    <2> QED
      BY <2>6 DEF k, st
  <1> HIDE DEF l
  <1>6. /\ loads' \in Seq(Loads) /\ DOMAIN loads' = DOMAIN loads /\ loads'[i] = l
        /\ \A j \in DOMAIN loads : j # i => loads'[j] = loads[j]
    BY <1>3, <1>4, <1>5
  <1>7. ClientTypeOK'
    <2>1. \A j \in DOMAIN loads' : Range(loads'[j].log) \subseteq DOMAIN evs
      BY <1>5, <1>6, CoreIs DEF Core, ClientTypeOK
    <2> QED
      BY <1>1, <1>2, <1>6, <2>1 DEF Core, ClientTypeOK
  <1>8. ConnInv'
    BY <1>1, <1>2 DEF Core, ConnInv, ServesInv, ChanInv, Opening, NextRun, Outs, Stirring, At
  <1>9. HearsInv'
    <2>1. \A j \in DOMAIN loads' : loads'[j].kind = loads[j].kind /\ loads'[j].epoch = loads[j].epoch
      BY <1>5, <1>6
    <2> QED
      BY <1>1, <1>6, <2>1 DEF Core, HearsInv
  <1>10. SettledInv'
    <2>1. Opening' <=> Opening
      BY <1>1 DEF Opening
    <2>2. \A seen \in SUBSET DOMAIN evs : \A st : Settled(seen, st) => Settled(seen, st)'
      BY <1>1, <1>2 DEF Settled, Outs, Stirring, Done
    <2>3. ASSUME ~Opening, page.sending
          PROVE  Settled(page.shown, page.local)'
      BY <1>1, <1>2, <2>3 DEF Core, SettledInv, Settled, Outs, Stirring, Done
    <2>4. ASSUME ~Opening, NEW j \in DOMAIN loads'
          PROVE  Settled(Range(loads'[j].log), loads'[j].status)
      <3>1. CASE j = i
        BY <1>5, <1>6, <2>4, <3>1, LogIsSettled
      <3>2. CASE j # i
        <4>1. j \in DOMAIN loads /\ loads'[j] = loads[j]
          BY <1>6, <2>4, <3>2
        <4> QED
          BY <2>4, <4>1 DEF Core, SettledInv
      <3> QED
        BY <3>1, <3>2
    <2>5. \A seen, st : Settled(seen, st) =>
            ((\E e \in seen : evs'[e].kind = "done" /\ evs'[e].run = row'.task) =>
               /\ st # "running"
               /\ \A d \in Range(conn'["message"].chan) \cup
                            {x \in DOMAIN evs' : evs'[x].src = "out" /\ evs'[x].run = row'.task} :
                    evs'[d].kind \in {"step", "resolved"} => d \in seen)
      BY <1>1, <1>2 DEF Settled, Outs, Stirring, Done
    <2>6. ASSUME ~Opening, NEW j \in DOMAIN loads'
          PROVE  (\E e \in Range(loads'[j].log) : evs'[e].kind = "done" /\ evs'[e].run = row'.task) =>
               /\ loads'[j].status # "running"
               /\ \A d \in Range(conn'["message"].chan) \cup
                            {x \in DOMAIN evs' : evs'[x].src = "out" /\ evs'[x].run = row'.task} :
                    evs'[d].kind \in {"step", "resolved"} => d \in Range(loads'[j].log)
      BY <2>4, <2>5, <2>6
    <2>7. ASSUME ~Opening, NEW j \in DOMAIN loads'
          PROVE  Settled(Range(loads[j].log), loads[j].status)'
      BY <2>6, <2>7 DEF Settled, Outs, Stirring, Done
    <2> QED
      BY <1>1, <2>1, <2>3, <2>7 DEF SettledInv
  <1> QED
    BY <1>2, <1>7, <1>8, <1>9, <1>10 DEF Core

\* A snapshot leaves the queue.
LEMMA LoadGone ==
  ASSUME Core, NEW i \in DOMAIN loads
  PROVE  LET w == [Now EXCEPT !.loads = RemoveAt(@, i)] IN
         /\ w \in Views /\ w.page = page /\ w.conn = conn
         /\ Range(w.loads) \subseteq Range(loads)
         /\ \A l \in Range(loads) : l = loads[i] \/ l \in Range(w.loads)
         /\ loads[i] \in Loads /\ Range(loads[i].log) \subseteq DOMAIN evs
         /\ ~Opening => Settled(Range(loads[i].log), loads[i].status)
         /\ loads[i].kind = "run" /\ loads[i].epoch = page.epoch => ~page.sending
         /\ loads[i] \in Range(loads)
  <1> DEFINE n == Now
             s == RemoveAt(loads, i)
  <1>1. n \in Views /\ n.page = page /\ n.conn = conn /\ n.loads = loads
    BY PageIs
  <1>2. /\ s \in Seq(Loads) /\ Range(s) \subseteq Range(loads)
        /\ \A l \in Range(loads) : l = loads[i] \/ l \in Range(s)
    BY PageIs, RemoveAtIs
  <1>3. \A t \in Seq(Loads) : LET w == [n EXCEPT !.loads = t] IN
          w \in Views /\ w.page = n.page /\ w.conn = n.conn /\ w.loads = t
    <2> HIDE DEF n
    <2> QED
      BY <1>1 DEF Views
  <1>4. [Now EXCEPT !.loads = RemoveAt(@, i)] = [n EXCEPT !.loads = s]
    <2>1. [Now EXCEPT !.loads = RemoveAt(@, i)] = [n EXCEPT !.loads = RemoveAt(n.loads, i)]
      BY Zenon
    <2> HIDE DEF n
    <2> QED
      BY <1>1, <2>1
  <1> HIDE DEF n, s
  <1>5. /\ loads[i] \in Loads /\ Range(loads[i].log) \subseteq DOMAIN evs
        /\ ~Opening => Settled(Range(loads[i].log), loads[i].status)
        /\ loads[i].kind = "run" /\ loads[i].epoch = page.epoch => ~page.sending
        /\ loads[i] \in Range(loads)
    <2>1. loads[i] \in Loads /\ loads[i] \in Range(loads)
      BY PageIs DEF Range
    <2>2. Range(loads[i].log) \subseteq DOMAIN evs
      BY DEF Core, ClientTypeOK
    <2>3. ~Opening => Settled(Range(loads[i].log), loads[i].status)
      BY DEF Core, SettledInv
    <2>4. loads[i].kind = "run" /\ loads[i].epoch = page.epoch => ~page.sending
      BY DEF Core, HearsInv
    <2> QED
      BY <2>1, <2>2, <2>3, <2>4
  <1> QED
    BY <1>1, <1>2, <1>3, <1>4, <1>5

\* What happens after a snapshot leaves the page informed.
LEMMA AfterLoad ==
  ASSUME Core, NEW l \in Range(loads), l \in Loads, NEW w \in Views,
         l.kind = "run" /\ l.epoch = page.epoch => ~page.sending,
         w.conn["message"] = conn["message"],
         \/ w.conn["empty"] = conn["empty"] \/ w.conn["empty"] = NoConn
         \/ \E n \in 0..Len(evs) : w.conn["empty"] = Fresh("open", n),
         w.page.epoch = page.epoch, w.page.shown \subseteq DOMAIN evs,
         w.page.cursor \in 0..Len(evs), w.page.sending = page.sending,
         page.sending => w.conn["empty"].pc = "none",
         w.conn["empty"].pc = "none" => w.conn["empty"] = NoConn,
         Range(w.loads) \subseteq Range(loads),
         w.page.local = "running" =>
           \/ conn["message"].pc # "none" \/ w.conn["empty"].pc # "none" \/ w.page.timer
           \/ \E k \in Range(w.loads) \cup {l} : k.kind \in Told /\ k.epoch = page.epoch,
         page.sending /\ ~Opening => Settled(w.page.shown, w.page.local)
  PROVE  WithinEpoch(Continued(w, l)) /\ Informed(Continued(w, l))
  <1> DEFINE v == Continued(w, l)
  <1>1. /\ v \in Views /\ v.loads = w.loads
        /\ v.page.shown = w.page.shown /\ v.page.cursor = w.page.cursor
        /\ v.page.local = w.page.local /\ v.page.sending = w.page.sending
        /\ v.page.epoch = w.page.epoch
        /\ v.conn["message"] = w.conn["message"]
        /\ v.conn["empty"] \in {w.conn["empty"], Fresh("open", w.page.cursor)}
        /\ l.epoch # w.page.epoch => v = w
        /\ v.conn["empty"] # w.conn["empty"] =>
             l.kind = "run" /\ l.epoch = w.page.epoch /\ w.page.local = "running"
        /\ l.epoch = w.page.epoch /\ l.kind = "empty" /\ w.page.local = "running" =>
             w.page.sending \/ v.page.timer
        /\ l.epoch = w.page.epoch /\ l.kind = "run" /\ w.page.local = "running" =>
             v.conn["empty"] # NoConn
        /\ l.kind \notin Told => v = w
    BY ContinuedIs
  <1> HIDE DEF v
  <1>2. Fresh("open", w.page.cursor).pc = "open" /\ NoConn.pc = "none"
    BY FreshIs, PageIs DEF ConnPcs, Views, Pages
  <1>3. WithinEpoch(v)
    <2>1. \A k \in Range(v.loads) : k \in Range(loads)
      BY <1>1
    <2>2. \/ v.conn["empty"] = conn["empty"] \/ v.conn["empty"] = NoConn
          \/ \E n \in 0..Len(evs) : v.conn["empty"] = Fresh("open", n)
      BY <1>1
    <2> QED
      BY <1>1, <2>1, <2>2 DEF WithinEpoch
  <1>4. Informed(v)
    <2>1. v.page.sending => page.sending /\ conn["message"].pc # "none" /\ v.conn["empty"].pc = "none"
      BY <1>1, PageIs
    <2>2. ASSUME v.page.local = "running"
          PROVE  \/ conn["message"].pc # "none" \/ v.conn["empty"].pc # "none" \/ v.page.timer
                 \/ \E k \in Range(v.loads) : k.kind \in Told /\ k.epoch = page.epoch
      <3>1. CASE l.epoch = page.epoch /\ l.kind = "empty"
        BY <1>1, <2>1, <2>2, <3>1
      <3>2. CASE l.epoch = page.epoch /\ l.kind = "run"
        BY <1>1, <1>2, <2>2, <3>2
      <3>3. CASE ~(l.epoch = page.epoch /\ l.kind \in Told)
        BY <1>1, <2>2, <3>3
      <3> QED
        BY <3>1, <3>2, <3>3 DEF Told
    <2>3. v.page.sending /\ ~Opening => Settled(v.page.shown, v.page.local)
      BY <1>1, <2>1
    <2> QED
      BY <1>1, <2>1, <2>2, <2>3, PageIs DEF Informed
  <1> QED
    BY <1>3, <1>4 DEF v

\* A snapshot arrives, and is applied if it is of this epoch.
LEMMA LoadApplyKeeps ==
  ASSUME Core, NEW i \in DOMAIN loads, LoadApply(i)
  PROVE  Core'
  <1> DEFINE l == loads[i]
             g == [Now EXCEPT !.loads = RemoveAt(@, i)]
             w == IF CanApply(l) THEN ApplySnapshot(g, l) ELSE g
  <1>1. Become(Continued(w, l)) /\ UNCHANGED server
    BY DEF LoadApply
  <1>2. /\ g \in Views /\ g.page = page /\ g.conn = conn
        /\ Range(g.loads) \subseteq Range(loads)
        /\ \A k \in Range(loads) : k = l \/ k \in Range(g.loads)
        /\ l \in Loads /\ Range(l.log) \subseteq DOMAIN evs
        /\ ~Opening => Settled(Range(l.log), l.status)
        /\ l.kind = "run" /\ l.epoch = page.epoch => ~page.sending
        /\ l \in Range(loads)
    BY LoadGone
  <1> HIDE DEF g, l
  <1>3. /\ NoConn.pc = "none" /\ DOMAIN evs = 1..Len(evs) /\ Len(evs) \in Nat
        /\ \A n \in 0..Len(evs) : Fresh("open", n).pc = "open"
    BY PageIs, CoreIs, FreshIs DEF ConnPcs
  <1>4. /\ w \in Views /\ w.conn["message"] = conn["message"]
        /\ w.page.epoch = page.epoch /\ w.page.shown \subseteq DOMAIN evs
        /\ w.page.cursor \in 0..Len(evs) /\ w.page.sending = page.sending
        /\ w.loads = g.loads
        /\ \/ w.conn["empty"] = conn["empty"] \/ w.conn["empty"] = NoConn
           \/ \E n \in 0..Len(evs) : w.conn["empty"] = Fresh("open", n)
        /\ page.sending => w.conn["empty"].pc = "none"
        /\ w.conn["empty"].pc = "none" => w.conn["empty"] = NoConn
        /\ w.page.local = "running" =>
             \/ conn["message"].pc # "none" \/ w.conn["empty"].pc # "none" \/ w.page.timer
             \/ \E k \in Range(w.loads) \cup {l} : k.kind \in Told /\ k.epoch = page.epoch
        /\ page.sending /\ ~Opening => Settled(w.page.shown, w.page.local)
    <2>1. CASE CanApply(l)
      <3>1. w = ApplySnapshot(g, l)
        BY <2>1
      <3>2. /\ w \in Views /\ w.loads = g.loads
            /\ w.page.shown = Range(l.log) /\ w.page.cursor \in {g.page.cursor} \cup Range(l.log)
            /\ w.page.local = l.status /\ w.page.sending = g.page.sending
            /\ w.page.epoch = g.page.epoch
            /\ w.conn["message"] = g.conn["message"]
            /\ w.conn["empty"] = IF l.status # "completed" /\ ~g.page.sending
                                 THEN Fresh("open", w.page.cursor) ELSE NoConn
        BY <1>2, <3>1, ApplyIs
      <3> HIDE DEF w
      <3>3. w.page.cursor \in 0..Len(evs)
        BY <1>2, <1>3, <3>2, PageIs
      <3>4. page.sending => conn["message"].pc # "none"
        BY PageIs
      <3> QED
        BY <1>2, <1>3, <3>2, <3>3, <3>4
    <2>2. CASE ~CanApply(l)
      <3>1. w = g
        BY <2>2
      <3> QED
        BY <1>2, <3>1, PageIs DEF Streams
    <2> QED
      BY <2>1, <2>2
  <1> HIDE DEF w
  <1>5. Range(w.loads) \subseteq Range(loads)
    BY <1>2, <1>4
  <1>6. WithinEpoch(Continued(w, l)) /\ Informed(Continued(w, l))
    BY <1>2, <1>4, <1>5, AfterLoad
  <1> QED
    BY <1>1, <1>6, CallbackKeeps

\* A snapshot is lost: what it was to continue, continues.
LEMMA LoadFailsKeeps ==
  ASSUME Core, NEW i \in DOMAIN loads, LoadFails(i)
  PROVE  Core'
  <1> DEFINE l == loads[i]
             w == [Now EXCEPT !.loads = RemoveAt(@, i)]
  <1>1. Become(Continued(w, l)) /\ UNCHANGED server
    BY DEF LoadFails
  <1>2. /\ w \in Views /\ w.page = page /\ w.conn = conn
        /\ Range(w.loads) \subseteq Range(loads)
        /\ \A k \in Range(loads) : k = l \/ k \in Range(w.loads)
        /\ l \in Loads /\ l \in Range(loads)
        /\ l.kind = "run" /\ l.epoch = page.epoch => ~page.sending
    BY LoadGone
  <1> HIDE DEF w, l
  <1>3. WithinEpoch(Continued(w, l)) /\ Informed(Continued(w, l))
    <2>1. /\ w.conn["message"] = conn["message"] /\ w.conn["empty"] = conn["empty"]
          /\ w.page.epoch = page.epoch /\ w.page.shown \subseteq DOMAIN evs
          /\ w.page.cursor \in 0..Len(evs) /\ w.page.sending = page.sending
          /\ page.sending => w.conn["empty"].pc = "none"
          /\ w.conn["empty"].pc = "none" => w.conn["empty"] = NoConn
          /\ w.page.local = "running" =>
               \/ conn["message"].pc # "none" \/ w.conn["empty"].pc # "none" \/ w.page.timer
               \/ \E k \in Range(w.loads) \cup {l} : k.kind \in Told /\ k.epoch = page.epoch
          /\ page.sending /\ ~Opening => Settled(w.page.shown, w.page.local)
      BY <1>2, PageIs DEF Streams
    <2> QED
      BY <1>2, <2>1, AfterLoad
  <1> QED
    BY <1>1, <1>3, CallbackKeeps

\* The slot of the row may change, the page may be assigned another view.
LEMMA SlotKeeps ==
  ASSUME Core, NEW s \in {"none", "queued", "processing"}, row' = [row EXCEPT !.next = s],
         UNCHANGED <<evs, db, runner, hand>>
  PROVE  ServerTypeOK' /\ RunInv' /\ row'.task = row.task
  <1>1. row' \in Rows /\ row'.task = row.task /\ row'.status = row.status
    BY CoreIs DEF Rows
  <1>2. Grown /\ (\A r : Outs(r)' = Outs(r)) /\ ServerTypeOK /\ row.task \in Nat
    BY CoreIs, SameEvents
  <1>3. ServerTypeOK'
    BY <1>1 DEF Core, ServerTypeOK, Rows
  <1>4. (\A r \in Runs : RunnerInv(r)) /\ TrueDones
    BY RunInvIs DEF Core
  <1>5. ASSUME NEW q \in Runs
        PROVE  RunnerInv(q)'
    <2>1. At(q, "finish") /\ q = row'.task => row'.status # "running"
      BY <1>1, <1>4 DEF RunnerInv
    <2>2. Range(db)' = Range(db) /\ hand'[q] = hand[q] /\ runner'[q] = runner[q] /\ row.task <= row'.task
      BY <1>1, <1>2 DEF Range
    <2> QED
      BY <1>1, <1>2, <1>4, <2>1, <2>2, RunnerKept
  <1>6. TrueDones'
    <2>1. \A e \in DOMAIN evs' \ DOMAIN evs : FALSE
      OBVIOUS
    <2> QED
      BY <1>1, <1>2, <1>4, <2>1, DonesKept
  <1>7. RunInv'
    BY <1>5, <1>6 DEF RunInv, TrueDones
  <1> QED
    BY <1>1, <1>3, <1>7

\* A follow-up is queued, or refused and a snapshot asked for.
LEMMA QueueNextMessageKeeps ==
  ASSUME Core, QueueNextMessage
  PROVE  Core'
  <1> DEFINE n == Now
  <1>1. n \in Views /\ n.page = page /\ n.conn = conn /\ n.loads = loads
    BY PageIs
  <1>2. /\ page.local = "running" /\ Untouched /\ UNCHANGED <<evs, db, runner, hand>>
        /\ \/ row' = [row EXCEPT !.next = "queued"] /\ Become(Watch([n EXCEPT !.page.next = TRUE]))
           \/ Become([n EXCEPT !.loads = Append(@, Load("refresh", 0))]) /\ UNCHANGED row
    BY DEF QueueNextMessage
  <1>3. CASE row' = [row EXCEPT !.next = "queued"] /\ Become(Watch([n EXCEPT !.page.next = TRUE]))
    <2> DEFINE w == [n EXCEPT !.page.next = TRUE]
               v == Watch(w)
    <2> HIDE DEF n
    <2>1. /\ w \in Views /\ w.page = [page EXCEPT !.next = TRUE] /\ w.conn = conn
          /\ w.loads = loads
      BY <1>1 DEF Views, Pages
    <2> HIDE DEF w
    <2>2. /\ v \in Views /\ v.page = [w.page EXCEPT !.timer = FALSE]
          /\ v.conn["message"] = w.conn["message"]
          /\ v.conn["empty"] = IF w.page.local # "completed" /\ ~w.page.sending
                               THEN Fresh("open", w.page.cursor) ELSE NoConn
          /\ v.loads = w.loads
      BY <2>1, WatchIs
    <2> HIDE DEF v
    <2>3. /\ w.page.shown = page.shown /\ w.page.cursor = page.cursor /\ w.page.local = page.local
          /\ w.page.epoch = page.epoch /\ w.page.sending = page.sending /\ w.page \in Pages
      BY <2>1, PageIs DEF Pages
    <2>4. /\ v.page.shown = page.shown /\ v.page.cursor = page.cursor /\ v.page.local = page.local
          /\ v.page.epoch = page.epoch /\ v.page.sending = page.sending
      BY <2>2, <2>3 DEF Pages
    <2>5. v.conn["empty"] = IF ~page.sending THEN Fresh("open", page.cursor) ELSE NoConn
      BY <1>2, <2>2, <2>3
    <2>6. Fresh("open", page.cursor).pc = "open"
      BY FreshIs, PageIs DEF ConnPcs, Pages
    <2>7. WithinEpoch(v)
      BY <2>1, <2>2, <2>4, <2>5, PageIs DEF WithinEpoch
    <2>8. Informed(v)
      BY <2>1, <2>2, <2>4, <2>5, <2>6, PageIs DEF Informed
    <2>9. ServerTypeOK' /\ RunInv' /\ row'.task = row.task
      BY <1>2, <1>3, SlotKeeps
    <2>10. Become(v)
      BY <1>3 DEF v, w
    <2> QED
      BY <1>2, <2>7, <2>8, <2>9, <2>10, WithinEpochKeeps DEF Core
  <1>4. CASE Become([n EXCEPT !.loads = Append(@, Load("refresh", 0))]) /\ UNCHANGED row
    <2> DEFINE l == Load("refresh", 0)
               v == [n EXCEPT !.loads = Append(@, l)]
    <2>1. /\ l.kind = "refresh" /\ l.epoch = 0 /\ l.log = <<>>
          /\ Append(loads, l) \in Seq(Loads) /\ Range(Append(loads, l)) = Range(loads) \cup {l}
      BY LoadIs, AppendLoad, PageIs
    <2>2. Become(v)
      BY <1>4
    <2> HIDE DEF n, l
    <2>3. /\ v \in Views /\ v.page = page /\ v.conn = conn /\ v.loads = Append(loads, l)
      BY <1>1, <2>1 DEF Views
    <2> HIDE DEF v
    <2>4. WithinEpoch(v)
      BY <2>1, <2>3, PageIs DEF WithinEpoch
    <2>5. Informed(v)
      BY <2>1, <2>3, PageIs DEF Informed
    <2> QED
      BY <1>2, <1>4, <2>2, <2>4, <2>5, CallbackKeeps DEF server
  <1> QED
    BY <1>2, <1>3, <1>4

\* A request that opens a run makes a new epoch, with its message stream only.
LEMMA OpensKeeps ==
  ASSUME Core, MayRun, NEW at \in {"claim", "start", "resolved"},
         Become(OpenRunStream(Now, at)), UNCHANGED server
  PROVE  Core'
  <1> DEFINE v == OpenRunStream(Now, at)
  <1>1. /\ v \in Views /\ v.loads = loads /\ v.page.sending /\ v.page.epoch = page.epoch + 1
        /\ v.page.shown = page.shown /\ v.page.cursor = page.cursor
        /\ v.conn["message"] = Fresh(at, 0) /\ v.conn["empty"] = NoConn
    BY PageIs, OpenIs
  <1>2. page' = v.page /\ conn' = v.conn /\ loads' = loads
    BY <1>1 DEF Become
  <1> HIDE DEF v
  <1>3. /\ Fresh(at, 0) \in Conns /\ Fresh(at, 0).pc = at /\ Fresh(at, 0).pos = 0
        /\ Fresh(at, 0).chan = <<>> /\ NoConn \in Conns
        /\ NoConn.pc = "none" /\ NoConn.pos = 0 /\ NoConn.chan = <<>>
    BY FreshIs DEF ConnPcs
  <1>4. /\ conn' \in [Streams -> Conns] /\ page' \in Pages /\ loads' \in Seq(Loads)
        /\ conn'["message"] = Fresh(at, 0) /\ conn'["empty"] = NoConn
        /\ page'.sending /\ page'.epoch = page.epoch + 1
        /\ page'.shown = page.shown /\ page'.cursor = page.cursor
    BY <1>1, <1>2 DEF Views
  <1>5. /\ ServerTypeOK' /\ RunInv' /\ row' = row /\ runner' = runner /\ evs' = evs /\ db' = db
    BY SameServer
  <1>6. /\ row.task \in Nat /\ row.task + 1 \in 1..MaxRuns /\ MaxRuns \in Nat
        /\ page.epoch \in Nat /\ 1 <= page.epoch /\ page.epoch <= row.task + 1
    <2>1. ~Opening /\ row.task + 1 \in 1..MaxRuns
      BY UntouchedIs DEF MayRun, NextRun, Runs
    <2>2. page.epoch <= row.task + 1
      BY <2>1 DEF Core, ConnInv
    <2> QED
      BY <2>1, <2>2, EpochIs, CoreIs, PageAssumption
  <1>7. ClientTypeOK'
    <2>1. page'.epoch \in 1..MaxRuns + 1
      BY <1>4, <1>6
    <2>2. /\ \A c \in Streams : conn'[c].pos \in 0..Len(evs') /\ Range(conn'[c].chan) \subseteq DOMAIN evs'
      <3>1. Range(<<>>) = {} /\ 0 \in 0..Len(evs)
        BY PageIs DEF Range
      <3> QED
        BY <1>3, <1>4, <1>5, <3>1 DEF Streams
    <2>3. \A i \in DOMAIN loads' : Range(loads'[i].log) \subseteq DOMAIN evs'
      BY <1>2, <1>5 DEF Core, ClientTypeOK
    <2> QED
      BY <1>4, <1>5, <2>1, <2>2, <2>3, PageIs DEF ClientTypeOK, Streams
  <1>8. Opening'
    BY <1>3, <1>4 DEF Opening
  <1>9. ConnInv'
    <2>1. ServesInv'
      <3>1. NextRun' \in Runs
        BY <1>5, <1>6 DEF NextRun, Runs
      <3> QED
        BY <1>3, <1>4, <3>1 DEF ServesInv
    <2>2. ChanInv'
      BY <1>3, <1>4 DEF ChanInv
    <2>3. page'.epoch <= row'.task + 2
      BY <1>4, <1>5, <1>6
    <2>4. \A c \in {"message", "empty"} :
            /\ conn'[c].pc = "none" => conn'[c] = NoConn
            /\ conn'[c].pc \in {"get", "missed"} => conn'[c].run \in Runs
      BY <1>3, <1>4
    <2> QED
      BY <1>3, <1>4, <1>8, <2>1, <2>2, <2>3, <2>4 DEF ConnInv
  <1>10. HearsInv'
    <2>1. \A i \in DOMAIN loads' : loads'[i].epoch <= page'.epoch /\ loads'[i].epoch # page'.epoch
      <3>1. \A i \in DOMAIN loads : loads[i].epoch \in Nat /\ loads[i].epoch <= page.epoch
        <4>1. \A i \in DOMAIN loads : loads[i] \in Loads
          BY PageIs
        <4>2. \A i \in DOMAIN loads : loads[i].epoch <= page.epoch
          BY DEF Core, HearsInv
        <4> QED
          BY <4>1, <4>2 DEF Loads
      <3> QED
        BY <1>2, <1>4, <1>6, <3>1
    <2> QED
      BY <1>3, <1>4, <2>1 DEF HearsInv
  <1>11. SettledInv'
    BY <1>8 DEF SettledInv
  <1> QED
    BY <1>5, <1>7, <1>9, <1>10, <1>11 DEF Core

\* The page is reloaded.
LEMMA ReloadKeeps ==
  ASSUME Core, Reload
  PROVE  Core'
  <1>1. /\ page' = NewPage /\ conn' = [c \in DOMAIN conn |-> NoConn]
        /\ loads' = <<Load("mount", 0)>> /\ UNCHANGED server
    BY DEF Reload
  <1>2. /\ ServerTypeOK' /\ RunInv' /\ row' = row /\ runner' = runner /\ evs' = evs /\ db' = db
    BY <1>1, SameServer
  <1>3. /\ NoConn \in Conns /\ NoConn.pc = "none" /\ NoConn.pos = 0 /\ NoConn.chan = <<>>
        /\ Range(<<>>) = {}
    BY FreshIs DEF ConnPcs, Range
  <1>4. conn' \in [Streams -> Conns] /\ \A c \in Streams : conn'[c] = NoConn
    BY <1>1, <1>3, PageIs
  <1>5. /\ page' \in Pages /\ page'.shown = {} /\ page'.cursor = 0 /\ page'.local = "none"
        /\ ~page'.sending /\ page'.epoch = 1
    BY <1>1 DEF NewPage, Pages
  <1>6. /\ Load("mount", 0) \in Loads /\ Load("mount", 0).kind = "mount"
        /\ Load("mount", 0).epoch = 0 /\ Range(Load("mount", 0).log) = {}
    BY LoadIs
  <1>7. /\ loads' \in Seq(Loads)
        /\ \A i \in DOMAIN loads' : loads'[i] = Load("mount", 0)
    BY <1>1, <1>6
  <1>8. ClientTypeOK'
    <2>1. 1 \in 1..MaxRuns + 1
      BY PageAssumption
    <2>2. 0 \in 0..Len(evs')
      BY <1>2, PageIs
    <2> QED
      BY <1>2, <1>3, <1>4, <1>5, <1>6, <1>7, <2>1, <2>2 DEF ClientTypeOK, Streams
  <1>9. ~Opening'
    BY <1>3, <1>4 DEF Opening, Streams
  <1>10. ConnInv'
    <2>1. ServesInv' /\ ChanInv'
      BY <1>3, <1>4, <1>9 DEF ServesInv, ChanInv, Streams
    <2>2. page'.epoch <= row'.task + 1
      BY <1>2, <1>5, CoreIs
    <2> QED
      BY <1>3, <1>4, <1>9, <2>1, <2>2 DEF ConnInv, Streams
  <1>11. HearsInv'
    <2>1. \A i \in DOMAIN loads' : loads'[i].kind = "mount" /\ loads'[i].epoch <= page'.epoch
      BY <1>5, <1>6, <1>7
    <2> QED
      BY <1>3, <1>4, <1>5, <2>1 DEF HearsInv, Streams
  <1>12. SettledInv'
    BY <1>5, <1>6, <1>7 DEF SettledInv, Settled
  <1> QED
    BY <1>2, <1>8, <1>10, <1>11, <1>12 DEF Core

\* What is counted.
UsedType == used \in [steps : 0..MaxSteps, queues : 0..MaxQueues, faults : 0..MaxFaults,
                      crashed : BOOLEAN]

\* At most one thing is counted in a step, and only below its bound.
Counts ==
  \/ used' = used
  \/ used.steps < MaxSteps /\ used' = [used EXCEPT !.steps = @ + 1]
  \/ used.queues < MaxQueues /\ used' = [used EXCEPT !.queues = @ + 1]
  \/ used.faults < MaxFaults /\ used' = [used EXCEPT !.faults = @ + 1]
  \/ used.faults < MaxFaults /\ used' = [used EXCEPT !.faults = @ + 1, !.crashed = TRUE]

LEMMA StepCounts == [Next]_vars => Counts
  <1> SUFFICES ASSUME [Next]_vars
               PROVE  Counts
    OBVIOUS
  <1>1. ASSUME NEW r \in Runs, RunnerStep(r) \/ RunnerRaises(r)
        PROVE  Counts
    BY <1>1, Zenon DEF RunnerStep, RunnerRaises, FlowSteps, FlowWaits, FlowFails, FinishOrClaim, Puts,
                Commit, Settle, Ends, Counts
  <1>2. CASE MessageStep
    BY <1>2, Zenon DEF MessageStep, Resolve, Claim, PutMessage, Invoke, StartNext, Counts
  <1>3. ASSUME NEW c \in {"message", "empty"}, ConnStep(c) \/ PageStep(c)
        PROVE  Counts
    BY <1>3, Zenon DEF ConnStep, PageStep, Open, Idles, Get, Misses, AsksTask, Refused, Receive,
                       StreamEnds, Counts
  <1>4. CASE ReconnectTimer
    BY <1>4, Zenon DEF ReconnectTimer, Counts
  <1>5. ASSUME NEW i \in DOMAIN loads, LoadStep(i) \/ LoadFails(i)
        PROVE  Counts
    BY <1>5, Zenon DEF LoadStep, LoadRead, LoadApply, LoadFails, Counts
  <1>6. CASE UserStep
    BY <1>6, Zenon DEF UserStep, Send, ResolveInteraction, RunNextMessage, QueueNextMessage,
                       Reload, Counts
  <1>7. CASE DropMessage \/ DropEmpty
    BY <1>7, Zenon DEF DropMessage, DropEmpty, Counts
  <1>8. CASE Crash
    BY <1>8, Zenon DEF Crash, Counts
  <1>9. CASE UNCHANGED vars
    BY <1>9, Zenon DEF vars, Counts
  <1> QED
    BY <1>1, <1>2, <1>3, <1>4, <1>5, <1>6, <1>7, <1>8, <1>9 DEF Next

\* What is counted stays within its bounds.
LEMMA UsedKept ==
  ASSUME UsedType, [Next]_vars
  PROVE  UsedType'
  <1>1. Counts
    BY StepCounts
  <1>2. /\ used.steps \in 0..MaxSteps /\ used.queues \in 0..MaxQueues
        /\ used.faults \in 0..MaxFaults /\ used.crashed \in BOOLEAN
        /\ MaxSteps \in Nat /\ MaxQueues \in Nat /\ MaxFaults \in Nat
    BY PageAssumption DEF UsedType
  <1>3. CASE used' = used
    BY <1>3 DEF UsedType
  <1>4. CASE used.steps < MaxSteps /\ used' = [used EXCEPT !.steps = @ + 1]
    BY <1>2, <1>4 DEF UsedType
  <1>5. CASE used.queues < MaxQueues /\ used' = [used EXCEPT !.queues = @ + 1]
    BY <1>2, <1>5 DEF UsedType
  <1>6. CASE used.faults < MaxFaults /\ used' = [used EXCEPT !.faults = @ + 1]
    BY <1>2, <1>6 DEF UsedType
  <1>7. CASE /\ used.faults < MaxFaults
             /\ used' = [used EXCEPT !.faults = @ + 1, !.crashed = TRUE]
    <2> DEFINE x == [used EXCEPT !.faults = @ + 1]
    <2>1. used' = [x EXCEPT !.crashed = TRUE]
      BY <1>7, Zenon
    <2>2. x \in [steps : 0..MaxSteps, queues : 0..MaxQueues, faults : 0..MaxFaults,
                 crashed : BOOLEAN]
      BY <1>2, <1>7 DEF UsedType
    <2> HIDE DEF x
    <2> QED
      BY <2>1, <2>2 DEF UsedType
  <1> QED
    BY <1>1, <1>3, <1>4, <1>5, <1>6, <1>7 DEF Counts

-----------------------------------------------------------------------------
(* The theorems *)

\* Every step keeps the invariant.
LEMMA CoreKept ==
  ASSUME Core, [Next]_vars
  PROVE  Core'
  <1>1. ASSUME NEW r \in Runs, RunnerStep(r) \/ RunnerRaises(r)
        PROVE  Core'
    BY <1>1, RunnerKeeps
  <1>2. CASE MessageStep
    BY <1>2, ResolveKeeps, ClaimStepKeeps, PutMessageKeeps, InvokeKeeps, StartNextKeeps
    DEF MessageStep
  <1>3. ASSUME NEW c \in Streams, ConnStep(c) \/ PageStep(c)
        PROVE  Core'
    BY <1>3, ConnStepKeeps, ReceiveKeeps, StreamEndsKeeps DEF PageStep
  <1>4. CASE ReconnectTimer
    BY <1>4, ReconnectTimerKeeps
  <1>5. ASSUME NEW i \in DOMAIN loads, LoadStep(i) \/ LoadFails(i)
        PROVE  Core'
    BY <1>5, LoadReadKeeps, LoadApplyKeeps, LoadFailsKeeps DEF LoadStep
  <1>6. CASE Send
    BY <1>6, OpensKeeps DEF Send
  <1>7. CASE ResolveInteraction
    BY <1>7, OpensKeeps DEF ResolveInteraction
  <1>8. CASE RunNextMessage
    BY <1>8, OpensKeeps DEF RunNextMessage
  <1>9. CASE QueueNextMessage
    BY <1>9, QueueNextMessageKeeps
  <1>10. CASE Reload
    BY <1>10, ReloadKeeps
  <1>11. CASE DropMessage \/ DropEmpty
    BY <1>11, DropsKeep
  <1>12. CASE Crash
    BY <1>12, CrashStepKeeps
  <1>13. CASE UNCHANGED vars
    <2>1. /\ evs' = evs /\ db' = db /\ row' = row /\ runner' = runner /\ hand' = hand
          /\ conn' = conn /\ page' = page /\ loads' = loads
      BY <1>13 DEF vars, server, client
    <2>2. ServerTypeOK' /\ RunInv'
      BY <2>1, SameServer DEF server
    <2>3. ClientTypeOK'
      BY <2>1 DEF Core, ClientTypeOK
    <2>4. ConnInv'
      BY <2>1 DEF Core, ConnInv, ServesInv, ChanInv, Opening, NextRun, Outs, Stirring, At
    <2>5. HearsInv'
      BY <2>1 DEF Core, HearsInv
    <2>6. SettledInv'
      BY <2>1 DEF Core, SettledInv, Settled, Opening, Outs, Stirring, Done
    <2> QED
      BY <2>2, <2>3, <2>4, <2>5, <2>6 DEF Core
  <1> QED
    BY <1>1, <1>2, <1>3, <1>4, <1>5, <1>6, <1>7, <1>8, <1>9, <1>10, <1>11, <1>12, <1>13
    DEF Next, UserStep, Streams

\* A session without events and the page that loads it satisfy the invariant.
LEMMA CoreAtFirst ==
  ASSUME Init
  PROVE  Core /\ UsedType
  <1>1. /\ evs = <<>> /\ db = <<>> /\ row = [status |-> "pending", task |-> 0, next |-> "none"]
        /\ runner = [r \in Runs |-> "off"] /\ hand = [r \in Runs |-> 0]
        /\ conn = [c \in {"message", "empty"} |-> NoConn] /\ page = NewPage
        /\ loads = <<Load("mount", 0)>>
    BY DEF Init
  <1>2. /\ NoConn \in Conns /\ NoConn.pc = "none" /\ NoConn.pos = 0 /\ NoConn.chan = <<>>
        /\ Range(<<>>) = {} /\ DOMAIN evs = {} /\ Len(evs) = 0
    BY <1>1, FreshIs DEF ConnPcs, Range
  <1>3. /\ Load("mount", 0) \in Loads /\ Load("mount", 0).kind = "mount"
        /\ Load("mount", 0).epoch = 0 /\ Range(Load("mount", 0).log) = {}
    BY LoadIs
  <1>4. /\ page \in Pages /\ page.shown = {} /\ page.cursor = 0 /\ page.local = "none"
        /\ ~page.sending /\ page.epoch = 1
    BY <1>1 DEF NewPage, Pages
  <1>5. /\ loads \in Seq(Loads) /\ \A i \in DOMAIN loads : loads[i] = Load("mount", 0)
    BY <1>1, <1>3
  <1>6. MaxRuns \in Nat /\ 0 \in 0..MaxRuns /\ 1 \in 1..MaxRuns + 1
    BY PageAssumption
  <1>7. ServerTypeOK
    BY <1>1, <1>2, <1>6 DEF ServerTypeOK, Statuses, RunnerPcs
  <1>8. ClientTypeOK
    BY <1>1, <1>2, <1>3, <1>4, <1>5, <1>6 DEF ClientTypeOK
  <1>9. RunInv
    <2>1. \A r \in Runs : runner[r] = "off" /\ hand[r] = 0 /\ Outs(r) = {}
      BY <1>1, <1>2 DEF Outs
    <2>2. "off" \notin DOMAIN After
      BY AfterIs
    <2> QED
      BY <1>1, <1>2, <2>1, <2>2 DEF RunInv, RunnerInv, At
  <1>10. ~Opening /\ ConnInv
    BY <1>1, <1>2, <1>4 DEF Opening, ConnInv, ServesInv, ChanInv
  <1>11. HearsInv
    BY <1>1, <1>2, <1>3, <1>4, <1>5 DEF HearsInv
  <1>12. SettledInv
    BY <1>3, <1>4, <1>5 DEF SettledInv, Settled
  <1>13. UsedType
    BY PageAssumption DEF Init, UsedType
  <1> QED
    BY <1>7, <1>8, <1>9, <1>10, <1>11, <1>12, <1>13 DEF Core

\* The invariant is PageInv without the parts that follow from the others.
LEMMA CoreIsPageInv == Core /\ UsedType => PageInv
  <1> SUFFICES ASSUME Core, UsedType
               PROVE  PageInv
    OBVIOUS
  <1>1. TypeOK
    BY DEF Core, UsedType, TypeOK
  <1>2. NotDeaf
    <2>1. page.sending => conn["message"] # NoConn
      BY PageIs
    <2>2. ASSUME page.local = "running"
          PROVE  (\E c \in DOMAIN conn : conn[c] # NoConn) \/ page.timer \/ loads # <<>>
      <3>1. conn["message"].pc # "none" => conn["message"] # NoConn
        BY PageIs
      <3>2. conn["empty"].pc # "none" => conn["empty"] # NoConn
        BY PageIs
      <3>3. (\E l \in Range(loads) : TRUE) => loads # <<>>
        BY DEF Range
      <3>4. DOMAIN conn = Streams
        BY PageIs
      <3> QED
        BY <2>2, <3>1, <3>2, <3>3, <3>4, PageIs DEF Streams
    <2> QED
      BY <2>1, <2>2 DEF NotDeaf
  <1> QED
    BY <1>1, <1>2 DEF Core, PageInv

\* A shown DoneEvent is an event, and the runner completes the row before it.
LEMMA PageInvIsDone == PageInv => DoneIsTrue
  BY DEF PageInv, RunInv, TypeOK, ClientTypeOK, DoneIsTrue

\* The page is never deaf: while it believes in a run it has a stream, a timer
\* or a snapshot under way, and while it waits for a message stream it has one,
\* whatever connections and snapshots are lost and whatever restarts.
THEOREM PageInvariant == Spec => []PageInv
  <1>1. Init => Core /\ UsedType
    BY CoreAtFirst
  <1>2. Core /\ UsedType /\ [Next]_vars => Core' /\ UsedType'
    BY CoreKept, UsedKept
  <1>3. Core /\ UsedType => PageInv
    BY CoreIsPageInv
  <1> QED
    BY <1>1, <1>2, <1>3, PTL DEF Spec

\* A DoneEvent that the page shows for the row's run is true: the row is not
\* running any more.
THEOREM DoneAlwaysTrue == Spec => []DoneIsTrue
  BY PageInvariant, PageInvIsDone, PTL
=============================================================================
