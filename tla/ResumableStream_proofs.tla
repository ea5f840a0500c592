------------------------ MODULE ResumableStream_proofs ------------------------
(* The stream of a generation, for any replicas, clients, chunks, buffer size *)
(* and counter left behind: StreamInv is an invariant, and with it the order  *)
(* of what a client hears, and that it hears the end; StreamLaneInv is one,   *)
(* and with it a browser that was replayed everything misses nothing.         *)
EXTENDS ResumableStreamInv, FiniteSetTheorems, FunctionTheorems, SequenceTheorems, TLAPS

-----------------------------------------------------------------------------
(* Numbers and finite sets *)

\* A set of numbers has a least one: the intervals up to its members are finite
\* sets, of which one has no strict part among them.
LEMMA LeastNumber ==
  ASSUME NEW T, T \subseteq Nat, T # {}
  PROVE  \E x \in T : \A y \in T : x <= y
  <1> DEFINE Upto == {0 .. k : k \in T}
  <1>1. Upto \subseteq FiniteSubsetsOf(Nat)
    <2>1. \A k \in T : IsFiniteSet(0 .. k)
      BY FS_Interval
    <2> QED
      BY <2>1 DEF FiniteSubsetsOf
  <1>2. Upto # {}
    OBVIOUS
  <1> HIDE DEF Upto
  <1>3. PICK X \in Upto : \A Y \in Upto : <<Y, X>> \notin StrictSubsetOrdering(Nat)
    BY <1>1, <1>2, FS_StrictSubsetOrderingWellFounded, WFMin
  <1>4. PICK x \in T : X = 0 .. x
    BY DEF Upto
  <1>5. ASSUME NEW y \in T, y < x
        PROVE  FALSE
    <2>1. 0 .. y \in Upto
      BY DEF Upto
    <2>2. 0 .. y \subseteq 0 .. x /\ 0 .. y # 0 .. x /\ 0 .. x \subseteq Nat
      BY <1>5
    <2> QED
      BY <1>3, <1>4, <2>1, <2>2 DEF StrictSubsetOrdering
  <1> QED
    BY <1>5

\* A finite set of numbers has a greatest one.
LEMMA GreatestNumber ==
  ASSUME NEW T, T \subseteq Nat, T # {}, IsFiniteSet(T)
  PROVE  \E x \in T : \A y \in T : y <= x
  <1> DEFINE Above(k) == {y \in T : k < y}
             Aboves == {Above(k) : k \in T}
  <1>1. Aboves \subseteq FiniteSubsetsOf(T)
    <2>1. \A k \in T : Above(k) \subseteq T /\ IsFiniteSet(Above(k))
      BY FS_Subset
    <2> QED
      BY <2>1 DEF FiniteSubsetsOf
  <1>2. Aboves # {}
    OBVIOUS
  <1> HIDE DEF Aboves
  <1>3. PICK X \in Aboves : \A Y \in Aboves : <<Y, X>> \notin StrictSubsetOrdering(T)
    BY <1>1, <1>2, FS_StrictSubsetOrderingWellFounded, WFMin
  <1>4. PICK x \in T : X = Above(x)
    BY DEF Aboves
  <1>5. ASSUME NEW y \in T, x < y
        PROVE  FALSE
    <2>1. Above(y) \in Aboves
      BY DEF Aboves
    <2>2. y \in Above(x) /\ y \notin Above(y) /\ Above(x) \subseteq T
      BY <1>5
    <2>3. Above(y) \subseteq Above(x)
      <3>1. \A u \in T : y < u => x < u
        BY <1>5
      <3> QED
        BY <3>1
    <2> QED
      BY <1>3, <1>4, <2>1, <2>2, <2>3 DEF StrictSubsetOrdering
  <1> QED
    BY <1>5

\* The numbers of finitely many messages are no more than the messages.
LEMMA SeqsFinite ==
  ASSUME NEW ms \in SUBSET Messages, IsFiniteSet(ms)
  PROVE  /\ Seqs(ms) \subseteq Nat /\ IsFiniteSet(Seqs(ms))
         /\ Cardinality(Seqs(ms)) <= Cardinality(ms)
         /\ Cardinality(ms) \in Nat
  <1> DEFINE f == [m \in ms |-> m.seq]
  <1>1. f \in [ms -> Seqs(ms)]
    BY DEF Seqs
  <1>2. \A s \in Seqs(ms) : \E m \in ms : f[m] = s
    BY DEF Seqs
  <1>3. f \in Surjection(ms, Seqs(ms))
    BY <1>1, <1>2, Fun_IsSurj
  <1> QED
    BY <1>3, FS_Surjection, FS_CardinalityType DEF Seqs, Messages

\* MinSeq and MaxSeq are what their names say.
LEMMA MinMaxSeq ==
  ASSUME NEW ms \in SUBSET Messages, IsFiniteSet(ms), ms # {}
  PROVE  /\ MinSeq(ms) \in Seqs(ms) /\ MinSeq(ms) \in Nat
         /\ \A m \in ms : MinSeq(ms) <= m.seq
         /\ MaxSeq(ms) \in Seqs(ms) /\ MaxSeq(ms) \in Nat
         /\ \A m \in ms : m.seq <= MaxSeq(ms)
  <1>1. Seqs(ms) \subseteq Nat /\ IsFiniteSet(Seqs(ms)) /\ Seqs(ms) # {}
    BY SeqsFinite DEF Seqs
  <1>2. \A m \in ms : m.seq \in Seqs(ms)
    BY DEF Seqs
  <1>3. MinSeq(ms) \in Seqs(ms) /\ \A u \in Seqs(ms) : MinSeq(ms) <= u
    BY <1>1, LeastNumber DEF MinSeq
  <1>4. MaxSeq(ms) \in Seqs(ms) /\ \A u \in Seqs(ms) : u <= MaxSeq(ms)
    BY <1>1, GreatestNumber DEF MaxSeq
  <1> QED
    BY <1>1, <1>2, <1>3, <1>4

-----------------------------------------------------------------------------
(* The order in which a buffer delivers *)

Distinct(ms) == \A m, o \in ms : m.seq = o.seq => m = o
Ascending(s) == \A i, j \in DOMAIN s : i < j => s[i].seq < s[j].seq

\* Finitely many messages with distinct numbers can be put in order: each has
\* its rank, the number of those up to it.
LEMMA OrderExists ==
  ASSUME NEW ms \in SUBSET Messages, IsFiniteSet(ms), Distinct(ms)
  PROVE  \E s \in [1 .. Cardinality(ms) -> ms] : Ascending(s)
  <1> DEFINE n == Cardinality(ms)
             Upto(m) == {o \in ms : o.seq <= m.seq}
             rank == [m \in ms |-> Cardinality(Upto(m))]
             s == [i \in 1 .. n |-> CHOOSE m \in ms : rank[m] = i]
  <1>0. \A m \in ms : m.seq \in Nat
    BY DEF Messages
  <1>1. n \in Nat
    BY FS_CardinalityType
  <1>2. ASSUME NEW m \in ms
        PROVE  IsFiniteSet(Upto(m)) /\ Cardinality(Upto(m)) \in 1 .. n
    <2>1. IsFiniteSet(Upto(m)) /\ Cardinality(Upto(m)) <= n /\ Cardinality(Upto(m)) \in Nat
      BY FS_Subset, FS_CardinalityType
    <2>2. Upto(m) # {}
      BY <1>0
    <2>3. Cardinality(Upto(m)) # 0
      BY <2>1, <2>2, FS_EmptySet
    <2> QED
      BY <1>1, <2>1, <2>3
  <1>3. ASSUME NEW m \in ms, NEW o \in ms, m.seq < o.seq
        PROVE  Cardinality(Upto(m)) < Cardinality(Upto(o))
    <2>1. Upto(m) \subseteq Upto(o) /\ o \in Upto(o) /\ o \notin Upto(m)
      BY <1>0, <1>3
    <2>2. /\ Cardinality(Upto(m)) <= Cardinality(Upto(o))
          /\ Cardinality(Upto(m)) # Cardinality(Upto(o))
      BY <2>1, <1>2, FS_Subset
    <2> QED
      BY <1>2, <2>2
  <1>4. rank \in [ms -> 1 .. n]
    BY <1>2
  <1>5. \A m, o \in ms : rank[m] = rank[o] => m = o
    <2> SUFFICES ASSUME NEW m \in ms, NEW o \in ms, rank[m] = rank[o], m.seq # o.seq
                 PROVE  FALSE
      BY DEF Distinct
    <2>1. m.seq < o.seq \/ o.seq < m.seq
      BY <1>0
    <2>2. Cardinality(Upto(m)) = Cardinality(Upto(o)) /\ Cardinality(Upto(m)) \in Nat
      BY <1>1, <1>2
    <2> HIDE DEF Upto
    <2> QED
      BY <2>1, <2>2, <1>3
  <1> HIDE DEF n
  <1>6. rank \in Injection(ms, 1 .. n)
    BY <1>4, <1>5, Fun_IsInj
  <1>7. IsFiniteSet(1 .. n) /\ Cardinality(1 .. n) = n
    BY <1>1, FS_Interval
  <1>8. rank \in Surjection(ms, 1 .. n)
    BY <1>6, <1>7, FS_Injection DEF n
  <1>9. \A i \in 1 .. n : \E m \in ms : rank[m] = i
    BY <1>8 DEF Surjection
  <1>10. \A i \in 1 .. n : s[i] \in ms /\ rank[s[i]] = i
    BY <1>9
  <1>11. s \in [1 .. n -> ms]
    BY <1>10
  <1>12. ASSUME NEW i \in 1 .. n, NEW j \in 1 .. n, i < j
         PROVE  s[i].seq < s[j].seq
    <2>1. s[i] \in ms /\ s[j] \in ms /\ Cardinality(Upto(s[i])) = i /\ Cardinality(Upto(s[j])) = j
      BY <1>10
    <2> HIDE DEF s, rank
    <2>2. s[i].seq \in Nat /\ s[j].seq \in Nat
      BY <2>1, <1>0
    <2>3. ~(s[j].seq < s[i].seq)
      <3>1. s[j].seq < s[i].seq => j < i
        BY <2>1, <1>3
      <3> QED
        BY <1>1, <1>12, <3>1
    <2>4. s[j].seq # s[i].seq
      BY <1>1, <1>12, <2>1 DEF Distinct
    <2> QED
      BY <2>2, <2>3, <2>4
  <1>13. DOMAIN s = 1 .. n
    OBVIOUS
  <1> HIDE DEF s
  <1> QED
    BY <1>11, <1>12, <1>13 DEF Ascending, n

\* InOrder is that order, with every message in it.
LEMMA InOrderIs ==
  ASSUME NEW ms \in SUBSET Messages, IsFiniteSet(ms), Distinct(ms)
  PROVE  /\ InOrder(ms) \in Seq(Messages) /\ Ascending(InOrder(ms))
         /\ Range(InOrder(ms)) = ms
  <1> DEFINE n == Cardinality(ms)
             s == InOrder(ms)
  <1>1. n \in Nat
    BY FS_CardinalityType
  <1>2. s \in [1 .. n -> ms] /\ Ascending(s)
    BY OrderExists DEF InOrder, Ascending
  <1>3. s \in Seq(Messages)
    <2>1. s \in [1 .. n -> Messages]
      BY <1>2
    <2> QED
      BY <1>1, <2>1, SeqDef
  <1>4. \A i, j \in 1 .. n : s[i] = s[j] => i = j
    <2> HIDE DEF s, n
    <2> SUFFICES ASSUME NEW i \in 1 .. n, NEW j \in 1 .. n, s[i] = s[j], i # j
                 PROVE  FALSE
      OBVIOUS
    <2>1. i < j \/ j < i
      BY <1>1
    <2>2. DOMAIN s = 1 .. n /\ s[i] \in ms
      BY <1>2
    <2>3. s[i].seq \in Nat
      BY <2>2 DEF Messages
    <2> QED
      BY <1>2, <2>1, <2>2, <2>3 DEF Ascending
  <1> HIDE DEF s
  <1>5. s \in Injection(1 .. n, ms)
    BY <1>2, <1>4, Fun_IsInj
  <1>6. Cardinality(1 .. n) = n
    BY <1>1, FS_Interval
  <1>7. s \in Surjection(1 .. n, ms)
    BY <1>5, <1>6, FS_Injection
  <1>8. Range(s) = ms
    BY <1>7, Fun_SurjectionProperties
  <1> QED
    BY <1>2, <1>3, <1>8 DEF s

-----------------------------------------------------------------------------
(* The functions of a buffer *)

\* What every function of the buffer b does with the messages ms it has: it
\* delivers some in order, passes over numbers, and keeps what is still ahead.
Keeps(b, ms, res) ==
  /\ res.buf \in Buffers
  /\ res.buf.tracked = b.tracked /\ res.buf.listen = b.listen
  /\ res.buf.chan = b.chan /\ res.buf.subs = b.subs /\ res.buf.handlers = b.handlers
  /\ b.next <= res.buf.next
  /\ res.buf.pend \subseteq ms /\ IsFiniteSet(res.buf.pend)
  /\ \A m \in res.buf.pend : res.buf.next < m.seq
  /\ res.out \in Seq(Messages) /\ Ascending(res.out) /\ Range(res.out) \subseteq ms
  /\ \A m \in Range(res.out) : b.next <= m.seq /\ m.seq < res.buf.next
  /\ \A m \in ms : res.buf.next <= m.seq => m \in res.buf.pend

\* It expects nothing beyond a number that its messages and b are behind.
Below(b, ms, res, top) ==
  b.next <= top /\ (\A m \in ms : m.seq < top) => res.buf.next <= top

\* flushPendingMessages finds the end of the run of numbers.
LEMMA FlushRun ==
  ASSUME NEW ms \in SUBSET Messages, IsFiniteSet(ms), NEW from \in Nat
  PROVE  \E n \in from .. from + Cardinality(ms) :
           n \notin Seqs(ms) /\ from .. n - 1 \subseteq Seqs(ms)
  <1> DEFINE card == Cardinality(ms)
             Free == {k \in Nat : from <= k /\ k \notin Seqs(ms)}
  <1>1. card \in Nat /\ IsFiniteSet(Seqs(ms)) /\ Cardinality(Seqs(ms)) <= card
    BY SeqsFinite
  <1> HIDE DEF card
  <1>2. \E k \in from .. from + card : k \notin Seqs(ms)
    <2> SUFFICES ASSUME from .. from + card \subseteq Seqs(ms)
                 PROVE  FALSE
      OBVIOUS
    <2>1. Cardinality(from .. from + card) = card + 1
      BY <1>1, FS_Interval
    <2>2. Cardinality(from .. from + card) <= Cardinality(Seqs(ms))
      BY <1>1, FS_Subset
    <2>3. Cardinality(Seqs(ms)) \in Nat
      BY <1>1, FS_CardinalityType
    <2> QED
      BY <1>1, <2>1, <2>2, <2>3
  <1>3. Free # {} /\ Free \subseteq Nat
    BY <1>1, <1>2
  <1>4. PICK n \in Free : \A k \in Free : n <= k
    BY <1>3, LeastNumber
  <1>5. n \in from .. from + card /\ n \notin Seqs(ms)
    BY <1>1, <1>2, <1>4
  <1>6. \A k \in from .. n - 1 : k \in Seqs(ms)
    BY <1>4
  <1> QED
    BY <1>5, <1>6 DEF card

LEMMA FlushKeeps ==
  ASSUME NEW b \in Buffers, IsFiniteSet(b.pend), Distinct(b.pend),
         \A m \in b.pend : b.next <= m.seq
  PROVE  /\ Keeps(b, b.pend, Flush(b))
         /\ Flush(b).buf.timer <=> b.timer /\ Flush(b).buf.pend # {}
         /\ \A top \in Nat : Below(b, b.pend, Flush(b), top)
         /\ Flush(b) \in [buf : Buffers, out : Seq(Messages)]
  <1> DEFINE n == CHOOSE n \in b.next .. b.next + Cardinality(b.pend) :
                    n \notin Seqs(b.pend) /\ b.next .. n - 1 \subseteq Seqs(b.pend)
             ready == {m \in b.pend : m.seq \in b.next .. n - 1}
             rest == b.pend \ ready
             both == b.timer /\ rest # {}
             out == InOrder(ready)
             buf == Flush(b).buf
  <1>0. /\ b.pend \in SUBSET Messages /\ b.next \in Nat
        /\ \A m \in b.pend : m.seq \in Nat /\ m.seq \in Seqs(b.pend)
    BY DEF Buffers, Messages, Seqs
  <1>1. /\ n \in b.next .. b.next + Cardinality(b.pend)
        /\ n \notin Seqs(b.pend) /\ b.next .. n - 1 \subseteq Seqs(b.pend)
    BY <1>0, FlushRun
  <1>2. n \in Nat /\ b.next <= n
    BY <1>0, <1>1, SeqsFinite
  <1>3. Flush(b) = [buf |-> [b EXCEPT !.next = n, !.pend = rest, !.timer = both],
                    out |-> out]
    BY DEF Flush
  <1> HIDE DEF n
  <1>4. both \in BOOLEAN /\ (both <=> b.timer /\ rest # {})
    OBVIOUS
  <1>5. \A m \in rest : n < m.seq
    BY <1>0, <1>1, <1>2
  <1>6. ready \subseteq b.pend /\ IsFiniteSet(ready) /\ IsFiniteSet(rest) /\ Distinct(ready)
    BY FS_Subset DEF Distinct
  <1>7. out \in Seq(Messages) /\ Ascending(out) /\ Range(out) = ready
    BY <1>0, <1>6, InOrderIs
  <1>8. \A m \in ready : b.next <= m.seq /\ m.seq < n
    BY <1>0, <1>2
  <1>9. \A m \in b.pend : n <= m.seq => m \in rest
    BY <1>0, <1>2
  <1>10. rest \subseteq b.pend
    OBVIOUS
  <1> HIDE DEF both, out, ready, rest
  <1>11. buf = [b EXCEPT !.next = n, !.pend = rest, !.timer = both] /\ Flush(b).out = out
    BY <1>3
  <1>12. buf \in Buffers /\ Flush(b) \in [buf : Buffers, out : Seq(Messages)]
    BY <1>0, <1>2, <1>3, <1>4, <1>7, <1>10, <1>11 DEF Buffers
  <1>13. /\ buf.next = n /\ buf.pend = rest /\ buf.timer = both
         /\ buf.tracked = b.tracked /\ buf.listen = b.listen
         /\ buf.chan = b.chan /\ buf.subs = b.subs /\ buf.handlers = b.handlers
    BY <1>11 DEF Buffers
  <1>14. Keeps(b, b.pend, Flush(b))
    BY <1>2, <1>5, <1>6, <1>7, <1>8, <1>9, <1>10, <1>11, <1>12, <1>13 DEF Keeps
  <1>15. ASSUME NEW top \in Nat
         PROVE  Below(b, b.pend, Flush(b), top)
    <2>1. n = b.next \/ n - 1 \in Seqs(b.pend)
      BY <1>0, <1>1, <1>2
    <2> QED
      BY <1>0, <1>2, <1>13, <2>1 DEF Below, Seqs
  <1> QED
    BY <1>4, <1>12, <1>13, <1>14, <1>15

\* forceFlushBuffer delivers all that waits.
LEMMA ForceFlushKeeps ==
  ASSUME NEW b \in Buffers, IsFiniteSet(b.pend), Distinct(b.pend), b.pend # {},
         \A m \in b.pend : b.next < m.seq
  PROVE  /\ Keeps(b, b.pend, ForceFlush(b))
         /\ ~ForceFlush(b).buf.timer /\ ForceFlush(b).buf.pend = {}
         /\ \A top \in Nat : Below(b, b.pend, ForceFlush(b), top)
  <1> DEFINE n == MaxSeq(b.pend) + 1
             res == ForceFlush(b)
  <1>1. b.pend \in SUBSET Messages /\ b.next \in Nat /\ \A m \in b.pend : m.seq \in Nat
    BY DEF Buffers, Messages
  <1>2. n \in Nat /\ n - 1 \in Seqs(b.pend) /\ \A m \in b.pend : m.seq < n
    BY <1>1, MinMaxSeq
  <1>3. /\ InOrder(b.pend) \in Seq(Messages) /\ Ascending(InOrder(b.pend))
        /\ Range(InOrder(b.pend)) = b.pend
    BY <1>1, InOrderIs
  <1>4. res.buf = [b EXCEPT !.next = n, !.pend = {}, !.timer = FALSE] /\ res.out = InOrder(b.pend)
    BY DEF ForceFlush
  <1> HIDE DEF n, res
  <1>5. /\ res.buf \in Buffers /\ res.buf.next = n /\ res.buf.pend = {} /\ res.buf.timer = FALSE
        /\ res.buf.tracked = b.tracked /\ res.buf.listen = b.listen
        /\ res.buf.chan = b.chan /\ res.buf.subs = b.subs /\ res.buf.handlers = b.handlers
    BY <1>2, <1>4 DEF Buffers
  <1>6. PICK m \in b.pend : m.seq = n - 1
    BY <1>2 DEF Seqs
  <1>7. Keeps(b, b.pend, res)
    <2>1. b.next <= n /\ \A o \in b.pend : b.next <= o.seq /\ o.seq < n /\ ~(n <= o.seq)
      BY <1>1, <1>2, <1>6
    <2> QED
      BY <1>3, <1>4, <1>5, <2>1, FS_EmptySet DEF Keeps
  <1>8. ASSUME NEW top \in Nat
        PROVE  Below(b, b.pend, res, top)
    BY <1>1, <1>2, <1>5, <1>6 DEF Below
  <1> QED
    BY <1>5, <1>7, <1>8 DEF res

\* handleOrderedChunk and handleTerminalEvent.
LEMMA ReceiveKeeps ==
  ASSUME NEW b \in Buffers, IsFiniteSet(b.pend), \A o \in b.pend : b.next < o.seq,
         b.timer <=> b.pend # {},
         NEW m \in Messages, Distinct(b.pend \cup {m})
  PROVE  /\ Keeps(b, b.pend \cup {m}, Receive(b, m))
         /\ Receive(b, m).buf.timer <=> Receive(b, m).buf.pend # {}
         /\ \A top \in Nat : Below(b, b.pend \cup {m}, Receive(b, m), top)
  <1> DEFINE ms == b.pend \cup {m}
             more == [b EXCEPT !.pend = @ \cup {m}, !.timer = TRUE]
             past == [b EXCEPT !.next = @ + 1]
             res == Receive(b, m)
             Goal == /\ Keeps(b, ms, res)
                     /\ res.buf.timer <=> res.buf.pend # {}
                     /\ \A top \in Nat : Below(b, ms, res, top)
  <1>0. b.next \in Nat /\ m.seq \in Nat /\ ms \in SUBSET Messages /\ \A o \in ms : o.seq \in Nat
    BY DEF Buffers, Messages
  <1>1. <<>> \in Seq(Messages) /\ Ascending(<<>>) /\ Range(<<>>) = {}
    BY DEF Ascending, Range
  <1>2. ASSUME m.seq < b.next PROVE Goal
    <2>1. res = [buf |-> b, out |-> <<>>]
      BY <1>0, <1>2 DEF Receive, Nothing
    <2>2. \A o \in ms : b.next <= o.seq => o \in b.pend
      BY <1>0, <1>2
    <2> HIDE DEF res
    <2>3. res.buf = b /\ res.out = <<>>
      BY <2>1
    <2>4. Keeps(b, ms, res)
      BY <1>0, <1>1, <2>2, <2>3 DEF Keeps
    <2>5. \A top \in Nat : Below(b, ms, res, top)
      BY <2>3 DEF Below
    <2> QED
      BY <2>3, <2>4, <2>5 DEF res
  <1>3. ASSUME m.seq > b.next PROVE Goal
    <2>1. res = [buf |-> more, out |-> <<>>] \/ res = ForceFlush(more)
      BY <1>0, <1>3 DEF Receive, Nothing
    <2>2. /\ more \in Buffers /\ more.next = b.next /\ more.pend = ms /\ more.timer = TRUE
          /\ more.tracked = b.tracked /\ more.listen = b.listen
          /\ more.chan = b.chan /\ more.subs = b.subs /\ more.handlers = b.handlers
      BY <1>0 DEF Buffers
    <2>3. IsFiniteSet(ms) /\ ms # {} /\ \A o \in ms : b.next < o.seq
      BY <1>0, <1>3, FS_AddElement
    <2> HIDE DEF more, ms
    <2>4. CASE res = [buf |-> more, out |-> <<>>]
      <3> HIDE DEF res
      <3>1. res.buf = more /\ res.out = <<>>
        BY <2>4
      <3>2. Keeps(b, ms, res)
        BY <1>0, <1>1, <2>2, <2>3, <3>1 DEF Keeps
      <3>3. \A top \in Nat : Below(b, ms, res, top)
        BY <2>2, <3>1 DEF Below
      <3> QED
        BY <2>2, <2>3, <3>1, <3>2, <3>3 DEF res, ms
    <2>5. CASE res = ForceFlush(more)
      <3>1. /\ Keeps(more, ms, res) /\ ~res.buf.timer /\ res.buf.pend = {}
            /\ \A top \in Nat : Below(more, ms, res, top)
        BY <2>2, <2>3, <2>5, ForceFlushKeeps DEF ms
      <3> HIDE DEF res
      <3>2. Keeps(b, ms, res)
        BY <2>2, <3>1 DEF Keeps
      <3>3. \A top \in Nat : Below(b, ms, res, top)
        BY <2>2, <3>1 DEF Below
      <3> QED
        BY <3>1, <3>2, <3>3 DEF res, ms
    <2> QED
      BY <2>1, <2>4, <2>5
  <1>4. ASSUME m.seq = b.next PROVE Goal
    <2> DEFINE F == Flush(past)
    <2>1. /\ past \in Buffers /\ past.next = b.next + 1 /\ past.pend = b.pend
          /\ past.timer = b.timer
          /\ past.tracked = b.tracked /\ past.listen = b.listen
          /\ past.chan = b.chan /\ past.subs = b.subs /\ past.handlers = b.handlers
      BY <1>0 DEF Buffers
    <2>2. Distinct(b.pend) /\ \A o \in b.pend : b.next + 1 <= o.seq
      BY <1>0 DEF Distinct
    <2>3. res = [F EXCEPT !.out = <<m>> \o @]
      BY <1>4, <1>0 DEF Receive, Then
    <2> HIDE DEF past
    <2>4. /\ Keeps(past, b.pend, F)
          /\ F.buf.timer <=> past.timer /\ F.buf.pend # {}
          /\ \A top \in Nat : Below(past, b.pend, F, top)
          /\ F \in [buf : Buffers, out : Seq(Messages)]
      BY <2>1, <2>2, FlushKeeps
    <2> HIDE DEF F, res
    <2>5. res.buf = F.buf /\ res.out = <<m>> \o F.out
      BY <2>3, <2>4
    <2>6. F.buf.next \in Nat /\ b.next + 1 <= F.buf.next
      BY <2>1, <2>4 DEF Keeps, Buffers
    <2>7. /\ res.out \in Seq(Messages) /\ Ascending(res.out)
          /\ Range(res.out) = {m} \cup Range(F.out)
      <3>1. /\ F.out \in Seq(Messages) /\ Ascending(F.out) /\ Range(F.out) \subseteq b.pend
            /\ \A o \in Range(F.out) : b.next + 1 <= o.seq /\ o.seq \in Nat
        BY <1>0, <2>1, <2>4 DEF Keeps
      <3>2. <<m>> \in Seq(Messages) /\ Len(<<m>>) = 1 /\ <<m>>[1] = m
        OBVIOUS
      <3>3. /\ res.out \in Seq(Messages) /\ Len(res.out) = 1 + Len(F.out)
            /\ DOMAIN res.out = 1 .. 1 + Len(F.out)
            /\ \A i \in 1 .. 1 + Len(F.out) : res.out[i] = IF i = 1 THEN m ELSE F.out[i - 1]
        BY <2>5, <3>1, <3>2
      <3>4. DOMAIN F.out = 1 .. Len(F.out) /\ Len(F.out) \in Nat
        BY <3>1
      <3>5. Range(res.out) = {m} \cup Range(F.out)
        <4>1. Range(<<m>>) = {m}
          BY DEF Range
        <4> QED
          <5>1. \A s1, s2 \in Seq(Messages) : Range(s1 \o s2) = Range(s1) \cup Range(s2)
            BY RangeConcatenation
          <5> QED
            BY <2>5, <3>1, <3>2, <4>1, <5>1
      <3>6. ASSUME NEW i \in DOMAIN res.out, NEW j \in DOMAIN res.out, i < j
            PROVE  res.out[i].seq < res.out[j].seq
        <4>1. j - 1 \in DOMAIN F.out /\ res.out[j] = F.out[j - 1]
          BY <3>3, <3>4, <3>6
        <4>2. CASE i = 1
          BY <1>0, <1>4, <3>1, <3>3, <4>1, <4>2 DEF Range
        <4>3. CASE i # 1
          <5>1. i - 1 \in DOMAIN F.out /\ res.out[i] = F.out[i - 1] /\ i - 1 < j - 1
            BY <3>3, <3>4, <3>6, <4>3
          <5> QED
            BY <3>1, <4>1, <5>1 DEF Ascending
        <4> QED
          BY <4>2, <4>3
      <3> QED
        BY <3>3, <3>5, <3>6 DEF Ascending
    <2>8. Keeps(b, ms, res)
      <3>1. \A o \in ms : F.buf.next <= o.seq => o \in b.pend
        BY <1>0, <1>4, <2>6
      <3>2. b.next <= m.seq /\ m.seq < F.buf.next
        BY <1>0, <1>4, <2>6
      <3> QED
        BY <1>0, <2>1, <2>4, <2>5, <2>6, <2>7, <3>1, <3>2 DEF Keeps
    <2>9. res.buf.timer <=> res.buf.pend # {}
      BY <2>1, <2>4, <2>5 DEF Keeps
    <2>10. ASSUME NEW top \in Nat
           PROVE  Below(b, ms, res, top)
      <3> SUFFICES ASSUME b.next <= top, \A o \in ms : o.seq < top
                   PROVE  F.buf.next <= top
        BY <2>5 DEF Below
      <3>1. Below(past, b.pend, F, top) /\ past.next <= top
        BY <1>0, <1>4, <2>1, <2>4
      <3> QED
        BY <3>1 DEF Below
    <2> QED
      BY <2>8, <2>9, <2>10 DEF res, ms
  <1>5. m.seq < b.next \/ m.seq > b.next \/ m.seq = b.next
    BY <1>0
  <1> HIDE DEF Goal
  <1>6. Goal
    BY <1>2, <1>3, <1>4, <1>5
  <1> QED
    BY <1>6 DEF Goal

\* syncReorderBuffer, for a counter that was at least what was replayed.
LEMMA SyncKeeps ==
  ASSUME NEW b \in Buffers, IsFiniteSet(b.pend), Distinct(b.pend),
         \A m \in b.pend : b.next < m.seq,
         NEW replayed \in Nat, NEW counter \in Nat, replayed <= counter
  PROVE  /\ Keeps(b, b.pend, Sync(b, replayed, counter))
         /\ Sync(b, replayed, counter).buf.timer <=> Sync(b, replayed, counter).buf.pend # {}
         /\ \A top \in Nat : counter <= top => Below(b, b.pend, Sync(b, replayed, counter), top)
  <1> DEFINE keep == {m \in b.pend : m.seq >= replayed}
             bar == IF keep = {} THEN IF replayed > 0 THEN replayed ELSE counter
                    ELSE Smaller(counter, MinSeq(keep))
             synced == [b EXCEPT !.pend = keep, !.next = Larger(@, bar)]
             F == Flush(synced)
             timer == F.buf.pend # {}
             res == Sync(b, replayed, counter)
  <1>0. b.next \in Nat /\ b.pend \in SUBSET Messages /\ \A m \in b.pend : m.seq \in Nat
    BY DEF Buffers, Messages
  <1>1. keep \subseteq b.pend /\ IsFiniteSet(keep) /\ Distinct(keep)
    BY FS_Subset DEF Distinct
  <1>2. \A m \in b.pend : m \in keep <=> replayed <= m.seq
    BY <1>0
  <1> HIDE DEF keep
  <1>3. /\ bar \in Nat /\ bar <= counter
        /\ \A m \in keep : bar <= m.seq
        /\ (\E m \in b.pend : m.seq < replayed) => replayed <= bar
    <2>1. CASE keep = {}
      BY <1>0, <2>1
    <2>2. CASE keep # {}
      <3>1. /\ MinSeq(keep) \in Nat /\ MinSeq(keep) \in Seqs(keep)
            /\ \A m \in keep : MinSeq(keep) <= m.seq
        BY <1>0, <1>1, <2>2, MinMaxSeq
      <3>2. replayed <= MinSeq(keep)
        BY <1>0, <1>1, <1>2, <3>1 DEF Seqs
      <3>3. bar = Smaller(counter, MinSeq(keep))
        BY <2>2
      <3> QED
        BY <1>0, <1>1, <3>1, <3>2, <3>3 DEF Smaller
    <2> QED
      BY <2>1, <2>2
  <1> HIDE DEF bar
  <1>4. Larger(b.next, bar) \in {b.next, bar} /\ b.next <= Larger(b.next, bar)
        /\ bar <= Larger(b.next, bar) /\ Larger(b.next, bar) \in Nat
    BY <1>0, <1>3 DEF Larger
  <1>5. /\ synced \in Buffers /\ synced.next = Larger(b.next, bar) /\ synced.pend = keep
        /\ synced.tracked = b.tracked /\ synced.listen = b.listen
        /\ synced.chan = b.chan /\ synced.subs = b.subs /\ synced.handlers = b.handlers
    BY <1>0, <1>1, <1>4 DEF Buffers
  <1>6. res = [F EXCEPT !.buf.timer = timer]
    BY DEF Sync, keep, bar
  <1> HIDE DEF synced
  <1>7. \A m \in keep : synced.next <= m.seq
    BY <1>0, <1>1, <1>3, <1>4, <1>5
  <1>8. /\ Keeps(synced, keep, F) /\ F \in [buf : Buffers, out : Seq(Messages)]
        /\ \A top \in Nat : Below(synced, keep, F, top)
    BY <1>1, <1>5, <1>7, FlushKeeps
  <1>9. timer \in BOOLEAN /\ (timer <=> F.buf.pend # {})
    OBVIOUS
  <1> HIDE DEF F, timer, res
  <1>10. /\ res.out = F.out /\ res.buf \in Buffers
         /\ res.buf.next = F.buf.next /\ res.buf.pend = F.buf.pend /\ res.buf.timer = timer
         /\ res.buf.tracked = F.buf.tracked /\ res.buf.listen = F.buf.listen
         /\ res.buf.chan = F.buf.chan /\ res.buf.subs = F.buf.subs
         /\ res.buf.handlers = F.buf.handlers
    <2> DEFINE u == F.buf
               v == res.buf
    <2>1. u \in Buffers
      BY <1>8
    <2>2. v = [u EXCEPT !.timer = timer] /\ res.out = F.out
      BY <1>6, <1>8
    <2> HIDE DEF u, v
    <2>3. v \in Buffers
      BY <2>1, <2>2, <1>9 DEF Buffers
    <2>4. /\ v.next = u.next /\ v.pend = u.pend /\ v.tracked = u.tracked /\ v.listen = u.listen
          /\ v.chan = u.chan /\ v.subs = u.subs /\ v.handlers = u.handlers /\ v.timer = timer
      BY <2>1, <2>2 DEF Buffers
    <2> QED
      BY <2>2, <2>3, <2>4 DEF u, v
  <1>11. Keeps(b, b.pend, res)
    <2>1. F.buf.next \in Nat /\ synced.next <= F.buf.next
      BY <1>8 DEF Keeps, Buffers
    <2>2. b.next <= F.buf.next
      BY <1>0, <1>4, <1>5, <2>1
    <2>3. \A m \in b.pend : F.buf.next <= m.seq => m \in F.buf.pend
      <3> SUFFICES ASSUME NEW m \in b.pend, F.buf.next <= m.seq
                   PROVE  m \in F.buf.pend
        OBVIOUS
      <3>1. m \in keep
        BY <1>0, <1>2, <1>3, <1>4, <1>5, <2>1
      <3> QED
        BY <1>8, <3>1 DEF Keeps
    <2>4. \A m \in Range(F.out) : m \in b.pend /\ b.next <= m.seq /\ m.seq < F.buf.next
      BY <1>0, <1>1, <1>4, <1>5, <1>8 DEF Keeps
    <2>5. /\ F.buf.pend \subseteq b.pend /\ IsFiniteSet(F.buf.pend)
          /\ \A m \in F.buf.pend : F.buf.next < m.seq
          /\ F.out \in Seq(Messages) /\ Ascending(F.out)
      BY <1>1, <1>8 DEF Keeps
    <2>6. /\ F.buf.tracked = b.tracked /\ F.buf.listen = b.listen
          /\ F.buf.chan = b.chan /\ F.buf.subs = b.subs /\ F.buf.handlers = b.handlers
      BY <1>5, <1>8 DEF Keeps
    <2> QED
      BY <1>10, <2>2, <2>3, <2>4, <2>5, <2>6 DEF Keeps
  <1>12. ASSUME NEW top \in Nat, counter <= top
         PROVE  Below(b, b.pend, res, top)
    <2> SUFFICES ASSUME b.next <= top, \A m \in b.pend : m.seq < top
                 PROVE  F.buf.next <= top
      BY <1>10 DEF Below
    <2>1. synced.next <= top /\ \A m \in keep : m.seq < top
      BY <1>0, <1>1, <1>3, <1>4, <1>5, <1>12
    <2> QED
      BY <1>8, <2>1 DEF Below
  <1> QED
    BY <1>9, <1>10, <1>11, <1>12 DEF res

-----------------------------------------------------------------------------
(* The responses *)

Closed(g) == g # <<>> /\ Last(g).type \in Ends

\* Of ms is written what precedes the first end, and that end.
LEMMA UptoFirstEnd ==
  ASSUME NEW ms \in Seq(Messages)
  PROVE  \E k \in 0 .. Len(ms) :
           /\ {i \in DOMAIN ms : \A j \in 1 .. (i - 1) : ms[j].type \notin Ends} = 1 .. k
           /\ (\E i \in DOMAIN ms : ms[i].type \in Ends) => k # 0 /\ ms[k].type \in Ends
  <1> DEFINE upto == {i \in DOMAIN ms : \A j \in 1 .. (i - 1) : ms[j].type \notin Ends}
             ends == {i \in DOMAIN ms : ms[i].type \in Ends}
             n == Len(ms)
  <1>0. n \in Nat /\ DOMAIN ms = 1 .. n
    OBVIOUS
  <1> HIDE DEF n
  <1>1. CASE ends = {}
    <2>1. \A i \in 1 .. n : ms[i].type \notin Ends
      BY <1>0, <1>1
    <2>2. upto = 1 .. n
      BY <1>0, <2>1
    <2> QED
      BY <1>0, <2>1, <2>2 DEF n
  <1>2. CASE ends # {}
    <2>1. ends \subseteq Nat
      BY <1>0
    <2>2. PICK k \in ends : \A i \in ends : k <= i
      BY <1>2, <2>1, LeastNumber
    <2>3. k \in 1 .. n /\ ms[k].type \in Ends /\ \A j \in 1 .. n : j < k => ms[j].type \notin Ends
      BY <1>0, <2>2
    <2>4. upto = 1 .. k
      <3>1. ASSUME NEW i \in 1 .. k
            PROVE  i \in upto
        BY <1>0, <2>3
      <3>2. ASSUME NEW i \in upto
            PROVE  i \in 1 .. k
        BY <1>0, <2>3
      <3> QED
        BY <3>1, <3>2
    <2> QED
      BY <1>0, <2>3, <2>4 DEF n
  <1> QED
    BY <1>1, <1>2

\* A write leaves what was written and adds a beginning of ms; it closes the
\* response if ms has an end, and leaves a closed one closed.
LEMMA WriteIs ==
  ASSUME NEW g \in Seq(Messages), NEW ms \in Seq(Messages)
  PROVE  /\ Write(g, ms) \in Seq(Messages)
         /\ \E k \in 0 .. Len(ms) :
              /\ DOMAIN Write(g, ms) = 1 .. Len(g) + k
              /\ \A i \in 1 .. Len(g) + k :
                   Write(g, ms)[i] = IF i <= Len(g) THEN g[i] ELSE ms[i - Len(g)]
         /\ Closed(g) \/ (\E i \in DOMAIN ms : ms[i].type \in Ends) => Closed(Write(g, ms))
  <1> DEFINE w == Write(g, ms)
             upto == {i \in DOMAIN ms : \A j \in 1 .. (i - 1) : ms[j].type \notin Ends}
  <1>0. Len(g) \in Nat /\ DOMAIN g = 1 .. Len(g) /\ Len(ms) \in Nat /\ DOMAIN ms = 1 .. Len(ms)
    OBVIOUS
  <1>1. CASE Closed(g)
    <2>1. w = g
      BY <1>1 DEF Write, Closed
    <2>2. 0 \in 0 .. Len(ms) /\ DOMAIN w = 1 .. Len(g) + 0
          /\ \A i \in 1 .. Len(g) + 0 : w[i] = IF i <= Len(g) THEN g[i] ELSE ms[i - Len(g)]
      BY <1>0, <2>1
    <2> HIDE DEF w
    <2> QED
      BY <1>1, <2>1, <2>2 DEF w
  <1>2. CASE ~Closed(g)
    <2>1. w = g \o SubSeq(ms, 1, Cardinality(upto))
      BY <1>2 DEF Write, Closed
    <2>2. PICK k \in 0 .. Len(ms) :
            /\ upto = 1 .. k
            /\ (\E i \in DOMAIN ms : ms[i].type \in Ends) => k # 0 /\ ms[k].type \in Ends
      BY UptoFirstEnd
    <2> HIDE DEF upto, w
    <2>3. Cardinality(upto) = k
      BY <2>2, FS_Interval
    <2> DEFINE p == SubSeq(ms, 1, k)
    <2>4. p \in Seq(Messages) /\ Len(p) = k /\ \A i \in 1 .. k : p[i] = ms[i]
      BY <1>0, <2>2
    <2>5. w = g \o p
      BY <2>1, <2>3
    <2> HIDE DEF p
    <2>6. /\ w \in Seq(Messages) /\ DOMAIN w = 1 .. Len(g) + k /\ Len(w) = Len(g) + k
          /\ \A i \in 1 .. Len(g) + k : w[i] = IF i <= Len(g) THEN g[i] ELSE p[i - Len(g)]
      <3>1. /\ w \in Seq(Messages) /\ Len(w) = Len(g) + Len(p)
            /\ \A i \in 1 .. Len(g) + Len(p) : w[i] = IF i <= Len(g) THEN g[i] ELSE p[i - Len(g)]
        BY <2>4, <2>5, ConcatProperties
      <3> QED
        BY <1>0, <2>4, <3>1
    <2>7. \A i \in 1 .. Len(g) + k : w[i] = IF i <= Len(g) THEN g[i] ELSE ms[i - Len(g)]
      BY <1>0, <2>2, <2>4, <2>6
    <2>8. ASSUME \E i \in DOMAIN ms : ms[i].type \in Ends
          PROVE  Closed(w)
      <3>1. k # 0 /\ ms[k].type \in Ends
        BY <2>2, <2>8
      <3>2. w[Len(w)] = ms[k] /\ w # <<>>
        BY <1>0, <2>2, <2>6, <2>7, <3>1
      <3> QED
        BY <3>1, <3>2 DEF Closed, Last
    <2> QED
      BY <1>2, <2>2, <2>6, <2>7, <2>8 DEF w
  <1> QED
    BY <1>1, <1>2

-----------------------------------------------------------------------------
(* What the steps do to the messages on their way *)

\* Taking a message out of a channel leaves the others there.
LEMMA RemoveAtIs ==
  ASSUME NEW s \in Seq(Messages), NEW i \in DOMAIN s
  PROVE  /\ RemoveAt(s, i) \in Seq(Messages)
         /\ Range(RemoveAt(s, i)) \subseteq Range(s)
         /\ \A m \in Range(s) : m = s[i] \/ m \in Range(RemoveAt(s, i))
  <1> DEFINE n == Len(s)
             a == SubSeq(s, 1, i - 1)
             z == SubSeq(s, i + 1, n)
  <1>0. n \in Nat /\ DOMAIN s = 1 .. n /\ i \in 1 .. n
    OBVIOUS
  <1>1. a \in Seq(Messages) /\ Len(a) = i - 1 /\ \A j \in 1 .. i - 1 : a[j] = s[j]
    BY <1>0
  <1>2. z \in Seq(Messages) /\ Len(z) = n - i /\ \A j \in 1 .. n - i : z[j] = s[i + j]
    BY <1>0
  <1>3. RemoveAt(s, i) = a \o z
    BY DEF RemoveAt
  <1> HIDE DEF a, z, n
  <1>4. RemoveAt(s, i) \in Seq(Messages) /\ Range(RemoveAt(s, i)) = Range(a) \cup Range(z)
    <2>1. \A s1, s2 \in Seq(Messages) : Range(s1 \o s2) = Range(s1) \cup Range(s2)
      BY RangeConcatenation
    <2> QED
      BY <1>1, <1>2, <1>3, <2>1
  <1>5. DOMAIN a = 1 .. i - 1 /\ DOMAIN z = 1 .. n - i
    BY <1>0, <1>1, <1>2
  <1>6. Range(a) \cup Range(z) \subseteq Range(s)
    <2>1. \A j \in 1 .. i - 1 : j \in 1 .. n /\ a[j] = s[j]
      BY <1>0, <1>1
    <2>2. \A j \in 1 .. n - i : i + j \in 1 .. n /\ z[j] = s[i + j]
      BY <1>0, <1>2
    <2> QED
      BY <1>0, <1>5, <2>1, <2>2 DEF Range
  <1>7. ASSUME NEW j \in 1 .. n, j # i
        PROVE  s[j] \in Range(a) \cup Range(z)
    <2>1. CASE j < i
      BY <1>0, <1>1, <1>5, <2>1 DEF Range
    <2>2. CASE i < j
      <3>1. j - i \in 1 .. n - i /\ z[j - i] = s[j]
        BY <1>0, <1>2, <2>2
      <3> QED
        BY <1>5, <3>1 DEF Range
    <2> QED
      BY <1>0, <1>7, <2>1, <2>2
  <1> QED
    BY <1>0, <1>4, <1>6, <1>7 DEF Range

\* A PUBLISH adds its message to open channels and nothing else.
LEMMA PublishIs ==
  ASSUME TypeOK, NEW m \in Messages, Publish(m)
  PROVE  /\ net' \in [Replicas -> Seq(Messages)]
         /\ \A r \in Replicas :
              /\ Range(net'[r]) \subseteq Range(net[r]) \cup {m}
              /\ Range(net[r]) \subseteq Range(net'[r])
              /\ tr[r].chan = "on" /\ Visited(r) => m \in Range(net'[r])
  <1>0. \A r \in Replicas : net[r] \in Seq(Messages)
    BY DEF TypeOK
  <1>1. \A s \in Seq(Messages) :
          Append(s, m) \in Seq(Messages) /\ Range(Append(s, m)) = Range(s) \cup {m}
    <2> TAKE s \in Seq(Messages)
    <2>1. /\ Append(s, m) \in Seq(Messages) /\ DOMAIN Append(s, m) = 1 .. Len(s) + 1
          /\ DOMAIN s = 1 .. Len(s) /\ Len(s) \in Nat
          /\ \A i \in 1 .. Len(s) : Append(s, m)[i] = s[i]
          /\ Append(s, m)[Len(s) + 1] = m
      OBVIOUS
    <2>2. \A i \in 1 .. Len(s) + 1 : i \in 1 .. Len(s) \/ i = Len(s) + 1
      BY <2>1
    <2>3. \A i \in 1 .. Len(s) : i \in 1 .. Len(s) + 1
      BY <2>1
    <2>4. Len(s) + 1 \in 1 .. Len(s) + 1
      BY <2>1
    <2> QED
      BY <2>1, <2>2, <2>3, <2>4 DEF Range
  <1> QED
    BY <1>0, <1>1 DEF Publish, Concerns

\* The function of a buffer is run on messages that are coming to it.
Delivery(r, ms, res) ==
  /\ Deliver(r, res)
  /\ Keeps(tr[r], ms, res) /\ (res.buf.timer <=> res.buf.pend # {})
  /\ Below(tr[r], ms, res, ctr)
  /\ tr[r].pend \subseteq ms /\ ms \subseteq Coming(r) \cup tr[r].pend

\* What is coming is messages, the buffers are typed, their numbers distinct.
LEMMA ComingTypes ==
  ASSUME StreamInv
  PROVE  \A r \in Replicas :
           /\ Coming(r) \subseteq Messages
           /\ tr[r] \in Buffers /\ tr[r].pend \subseteq Messages
           /\ Distinct(Coming(r) \cup tr[r].pend)
           /\ tr[r].next \in Nat /\ tr[r].next <= ctr
           /\ \A m \in Coming(r) \cup tr[r].pend : m.seq < ctr
  <1> SUFFICES ASSUME NEW r \in Replicas
               PROVE  /\ Coming(r) \subseteq Messages
                      /\ tr[r] \in Buffers /\ tr[r].pend \subseteq Messages
                      /\ Distinct(Coming(r) \cup tr[r].pend)
                      /\ tr[r].next \in Nat /\ tr[r].next <= ctr
                      /\ \A m \in Coming(r) \cup tr[r].pend : m.seq < ctr
    OBVIOUS
  <1>1. net[r] \in Seq(Messages) /\ drv.msg \in Messages /\ abt.msg \in Messages
        /\ tr[r] \in Buffers
    BY DEF StreamInv, TypeOK, Drivers, Aborts
  <1>2. Range(net[r]) \subseteq Messages
    BY <1>1 DEF Range
  <1> QED
    BY <1>1, <1>2 DEF Coming, StreamInv, NumberInv, Distinct, BufferInv, Buffers

LEMMA FlushTimeoutDelivers ==
  ASSUME StreamInv, NEW r \in Replicas, FlushTimeout(r)
  PROVE  Delivery(r, tr[r].pend, ForceFlush(tr[r]))
  <1>1. /\ tr[r].pend # {} /\ IsFiniteSet(tr[r].pend) /\ \A m \in tr[r].pend : tr[r].next < m.seq
    BY DEF StreamInv, BufferInv, FlushTimeout
  <1>2. Distinct(tr[r].pend) /\ tr[r] \in Buffers /\ ctr \in Nat
    BY ComingTypes DEF Distinct, StreamInv, TypeOK
  <1> QED
    BY <1>1, <1>2, ForceFlushKeeps DEF FlushTimeout, Delivery

LEMMA SyncDelivers ==
  ASSUME StreamInv, NEW c \in Clients, SyncBuffer(c)
  PROVE  /\ tr[home[c]].tracked
         /\ Delivery(home[c], tr[home[c]].pend, Sync(tr[home[c]], count[c], seen[c]))
  <1> DEFINE r == home[c]
  <1>0. r \in Replicas /\ pc[c] = "asked" /\ count[c] \in Nat /\ seen[c] \in Nat /\ ctr \in Nat
    BY DEF StreamInv, TypeOK, SyncBuffer
  <1> HIDE DEF r
  <1>1. IsFiniteSet(tr[r].pend) /\ \A m \in tr[r].pend : tr[r].next < m.seq
    BY <1>0 DEF StreamInv, BufferInv
  <1>2. Distinct(tr[r].pend) /\ tr[r] \in Buffers
    BY <1>0, ComingTypes DEF Distinct
  <1>3. count[c] <= seen[c] /\ seen[c] <= ctr
    BY <1>0 DEF StreamInv, EarlyInv
  <1>4. tr[r].tracked
    BY <1>0 DEF StreamInv, HandlerInv, Listening, r
  <1>5. Deliver(r, Sync(tr[r], count[c], seen[c]))
    BY <1>4 DEF SyncBuffer, r
  <1> QED
    BY <1>0, <1>1, <1>2, <1>3, <1>4, <1>5, SyncKeeps DEF Delivery, r

LEMMA HandleDelivers ==
  ASSUME StreamInv, NEW r \in Replicas, NEW i \in DOMAIN net[r], HandleMessage(r, i),
         net[r][i].type # "abort", tr[r].tracked
  PROVE  Delivery(r, tr[r].pend \cup {net[r][i]}, Receive(tr[r], net[r][i]))
  <1> DEFINE m == net[r][i]
  <1>1. IsFiniteSet(tr[r].pend) /\ (\A o \in tr[r].pend : tr[r].next < o.seq)
        /\ (tr[r].timer <=> tr[r].pend # {})
    BY DEF StreamInv, BufferInv
  <1>2. m \in Coming(r)
    BY DEF Coming, Range
  <1>3. m \in Messages /\ tr[r] \in Buffers /\ Distinct(tr[r].pend \cup {m}) /\ ctr \in Nat
    BY <1>2, ComingTypes DEF Distinct, StreamInv, TypeOK
  <1>4. Deliver(r, Receive(tr[r], m))
    BY DEF HandleMessage
  <1> HIDE DEF m
  <1>5. /\ Keeps(tr[r], tr[r].pend \cup {m}, Receive(tr[r], m))
        /\ Receive(tr[r], m).buf.timer <=> Receive(tr[r], m).buf.pend # {}
        /\ Below(tr[r], tr[r].pend \cup {m}, Receive(tr[r], m), ctr)
    BY <1>1, <1>3, ReceiveKeeps
  <1>6. Delivery(r, tr[r].pend \cup {m}, Receive(tr[r], m))
    BY <1>2, <1>4, <1>5 DEF Delivery
  <1> QED
    BY <1>6 DEF m

-----------------------------------------------------------------------------
(* What a delivery does to the buffers, the responses and the debts *)

LEMMA DeliveryBuffers ==
  ASSUME StreamInv, NEW r \in Replicas, NEW ms, NEW res, Delivery(r, ms, res)
  PROVE  /\ tr' \in [Replicas -> Buffers]
         /\ tr'[r] = res.buf /\ \A q \in Replicas : q # r => tr'[q] = tr[q]
         /\ res.buf.next <= ctr /\ tr[r].next <= res.buf.next
         /\ res.buf.next \in Nat /\ tr[r].next \in Nat
         /\ \A m \in ms : m \in Messages /\ m.seq \in Nat
         /\ ms \subseteq Coming(r) \cup tr[r].pend
  <1>1. /\ tr \in [Replicas -> Buffers] /\ res.buf \in Buffers /\ ctr \in Nat
        /\ ms \subseteq Coming(r) \cup tr[r].pend
        /\ tr[r].next <= res.buf.next /\ Below(tr[r], ms, res, ctr)
    BY DEF StreamInv, TypeOK, Delivery, Keeps
  <1>2. tr' = [tr EXCEPT ![r] = res.buf]
    BY DEF Delivery, Deliver
  <1>3. /\ tr[r].next <= ctr /\ tr[r].next \in Nat
        /\ \A m \in ms : m.seq < ctr /\ m \in Messages
    BY <1>1, ComingTypes
  <1>4. res.buf.next <= ctr
    BY <1>1, <1>3 DEF Below
  <1>5. res.buf.next \in Nat
    BY <1>1 DEF Buffers
  <1> QED
    BY <1>1, <1>2, <1>3, <1>4, <1>5 DEF Messages

\* The responses of the handlers of r get what is delivered, the others nothing.
LEMMA DeliveryGot ==
  ASSUME StreamInv, NEW r \in Replicas, NEW ms, NEW res, Delivery(r, ms, res)
  PROVE  /\ got' \in [Clients -> Seq(Messages)]
         /\ \A c \in Clients : got'[c] = IF c \in tr[r].handlers THEN Write(got[c], res.out)
                                         ELSE got[c]
         /\ res.out \in Seq(Messages)
         /\ \A c \in tr[r].handlers : c \in Clients /\ home[c] = r
  <1>1. res.out \in Seq(Messages) /\ got \in [Clients -> Seq(Messages)]
    BY DEF Delivery, Keeps, StreamInv, TypeOK
  <1>2. got' = [c \in Clients |-> IF c \in tr[r].handlers THEN Write(got[c], res.out)
                                  ELSE got[c]]
    BY DEF Delivery, Deliver
  <1>3. \A c \in tr[r].handlers : c \in Clients /\ home[c] = r
    BY DEF StreamInv, HandlerInv
  <1>4. \A c \in Clients : Write(got[c], res.out) \in Seq(Messages)
    BY <1>1, WriteIs
  <1> QED
    BY <1>1, <1>2, <1>3, <1>4

\* What is written stays behind the expected number, and in order.
LEMMA DeliveryOrder ==
  ASSUME StreamInv, NEW r \in Replicas, NEW ms, NEW res, Delivery(r, ms, res)
  PROVE  /\ LiveInOrder'
         /\ \A c \in Clients : \A i \in DOMAIN got'[c] :
              got'[c][i].type \in LiveTypes => got'[c][i].seq < tr'[home[c]].next
  <1> SUFFICES ASSUME NEW c \in Clients
               PROVE  /\ \A i, j \in DOMAIN got'[c] :
                           i < j /\ {got'[c][i].type, got'[c][j].type} \subseteq LiveTypes
                             => got'[c][i].seq < got'[c][j].seq
                      /\ \A i \in DOMAIN got'[c] :
                           got'[c][i].type \in LiveTypes => got'[c][i].seq < tr'[home[c]].next
    BY DEF LiveInOrder
  <1>0. /\ got[c] \in Seq(Messages) /\ home[c] \in Replicas
        /\ \A i, j \in DOMAIN got[c] :
             i < j /\ {got[c][i].type, got[c][j].type} \subseteq LiveTypes
               => got[c][i].seq < got[c][j].seq
        /\ \A i \in DOMAIN got[c] :
             got[c][i].type \in LiveTypes => got[c][i].seq < tr[home[c]].next
    BY DEF StreamInv, TypeOK, LiveInOrder, GotInv
  <1>1. CASE c \notin tr[r].handlers
    <2>1. got'[c] = got[c]
      BY <1>1, DeliveryGot
    <2>2. CASE home[c] # r
      <3>1. tr'[home[c]] = tr[home[c]]
        BY <1>0, <2>2, DeliveryBuffers
      <3> QED
        BY <1>0, <2>1, <3>1
    <2>3. CASE home[c] = r
      <3>1. got[c] = <<>>
        BY <1>1, <2>3 DEF StreamInv, HandlerInv, GotInv
      <3> QED
        BY <2>1, <3>1
    <2> QED
      BY <2>2, <2>3
  <1>2. CASE c \in tr[r].handlers
    <2> DEFINE g == got[c]
               out == res.out
               w == got'[c]
               low == tr[r].next
               top == res.buf.next
    <2>1. home[c] = r /\ w = Write(g, out) /\ out \in Seq(Messages)
      BY <1>2, DeliveryGot
    <2>2. /\ Ascending(out)
          /\ \A m \in Range(out) : low <= m.seq /\ m.seq < top /\ m.seq \in Nat
      <3>1. Range(out) \subseteq Messages
        BY <2>1 DEF Range
      <3> QED
        BY <3>1 DEF Delivery, Keeps, Messages
    <2>3. tr'[home[c]].next = top /\ low <= top /\ low \in Nat /\ top \in Nat
      BY <2>1, DeliveryBuffers
    <2>4. /\ g \in Seq(Messages)
          /\ \A i, j \in DOMAIN g :
               i < j /\ {g[i].type, g[j].type} \subseteq LiveTypes => g[i].seq < g[j].seq
          /\ \A i \in DOMAIN g : g[i].type \in LiveTypes => g[i].seq < low
      BY <1>0, <2>1
    <2> HIDE DEF g, out, w, low, top
    <2>5. PICK k \in 0 .. Len(out) :
            /\ DOMAIN w = 1 .. Len(g) + k
            /\ \A i \in 1 .. Len(g) + k : w[i] = IF i <= Len(g) THEN g[i] ELSE out[i - Len(g)]
      BY <2>1, <2>4, WriteIs
    <2>6. Len(g) \in Nat /\ DOMAIN g = 1 .. Len(g) /\ Len(out) \in Nat /\ DOMAIN out = 1 .. Len(out)
      BY <2>1, <2>4
    <2>7. \A i \in DOMAIN g : g[i] \in Messages /\ g[i].seq \in Nat
      <3>1. \A i \in DOMAIN g : g[i] \in Messages
        BY <2>6, <2>4
      <3> QED
        BY <3>1 DEF Messages
    <2>8. \A i \in DOMAIN w : \/ i \in DOMAIN g /\ w[i] = g[i]
                              \/ i - Len(g) \in DOMAIN out /\ w[i] = out[i - Len(g)]
                                 /\ out[i - Len(g)] \in Range(out)
      BY <2>5, <2>6 DEF Range
    <2>9. \A i \in DOMAIN w : w[i].type \in LiveTypes => w[i].seq < top
      BY <2>2, <2>3, <2>7, <2>4, <2>8
    <2>10. ASSUME NEW i \in DOMAIN w, NEW j \in DOMAIN w, i < j,
                  {w[i].type, w[j].type} \subseteq LiveTypes
           PROVE  w[i].seq < w[j].seq
      <3>0. i \in 1 .. Len(g) + k /\ j \in 1 .. Len(g) + k
        BY <2>5
      <3>1. CASE j <= Len(g)
        <4>1. i \in DOMAIN g /\ j \in DOMAIN g /\ w[i] = g[i] /\ w[j] = g[j]
          BY <2>5, <2>6, <2>10, <3>0, <3>1
        <4> QED
          BY <2>4, <2>10, <4>1
      <3>2. CASE i <= Len(g) /\ Len(g) < j
        <4>1. i \in DOMAIN g /\ w[i] = g[i]
          BY <2>5, <2>6, <3>0, <3>2
        <4>2. j - Len(g) \in DOMAIN out /\ w[j] = out[j - Len(g)] /\ w[j] \in Range(out)
          BY <2>5, <2>6, <3>0, <3>2 DEF Range
        <4>3. w[i].seq < low /\ low <= w[j].seq
          BY <2>2, <2>4, <2>10, <4>1, <4>2
        <4> QED
          BY <2>2, <2>3, <2>7, <4>1, <4>2, <4>3
      <3>3. CASE Len(g) < i
        <4>1. /\ i - Len(g) \in DOMAIN out /\ w[i] = out[i - Len(g)]
              /\ j - Len(g) \in DOMAIN out /\ w[j] = out[j - Len(g)]
              /\ i - Len(g) < j - Len(g)
          BY <2>5, <2>6, <2>10, <3>0, <3>3
        <4> QED
          BY <2>2, <4>1 DEF Ascending
      <3> QED
        BY <2>6, <2>10, <3>0, <3>1, <3>2, <3>3
    <2> QED
      BY <2>3, <2>9, <2>10 DEF w
  <1> QED
    BY <1>1, <1>2

\* A final event that is owed is told, is still ahead, or is forgiven.
LEMMA DeliveryOwed ==
  ASSUME StreamInv, NEW r \in Replicas, NEW ms, NEW res, Delivery(r, ms, res),
         NEW o \in owed'
  PROVE  /\ o \in owed
         /\ home[o[1]] = r => Closed(got'[o[1]]) \/ tr'[r].next <= o[2]
         /\ Ended(o[1]) => Closed(got'[o[1]])
  <1>1. o \in owed /\ ~(/\ home[o[1]] = r
                        /\ o[2] \in tr[r].next .. res.buf.next - 1
                        /\ o[2] \notin Seqs(Range(res.out)))
    BY DEF Delivery, Deliver
  <1> DEFINE c == o[1]
             n == o[2]
  <1>2. c \in Clients /\ n \in Nat /\ Listening(c) /\ (Ended(c) \/ OnItsWay(c, n))
    BY <1>1 DEF StreamInv, TypeOK, OwedInv
  <1>3. got[c] \in Seq(Messages) /\ res.out \in Seq(Messages) /\ (Ended(c) <=> Closed(got[c]))
    BY <1>2, DeliveryGot DEF StreamInv, TypeOK, Ended, Closed
  <1> HIDE DEF c, n
  <1>4. ASSUME home[c] # r
        PROVE  got'[c] = got[c]
    BY <1>2, <1>4, DeliveryGot
  <1>5. ASSUME home[c] = r
        PROVE  got'[c] = Write(got[c], res.out)
    <2>1. c \in tr[r].handlers
      BY <1>2, <1>5 DEF StreamInv, HandlerInv
    <2> QED
      BY <1>2, <2>1, DeliveryGot
  <1>6. Ended(c) => Closed(got'[c])
    BY <1>3, <1>4, <1>5, WriteIs
  <1>7. ASSUME home[c] = r, OnItsWay(c, n), ~(tr'[r].next <= n)
        PROVE  Closed(got'[c])
    <2>1. tr'[r].next = res.buf.next /\ res.buf.next \in Nat /\ tr[r].next \in Nat
      BY DeliveryBuffers
    <2>2. n \in tr[r].next .. res.buf.next - 1
      BY <1>2, <1>7, <2>1 DEF OnItsWay
    <2>3. PICK x \in Range(res.out) : x.seq = n
      BY <1>1, <1>7, <2>2 DEF Seqs, c, n
    <2>4. PICK m \in Coming(r) \cup tr[r].pend : m.type = "final" /\ m.seq = n
      BY <1>7 DEF OnItsWay
    <2>5. x \in Coming(r) \cup tr[r].pend
      BY <2>3 DEF Delivery, Keeps
    <2>6. x = m
      BY <2>3, <2>4, <2>5, ComingTypes DEF Distinct
    <2>7. \E i \in DOMAIN res.out : res.out[i].type \in Ends
      BY <2>3, <2>4, <2>6 DEF Range, Ends
    <2> QED
      BY <1>3, <1>5, <1>7, <2>7, WriteIs
  <1> QED
    BY <1>1, <1>2, <1>6, <1>7 DEF c, n

-----------------------------------------------------------------------------
(* The invariant holds at the start *)

LEMMA StreamStarts ==
  ASSUME Init
  PROVE  StreamInv
  <1>1. Owner \in Replicas /\ Aborters \subseteq Replicas /\ Starts \subseteq Nat
    BY StreamAssumption
  <1>2. <<>> \in Seq(Messages) /\ NoMsg \in Messages
    BY DEF NoMsg, Msg, Messages
  <1>3. \A r \in Replicas :
          /\ tr[r] \in Buffers
          /\ tr[r].pend = {} /\ tr[r].handlers = {} /\ tr[r].subs = 0 /\ tr[r].next = 0
          /\ tr[r].timer = FALSE
    BY DEF Init, Fresh, Buffers
  <1>4. tr \in [Replicas -> Buffers]
    <2>1. tr = [r \in Replicas |-> tr[r]]
      BY DEF Init
    <2> QED
      BY <1>3, <2>1
  <1>5. /\ drv \in Drivers
        /\ drv.pc = "run" /\ drv.msg = NoMsg
    BY <1>2 DEF Init, Drivers
  <1>6. /\ abt \in Aborts
        /\ abt.pc \in {"off", "none"} /\ abt.msg = NoMsg
    BY <1>1, <1>2 DEF Init, Aborts
  <1>7. /\ cur \in [Replicas -> 0..2] /\ made \in [Replicas -> 0..2]
        /\ ctr \in Nat
    BY <1>1 DEF Init
  <1>8. early \in [1..2 -> Seq(Messages)] /\ net \in [Replicas -> Seq(Messages)]
        /\ got \in [Clients -> Seq(Messages)]
    BY <1>2 DEF Init
  <1>9. /\ sweep \in [Replicas -> {"idle", "tell", "drop"}]
        /\ pc \in [Clients -> {"off", "found", "joining", "asking", "asked", "live", "left"}]
        /\ home \in [Clients -> Replicas] /\ ref \in [Clients -> 0..2]
        /\ count \in [Clients -> Nat] /\ seen \in [Clients -> Nat]
    BY DEF Init
  <1>10. TypeOK
    BY <1>4, <1>5, <1>6, <1>7, <1>8, <1>9 DEF TypeOK, Init
  <1>11. \A r \in Replicas : net[r] = <<>> /\ Range(net[r]) = {} /\ Coming(r) = {}
    <2>1. Range(<<>>) = {}
      BY DEF Range
    <2> QED
      BY <1>5, <1>6, <2>1 DEF Init, Coming, NoMsg, Msg
  <1>12. NumberInv /\ UnsentInv
    BY <1>3, <1>5, <1>6, <1>11 DEF NumberInv, UnsentInv, NoMsg, Msg
  <1>13. ASSUME NEW r \in Replicas
         PROVE  BufferInv(r) /\ HandlerInv(r)
    <2>1. \A c \in Clients : ~Listening(c)
      BY DEF Init, Listening
    <2>2. {c \in Clients : home[c] = r /\ Listening(c)} = {}
      BY <2>1
    <2>3. HandlerInv(r)
      BY <1>3, <2>2, FS_EmptySet DEF HandlerInv
    <2>4. BufferInv(r)
      <3>1. IsFiniteSet({}) /\ 0 <= ctr
        BY <1>7, FS_EmptySet
      <3> QED
        BY <1>3, <3>1 DEF BufferInv
    <2> QED
      BY <2>3, <2>4
  <1>14. EarlyInv /\ GotInv /\ LiveInOrder /\ OwedInv
    BY <1>7 DEF EarlyInv, GotInv, LiveInOrder, OwedInv, Init
  <1> QED
    BY <1>10, <1>12, <1>13, <1>14 DEF StreamInv

-----------------------------------------------------------------------------
(* The runtime entries, and what the steps leave of a buffer *)

\* An entry that is made has a number, and at most opens its channel.
LEMMA EnsureIs ==
  ASSUME TypeOK, NEW r \in Replicas, HasRuntime(r), EnsureRuntime(r)
  PROVE  /\ cur' \in [Replicas -> 0..2] /\ made' \in [Replicas -> 0..2] /\ cur'[r] \in 1..2
         /\ tr' \in [Replicas -> Buffers]
         /\ \A q \in Replicas :
              /\ tr'[q].handlers = tr[q].handlers /\ tr'[q].subs = tr[q].subs
              /\ tr'[q].next = tr[q].next /\ tr'[q].pend = tr[q].pend
              /\ tr'[q].timer = tr[q].timer
              /\ tr[q].tracked => tr'[q].tracked
              /\ tr[q].chan # "off" => tr'[q].chan = tr[q].chan
  <1>0. cur \in [Replicas -> 0..2] /\ made \in [Replicas -> 0..2] /\ tr \in [Replicas -> Buffers]
    BY DEF TypeOK
  <1>1. CASE cur[r] # 0
    BY <1>0, <1>1 DEF EnsureRuntime
  <1>2. CASE cur[r] = 0
    <2> DEFINE b == [tr[r] EXCEPT !.tracked = TRUE, !.listen = TRUE,
                                  !.chan = IF @ = "off" THEN "joining" ELSE @]
    <2>1. made[r] < 2 /\ made' = [made EXCEPT ![r] = @ + 1] /\ cur' = [cur EXCEPT ![r] = made'[r]]
      BY <1>2 DEF EnsureRuntime, HasRuntime
    <2>2. cur' \in [Replicas -> 0..2] /\ made' \in [Replicas -> 0..2] /\ cur'[r] \in 1..2
      BY <1>0, <2>1
    <2>3. tr' = tr \/ tr' = [tr EXCEPT ![r] = b]
      BY <1>0, <1>2 DEF EnsureRuntime
    <2>4. /\ b \in Buffers /\ b.handlers = tr[r].handlers /\ b.subs = tr[r].subs
          /\ b.next = tr[r].next /\ b.pend = tr[r].pend /\ b.timer = tr[r].timer
          /\ b.tracked /\ (tr[r].chan # "off" => b.chan = tr[r].chan)
      BY <1>0 DEF Buffers
    <2> HIDE DEF b
    <2> QED
      BY <1>0, <2>2, <2>3, <2>4
  <1> QED
    BY <1>1, <1>2

\* A request that registers finds the channel at least joining, and starts the
\* buffer anew when it is the first.
LEMMA AttachIs ==
  ASSUME StreamInv, NEW c \in Clients, Attach(c)
  PROVE  /\ tr' \in [Replicas -> Buffers] /\ got' \in [Clients -> Seq(Messages)]
         /\ \A d \in Clients : d # c => got'[d] = got[d]
         /\ \A i \in DOMAIN got'[c] : got'[c][i].type = "stored"
         /\ c \notin tr[home[c]].handlers
         /\ \A q \in Replicas : q # home[c] => tr'[q] = tr[q]
         /\ LET b == tr[home[c]]
                n == tr'[home[c]] IN
            /\ n.handlers = b.handlers \cup {c} /\ n.tracked /\ n.chan # "off"
            /\ n.subs = b.subs + 1
            /\ b.chan # "off" => n.chan = b.chan
            /\ IF b.handlers = {} THEN n.next = 0 /\ n.pend = {} /\ ~n.timer
               ELSE n.next = b.next /\ n.pend = b.pend /\ n.timer = b.timer
  <1> DEFINE r == home[c]
             b == tr[r]
             e == IF b.subs = 0 THEN Reset(b) ELSE b
             n == [e EXCEPT !.tracked = TRUE, !.subs = @ + 1, !.handlers = @ \cup {c},
                            !.chan = IF @ = "off" THEN "joining" ELSE @]
             g == Write(got[c], <<Msg("stored", 0, 0)>>)
  <1>0. /\ r \in Replicas /\ b \in Buffers /\ tr \in [Replicas -> Buffers]
        /\ got \in [Clients -> Seq(Messages)] /\ pc[c] = "found"
    BY DEF StreamInv, TypeOK, Attach
  <1>1. b.subs = 0 <=> b.handlers = {}
    <2>1. b.subs = Cardinality(b.handlers) /\ IsFiniteSet(b.handlers)
      BY <1>0, StreamAssumption, FS_Subset DEF StreamInv, HandlerInv, Buffers
    <2> QED
      BY <2>1, FS_EmptySet
  <1>2. e \in Buffers /\ e.handlers = b.handlers /\ e.subs = b.subs /\ e.chan = b.chan
        /\ IF b.subs = 0 THEN e.next = 0 /\ e.pend = {} /\ ~e.timer ELSE e = b
    BY <1>0 DEF Reset, Buffers
  <1>3. tr' = [tr EXCEPT ![r] = n]
    BY DEF Attach
  <1>4. c \notin b.handlers
    BY <1>0 DEF StreamInv, HandlerInv, Listening
  <1>5. got[c] = <<>>
    BY <1>0 DEF StreamInv, GotInv, Listening
  <1> HIDE DEF e, r
  <1>6. /\ n \in Buffers /\ n.handlers = b.handlers \cup {c} /\ n.tracked /\ n.chan # "off"
        /\ n.subs = b.subs + 1 /\ n.next = e.next /\ n.pend = e.pend /\ n.timer = e.timer
        /\ (b.chan # "off" => n.chan = b.chan)
    <2> DEFINE ch == IF e.chan = "off" THEN "joining" ELSE e.chan
               hs == e.handlers \cup {c}
    <2>1. ch \in {"joining", "on"} /\ (e.chan # "off" => ch = e.chan)
      BY <1>2 DEF Buffers
    <2>2. n = [e EXCEPT !.tracked = TRUE, !.subs = e.subs + 1, !.handlers = hs, !.chan = ch]
      BY <1>2 DEF Buffers
    <2>3. hs \subseteq Clients /\ e.subs + 1 \in Nat
      BY <1>2 DEF Buffers
    <2> HIDE DEF n, ch
    <2>4. n \in Buffers
      BY <1>2, <2>1, <2>2, <2>3 DEF Buffers
    <2>5. /\ n.handlers = hs /\ n.tracked /\ n.chan = ch /\ n.subs = e.subs + 1
          /\ n.next = e.next /\ n.pend = e.pend /\ n.timer = e.timer
      BY <1>2, <2>2 DEF Buffers
    <2> QED
      BY <1>2, <2>1, <2>4, <2>5
  <1> HIDE DEF n
  <1>7. /\ tr' \in [Replicas -> Buffers] /\ tr'[r] = n
        /\ \A q \in Replicas : q # r => tr'[q] = tr[q]
    BY <1>0, <1>3, <1>6
  <1>8. Msg("stored", 0, 0) \in Messages /\ Msg("stored", 0, 0).type = "stored"
    BY DEF Messages, Msg
  <1>9. g \in Seq(Messages) /\ \A i \in DOMAIN g : g[i].type = "stored"
    <2> DEFINE ms == <<Msg("stored", 0, 0)>>
    <2>1. ms \in Seq(Messages) /\ Len(ms) = 1 /\ ms[1].type = "stored"
      BY <1>8
    <2>2. <<>> \in Seq(Messages) /\ Len(<<>>) = 0
      OBVIOUS
    <2> HIDE DEF ms
    <2> DEFINE w == Write(<<>>, ms)
    <2>3. w \in Seq(Messages) /\ \E k \in 0 .. 1 : DOMAIN w = 1 .. k /\ \A i \in 1 .. k : w[i] = ms[i]
      <3>1. /\ w \in Seq(Messages)
            /\ \E k \in 0 .. Len(ms) :
                 /\ DOMAIN w = 1 .. Len(<<>>) + k
                 /\ \A i \in 1 .. Len(<<>>) + k :
                      w[i] = IF i <= Len(<<>>) THEN <<>>[i] ELSE ms[i - Len(<<>>)]
        BY <2>1, <2>2, WriteIs
      <3>2. PICK k \in 0 .. 1 :
                 /\ DOMAIN w = 1 .. 0 + k
                 /\ \A i \in 1 .. 0 + k :
                      w[i] = IF i <= 0 THEN <<>>[i] ELSE ms[i - 0]
        BY <2>1, <2>2, <3>1
      <3> HIDE DEF w
      <3> QED
        BY <3>1, <3>2
    <2> HIDE DEF w
    <2>4. \A i \in DOMAIN w : w[i].type = "stored"
      BY <2>1, <2>3
    <2> QED
      BY <1>5, <2>3, <2>4 DEF w, ms
  <1> HIDE DEF g
  <1>10. got' = got \/ got' = [got EXCEPT ![c] = g]
    BY <1>0 DEF Attach, g
  <1>11. /\ got' \in [Clients -> Seq(Messages)] /\ \A d \in Clients : d # c => got'[d] = got[d]
         /\ got'[c] \in {<<>>, g}
    BY <1>0, <1>5, <1>9, <1>10
  <1>12. \A i \in DOMAIN got'[c] : got'[c][i].type = "stored"
    BY <1>9, <1>11
  <1> QED
    BY <1>1, <1>2, <1>4, <1>6, <1>7, <1>11, <1>12 DEF r

\* A replay writes only what was kept, and tells the sync how much it was.
LEMMA ReplayIs ==
  ASSUME StreamInv, NEW c \in Clients, Replay(c)
  PROVE  /\ ref[c] \in 1 .. 2
         /\ early' \in [1..2 -> Seq(Messages)]
         /\ \A i \in 1..2 : early'[i] \in {early[i], <<>>}
         /\ count' \in [Clients -> Nat] /\ count'[c] <= ctr
         /\ \A d \in Clients : d # c => count'[d] = count[d]
         /\ got' \in [Clients -> Seq(Messages)]
         /\ \A d \in Clients : d # c => got'[d] = got[d]
         /\ \A i \in DOMAIN got'[c] : \/ i \in DOMAIN got[c] /\ got'[c][i] = got[c][i]
                                      \/ got'[c][i].type = "replayed"
         /\ Ended(c) => Closed(got'[c])
         /\ pc' \in [Clients -> {"off", "found", "joining", "asking", "asked", "live", "left"}]
  <1> DEFINE r == home[c]
             e == IF r = Owner THEN early[ref[c]] ELSE <<>>
             n == IF c \in Resuming THEN 0 ELSE Len(e)
             ms == SubSeq(e, 1, n)
             g == got[c]
             w == Write(g, ms)
  <1>0. /\ r \in Replicas /\ pc[c] = "joining" /\ g \in Seq(Messages)
        /\ got \in [Clients -> Seq(Messages)] /\ early \in [1..2 -> Seq(Messages)]
        /\ count \in [Clients -> Nat] /\ ctr \in Nat
        /\ pc \in [Clients -> {"off", "found", "joining", "asking", "asked", "live", "left"}]
    BY DEF StreamInv, TypeOK, Replay
  <1>1. ref[c] \in 1 .. 2
    <2>1. ref[c] \in 0 .. 2 /\ ref[c] # 0
      BY <1>0 DEF StreamInv, TypeOK, EarlyInv
    <2> QED
      BY <2>1
  <1>2. /\ e \in Seq(Messages) /\ Len(e) <= ctr /\ Len(e) \in Nat
        /\ \A j \in DOMAIN e : e[j].type = "replayed"
    <2>1. CASE r = Owner
      <3>1. e = early[ref[c]]
        BY <2>1
      <3>2. /\ early[ref[c]] \in Seq(Messages) /\ Len(early[ref[c]]) <= ctr
            /\ \A j \in DOMAIN early[ref[c]] : early[ref[c]][j].type = "replayed"
        BY <1>0, <1>1 DEF StreamInv, EarlyInv
      <3> QED
        BY <3>1, <3>2
    <2>2. CASE r # Owner
      <3>1. e = <<>>
        BY <2>2
      <3>2. <<>> \in Seq(Messages) /\ Len(<<>>) = 0 /\ DOMAIN <<>> = 1 .. 0
        OBVIOUS
      <3>3. \A j \in 1 .. 0 : FALSE
        OBVIOUS
      <3> HIDE DEF e
      <3> QED
        BY <1>0, <3>1, <3>2, <3>3
    <2> QED
      BY <2>1, <2>2
  <1>3. \/ /\ pc' = [pc EXCEPT ![c] = "live"] /\ UNCHANGED <<early, count, got>>
        \/ /\ early' = early \/ early' = [early EXCEPT ![ref[c]] = <<>>]
           /\ count' = [count EXCEPT ![c] = n]
           /\ got' = [got EXCEPT ![c] = w]
           /\ pc' = [pc EXCEPT ![c] = "asking"]
    BY <1>0 DEF Replay
  <1> HIDE DEF e
  <1>4. n \in Nat /\ n <= ctr /\ n <= Len(e)
    BY <1>0, <1>2
  <1>5. /\ ms \in Seq(Messages) /\ DOMAIN ms = 1 .. n /\ Len(ms) = n
        /\ \A j \in 1 .. n : ms[j] = e[j]
    BY <1>2, <1>4
  <1>6. \A j \in DOMAIN ms : ms[j].type = "replayed"
    BY <1>2, <1>4, <1>5
  <1> HIDE DEF ms, n, g, w
  <1>7. /\ w \in Seq(Messages)
        /\ \E k \in 0 .. Len(ms) :
             /\ DOMAIN w = 1 .. Len(g) + k
             /\ \A i \in 1 .. Len(g) + k : w[i] = IF i <= Len(g) THEN g[i] ELSE ms[i - Len(g)]
        /\ Closed(g) => Closed(w)
    BY <1>0, <1>5, WriteIs DEF w
  <1>8. Len(g) \in Nat /\ DOMAIN g = 1 .. Len(g)
    BY <1>0
  <1>9. \A i \in DOMAIN w : (i \in DOMAIN g /\ w[i] = g[i]) \/ w[i].type = "replayed"
    <2>1. PICK k \in 0 .. n :
             /\ DOMAIN w = 1 .. Len(g) + k
             /\ \A i \in 1 .. Len(g) + k : w[i] = IF i <= Len(g) THEN g[i] ELSE ms[i - Len(g)]
      BY <1>5, <1>7
    <2>2. \A i \in 1 .. Len(g) + k : i <= Len(g) \/ i - Len(g) \in DOMAIN ms
      BY <1>4, <1>5, <1>8, <2>1
    <2> QED
      BY <1>4, <1>6, <1>8, <2>1, <2>2
  <1>10. Ended(c) => Closed(g)
    BY DEF Ended, Closed, g
  <1>11. /\ \/ /\ got'[c] = g /\ count' = count
            \/ /\ got'[c] = w /\ count'[c] = n
         /\ got' \in [Clients -> Seq(Messages)] /\ \A d \in Clients : d # c => got'[d] = got[d]
         /\ count' \in [Clients -> Nat] /\ \A d \in Clients : d # c => count'[d] = count[d]
         /\ early' \in [1..2 -> Seq(Messages)] /\ \A i \in 1..2 : early'[i] \in {early[i], <<>>}
         /\ pc' \in [Clients -> {"off", "found", "joining", "asking", "asked", "live", "left"}]
    <2>1. <<>> \in Seq(Messages)
      OBVIOUS
    <2>2. CASE pc' = [pc EXCEPT ![c] = "live"] /\ UNCHANGED <<early, count, got>>
      BY <1>0, <2>2 DEF g
    <2>3. CASE /\ early' = early \/ early' = [early EXCEPT ![ref[c]] = <<>>]
               /\ count' = [count EXCEPT ![c] = n]
               /\ got' = [got EXCEPT ![c] = w]
               /\ pc' = [pc EXCEPT ![c] = "asking"]
      <3>1. got'[c] = w /\ got' \in [Clients -> Seq(Messages)]
            /\ \A d \in Clients : d # c => got'[d] = got[d]
        BY <1>0, <1>7, <2>3
      <3>2. count'[c] = n /\ count' \in [Clients -> Nat]
            /\ \A d \in Clients : d # c => count'[d] = count[d]
        BY <1>0, <1>4, <2>3
      <3>3. early' \in [1..2 -> Seq(Messages)] /\ \A i \in 1..2 : early'[i] \in {early[i], <<>>}
        BY <1>0, <1>1, <2>1, <2>3
      <3>4. pc' \in [Clients -> {"off", "found", "joining", "asking", "asked", "live", "left"}]
        BY <1>0, <2>3
      <3> QED
        BY <3>1, <3>2, <3>3, <3>4
    <2> QED
      BY <1>3, <2>2, <2>3
  <1>12. count[c] <= ctr
    BY DEF StreamInv, EarlyInv
  <1> QED
    BY <1>1, <1>4, <1>7, <1>8, <1>9, <1>10, <1>11, <1>12 DEF g

\* Who leaves takes its handlers, and the last one the channel.
LEMMA LeaveIs ==
  ASSUME StreamInv, NEW c \in Clients, Leave(c)
  PROVE  /\ tr' \in [Replicas -> Buffers] /\ c \in tr[home[c]].handlers
         /\ \A q \in Replicas : q # home[c] => tr'[q] = tr[q]
         /\ LET b == tr[home[c]]
                n == tr'[home[c]] IN
            /\ n.handlers = b.handlers \ {c} /\ n.tracked /\ n.subs = Cardinality(n.handlers)
            /\ IF n.handlers = {} THEN n.next = 0 /\ n.pend = {} /\ ~n.timer
               ELSE n.next = b.next /\ n.pend = b.pend /\ n.timer = b.timer /\ n.chan = b.chan
  <1> DEFINE r == home[c]
             b == tr[r]
             less == [b EXCEPT !.handlers = @ \ {c}, !.subs = @ - 1]
             none == [Reset(less) EXCEPT !.chan = "off"]
  <1>0. r \in Replicas /\ b \in Buffers /\ tr \in [Replicas -> Buffers] /\ pc[c] = "live"
    BY DEF StreamInv, TypeOK, Leave
  <1>1. c \in b.handlers
    BY <1>0 DEF StreamInv, HandlerInv, Listening
  <1>2. b.subs = Cardinality(b.handlers) /\ IsFiniteSet(b.handlers) /\ b.tracked
    BY <1>0, <1>1, StreamAssumption, FS_Subset DEF StreamInv, HandlerInv, Buffers
  <1> HIDE DEF r, b
  <1>3. b.subs - 1 = Cardinality(b.handlers \ {c}) /\ b.subs - 1 \in Nat
        /\ (b.subs - 1 = 0 <=> b.handlers \ {c} = {})
    <2>1. IsFiniteSet(b.handlers \ {c}) /\ Cardinality(b.handlers \ {c}) = Cardinality(b.handlers) - 1
      BY <1>1, <1>2, FS_RemoveElement
    <2>2. Cardinality(b.handlers \ {c}) = 0 <=> b.handlers \ {c} = {}
      BY <2>1, FS_EmptySet
    <2>3. Cardinality(b.handlers \ {c}) \in Nat
      BY <2>1, FS_CardinalityType
    <2> QED
      BY <1>2, <2>1, <2>2, <2>3
  <1>4. /\ less \in Buffers /\ less.handlers = b.handlers \ {c} /\ less.subs = b.subs - 1
        /\ less.tracked = b.tracked /\ less.next = b.next /\ less.pend = b.pend
        /\ less.timer = b.timer /\ less.chan = b.chan
    BY <1>0, <1>3 DEF Buffers
  <1>5. tr' = [tr EXCEPT ![r] = IF less.subs # 0 THEN less ELSE none]
    BY <1>2 DEF Leave, r, b
  <1> HIDE DEF less
  <1>6. /\ none \in Buffers /\ none.handlers = less.handlers /\ none.subs = less.subs
        /\ none.tracked = less.tracked /\ none.next = 0 /\ none.pend = {} /\ ~none.timer
    BY <1>4 DEF Reset, Buffers
  <1> HIDE DEF none
  <1>7. /\ tr' \in [Replicas -> Buffers] /\ \A q \in Replicas : q # r => tr'[q] = tr[q]
        /\ tr'[r] = IF less.subs # 0 THEN less ELSE none
    BY <1>0, <1>4, <1>5, <1>6
  <1> QED
    BY <1>1, <1>2, <1>3, <1>4, <1>6, <1>7 DEF r, b

\* An emitted chunk is kept for an entry nobody has subscribed to, if at all.
LEMMA EmitIs ==
  ASSUME StreamInv, EmitChunk
  PROVE  /\ early' \in [1..2 -> Seq(Messages)]
         /\ \A i \in 1..2 : /\ Len(early'[i]) <= ctr + 1
                            /\ \A j \in DOMAIN early'[i] : early'[i][j].type = "replayed"
  <1> DEFINE i == cur[Owner]
             m == Msg("replayed", 0, drv.sent)
  <1>0. /\ Owner \in Replicas /\ i \in 1 .. 2 /\ early \in [1..2 -> Seq(Messages)]
        /\ ctr \in Nat /\ m \in Messages /\ m.type = "replayed"
    <2>1. cur[Owner] \in 0 .. 2 /\ cur[Owner] # 0 /\ drv.sent \in Nat
      BY StreamAssumption DEF StreamInv, TypeOK, EmitChunk, Drivers
    <2> QED
      BY <2>1, StreamAssumption DEF StreamInv, TypeOK, Msg, Messages
  <1>1. early' = early \/ early' = [early EXCEPT ![i] = Append(@, m)]
    BY DEF EmitChunk
  <1>2. \A k \in 1..2 : /\ early[k] \in Seq(Messages) /\ Len(early[k]) <= ctr
                        /\ \A j \in DOMAIN early[k] : early[k][j].type = "replayed"
    BY <1>0 DEF StreamInv, EarlyInv
  <1> HIDE DEF i, m
  <1>3. \A s \in Seq(Messages) :
          /\ Len(s) \in Nat /\ DOMAIN s = 1 .. Len(s)
          /\ Append(s, m) \in Seq(Messages) /\ Len(Append(s, m)) = Len(s) + 1
          /\ DOMAIN Append(s, m) = 1 .. Len(s) + 1
          /\ \A j \in 1 .. Len(s) : Append(s, m)[j] = s[j]
          /\ Append(s, m)[Len(s) + 1] = m
    BY <1>0
  <1>4. \A k \in 1..2 : /\ Append(early[k], m) \in Seq(Messages)
                        /\ Len(Append(early[k], m)) <= ctr + 1
                        /\ \A j \in DOMAIN Append(early[k], m) : Append(early[k], m)[j].type = "replayed"
    <2> TAKE k \in 1..2
    <2> DEFINE s == early[k]
               t == Append(s, m)
    <2>1. /\ s \in Seq(Messages) /\ Len(s) <= ctr /\ Len(s) \in Nat
          /\ \A j \in 1 .. Len(s) : s[j].type = "replayed"
      BY <1>2, <1>3
    <2>2. /\ t \in Seq(Messages) /\ Len(t) = Len(s) + 1 /\ DOMAIN t = 1 .. Len(s) + 1
          /\ (\A j \in 1 .. Len(s) : t[j] = s[j]) /\ t[Len(s) + 1] = m
      BY <1>3, <2>1
    <2> HIDE DEF s, t
    <2>3. \A j \in 1 .. Len(s) + 1 : j \in 1 .. Len(s) \/ j = Len(s) + 1
      BY <2>1
    <2>4. Len(t) <= ctr + 1 /\ \A j \in DOMAIN t : t[j].type = "replayed"
      BY <1>0, <2>1, <2>2, <2>3
    <2> QED
      BY <2>2, <2>4 DEF s, t
  <1>5. \A k \in 1..2 : early'[k] = early[k] \/ early'[k] = Append(early[k], m)
    BY <1>0, <1>1
  <1>6. \A k \in 1..2 : Len(early[k]) \in Nat /\ Len(early[k]) <= ctr + 1
    BY <1>0, <1>2, <1>3
  <1>7. early' \in [1..2 -> Seq(Messages)]
    BY <1>0, <1>1, <1>4
  <1> QED
    BY <1>2, <1>4, <1>5, <1>6, <1>7

-----------------------------------------------------------------------------
(* TypeOK *)

LEMMA ClientTypes ==
  ASSUME StreamInv, NEW c \in Clients, Lookup(c) \/ Request(c) \/ Leave(c)
  PROVE  TypeOK'
  <1> USE DEF redis, rtvars, wire, cvars, hist
  <1>0. TypeOK /\ home[c] \in Replicas
    BY DEF StreamInv, TypeOK
  <1>1. CASE Lookup(c)
    <2>1. CASE HasRuntime(home[c])
      <3>1. /\ cur' \in [Replicas -> 0..2] /\ made' \in [Replicas -> 0..2]
            /\ tr' \in [Replicas -> Buffers] /\ cur'[home[c]] \in 0..2
        BY <1>0, <1>1, <2>1, EnsureIs DEF Lookup
      <3> QED
        BY <1>0, <1>1, <2>1, <3>1 DEF Lookup, TypeOK
    <2>2. CASE ~HasRuntime(home[c])
      BY <1>0, <1>1, <2>2 DEF Lookup, TypeOK
    <2> QED
      BY <2>1, <2>2
  <1>2. CASE Attach(c)
    <2>1. tr' \in [Replicas -> Buffers]
      BY <1>0, <1>2, AttachIs
    <2>2. got' \in [Clients -> Seq(Messages)]
      BY <1>2, AttachIs
    <2> QED
      BY <1>0, <1>2, <2>1, <2>2 DEF Attach, TypeOK
  <1>3. CASE Replay(c)
    <2>1. /\ got' \in [Clients -> Seq(Messages)] /\ early' \in [1..2 -> Seq(Messages)]
          /\ count' \in [Clients -> Nat] /\ ref[c] \in 1 .. 2
          /\ pc' \in [Clients -> {"off", "found", "joining", "asking", "asked", "live", "left"}]
      BY <1>3, ReplayIs
    <2>2. subbed' \subseteq Entries
      <3>1. subbed' = subbed \/ subbed' = subbed \cup {<<home[c], ref[c]>>}
        BY <1>3 DEF Replay
      <3> QED
        BY <1>0, <2>1, <3>1 DEF TypeOK, Entries
    <2>3. whole' \subseteq Clients
      <3>1. whole' = whole \/ whole' = whole \cup {c}
        BY <1>3 DEF Replay
      <3> QED
        BY <1>0, <3>1 DEF TypeOK
    <2> QED
      BY <1>0, <1>3, <2>1, <2>2, <2>3 DEF Replay, TypeOK
  <1>4. CASE GetCounter(c)
    BY <1>0, <1>4 DEF GetCounter, TypeOK
  <1>5. CASE SyncBuffer(c)
    <2>1. tr' \in [Replicas -> Buffers] /\ got' \in [Clients -> Seq(Messages)]
      BY <1>0, <1>5, SyncDelivers, DeliveryBuffers, DeliveryGot
    <2>2. owed' \subseteq owed
      BY <1>5 DEF SyncBuffer, Deliver
    <2> QED
      BY <1>0, <1>5, <2>1, <2>2 DEF SyncBuffer, TypeOK
  <1>6. CASE Leave(c)
    <2>1. tr' \in [Replicas -> Buffers]
      BY <1>6, LeaveIs
    <2>2. subbed' \subseteq subbed
      BY <1>6 DEF Leave
    <2>3. <<>> \in Seq(Messages)
      OBVIOUS
    <2> QED
      BY <1>0, <1>6, <2>1, <2>2, <2>3 DEF Leave, TypeOK
  <1> QED
    BY <1>1, <1>2, <1>3, <1>4, <1>5, <1>6 DEF Request

\* What is published is a message, and a final event is one.
LEMMA DriverTypes ==
  ASSUME StreamInv, Driver \/ AbortSignal \/ Abort
  PROVE  TypeOK'
  <1> USE DEF redis, rtvars, wire, cvars, hist
  <1>0. /\ TypeOK /\ Owner \in Replicas /\ ctr \in Nat /\ drv.sent \in Nat
        /\ drv.msg \in Messages /\ abt.msg \in Messages /\ abt.at \in Replicas
    BY StreamAssumption DEF StreamInv, TypeOK, Drivers, Aborts
  <1>1. NoMsg \in Messages /\ Msg("chunk", ctr, drv.sent) \in Messages
        /\ Msg("final", ctr, 0) \in Messages /\ Msg("abort", 0, 0) \in Messages
        /\ Msg("replayed", 0, drv.sent) \in Messages
    BY <1>0 DEF NoMsg, Msg, Messages, LiveTypes
  <1>2. drv \in Drivers /\ abt \in Aborts
    BY <1>0 DEF TypeOK
  <1>3. drv' \in Drivers
    <2>1. ASSUME NEW n \in Nat, NEW m \in Messages,
                 drv' = [drv EXCEPT !.pc = "chunk", !.sent = n, !.msg = m]
          PROVE  drv' \in Drivers
      BY <1>2, <2>1 DEF Drivers
    <2>2. CASE drv' = [drv EXCEPT !.pc = "run", !.msg = NoMsg, !.lost = drv.lost \cup {drv.msg.k}]
      <3>1. drv.lost \cup {drv.msg.k} \in SUBSET Nat
        BY <1>0, <1>2 DEF Drivers, Messages
      <3> QED
        BY <1>1, <1>2, <2>2, <3>1 DEF Drivers
    <2>3. ASSUME NEW p \in {"run", "over", "final"}, drv' = [drv EXCEPT !.pc = p]
          PROVE  drv' \in Drivers
      BY <1>2, <2>3 DEF Drivers
    <2>4. ASSUME NEW p \in {"over", "final"}, NEW h \in {"done", "aborted", "error"}, NEW m \in Messages,
                 drv' = [drv EXCEPT !.pc = p, !.how = h] \/ drv' = [drv EXCEPT !.pc = p, !.how = h, !.msg = m]
          PROVE  drv' \in Drivers
      BY <1>2, <2>4 DEF Drivers
    <2>5. ASSUME NEW p \in {"run", "store", "publish"}, NEW m \in Messages,
                 drv' = [drv EXCEPT !.pc = p, !.msg = m]
          PROVE  drv' \in Drivers
      BY <1>2, <2>5 DEF Drivers
    <2>6. CASE drv' = drv
      BY <1>2, <2>6
    <2>7. CASE SendFails \/ PublishFinal
      <3>1. \/ drv' = [drv EXCEPT !.pc = "store", !.msg = NoMsg]
            \/ \E p \in {"over", "final"} : drv' = [drv EXCEPT !.pc = p, !.how = "error", !.msg = NoMsg]
        BY <2>7 DEF SendFails, PublishFinal, CompleteJob, Caught
      <3> QED
        BY <1>1, <2>4, <2>5, <3>1
    <2>8. CASE Finish \/ Fail
      <3>1. drv.how \in {"done", "aborted", "error"}
        BY <1>2 DEF Drivers
      <3>2. \/ drv' = [drv EXCEPT !.pc = "over"]
            \/ \E h \in {"done", "aborted", "error"} : drv' = [drv EXCEPT !.pc = "final", !.how = h]
            \/ \E p \in {"over", "final"} : drv' = [drv EXCEPT !.pc = p, !.how = "error", !.msg = NoMsg]
        BY <2>8, <3>1 DEF Finish, Fail, Caught
      <3> QED
        BY <1>1, <2>3, <2>4, <3>2
    <2>9. CASE ~SendFails /\ ~PublishFinal /\ ~Finish /\ ~Fail
      <3>1. \/ /\ drv.sent + 1 \in Nat
               /\ drv' = [drv EXCEPT !.pc = "chunk", !.sent = drv.sent + 1,
                                     !.msg = Msg("chunk", ctr, drv.sent)]
            \/ drv' = [drv EXCEPT !.pc = "run", !.msg = NoMsg, !.lost = drv.lost \cup {drv.msg.k}]
            \/ \E p \in {"run", "over", "final"} : drv' = [drv EXCEPT !.pc = p]
            \/ \E p \in {"run", "store", "publish"} :
                 \/ drv' = [drv EXCEPT !.pc = p, !.msg = NoMsg]
                 \/ drv' = [drv EXCEPT !.pc = p, !.msg = Msg("final", ctr, 0)]
            \/ drv' = drv
        BY <1>0, <2>9 DEF Driver, Abort, EmitChunk, PublishChunk, NumberFinal, StoreEnd,
               AbortSignal, AbortNumber, AbortPublish, AbortFails, AbortDelete
      <3> QED
        BY <1>1, <2>1, <2>2, <2>3, <2>5, <2>6, <3>1
    <2> QED
      BY <2>7, <2>8, <2>9
  <1>4. abt' \in Aborts
    <2>1. ASSUME NEW p \in {"number", "over"}, abt' = [abt EXCEPT !.pc = p]
          PROVE  abt' \in Aborts
      BY <1>2, <2>1 DEF Aborts
    <2>2. ASSUME NEW p \in {"publish", "delete", "over"}, NEW m \in Messages,
                 abt' = [abt EXCEPT !.pc = p, !.msg = m]
          PROVE  abt' \in Aborts
      BY <1>2, <2>2 DEF Aborts
    <2>3. CASE abt' = abt
      BY <1>2, <2>3
    <2> QED
      BY <1>1, <2>1, <2>2, <2>3
         DEF Driver, Abort, EmitChunk, PublishChunk, Finish, Fail, NumberFinal, PublishFinal,
             SendFails, StoreEnd, AbortSignal, AbortNumber, AbortPublish, AbortFails, AbortDelete
  <1>5. owed \cup {<<c, ctr>> : c \in Live} \subseteq Clients \X Nat
    BY <1>0 DEF Live, TypeOK
  <1>6. ASSUME NEW m \in Messages, Publish(m)
        PROVE  net' \in [Replicas -> Seq(Messages)]
    BY <1>0, <1>6, PublishIs
  <1>7. CASE EmitChunk
    <2>1. early' \in [1..2 -> Seq(Messages)]
      BY <1>7, EmitIs
    <2> QED
      BY <1>0, <1>3, <1>4, <1>7, <2>1 DEF EmitChunk, TypeOK
  <1>8. CASE PublishChunk
    <2>1. net' \in [Replicas -> Seq(Messages)]
      BY <1>0, <1>6, <1>8 DEF PublishChunk, TypeOK
    <2> QED
      BY <1>0, <1>3, <1>4, <1>8, <2>1 DEF PublishChunk, TypeOK
  <1>9. CASE Finish
    <2>1. /\ cur' \in [Replicas -> 0..2] /\ made' \in [Replicas -> 0..2]
          /\ tr' \in [Replicas -> Buffers]
      BY <1>0, <1>9, EnsureIs DEF Finish, TypeOK
    <2> QED
      BY <1>0, <1>3, <1>4, <1>9, <2>1 DEF Finish, TypeOK
  <1>10. CASE Fail
    BY <1>0, <1>3, <1>4, <1>10 DEF Fail, TypeOK
  <1>20. ASSUME CompleteJob
         PROVE  dead' \subseteq Entries /\ cur' \in [Replicas -> 0..2]
    <2>1. cur \in [Replicas -> 0..2] /\ cur[Owner] \in 0 .. 2 /\ dead \subseteq Entries
      BY <1>0 DEF TypeOK
    <2>2. dead' = dead \/ (cur[Owner] # 0 /\ dead' = dead \cup {<<Owner, cur[Owner]>>})
      BY <1>20 DEF CompleteJob
    <2>3. cur' = cur \/ cur' = [cur EXCEPT ![Owner] = 0]
      BY <1>20 DEF CompleteJob, DropRuntime
    <2>4. dead' \subseteq Entries
      BY <1>0, <2>1, <2>2 DEF Entries
    <2> QED
      BY <1>0, <2>1, <2>3, <2>4
  <1>21. ASSUME NEW m \in Messages, Throws(m)
         PROVE  net' \in [Replicas -> Seq(Messages)] /\ owed' \subseteq Clients \X Nat
    BY <1>0, <1>6, <1>21 DEF Throws, TypeOK
  <1>11. CASE NumberFinal
    BY <1>0, <1>3, <1>4, <1>5, <1>11 DEF NumberFinal, TypeOK
  <1>12. CASE PublishFinal
    <2>1. net' \in [Replicas -> Seq(Messages)]
      BY <1>0, <1>6, <1>12 DEF PublishFinal
    <2> QED
      BY <1>0, <1>3, <1>4, <1>12, <1>20, <2>1 DEF PublishFinal, TypeOK
  <1>18. CASE SendFails
    <2>1. net' \in [Replicas -> Seq(Messages)] /\ owed' \subseteq Clients \X Nat
      BY <1>0, <1>18, <1>21 DEF SendFails, TypeOK
    <2>2. dead' \subseteq Entries /\ cur' \in [Replicas -> 0..2]
      BY <1>0, <1>18, <1>20 DEF SendFails, TypeOK
    <2> QED
      BY <1>0, <1>3, <1>4, <1>18, <2>1, <2>2 DEF SendFails, TypeOK
  <1>13. CASE StoreEnd
    BY <1>0, <1>3, <1>4, <1>13 DEF StoreEnd, TypeOK
  <1>14. CASE AbortSignal
    <2>1. /\ cur' \in [Replicas -> 0..2] /\ made' \in [Replicas -> 0..2]
          /\ tr' \in [Replicas -> Buffers] /\ cur'[abt.at] \in 1 .. 2
      BY <1>0, <1>14, EnsureIs DEF AbortSignal
    <2>2. net' \in [Replicas -> Seq(Messages)]
      BY <1>0, <1>1, <1>6, <1>14 DEF AbortSignal, TypeOK
    <2>3. dead' \subseteq Entries
      BY <1>0, <1>14, <2>1 DEF AbortSignal, TypeOK, Entries
    <2> QED
      BY <1>0, <1>3, <1>4, <1>14, <2>1, <2>2, <2>3 DEF AbortSignal, TypeOK
  <1>15. CASE AbortNumber
    BY <1>0, <1>3, <1>4, <1>5, <1>15 DEF AbortNumber, TypeOK
  <1>16. CASE AbortPublish
    <2>1. net' \in [Replicas -> Seq(Messages)]
      BY <1>0, <1>6, <1>16 DEF AbortPublish
    <2>2. cur' \in [Replicas -> 0..2]
      <3>1. cur' = [cur EXCEPT ![abt.at] = 0]
        BY <1>16 DEF AbortPublish, DropRuntime
      <3>2. cur \in [Replicas -> 0..2]
        BY <1>0 DEF TypeOK
      <3> QED
        BY <1>0, <3>1, <3>2
    <2> QED
      BY <1>0, <1>3, <1>4, <1>16, <2>1, <2>2 DEF AbortPublish, TypeOK
  <1>17. CASE AbortDelete
    BY <1>0, <1>3, <1>4, <1>17 DEF AbortDelete, TypeOK
  <1>19. CASE AbortFails
    <2>1. net' \in [Replicas -> Seq(Messages)] /\ owed' \subseteq Clients \X Nat
      BY <1>0, <1>19, <1>21 DEF AbortFails, TypeOK
    <2> QED
      BY <1>0, <1>3, <1>4, <1>19, <2>1 DEF AbortFails, TypeOK
  <1> QED
    BY <1>7, <1>8, <1>9, <1>10, <1>11, <1>12, <1>13, <1>14, <1>15, <1>16, <1>17, <1>18, <1>19
       DEF Driver, Abort

LEMMA ReplicaTypes ==
  ASSUME StreamInv, NEW r \in Replicas,
         Joined(r) \/ FlushTimeout(r) \/ \E i \in DOMAIN net[r] : HandleMessage(r, i)
  PROVE  TypeOK'
  <1> USE DEF redis, rtvars, wire, cvars, hist
  <1>0. TypeOK
    BY DEF StreamInv
  <1>1. CASE Joined(r)
    <2>1. tr[r] \in Buffers
      BY <1>0 DEF TypeOK
    <2>2. [tr[r] EXCEPT !.chan = "on"] \in Buffers
      BY <2>1 DEF Buffers
    <2> QED
      BY <1>0, <1>1, <2>2 DEF Joined, TypeOK
  <1>2. CASE FlushTimeout(r)
    <2>1. tr' \in [Replicas -> Buffers] /\ got' \in [Clients -> Seq(Messages)]
      BY <1>2, FlushTimeoutDelivers, DeliveryBuffers, DeliveryGot
    <2>2. owed' \subseteq owed
      BY <1>2 DEF FlushTimeout, Deliver
    <2> QED
      BY <1>0, <1>2, <2>1, <2>2 DEF FlushTimeout, TypeOK
  <1>3. ASSUME NEW i \in DOMAIN net[r], HandleMessage(r, i)
        PROVE  TypeOK'
    <2>1. net' \in [Replicas -> Seq(Messages)]
      BY <1>0, <1>3, RemoveAtIs DEF HandleMessage, TypeOK
    <2>2. dead' \subseteq Entries
      BY <1>0, <1>3 DEF HandleMessage, TypeOK, Entries
    <2>3. tr' \in [Replicas -> Buffers] /\ got' \in [Clients -> Seq(Messages)] /\ owed' \subseteq owed
      <3>1. CASE net[r][i].type # "abort" /\ tr[r].tracked
        <4>1. tr' \in [Replicas -> Buffers] /\ got' \in [Clients -> Seq(Messages)]
          BY <1>3, <3>1, HandleDelivers, DeliveryBuffers, DeliveryGot
        <4>2. owed' \subseteq owed
          BY <1>3, <3>1 DEF HandleMessage, Deliver
        <4> QED
          BY <4>1, <4>2
      <3>2. CASE net[r][i].type = "abort" \/ ~tr[r].tracked
        BY <1>0, <1>3, <3>2 DEF HandleMessage, TypeOK
      <3> QED
        BY <3>1, <3>2
    <2>4. disturbed' \in BOOLEAN
      BY <1>3 DEF HandleMessage
    <2> QED
      BY <1>0, <1>3, <2>1, <2>2, <2>3, <2>4 DEF HandleMessage, TypeOK
  <1> QED
    BY <1>1, <1>2, <1>3

-----------------------------------------------------------------------------
(* The kinds of steps *)

\* A step leaves who holds the buffer b, and closes no channel.
Holds(b, n) ==
  /\ n.handlers = b.handlers /\ n.subs = b.subs
  /\ b.tracked => n.tracked
  /\ b.chan # "off" => n.chan # "off"
  /\ b.chan = "on" => n.chan = "on"

\* A request at r is past its replay: what is published reaches r.
Past(r) == \E c \in tr[r].handlers : pc[c] # "joining"

\* Nothing gets a number or is delivered, and no final event is lost but those
\* that are not owed any more.
Passing ==
  /\ ctr' = ctr /\ home' = home /\ owed' \subseteq owed
  /\ \A r \in Replicas :
       /\ Holds(tr[r], tr'[r])
       /\ tr'[r].next = tr[r].next /\ tr'[r].pend = tr[r].pend /\ tr'[r].timer = tr[r].timer
       /\ Coming(r)' \subseteq Coming(r)
       /\ \A m \in Coming(r) : m.type = "final" /\ Past(r)
            => m \in Coming(r)' \/ \A o \in owed' : o[2] # m.seq

\* m gets the next number, and is owed to the live clients if it is final.
Numbering(m) ==
  /\ m \in Messages /\ m.type \in LiveTypes /\ m.seq = ctr /\ ctr' = ctr + 1
  /\ UNCHANGED <<tr, cvars>>
  /\ \A r \in Replicas : Coming(r)' = Coming(r) \cup {m}
  /\ owed' = owed \/ (m.type = "final" /\ owed' = owed \cup {<<c, ctr>> : c \in Live})

\* The buffer of r is run on ms.
Delivering(r, ms, res) ==
  /\ r \in Replicas /\ Delivery(r, ms, res) /\ ctr' = ctr /\ home' = home
  /\ \A q \in Replicas :
       /\ Coming(q)' \subseteq Coming(q)
       /\ \A m \in Coming(q) : m \in Coming(q)' \/ (q = r /\ m \in ms)

\* A published message was on its way before, and is.
LEMMA PublishPasses ==
  ASSUME StreamInv, NEW m \in Messages, Publish(m),
         m.type = "abort" \/ (m \in {drv.msg, abt.msg} /\ m.type # "none"),
         drv'.msg \in {drv.msg, NoMsg}, abt'.msg \in {abt.msg, NoMsg},
         \A x \in {drv.msg, abt.msg} : x.type = "none" \/ x = m \/ x \in {drv'.msg, abt'.msg},
         NEW r \in Replicas
  PROVE  /\ Coming(r)' \subseteq Coming(r)
         /\ \A x \in Coming(r) : Past(r) => x \in Coming(r)'
  <1>1. /\ Range(net'[r]) \subseteq Range(net[r]) \cup {m}
        /\ Range(net[r]) \subseteq Range(net'[r])
        /\ tr[r].chan = "on" /\ Visited(r) => m \in Range(net'[r])
    BY PublishIs DEF StreamInv
  <1>2. NoMsg.type = "none"
    BY DEF NoMsg, Msg
  <1>3. Coming(r)' \subseteq Coming(r)
    BY <1>1, <1>2 DEF Coming
  <1>4. ASSUME Past(r)
        PROVE  tr[r].chan = "on" /\ Visited(r)
    BY <1>4 DEF Past, StreamInv, HandlerInv, Visited
  <1>5. ASSUME Past(r), NEW x \in Coming(r)
        PROVE  x \in Coming(r)'
    <2>1. CASE x \in Range(net[r]) /\ x.type # "abort"
      BY <1>1, <2>1 DEF Coming
    <2>2. CASE x \in {drv.msg, abt.msg} /\ x.type # "none" /\ x.type # "abort"
      BY <1>1, <1>4, <1>5, <2>2 DEF Coming
    <2>3. x.type # "abort"
      BY <1>5 DEF StreamInv, NumberInv, LiveTypes
    <2> QED
      BY <1>5, <2>1, <2>2, <2>3 DEF Coming
  <1> QED
    BY <1>3, <1>5

LEMMA SameComing ==
  ASSUME UNCHANGED net, drv'.msg = drv.msg, abt'.msg = abt.msg, NEW r \in Replicas
  PROVE  Coming(r)' = Coming(r)
  BY DEF Coming

LEMMA SameHolds ==
  ASSUME NEW b
  PROVE  Holds(b, b)
  BY DEF Holds

\* What the driver and an abort do.
LEMMA DriverKinds ==
  ASSUME StreamInv, Driver \/ AbortSignal \/ Abort
  PROVE  /\ UNCHANGED cvars
         /\ Passing \/ \E m \in Messages : Numbering(m)
  <1> USE DEF redis, rtvars, wire, hist
  <1>0. /\ TypeOK /\ Owner \in Replicas /\ ctr \in Nat /\ drv.sent \in Nat
        /\ drv \in Drivers /\ abt \in Aborts /\ drv.msg \in Messages /\ abt.msg \in Messages
        /\ abt.at \in Replicas
    BY StreamAssumption DEF StreamInv, TypeOK, Drivers, Aborts
  <1>1. UNCHANGED cvars
    BY DEF Driver, Abort, EmitChunk, PublishChunk, Finish, Fail, NumberFinal, PublishFinal,
           SendFails, StoreEnd, AbortSignal, AbortNumber, AbortPublish, AbortFails, AbortDelete
  <1>2. ASSUME NEW m \in Messages, m.type \in LiveTypes, m.seq = ctr, ctr' = ctr + 1,
               UNCHANGED <<net, tr>>,
               \/ drv.msg.type = "none" /\ drv'.msg = m /\ abt'.msg = abt.msg
               \/ abt.msg.type = "none" /\ abt'.msg = m /\ drv'.msg = drv.msg,
               owed' = owed \/ (m.type = "final" /\ owed' = owed \cup {<<c, ctr>> : c \in Live})
        PROVE  Numbering(m)
    <2>1. \A r \in Replicas : Coming(r)' = Coming(r) \cup {m}
      BY <1>2 DEF Coming, LiveTypes
    <2> QED
      BY <1>1, <1>2, <2>1 DEF Numbering
  <1>3. ASSUME tr' = tr, ctr' = ctr, owed' = owed, NEW m \in Messages, Publish(m),
               m.type = "abort" \/ (m \in {drv.msg, abt.msg} /\ m.type # "none"),
               drv'.msg \in {drv.msg, NoMsg}, abt'.msg \in {abt.msg, NoMsg},
               \A x \in {drv.msg, abt.msg} : x.type = "none" \/ x = m \/ x \in {drv'.msg, abt'.msg}
        PROVE  Passing
    BY <1>1, <1>3, PublishPasses, SameHolds DEF Passing, cvars
  <1>4. ASSUME ctr' = ctr, owed' = owed, net' = net, drv'.msg = drv.msg, abt'.msg = abt.msg,
               tr' = tr \/ \E r \in Replicas : HasRuntime(r) /\ EnsureRuntime(r)
        PROVE  Passing
    <2>1. \A r \in Replicas :
            /\ tr'[r].next = tr[r].next /\ tr'[r].pend = tr[r].pend /\ tr'[r].timer = tr[r].timer
            /\ Holds(tr[r], tr'[r])
      BY <1>0, <1>4, EnsureIs DEF Holds
    <2> QED
      BY <1>1, <1>4, <2>1, SameComing DEF Passing, cvars
  <1>17. ASSUME tr' = tr, ctr' = ctr, Throws(drv.msg) \/ Throws(abt.msg),
                drv'.msg \in {drv.msg, NoMsg}, abt'.msg \in {abt.msg, NoMsg},
                \/ drv.msg.type = "final" /\ drv'.msg = NoMsg /\ abt'.msg = abt.msg /\ Throws(drv.msg)
                \/ abt.msg.type = "final" /\ abt'.msg = NoMsg /\ drv'.msg = drv.msg /\ Throws(abt.msg)
         PROVE  Passing
    <2>1. PICK m \in {drv.msg, abt.msg} :
            /\ m \in Messages /\ m.type = "final" /\ Throws(m) /\ m = Msg("final", m.seq, 0)
            /\ \A x \in {drv.msg, abt.msg} : x = m \/ x \in {drv'.msg, abt'.msg}
            /\ {drv'.msg, abt'.msg} \subseteq {drv.msg, abt.msg, NoMsg}
      BY <1>0, <1>17 DEF StreamInv, UnsentInv
    <2>2. CASE Publish(m) /\ owed' = owed
      BY <1>3, <1>17, <2>1, <2>2
    <2>3. CASE net' = net /\ owed' = {o \in owed : Msg("final", o[2], 0) # m}
      <3>1. owed' \subseteq owed /\ \A o \in owed' : o[2] # m.seq
        BY <2>1, <2>3
      <3>2. NoMsg.type = "none"
        BY DEF NoMsg, Msg
      <3>3. \A r \in Replicas : /\ Coming(r)' \subseteq Coming(r)
                                /\ \A x \in Coming(r) : x = m \/ x \in Coming(r)'
        BY <2>1, <2>3, <3>2 DEF Coming
      <3> QED
        BY <1>1, <1>17, <3>1, <3>3, SameHolds DEF Passing, cvars
    <2> QED
      BY <2>1, <2>2, <2>3 DEF Throws
  <1>5. ASSUME NEW t \in LiveTypes, NEW k \in Nat
        PROVE  Msg(t, ctr, k) \in Messages /\ Msg(t, ctr, k).type = t /\ Msg(t, ctr, k).seq = ctr
    BY <1>0 DEF Msg, Messages
  <1>6. CASE EmitChunk
    <2>1. drv'.msg = Msg("chunk", ctr, drv.sent) /\ drv.msg.type = "none" /\ abt' = abt
      BY <1>0, <1>6 DEF EmitChunk, StreamInv, UnsentInv, Drivers
    <2>2. Numbering(Msg("chunk", ctr, drv.sent))
      BY <1>0, <1>2, <1>5, <1>6, <2>1 DEF EmitChunk, LiveTypes
    <2> QED
      BY <1>0, <1>1, <1>5, <2>2 DEF LiveTypes
  <1>7. CASE PublishChunk
    <2>1. /\ drv'.msg = NoMsg /\ abt' = abt /\ drv.msg.type = "chunk"
      BY <1>0, <1>7 DEF PublishChunk, StreamInv, UnsentInv, Drivers
    <2>2. CASE Publish(drv.msg)
      BY <1>0, <1>1, <1>3, <1>7, <2>1, <2>2 DEF PublishChunk
    <2>3. CASE net' = net
      <3>1. \A r \in Replicas : /\ Coming(r)' \subseteq Coming(r)
                                /\ \A m \in Coming(r) : m.type = "final" => m \in Coming(r)'
        BY <2>1, <2>3 DEF Coming, NoMsg, Msg
      <3> QED
        BY <1>1, <1>7, <3>1, SameHolds DEF PublishChunk, Passing, cvars
    <2> QED
      BY <1>7, <2>2, <2>3 DEF PublishChunk
  <1>8. CASE Finish
    <2>1. drv'.msg = drv.msg /\ abt' = abt
      BY <1>0, <1>8 DEF Finish, Drivers
    <2> QED
      BY <1>0, <1>1, <1>4, <1>8, <2>1 DEF Finish
  <1>9. CASE Fail
    <2>1. drv'.msg = NoMsg
      BY <1>0, <1>9 DEF Fail, Caught, Drivers
    <2>2. drv.msg.type = "none" /\ drv'.msg.type = "none"
      BY <1>9, <2>1 DEF Fail, StreamInv, UnsentInv, NoMsg, Msg
    <2>3. \A r \in Replicas : Coming(r)' = Coming(r)
      BY <1>9, <2>2 DEF Fail, Coming
    <2> QED
      BY <1>1, <1>9, <2>1, <2>3, SameHolds DEF Fail, Passing, cvars
  <1>10. CASE NumberFinal
    <2>1. drv'.msg = Msg("final", ctr, 0) /\ drv.msg.type = "none" /\ abt' = abt
      BY <1>0, <1>10 DEF NumberFinal, StreamInv, UnsentInv, Drivers
    <2>2. Numbering(Msg("final", ctr, 0))
      BY <1>2, <1>5, <1>10, <2>1 DEF NumberFinal, LiveTypes
    <2> QED
      BY <1>1, <1>5, <2>2 DEF LiveTypes
  <1>11. CASE PublishFinal
    <2>1. drv'.msg = NoMsg /\ abt' = abt /\ drv.msg.type = "final"
      BY <1>0, <1>11 DEF PublishFinal, CompleteJob, Drivers, StreamInv, UnsentInv
    <2> QED
      BY <1>0, <1>1, <1>3, <1>11, <2>1 DEF PublishFinal
  <1>12. CASE StoreEnd
    <2>1. drv'.msg = drv.msg /\ abt' = abt
      BY <1>0, <1>12 DEF StoreEnd, Drivers
    <2> QED
      BY <1>1, <1>4, <1>12, <2>1 DEF StoreEnd
  <1>13. CASE AbortSignal
    <2> DEFINE m == Msg("abort", 0, 0)
    <2>1. abt'.msg = abt.msg /\ drv' = drv
      BY <1>0, <1>13 DEF AbortSignal, Aborts
    <2>2. m \in Messages /\ m.type = "abort"
      BY DEF Msg, Messages
    <2>3. Publish(m) \/ net' = net
      BY <1>13 DEF AbortSignal
    <2>4. \A r \in Replicas :
            /\ tr'[r].next = tr[r].next /\ tr'[r].pend = tr[r].pend /\ tr'[r].timer = tr[r].timer
            /\ Holds(tr[r], tr'[r])
      BY <1>0, <1>13, EnsureIs DEF AbortSignal, Holds
    <2> HIDE DEF m
    <2>5. \A r \in Replicas : /\ Coming(r)' \subseteq Coming(r)
                              /\ \A x \in Coming(r) : Past(r) => x \in Coming(r)'
      <3>1. CASE Publish(m)
        BY <2>1, <2>2, <3>1, PublishPasses
      <3>2. CASE net' = net
        BY <2>1, <3>2, SameComing
      <3> QED
        BY <2>3, <3>1, <3>2
    <2> QED
      BY <1>1, <1>13, <2>4, <2>5 DEF AbortSignal, Passing, cvars
  <1>14. CASE AbortNumber
    <2>1. abt'.msg = Msg("final", ctr, 0) /\ abt.msg.type = "none" /\ drv' = drv
      BY <1>0, <1>14 DEF AbortNumber, StreamInv, UnsentInv, Aborts
    <2>2. Numbering(Msg("final", ctr, 0))
      BY <1>2, <1>5, <1>14, <2>1 DEF AbortNumber, LiveTypes
    <2> QED
      BY <1>1, <1>5, <2>2 DEF LiveTypes
  <1>15. CASE AbortPublish
    <2>1. abt'.msg = NoMsg /\ drv' = drv /\ abt.msg.type = "final"
      BY <1>0, <1>15 DEF AbortPublish, Aborts, StreamInv, UnsentInv
    <2> QED
      BY <1>0, <1>1, <1>3, <1>15, <2>1 DEF AbortPublish
  <1>16. CASE AbortDelete
    <2>1. abt'.msg = abt.msg /\ drv' = drv
      BY <1>0, <1>16 DEF AbortDelete, Aborts
    <2> QED
      BY <1>1, <1>4, <1>16, <2>1 DEF AbortDelete
  <1>18. CASE SendFails
    <2>1. drv'.msg = NoMsg /\ abt' = abt /\ tr' = tr /\ ctr' = ctr
      BY <1>0, <1>18 DEF SendFails, CompleteJob, Caught, Drivers
    <2>2. CASE drv.pc = "publish" /\ Throws(drv.msg)
      <3>1. drv.msg.type = "final"
        BY <2>2 DEF StreamInv, UnsentInv
      <3> QED
        BY <1>1, <1>17, <2>1, <2>2, <3>1
    <2>3. CASE drv.pc = "final" /\ net' = net /\ owed' = owed
      <3>1. drv.msg.type = "none" /\ drv'.msg.type = "none"
        BY <2>1, <2>3 DEF StreamInv, UnsentInv, NoMsg, Msg
      <3>2. \A r \in Replicas : Coming(r)' = Coming(r)
        BY <2>1, <2>3, <3>1 DEF Coming
      <3> QED
        BY <1>1, <2>1, <2>3, <3>2, SameHolds DEF Passing, cvars
    <2> QED
      BY <1>18, <2>2, <2>3 DEF SendFails
  <1>19. CASE AbortFails
    <2>1. abt'.msg = NoMsg /\ drv' = drv /\ tr' = tr /\ ctr' = ctr
      BY <1>0, <1>19 DEF AbortFails, Aborts
    <2>2. CASE abt.pc = "publish" /\ Throws(abt.msg)
      <3>1. abt.msg.type = "final"
        BY <2>2 DEF StreamInv, UnsentInv
      <3> QED
        BY <1>1, <1>17, <2>1, <2>2, <3>1
    <2>3. CASE abt.pc = "number" /\ net' = net /\ owed' = owed
      <3>1. abt.msg.type = "none" /\ abt'.msg.type = "none"
        BY <2>1, <2>3 DEF StreamInv, UnsentInv, NoMsg, Msg
      <3>2. \A r \in Replicas : Coming(r)' = Coming(r)
        BY <2>1, <2>3, <3>1 DEF Coming
      <3> QED
        BY <1>1, <2>1, <2>3, <3>2, SameHolds DEF Passing, cvars
    <2> QED
      BY <1>19, <2>2, <2>3 DEF AbortFails
  <1> QED
    BY <1>6, <1>7, <1>8, <1>9, <1>10, <1>11, <1>12, <1>13, <1>14, <1>15, <1>16, <1>18, <1>19
       DEF Driver, Abort

\* What happens at a replica.
LEMMA ReplicaKinds ==
  ASSUME StreamInv, NEW r \in Replicas,
         Joined(r) \/ FlushTimeout(r) \/ \E i \in DOMAIN net[r] : HandleMessage(r, i)
  PROVE  /\ UNCHANGED <<pc, ref, count, seen, drv, abt>>
         /\ \/ Passing /\ UNCHANGED got
            \/ \E ms, res : Delivering(r, ms, res)
  <1> USE DEF redis, rtvars, wire, cvars, hist
  <1>1. UNCHANGED <<pc, ref, count, seen, ctr, home, drv, abt>>
    BY DEF Joined, FlushTimeout, HandleMessage
  <1>2. CASE Joined(r)
    <2>1. tr \in [Replicas -> Buffers] /\ tr' = [tr EXCEPT ![r].chan = "on"]
      BY <1>2 DEF StreamInv, TypeOK, Joined
    <2>2. \A q \in Replicas :
            /\ Holds(tr[q], tr'[q])
            /\ tr'[q].next = tr[q].next /\ tr'[q].pend = tr[q].pend /\ tr'[q].timer = tr[q].timer
      BY <2>1 DEF Holds, Buffers
    <2> QED
      BY <1>1, <1>2, <2>2, SameComing DEF Joined, Passing
  <1>3. CASE FlushTimeout(r)
    <2>1. Delivering(r, tr[r].pend, ForceFlush(tr[r]))
      BY <1>1, <1>3, FlushTimeoutDelivers, SameComing DEF FlushTimeout, Delivering
    <2> QED
      BY <1>1, <2>1
  <1>4. ASSUME NEW i \in DOMAIN net[r], HandleMessage(r, i)
        PROVE  (Passing /\ UNCHANGED got) \/ \E ms, res : Delivering(r, ms, res)
    <2>1. /\ net' = [net EXCEPT ![r] = RemoveAt(@, i)] /\ net \in [Replicas -> Seq(Messages)]
      BY <1>4 DEF HandleMessage, StreamInv, TypeOK
    <2>2. /\ Range(net'[r]) \subseteq Range(net[r])
          /\ \A m \in Range(net[r]) : m = net[r][i] \/ m \in Range(net'[r])
      BY <1>4, <2>1, RemoveAtIs
    <2>3. \A q \in Replicas : q # r => net'[q] = net[q]
      BY <2>1
    <2>4. \A q \in Replicas :
            /\ Coming(q)' \subseteq Coming(q)
            /\ \A m \in Coming(q) : m \in Coming(q)' \/ (q = r /\ m = net[r][i])
      BY <1>1, <2>2, <2>3 DEF Coming
    <2>5. CASE net[r][i].type # "abort" /\ tr[r].tracked
      <3>1. Delivering(r, tr[r].pend \cup {net[r][i]}, Receive(tr[r], net[r][i]))
        BY <1>1, <1>4, <2>4, <2>5, HandleDelivers DEF Delivering
      <3> QED
        BY <3>1
    <2>6. CASE net[r][i].type = "abort" \/ ~tr[r].tracked
      <3>1. UNCHANGED <<tr, got, owed>>
        BY <1>4, <2>6 DEF HandleMessage
      <3>2. ASSUME NEW q \in Replicas, NEW m \in Coming(q), m.type = "final", Past(q)
            PROVE  m \in Coming(q)'
        <4>1. tr[q].tracked
          BY <3>2 DEF Past, StreamInv, HandlerInv
        <4>2. CASE q = r
          <5>1. m # net[r][i]
            BY <2>6, <3>2, <4>1, <4>2
          <5> QED
            BY <2>4, <3>2, <5>1
        <4> QED
          BY <2>4, <3>2, <4>2
      <3> QED
        BY <1>1, <2>4, <3>1, <3>2, SameHolds DEF Passing
    <2> QED
      BY <2>5, <2>6
  <1> QED
    BY <1>1, <1>2, <1>3, <1>4

\* What a request does that takes or leaves no handler.
LEMMA ClientKinds ==
  ASSUME StreamInv, NEW c \in Clients,
         Lookup(c) \/ Replay(c) \/ GetCounter(c) \/ SyncBuffer(c)
  PROVE  /\ \A d \in Clients : d # c => pc'[d] = pc[d]
         /\ UNCHANGED <<drv, abt>>
         /\ SyncBuffer(c) => \E ms, res : Delivering(home[c], ms, res)
         /\ Lookup(c) \/ Replay(c) \/ GetCounter(c) => Passing
  <1> USE DEF redis, rtvars, wire, cvars, hist
  <1>0. TypeOK /\ home[c] \in Replicas
        /\ pc \in [Clients -> {"off", "found", "joining", "asking", "asked", "live", "left"}]
    BY DEF StreamInv, TypeOK
  <1>1. UNCHANGED <<drv, abt, net, home, ctr>>
    BY DEF Lookup, Replay, GetCounter, SyncBuffer
  <1>2. \A r \in Replicas : Coming(r)' = Coming(r)
    BY <1>1, SameComing
  <1>3. \A d \in Clients : d # c => pc'[d] = pc[d]
    BY <1>0 DEF Lookup, Replay, GetCounter, SyncBuffer
  <1>4. ASSUME SyncBuffer(c)
        PROVE  \E ms, res : Delivering(home[c], ms, res)
    BY <1>0, <1>1, <1>2, <1>4, SyncDelivers DEF Delivering
  <1>5. ASSUME Lookup(c)
        PROVE  Passing
    <2>1. \A r \in Replicas :
            /\ tr'[r].next = tr[r].next /\ tr'[r].pend = tr[r].pend /\ tr'[r].timer = tr[r].timer
            /\ Holds(tr[r], tr'[r])
      BY <1>0, <1>5, EnsureIs DEF Holds, Lookup
    <2> QED
      BY <1>1, <1>2, <1>5, <2>1 DEF Passing, Lookup
  <1>6. ASSUME Replay(c) \/ GetCounter(c)
        PROVE  Passing
    BY <1>1, <1>2, <1>6, SameHolds DEF Passing, Replay, GetCounter
  <1> QED
    BY <1>1, <1>3, <1>4, <1>5, <1>6

-----------------------------------------------------------------------------
(* Each part of the invariant *)

\* An attaching or leaving request sends nothing.
LEMMA HandlersMove ==
  ASSUME StreamInv, NEW c \in Clients, Attach(c) \/ Leave(c)
  PROVE  /\ UNCHANGED <<ctr, home, count, seen, early, drv, abt>>
         /\ \A d \in Clients : d # c => pc'[d] = pc[d] /\ ref'[d] = ref[d]
         /\ \A r \in Replicas :
              /\ Coming(r)' = Coming(r)
              /\ \/ tr'[r].next = tr[r].next /\ tr'[r].pend = tr[r].pend /\ tr'[r].timer = tr[r].timer
                 \/ tr'[r].next = 0 /\ tr'[r].pend = {} /\ ~tr'[r].timer
              /\ r # home[c] => tr'[r] = tr[r]
  <1> USE DEF redis, rtvars, wire, cvars, hist
  <1>0. pc \in [Clients -> {"off", "found", "joining", "asking", "asked", "live", "left"}]
        /\ ref \in [Clients -> 0..2]
    BY DEF StreamInv, TypeOK
  <1>1. UNCHANGED <<ctr, home, count, seen, early, drv, abt, net>>
    BY DEF Attach, Leave
  <1>2. \A d \in Clients : d # c => pc'[d] = pc[d] /\ ref'[d] = ref[d]
    BY <1>0 DEF Attach, Leave
  <1>3. ASSUME NEW r \in Replicas
        PROVE  /\ Coming(r)' = Coming(r)
               /\ \/ tr'[r].next = tr[r].next /\ tr'[r].pend = tr[r].pend /\ tr'[r].timer = tr[r].timer
                  \/ tr'[r].next = 0 /\ tr'[r].pend = {} /\ ~tr'[r].timer
               /\ r # home[c] => tr'[r] = tr[r]
    <2>1. Coming(r)' = Coming(r)
      BY <1>1, SameComing
    <2>2. CASE r # home[c]
      <3>1. tr'[r] = tr[r]
        BY <2>2, AttachIs, LeaveIs
      <3> QED
        BY <2>1, <3>1
    <2>3. CASE r = home[c]
      BY <2>1, <2>3, AttachIs, LeaveIs
    <2> QED
      BY <2>2, <2>3
  <1> QED
    BY <1>1, <1>2, <1>3

LEMMA StepKinds ==
  ASSUME StreamInv, Next
  PROVE  \/ Passing
         \/ \E m \in Messages : Numbering(m)
         \/ \E r, ms, res : Delivering(r, ms, res)
         \/ \E c \in Clients : Attach(c) \/ Leave(c)
  <1>1. ASSUME NEW c \in Clients, Lookup(c) \/ Request(c) \/ Leave(c)
        PROVE  \/ Passing
               \/ \E r, ms, res : Delivering(r, ms, res)
               \/ Attach(c) \/ Leave(c)
    <2>1. CASE SyncBuffer(c)
      BY <2>1, ClientKinds
    <2>2. CASE Lookup(c) \/ Replay(c) \/ GetCounter(c)
      BY <2>2, ClientKinds
    <2> QED
      BY <1>1, <2>1, <2>2 DEF Request
  <1>2. ASSUME NEW r \in Replicas,
               Joined(r) \/ FlushTimeout(r) \/ \E i \in DOMAIN net[r] : HandleMessage(r, i)
        PROVE  Passing \/ \E q, ms, res : Delivering(q, ms, res)
    BY <1>2, ReplicaKinds
  <1> QED
    BY <1>1, <1>2, DriverKinds DEF Next

\* A number stays of one event, and behind the counter.
LEMMA NumbersStep ==
  ASSUME StreamInv, Next
  PROVE  NumberInv'
  <1> SUFFICES ASSUME NEW r \in Replicas
               PROVE  \A m \in Coming(r)' \cup tr'[r].pend :
                        /\ m.type \in LiveTypes /\ m.seq < ctr'
                        /\ \A o \in Coming(r)' \cup tr'[r].pend : o.seq = m.seq => o = m
    BY DEF NumberInv
  <1> DEFINE old == Coming(r) \cup tr[r].pend
             new == Coming(r)' \cup tr'[r].pend
  <1>0. /\ ctr \in Nat
        /\ \A m \in old : /\ m.type \in LiveTypes /\ m.seq < ctr /\ m.seq \in Nat
                          /\ \A o \in old : o.seq = m.seq => o = m
    <2>1. old \subseteq Messages
      BY ComingTypes
    <2> QED
      BY <2>1 DEF StreamInv, TypeOK, NumberInv, Messages
  <1>1. ASSUME new \subseteq old, ctr' = ctr
        PROVE  \A m \in new : /\ m.type \in LiveTypes /\ m.seq < ctr'
                              /\ \A o \in new : o.seq = m.seq => o = m
    BY <1>0, <1>1
  <1>2. CASE Passing
    BY <1>1, <1>2 DEF Passing
  <1>3. ASSUME NEW m \in Messages, Numbering(m)
        PROVE  \A x \in new : /\ x.type \in LiveTypes /\ x.seq < ctr'
                              /\ \A o \in new : o.seq = x.seq => o = x
    <2>1. new \subseteq old \cup {m} /\ m.type \in LiveTypes /\ m.seq = ctr /\ ctr' = ctr + 1
      BY <1>3 DEF Numbering
    <2> HIDE DEF old, new
    <2>2. \A x \in new : x \in old \/ x = m
      BY <2>1
    <2> QED
      BY <1>0, <2>1, <2>2
  <1>4. ASSUME NEW q, NEW ms, NEW res, Delivering(q, ms, res)
        PROVE  new \subseteq old /\ ctr' = ctr
    <2>1. /\ Delivery(q, ms, res) /\ q \in Replicas /\ ctr' = ctr /\ Coming(r)' \subseteq Coming(r)
      BY <1>4 DEF Delivering
    <2>2. CASE r = q
      <3>1. tr'[r].pend \subseteq ms /\ ms \subseteq old
        BY <2>1, <2>2, DeliveryBuffers DEF Delivery, Keeps
      <3> QED
        BY <2>1, <3>1
    <2>3. CASE r # q
      <3>1. tr'[r] = tr[r]
        BY <2>1, <2>3, DeliveryBuffers
      <3> QED
        BY <2>1, <3>1
    <2> QED
      BY <2>2, <2>3
  <1>5. ASSUME NEW c \in Clients, Attach(c) \/ Leave(c)
        PROVE  new \subseteq old /\ ctr' = ctr
    BY <1>5, HandlersMove
  <1> QED
    BY <1>1, <1>2, <1>3, <1>4, <1>5, StepKinds

LEMMA BufferStep ==
  ASSUME StreamInv, Next, NEW r \in Replicas
  PROVE  BufferInv(r)'
  <1>0. /\ ctr \in Nat /\ IsFiniteSet(tr[r].pend) /\ (\A m \in tr[r].pend : tr[r].next < m.seq)
        /\ tr[r].next <= ctr /\ tr[r].next \in Nat
        /\ (tr[r].timer <=> tr[r].pend # {})
    BY DEF StreamInv, TypeOK, BufferInv, Buffers
  <1>1. ASSUME tr'[r].next = tr[r].next, tr'[r].pend = tr[r].pend, tr'[r].timer = tr[r].timer,
               ctr' \in {ctr, ctr + 1}
        PROVE  BufferInv(r)'
    BY <1>0, <1>1 DEF BufferInv
  <1>2. CASE Passing
    BY <1>1, <1>2 DEF Passing
  <1>3. ASSUME NEW m \in Messages, Numbering(m)
        PROVE  BufferInv(r)'
    BY <1>1, <1>3 DEF Numbering
  <1>4. ASSUME NEW q, NEW ms, NEW res, Delivering(q, ms, res)
        PROVE  BufferInv(r)'
    <2>1. Delivery(q, ms, res) /\ q \in Replicas /\ ctr' = ctr
      BY <1>4 DEF Delivering
    <2>2. CASE r = q
      <3>1. tr'[r] = res.buf /\ res.buf.next <= ctr
        BY <2>1, <2>2, DeliveryBuffers
      <3> QED
        BY <2>1, <3>1 DEF Delivery, Keeps, BufferInv
    <2>3. CASE r # q
      <3>1. tr'[r] = tr[r]
        BY <2>1, <2>3, DeliveryBuffers
      <3> QED
        BY <1>1, <2>1, <3>1
    <2> QED
      BY <2>2, <2>3
  <1>5. ASSUME NEW c \in Clients, Attach(c) \/ Leave(c)
        PROVE  BufferInv(r)'
    <2>1. ctr' = ctr
      BY <1>5, HandlersMove
    <2>2. CASE tr'[r].next = 0 /\ tr'[r].pend = {} /\ ~tr'[r].timer
      BY <1>0, <2>1, <2>2, FS_EmptySet DEF BufferInv
    <2> QED
      BY <1>1, <1>5, <2>1, <2>2, HandlersMove
  <1> QED
    BY <1>2, <1>3, <1>4, <1>5, StepKinds

\* What the driver and an abort have numbered and not published.
LEMMA UnsentStep ==
  ASSUME StreamInv, Next
  PROVE  UnsentInv'
  <1>0. /\ drv \in Drivers /\ abt \in Aborts /\ UnsentInv /\ NoMsg.type = "none"
        /\ Msg("chunk", ctr, drv.sent).type = "chunk"
        /\ Msg("final", ctr, 0).type = "final"
        /\ Msg("final", ctr, 0) = Msg("final", Msg("final", ctr, 0).seq, 0)
    BY DEF StreamInv, TypeOK, NoMsg, Msg
  <1>1. CASE drv'.pc = drv.pc /\ drv'.msg = drv.msg /\ abt'.pc = abt.pc /\ abt'.msg = abt.msg
    BY <1>0, <1>1 DEF UnsentInv
  <1>2. ASSUME NEW c \in Clients, Lookup(c) \/ Request(c) \/ Leave(c)
        PROVE  UnsentInv'
    <2>1. UNCHANGED <<drv, abt>>
      BY <1>2, ClientKinds, HandlersMove DEF Request
    <2> QED
      BY <1>1, <2>1
  <1>3. ASSUME NEW r \in Replicas,
               Joined(r) \/ FlushTimeout(r) \/ \E i \in DOMAIN net[r] : HandleMessage(r, i)
        PROVE  UnsentInv'
    BY <1>1, <1>3, ReplicaKinds
  <1>4. CASE Driver
    <2>0. abt' = abt
      BY <1>4 DEF Driver, EmitChunk, PublishChunk, Finish, Fail, NumberFinal, PublishFinal,
                  SendFails, StoreEnd
    <2>1. CASE EmitChunk
      <3>1. drv'.pc = "chunk" /\ drv'.msg = Msg("chunk", ctr, drv.sent)
        BY <1>0, <2>1 DEF EmitChunk, Drivers
      <3> QED
        BY <1>0, <2>0, <3>1 DEF UnsentInv
    <2>2. CASE NumberFinal
      <3>1. drv'.pc = "publish" /\ drv'.msg = Msg("final", ctr, 0)
        BY <1>0, <2>2 DEF NumberFinal, Drivers
      <3> QED
        BY <1>0, <2>0, <3>1 DEF UnsentInv
    <2>3. CASE PublishChunk \/ PublishFinal \/ SendFails \/ Fail
      <3>1. drv'.pc \in {"run", "store", "over", "final"} /\ drv'.msg = NoMsg
        BY <1>0, <2>3 DEF PublishChunk, PublishFinal, SendFails, Fail, CompleteJob, Caught, Drivers
      <3> QED
        BY <1>0, <2>0, <3>1 DEF UnsentInv
    <2>4. CASE Finish \/ StoreEnd
      <3>1. drv'.pc \in {"final", "over"} /\ drv'.msg = drv.msg /\ drv.pc \in {"run", "store"}
        BY <1>0, <2>4 DEF Finish, StoreEnd, Drivers
      <3> QED
        BY <1>0, <2>0, <3>1 DEF UnsentInv
    <2> QED
      BY <1>4, <2>1, <2>2, <2>3, <2>4 DEF Driver
  <1>5. CASE AbortSignal \/ Abort
    <2>0. drv' = drv
      BY <1>5 DEF AbortSignal, Abort, AbortNumber, AbortPublish, AbortFails, AbortDelete
    <2>1. CASE AbortNumber
      <3>1. abt'.pc = "publish" /\ abt'.msg = Msg("final", ctr, 0)
        BY <1>0, <2>1 DEF AbortNumber, Aborts
      <3> QED
        BY <1>0, <2>0, <3>1 DEF UnsentInv
    <2>2. CASE AbortPublish \/ AbortFails
      <3>1. abt'.pc \in {"delete", "over"} /\ abt'.msg = NoMsg
        BY <1>0, <2>2 DEF AbortPublish, AbortFails, Aborts
      <3> QED
        BY <1>0, <2>0, <3>1 DEF UnsentInv
    <2>3. CASE AbortSignal \/ AbortDelete
      <3>1. abt'.pc \in {"number", "over"} /\ abt'.msg = abt.msg /\ abt.pc \in {"off", "delete"}
        BY <1>0, <2>3 DEF AbortSignal, AbortDelete, Aborts
      <3> QED
        BY <1>0, <2>0, <3>1 DEF UnsentInv
    <2> QED
      BY <1>5, <2>1, <2>2, <2>3 DEF Abort
  <1> QED
    BY <1>2, <1>3, <1>4, <1>5 DEF Next

\* The handlers of a replica are of its open requests.
LEMMA HandlersStep ==
  ASSUME StreamInv, Next, NEW r \in Replicas
  PROVE  HandlerInv(r)'
  <1> DEFINE hs == tr[r].handlers
             Open(d) == home[d] = r /\ Listening(d)
  <1>0. /\ hs = {d \in Clients : Open(d)}
        /\ tr[r].subs = Cardinality(hs) /\ IsFiniteSet(hs)
        /\ (hs # {} => tr[r].tracked /\ tr[r].chan # "off")
        /\ \A d \in hs : pc[d] # "joining" => tr[r].chan = "on"
    <2>1. hs = {d \in Clients : Open(d)}
      BY DEF StreamInv, HandlerInv
    <2>2. IsFiniteSet(hs)
      BY <2>1, StreamAssumption, FS_Subset
    <2> QED
      BY <2>1, <2>2 DEF StreamInv, HandlerInv
  <1>1. \A m : Passing \/ Numbering(m) => home' = home /\ Holds(tr[r], tr'[r])
    BY SameHolds DEF Passing, Numbering, cvars
  <1>2. \A q, ms, res : Delivering(q, ms, res) => home' = home /\ Holds(tr[r], tr'[r])
    <2> SUFFICES ASSUME NEW q, NEW ms, NEW res, Delivering(q, ms, res)
                 PROVE  home' = home /\ Holds(tr[r], tr'[r])
      OBVIOUS
    <2>1. Delivery(q, ms, res) /\ q \in Replicas /\ home' = home
      BY DEF Delivering
    <2>2. CASE r = q
      BY <2>1, <2>2, DeliveryBuffers DEF Delivery, Keeps, Holds
    <2>3. CASE r # q
      BY <2>1, <2>3, DeliveryBuffers, SameHolds
    <2> QED
      BY <2>1, <2>2, <2>3
  <1>3. ASSUME home' = home, Holds(tr[r], tr'[r]),
               \A d \in Clients : Listening(d)' <=> Listening(d),
               \A d \in hs : pc'[d] # "joining" => pc[d] # "joining" \/ tr[r].chan = "on"
        PROVE  HandlerInv(r)'
    <2>1. tr'[r].handlers = hs /\ tr'[r].subs = tr[r].subs
      BY <1>3 DEF Holds
    <2>2. {d \in Clients : home'[d] = r /\ Listening(d)'} = hs
      BY <1>0, <1>3
    <2> HIDE DEF hs
    <2>3. hs # {} => tr'[r].tracked /\ tr'[r].chan # "off"
      BY <1>0, <1>3 DEF Holds
    <2>4. \A d \in hs : pc'[d] # "joining" => tr'[r].chan = "on"
      BY <1>0, <1>3 DEF Holds
    <2> QED
      BY <1>0, <2>1, <2>2, <2>3, <2>4 DEF HandlerInv
  <1>4. CASE pc' = pc /\ home' = home /\ Holds(tr[r], tr'[r])
    BY <1>3, <1>4 DEF Listening
  <1>5. CASE Driver \/ AbortSignal \/ Abort
    BY <1>1, <1>4, <1>5, DriverKinds DEF cvars
  <1>6. ASSUME NEW q \in Replicas,
               Joined(q) \/ FlushTimeout(q) \/ \E i \in DOMAIN net[q] : HandleMessage(q, i)
        PROVE  HandlerInv(r)'
    BY <1>1, <1>2, <1>4, <1>6, ReplicaKinds
  <1>7. ASSUME NEW c \in Clients, Lookup(c) \/ Replay(c) \/ GetCounter(c) \/ SyncBuffer(c)
        PROVE  HandlerInv(r)'
    <2>1. home' = home /\ Holds(tr[r], tr'[r])
      BY <1>1, <1>2, <1>7, ClientKinds
    <2>2. \A d \in Clients : d # c => pc'[d] = pc[d]
      BY <1>7, ClientKinds
    <2>3. pc \in [Clients -> {"off", "found", "joining", "asking", "asked", "live", "left"}]
      BY DEF StreamInv, TypeOK
    <2>4. /\ Listening(c)' <=> Listening(c)
          /\ pc'[c] # "joining" => pc[c] # "joining" \/ tr[home[c]].chan = "on"
      BY <1>7, <2>3 DEF Listening, Lookup, Replay, GetCounter, SyncBuffer
    <2>5. \A d \in hs : home[d] = r
      BY <1>0
    <2> HIDE DEF hs
    <2>6. \A d \in Clients : Listening(d)' <=> Listening(d)
      BY <2>2, <2>4 DEF Listening
    <2>7. \A d \in hs : d \in Clients
      BY <1>0
    <2>8. \A d \in hs : pc'[d] # "joining" => pc[d] # "joining" \/ tr[r].chan = "on"
      BY <2>2, <2>4, <2>5, <2>7
    <2> QED
      BY <1>3, <2>1, <2>6, <2>8 DEF hs
  <1>8. ASSUME NEW c \in Clients, Attach(c) \/ Leave(c)
        PROVE  HandlerInv(r)'
    <2>1. /\ home' = home /\ (\A d \in Clients : d # c => pc'[d] = pc[d])
          /\ r # home[c] => tr'[r] = tr[r]
      BY <1>8, HandlersMove
    <2>2. pc \in [Clients -> {"off", "found", "joining", "asking", "asked", "live", "left"}]
      BY DEF StreamInv, TypeOK
    <2>3. CASE r # home[c]
      <3>1. c \notin hs /\ {d \in Clients : home'[d] = r /\ Listening(d)'} = hs
        BY <1>0, <2>1, <2>3 DEF Listening
      <3>2. \A d \in hs : pc'[d] = pc[d]
        BY <1>0, <2>1, <3>1
      <3>3. tr'[r] = tr[r]
        BY <2>1, <2>3
      <3> QED
        BY <1>0, <3>1, <3>2, <3>3 DEF HandlerInv
    <2>4. CASE r = home[c] /\ Attach(c)
      <3> DEFINE n == tr'[r]
      <3>1. pc'[c] = "joining"
        BY <2>2, <2>4 DEF Attach
      <3>2. /\ c \notin hs /\ n.handlers = hs \cup {c} /\ n.tracked /\ n.chan # "off"
            /\ n.subs = tr[r].subs + 1 /\ (tr[r].chan # "off" => n.chan = tr[r].chan)
        BY <2>4, AttachIs
      <3> HIDE DEF n, hs
      <3>3. {d \in Clients : home'[d] = r /\ Listening(d)'} = hs \cup {c}
        BY <1>0, <2>1, <2>4, <3>1 DEF Listening
      <3>4. Cardinality(hs \cup {c}) = Cardinality(hs) + 1
        BY <1>0, <3>2, FS_AddElement
      <3>5. \A d \in hs \cup {c} : pc'[d] # "joining" => n.chan = "on"
        <4>1. \A d \in hs : d \in Clients /\ d # c
          BY <1>0, <3>2
        <4>2. hs # {} => n.chan = tr[r].chan
          BY <1>0, <3>2
        <4> QED
          BY <1>0, <2>1, <3>1, <4>1, <4>2
      <3>6. n.subs = Cardinality(n.handlers)
        BY <1>0, <3>2, <3>4
      <3> QED
        BY <3>2, <3>3, <3>5, <3>6 DEF HandlerInv, n
    <2>5. CASE r = home[c] /\ Leave(c)
      <3> DEFINE n == tr'[r]
      <3>1. pc'[c] = "left"
        BY <2>2, <2>5 DEF Leave
      <3>2. /\ n.handlers = hs \ {c} /\ n.tracked /\ n.subs = Cardinality(n.handlers)
            /\ n.handlers # {} => n.chan = tr[r].chan
        BY <2>5, LeaveIs
      <3> HIDE DEF n, hs
      <3>3. {d \in Clients : home'[d] = r /\ Listening(d)'} = hs \ {c}
        BY <1>0, <2>1, <2>5, <3>1 DEF Listening
      <3>4. \A d \in hs \ {c} : pc'[d] # "joining" => n.chan = "on"
        BY <1>0, <2>1, <3>2
      <3>5. n.handlers # {} => n.chan # "off"
        BY <1>0, <3>2
      <3> QED
        BY <3>2, <3>3, <3>4, <3>5 DEF HandlerInv, n
    <2> QED
      BY <1>8, <2>3, <2>4, <2>5
  <1> QED
    BY <1>5, <1>6, <1>7, <1>8 DEF Next, Request

\* No step of the stream lowers the counter.
LEMMA CounterGrows ==
  ASSUME StreamInv, Next
  PROVE  ctr \in Nat /\ ctr' \in Nat /\ ctr <= ctr'
  <1>1. ctr \in Nat
    BY DEF StreamInv, TypeOK
  <1>2. ctr' \in {ctr, ctr + 1}
    BY StepKinds, HandlersMove DEF Passing, Numbering, Delivering
  <1> QED
    BY <1>1, <1>2

\* What is kept and what a sync is told is behind the counter.
LEMMA EarlyStep ==
  ASSUME StreamInv, Next
  PROVE  EarlyInv'
  <1> USE DEF redis, rtvars, wire, cvars, hist
  <1>0. /\ ctr \in Nat /\ ctr' \in Nat /\ ctr <= ctr'
        /\ early \in [1..2 -> Seq(Messages)] /\ count \in [Clients -> Nat] /\ seen \in [Clients -> Nat]
        /\ pc \in [Clients -> {"off", "found", "joining", "asking", "asked", "live", "left"}]
        /\ ref \in [Clients -> 0..2] /\ home \in [Clients -> Replicas]
    BY CounterGrows DEF StreamInv, TypeOK
  <1> DEFINE Kept == \A i \in 1..2 : /\ Len(early[i]) <= ctr
                                     /\ \A j \in DOMAIN early[i] : early[i][j].type = "replayed"
             Told(c) == /\ pc[c] \in {"found", "joining"} => ref[c] # 0
                        /\ count[c] <= ctr /\ seen[c] <= ctr
                        /\ pc[c] = "asked" => count[c] <= seen[c]
  <1>1. Kept /\ \A c \in Clients : Told(c)
    BY DEF StreamInv, EarlyInv
  <1>2. ASSUME early' = early
        PROVE  Kept'
    <2>1. \A i \in 1..2 : Len(early[i]) \in Nat
      BY <1>0
    <2> QED
      BY <1>0, <1>1, <1>2, <2>1
  <1>3. ASSUME NEW c \in Clients, pc'[c] = pc[c], ref'[c] = ref[c], count'[c] = count[c],
               seen'[c] = seen[c]
        PROVE  Told(c)'
    BY <1>0, <1>1, <1>3
  <1>4. Kept' /\ (\A c \in Clients : Told(c)') => EarlyInv'
    BY DEF EarlyInv
  <1> HIDE DEF Kept
  <1>5. CASE Driver \/ AbortSignal \/ Abort
    <2>1. UNCHANGED <<pc, ref, count, seen>>
      BY <1>5, DriverKinds
    <2>2. Kept'
      <3>1. CASE EmitChunk
        <4>1. ctr' = ctr + 1
          BY <3>1 DEF EmitChunk
        <4> QED
          BY <3>1, <4>1, EmitIs DEF Kept
      <3>2. CASE ~EmitChunk
        <4>1. early' = early
          BY <1>5, <3>2 DEF Driver, Abort, PublishChunk, Finish, Fail, NumberFinal, PublishFinal,
                 SendFails, StoreEnd, AbortSignal, AbortNumber, AbortPublish, AbortFails, AbortDelete
        <4> QED
          BY <1>2, <4>1
      <3> QED
        BY <3>1, <3>2
    <2> HIDE DEF Told
    <2>3. \A c \in Clients : Told(c)'
      BY <1>3, <2>1
    <2> QED
      BY <1>4, <2>2, <2>3
  <1>6. ASSUME NEW r \in Replicas,
               Joined(r) \/ FlushTimeout(r) \/ \E i \in DOMAIN net[r] : HandleMessage(r, i)
        PROVE  EarlyInv'
    <2>1. UNCHANGED <<pc, ref, count, seen>>
      BY <1>6, ReplicaKinds
    <2>2. early' = early
      BY <1>6 DEF Joined, FlushTimeout, HandleMessage
    <2> HIDE DEF Told
    <2>3. \A c \in Clients : Told(c)'
      BY <1>3, <2>1
    <2> QED
      BY <1>2, <1>4, <2>2, <2>3
  <1>7. ASSUME NEW c \in Clients, Lookup(c) \/ Request(c) \/ Leave(c)
        PROVE  EarlyInv'
    <2>1. \A d \in Clients : d # c => /\ pc'[d] = pc[d] /\ ref'[d] = ref[d]
                                      /\ count'[d] = count[d] /\ seen'[d] = seen[d]
      <3>1. CASE Replay(c)
        <4>1. \A d \in Clients : d # c => count'[d] = count[d]
          BY <3>1, ReplayIs
        <4> QED
          BY <1>0, <3>1, <4>1 DEF Replay
      <3>2. CASE ~Replay(c)
        BY <1>0, <1>7, <3>2 DEF Request, Lookup, Attach, GetCounter, SyncBuffer, Leave
      <3> QED
        BY <3>1, <3>2
    <2>2. Kept'
      <3>1. CASE Replay(c)
        <4>1. /\ \A i \in 1..2 : early'[i] \in {early[i], <<>>}
              /\ ctr' = ctr
          BY <3>1, ReplayIs DEF Replay
        <4>2. Len(<<>>) = 0 /\ DOMAIN <<>> = {}
          OBVIOUS
        <4>3. \A i \in 1..2 : /\ Len(early[i]) <= ctr
                              /\ \A j \in DOMAIN early[i] : early[i][j].type = "replayed"
          BY <1>1 DEF Kept
        <4> QED
          BY <1>0, <4>1, <4>2, <4>3 DEF Kept
      <3>2. CASE ~Replay(c)
        <4>1. early' = early
          BY <1>7, <3>2 DEF Request, Lookup, Attach, GetCounter, SyncBuffer, Leave
        <4> QED
          BY <1>2, <4>1
      <3> QED
        BY <3>1, <3>2
    <2>3. Told(c)'
      <3>1. CASE Lookup(c)
        <4>1. count' = count /\ seen' = seen /\ ctr' = ctr
          BY <3>1 DEF Lookup
        <4>2. CASE HasRuntime(home[c])
          <5>1. cur'[home[c]] # 0
            <6>1. TypeOK /\ home[c] \in Replicas /\ EnsureRuntime(home[c])
              BY <1>0, <3>1, <4>2 DEF Lookup, StreamInv
            <6>2. cur'[home[c]] \in 1 .. 2
              BY <4>2, <6>1, EnsureIs
            <6> QED
              BY <6>2
          <5>2. ref'[c] = cur'[home[c]] /\ pc'[c] = "found"
            BY <1>0, <3>1, <4>2 DEF Lookup
          <5> QED
            BY <1>1, <4>1, <5>1, <5>2
        <4>3. CASE ~HasRuntime(home[c])
          <5>1. pc'[c] = "left"
            BY <1>0, <3>1, <4>3 DEF Lookup
          <5> QED
            BY <1>1, <4>1, <5>1
        <4> QED
          BY <4>2, <4>3
      <3>2. CASE Attach(c)
        BY <1>0, <1>1, <3>2 DEF Attach
      <3>3. CASE Replay(c)
        <4>1. seen' = seen /\ ref' = ref /\ ctr' = ctr /\ pc'[c] \in {"live", "asking"}
          BY <1>0, <3>3 DEF Replay
        <4>2. count'[c] <= ctr
          BY <3>3, ReplayIs
        <4> QED
          BY <1>1, <4>1, <4>2
      <3>4. CASE GetCounter(c)
        <4>1. count' = count /\ ref' = ref /\ ctr' = ctr /\ pc'[c] = "asked" /\ seen'[c] = ctr
          BY <1>0, <3>4 DEF GetCounter
        <4> QED
          BY <1>0, <1>1, <4>1
      <3>5. CASE SyncBuffer(c)
        <4>1. count'[c] = 0 /\ seen'[c] = 0 /\ pc'[c] = "live"
          BY <1>0, <3>5 DEF SyncBuffer
        <4> QED
          BY <1>0, <4>1
      <3>6. CASE Leave(c)
        <4>1. count' = count /\ seen' = seen /\ ctr' = ctr /\ pc'[c] = "left"
          BY <1>0, <3>6 DEF Leave
        <4> QED
          BY <1>1, <4>1
      <3> QED
        BY <1>7, <3>1, <3>2, <3>3, <3>4, <3>5, <3>6 DEF Request
    <2> HIDE DEF Told
    <2>4. \A d \in Clients : Told(d)'
      BY <1>3, <2>1, <2>3
    <2> QED
      BY <1>4, <2>2, <2>4
  <1> QED
    BY <1>5, <1>6, <1>7 DEF Next

\* What was written to the responses.
LEMMA GotStep ==
  ASSUME StreamInv, Next
  PROVE  GotInv' /\ LiveInOrder'
  <1> DEFINE Quiet(c) == ~Listening(c) => got[c] = <<>>
             Behind(c) == \A i \in DOMAIN got[c] :
                            got[c][i].type \in LiveTypes => got[c][i].seq < tr[home[c]].next
             Ordered(c) == \A i, j \in DOMAIN got[c] :
                             i < j /\ {got[c][i].type, got[c][j].type} \subseteq LiveTypes
                               => got[c][i].seq < got[c][j].seq
             All(c) == Quiet(c) /\ Behind(c) /\ Ordered(c)
  <1>0. /\ home \in [Clients -> Replicas]
        /\ pc \in [Clients -> {"off", "found", "joining", "asking", "asked", "live", "left"}]
    BY DEF StreamInv, TypeOK
  <1>1. \A c \in Clients : All(c)
    BY DEF StreamInv, GotInv, LiveInOrder
  <1>2. (\A c \in Clients : All(c)') => GotInv' /\ LiveInOrder'
    BY DEF GotInv, LiveInOrder
  <1>3. ASSUME NEW c \in Clients, got'[c] = got[c], home' = home, Listening(c)' <=> Listening(c),
               tr'[home[c]].next = tr[home[c]].next
        PROVE  All(c)'
    BY <1>1, <1>3
  <1>4. ASSUME NEW c \in Clients, got'[c] = <<>>
        PROVE  All(c)'
    <2>1. DOMAIN got'[c] = {}
      BY <1>4
    <2> QED
      BY <1>4, <2>1
  <1>5. \A c \in Clients : ~Listening(c) => got[c] = <<>>
    BY <1>1
  <1> HIDE DEF All
  <1>6. ASSUME NEW r, NEW ms, NEW res, Delivering(r, ms, res),
               \A c \in Clients : Listening(c)' <=> Listening(c)
        PROVE  GotInv' /\ LiveInOrder'
    <2>1. Delivery(r, ms, res) /\ r \in Replicas /\ home' = home
      BY <1>6 DEF Delivering
    <2>2. LiveInOrder' /\ \A c \in Clients : Behind(c)'
      BY <2>1, DeliveryOrder
    <2>3. ASSUME NEW c \in Clients, ~Listening(c)
          PROVE  got'[c] = <<>>
      <3>1. c \notin tr[r].handlers
        BY <2>1, <2>3 DEF StreamInv, HandlerInv
      <3> QED
        BY <1>5, <2>1, <2>3, <3>1, DeliveryGot
    <2> QED
      BY <1>6, <2>2, <2>3 DEF GotInv
  <1>7. ASSUME got' = got, home' = home, \A c \in Clients : Listening(c)' <=> Listening(c),
               \A r \in Replicas : tr'[r].next = tr[r].next
        PROVE  GotInv' /\ LiveInOrder'
    BY <1>0, <1>2, <1>3, <1>7
  <1>8. CASE Driver \/ AbortSignal \/ Abort
    <2>1. UNCHANGED cvars /\ \A r \in Replicas : tr'[r].next = tr[r].next
      BY <1>8, DriverKinds DEF Passing, Numbering
    <2> QED
      BY <1>7, <2>1 DEF cvars, Listening
  <1>9. ASSUME NEW r \in Replicas,
               Joined(r) \/ FlushTimeout(r) \/ \E i \in DOMAIN net[r] : HandleMessage(r, i)
        PROVE  GotInv' /\ LiveInOrder'
    <2>1. pc' = pc /\ \A c \in Clients : Listening(c)' <=> Listening(c)
      BY <1>9, ReplicaKinds DEF Listening
    <2>2. CASE Passing /\ UNCHANGED got
      BY <1>7, <2>1, <2>2 DEF Passing
    <2> QED
      BY <1>6, <1>9, <2>1, <2>2, ReplicaKinds
  <1>10. ASSUME NEW c \in Clients, Lookup(c) \/ Replay(c) \/ GetCounter(c) \/ SyncBuffer(c)
         PROVE  GotInv' /\ LiveInOrder'
    <2>1. \A d \in Clients : d # c => pc'[d] = pc[d]
      BY <1>10, ClientKinds
    <2>2. Listening(c)' <=> Listening(c)
      BY <1>0, <1>10 DEF Listening, Lookup, Replay, GetCounter, SyncBuffer
    <2>3. \A d \in Clients : Listening(d)' <=> Listening(d)
      BY <2>1, <2>2 DEF Listening
    <2>4. CASE SyncBuffer(c)
      BY <1>6, <2>3, <2>4, ClientKinds
    <2>5. CASE Lookup(c) \/ GetCounter(c)
      <3>1. got' = got
        BY <2>5 DEF Lookup, GetCounter, cvars
      <3> QED
        BY <1>7, <2>3, <2>5, <3>1, ClientKinds DEF Passing
    <2>6. CASE Replay(c)
      <3>1. home' = home /\ tr' = tr /\ Listening(c) /\ (\A d \in Clients : d # c => got'[d] = got[d])
        BY <2>6, ReplayIs DEF Replay, Listening, wire
      <3>2. \A i \in DOMAIN got'[c] : \/ i \in DOMAIN got[c] /\ got'[c][i] = got[c][i]
                                      \/ got'[c][i].type = "replayed"
        BY <2>6, ReplayIs
      <3>3. Behind(c)' /\ Ordered(c)'
        <4>1. Behind(c) /\ Ordered(c) /\ "replayed" \notin LiveTypes
          BY <1>1 DEF All, LiveTypes
        <4>2. \A i \in DOMAIN got'[c] : got'[c][i].type \in LiveTypes
                => i \in DOMAIN got[c] /\ got'[c][i] = got[c][i]
          BY <3>2, <4>1
        <4> QED
          BY <3>1, <4>1, <4>2
      <3>4. All(c)'
        BY <2>2, <3>1, <3>3 DEF All
      <3>5. \A d \in Clients : d # c => All(d)'
        BY <1>3, <2>3, <3>1
      <3> QED
        BY <1>2, <3>4, <3>5
    <2> QED
      BY <1>10, <2>4, <2>5, <2>6
  <1>11. ASSUME NEW c \in Clients, Attach(c) \/ Leave(c)
         PROVE  GotInv' /\ LiveInOrder'
    <2>1. /\ home' = home /\ (\A d \in Clients : d # c => pc'[d] = pc[d])
          /\ \A r \in Replicas : r # home[c] => tr'[r] = tr[r]
      BY <1>11, HandlersMove
    <2>2. \A d \in Clients : d # c => got'[d] = got[d]
      <3>1. CASE Leave(c)
        BY <3>1 DEF Leave, StreamInv, TypeOK
      <3> QED
        BY <1>11, <3>1, AttachIs
    <2>3. All(c)'
      <3>1. CASE Attach(c)
        <4>1. Listening(c)'
          BY <1>0, <3>1 DEF Attach, Listening
        <4>2. "stored" \notin LiveTypes /\ \A i \in DOMAIN got'[c] : got'[c][i].type = "stored"
          BY <3>1, AttachIs DEF LiveTypes
        <4> QED
          BY <4>1, <4>2 DEF All
      <3>2. CASE Leave(c)
        <4>1. got'[c] = <<>>
          BY <3>2 DEF Leave, StreamInv, TypeOK
        <4> QED
          BY <1>4, <4>1
      <3> QED
        BY <1>11, <3>1, <3>2
    <2>4. ASSUME NEW d \in Clients, d # c
          PROVE  All(d)'
      <3>1. Listening(d)' <=> Listening(d)
        BY <2>1, <2>4 DEF Listening
      <3>2. CASE ~Listening(d)
        BY <1>4, <1>5, <2>2, <2>4, <3>2
      <3>3. CASE Listening(d)
        <4>1. tr'[home[d]].next = tr[home[d]].next
          <5>1. CASE home[d] # home[c]
            BY <1>0, <2>1, <5>1
          <5>2. CASE home[d] = home[c]
            <6>1. d \in tr[home[c]].handlers
              BY <1>0, <3>3, <5>2 DEF StreamInv, HandlerInv
            <6>2. CASE Attach(c)
              BY <5>2, <6>1, <6>2, AttachIs
            <6>3. CASE Leave(c)
              <7>1. tr'[home[c]].handlers = tr[home[c]].handlers \ {c}
                BY <6>3, LeaveIs
              <7>2. tr'[home[c]].handlers # {}
                BY <2>4, <6>1, <7>1
              <7> QED
                BY <5>2, <6>3, <7>2, LeaveIs
            <6> QED
              BY <1>11, <6>2, <6>3
          <5> QED
            BY <5>1, <5>2
        <4> QED
          BY <1>3, <2>1, <2>2, <2>4, <3>1, <4>1
      <3> QED
        BY <3>2, <3>3
    <2> QED
      BY <1>2, <2>3, <2>4
  <1> QED
    BY <1>8, <1>9, <1>10, <1>11 DEF Next, Request

\* What is owed stays on its way until it is told.
LEMMA OwedStep ==
  ASSUME StreamInv, Next
  PROVE  OwedInv'
  <1> DEFINE Good(c, n) == /\ Listening(c) /\ pc[c] # "joining"
                           /\ Ended(c) \/ OnItsWay(c, n)
  <1>0. /\ home \in [Clients -> Replicas] /\ owed \subseteq Clients \X Nat
        /\ pc \in [Clients -> {"off", "found", "joining", "asking", "asked", "live", "left"}]
        /\ got \in [Clients -> Seq(Messages)]
    BY DEF StreamInv, TypeOK
  <1>1. \A o \in owed : o[1] \in Clients /\ o[2] \in Nat /\ Good(o[1], o[2])
    BY <1>0 DEF StreamInv, OwedInv
  <1>2. (\A o \in owed' : Good(o[1], o[2])') => OwedInv'
    BY DEF OwedInv
  <1>3. ASSUME NEW c \in Clients, NEW n \in Nat, Good(c, n)
        PROVE  Past(home[c]) /\ c \in tr[home[c]].handlers
    BY <1>0, <1>3 DEF StreamInv, HandlerInv, Past
  \* A step that leaves the buffer of a replica, and what comes to it.
  <1>4. ASSUME NEW c \in Clients, NEW n \in Nat, Good(c, n), NEW r \in Replicas, r = home[c],
               home' = home, Listening(c)', pc'[c] # "joining", Ended(c) => Ended(c)',
               tr'[r].next = tr[r].next, tr'[r].pend = tr[r].pend,
               \A m \in Coming(r) : m.type = "final" /\ m.seq = n => m \in Coming(r)'
        PROVE  Good(c, n)'
    <2>1. OnItsWay(c, n) => OnItsWay(c, n)'
      BY <1>4 DEF OnItsWay, Coming
    <2> QED
      BY <1>4, <2>1
  <1> HIDE DEF Good
  <1>5. ASSUME Passing, \A c \in Clients : Listening(c) /\ pc[c] # "joining" =>
                 Listening(c)' /\ pc'[c] # "joining" /\ (Ended(c) => Ended(c)')
        PROVE  OwedInv'
    <2>1. ASSUME NEW o \in owed'
          PROVE  Good(o[1], o[2])'
      <3> DEFINE c == o[1]
                 n == o[2]
      <3>1. c \in Clients /\ n \in Nat /\ Good(c, n)
        BY <1>1, <1>5, <2>1 DEF Passing
      <3> HIDE DEF c, n
      <3>2. PICK r \in Replicas : r = home[c] /\ Past(r)
        BY <1>0, <1>3, <3>1
      <3>3. /\ home' = home /\ tr'[r].next = tr[r].next /\ tr'[r].pend = tr[r].pend
            /\ \A m \in Coming(r) : m.type = "final" /\ m.seq = n => m \in Coming(r)'
        BY <1>5, <2>1, <3>2 DEF Passing, n
      <3>4. Listening(c) /\ pc[c] # "joining"
        BY <3>1 DEF Good
      <3>5. Listening(c)' /\ pc'[c] # "joining" /\ (Ended(c) => Ended(c)')
        BY <1>5, <3>1, <3>4
      <3> QED
        BY <1>4, <3>1, <3>2, <3>3, <3>5 DEF c, n
    <2> QED
      BY <1>2, <2>1
  <1>6. ASSUME NEW m \in Messages, Numbering(m)
        PROVE  OwedInv'
    <2>1. UNCHANGED <<pc, home, got, tr>> /\ m.seq = ctr
      BY <1>6 DEF Numbering, cvars
    <2>2. ASSUME NEW c \in Clients, NEW n \in Nat, Good(c, n)
          PROVE  Good(c, n)'
      <3>1. PICK r \in Replicas : r = home[c] /\ \A x \in Coming(r) : x \in Coming(r)'
        BY <1>0, <1>6 DEF Numbering
      <3>2. Listening(c) /\ pc[c] # "joining"
        BY <2>2 DEF Good
      <3>3. Listening(c)' /\ pc'[c] # "joining" /\ (Ended(c) => Ended(c)')
        BY <2>1, <3>2 DEF Listening, Ended
      <3> QED
        BY <1>4, <2>1, <2>2, <3>1, <3>3
    <2>3. ASSUME NEW c \in Live, m.type = "final", NEW k, k = ctr
          PROVE  Good(c, k)'
      <3>1. c \in Clients /\ pc[c] = "live" /\ home[c] \in Replicas
        BY <1>0 DEF Live
      <3>2. PICK r \in Replicas : r = home[c]
        BY <3>1
      <3>3. m \in Coming(r)'
        BY <1>6 DEF Numbering
      <3>4. tr'[r].next <= ctr
        BY <2>1 DEF StreamInv, BufferInv
      <3>5. m \in Coming(r)' \cup tr'[r].pend /\ m.type = "final" /\ m.seq = k
        BY <2>1, <2>3, <3>3
      <3>6. OnItsWay(c, k)'
        BY <2>1, <2>3, <3>2, <3>4, <3>5 DEF OnItsWay, Coming
      <3> QED
        BY <2>1, <3>1, <3>6 DEF Good, Listening
    <2>4. ASSUME NEW o \in owed'
          PROVE  Good(o[1], o[2])'
      <3>1. CASE o \in owed
        BY <1>1, <2>2, <3>1
      <3>2. CASE o \notin owed
        <4>1. m.type = "final" /\ \E c \in Live : o = <<c, ctr>>
          BY <1>6, <2>4, <3>2 DEF Numbering
        <4> QED
          BY <2>3, <4>1
      <3> QED
        BY <3>1, <3>2
    <2> QED
      BY <1>2, <2>4
  <1>7. ASSUME NEW r, NEW ms, NEW res, Delivering(r, ms, res),
               \A c \in Clients : Listening(c) /\ pc[c] # "joining" =>
                 Listening(c)' /\ pc'[c] # "joining"
        PROVE  OwedInv'
    <2>0. r \in Replicas /\ Delivery(r, ms, res) /\ home' = home
      BY <1>7 DEF Delivering
    <2>1. ASSUME NEW o \in owed'
          PROVE  Good(o[1], o[2])'
      <3>1. /\ o \in owed
            /\ home[o[1]] = r => Closed(got'[o[1]]) \/ tr'[r].next <= o[2]
            /\ Ended(o[1]) => Closed(got'[o[1]])
        BY <2>0, <2>1, DeliveryOwed
      <3> DEFINE c == o[1]
                 n == o[2]
      <3>2. c \in Clients /\ n \in Nat /\ Good(c, n)
        BY <1>1, <3>1
      <3>3. /\ home[c] = r => Closed(got'[c]) \/ tr'[r].next <= n
            /\ Ended(c) => Closed(got'[c])
            /\ Closed(got'[c]) <=> Ended(c)'
        BY <3>1 DEF Ended, Closed
      <3> HIDE DEF c, n
      <3>4. /\ Listening(c) /\ pc[c] # "joining" /\ (Ended(c) \/ OnItsWay(c, n))
            /\ Listening(c)' /\ pc'[c] # "joining"
        BY <1>7, <3>2 DEF Good
      <3>5. ASSUME ~Ended(c)'
            PROVE  OnItsWay(c, n)'
        <4>1. OnItsWay(c, n) /\ home[c] \in Replicas
          BY <1>0, <3>2, <3>3, <3>4, <3>5
        <4>2. CASE home[c] # r
          <5>1. PICK q \in Replicas : q = home[c]
            BY <4>1
          <5>2. tr'[q] = tr[q] /\ \A m \in Coming(q) : m \in Coming(q)'
            BY <1>7, <2>0, <4>2, <5>1, DeliveryBuffers DEF Delivering
          <5> QED
            BY <2>0, <4>1, <5>1, <5>2 DEF OnItsWay, Coming
        <4>3. CASE home[c] = r
          <5>1. tr'[r].next <= n /\ tr'[r] = res.buf
            BY <2>0, <3>3, <3>5, <4>3, DeliveryBuffers
          <5>2. PICK m \in Coming(r) \cup tr[r].pend : m.type = "final" /\ m.seq = n
            BY <4>1, <4>3 DEF OnItsWay
          <5>3. CASE m \in ms
            <6>1. m \in tr'[r].pend
              BY <2>0, <5>1, <5>2, <5>3 DEF Delivery, Keeps
            <6> QED
              BY <2>0, <4>3, <5>1, <5>2, <6>1 DEF OnItsWay
          <5>4. CASE m \notin ms
            <6>1. m \in Coming(r)'
              BY <1>7, <2>0, <5>2, <5>4 DEF Delivering, Delivery
            <6> QED
              BY <2>0, <4>3, <5>1, <5>2, <6>1 DEF OnItsWay, Coming
          <5> QED
            BY <5>3, <5>4
        <4> QED
          BY <4>2, <4>3
      <3> QED
        BY <3>4, <3>5 DEF Good, c, n
    <2> QED
      BY <1>2, <2>1
  <1>8. CASE Driver \/ AbortSignal \/ Abort
    BY <1>5, <1>6, <1>8, DriverKinds DEF cvars, Listening, Ended
  <1>9. ASSUME NEW r \in Replicas,
               Joined(r) \/ FlushTimeout(r) \/ \E i \in DOMAIN net[r] : HandleMessage(r, i)
        PROVE  OwedInv'
    <2>1. pc' = pc
      BY <1>9, ReplicaKinds
    <2>2. CASE Passing /\ UNCHANGED got
      BY <1>5, <2>1, <2>2 DEF Listening, Ended
    <2>3. CASE \E ms, res : Delivering(r, ms, res)
      BY <1>7, <2>1, <2>3 DEF Listening
    <2> QED
      BY <1>9, <2>2, <2>3, ReplicaKinds
  <1>10. ASSUME NEW c \in Clients, Lookup(c) \/ Replay(c) \/ GetCounter(c) \/ SyncBuffer(c)
         PROVE  OwedInv'
    <2>1. \A d \in Clients : d # c => pc'[d] = pc[d]
      BY <1>10, ClientKinds
    <2>2. Listening(c) /\ pc[c] # "joining" => Listening(c)' /\ pc'[c] # "joining"
      BY <1>0, <1>10 DEF Listening, Lookup, Replay, GetCounter, SyncBuffer
    <2>3. \A d \in Clients : Listening(d) /\ pc[d] # "joining" => Listening(d)' /\ pc'[d] # "joining"
      BY <2>1, <2>2 DEF Listening
    <2>4. CASE SyncBuffer(c)
      BY <1>7, <2>3, <2>4, ClientKinds
    <2>5. CASE Lookup(c) \/ GetCounter(c)
      <3>1. got' = got
        BY <2>5 DEF Lookup, GetCounter, cvars
      <3> QED
        BY <1>5, <2>3, <2>5, <3>1, ClientKinds DEF Ended
    <2>6. CASE Replay(c)
      <3>1. \A d \in Clients : d # c => got'[d] = got[d]
        BY <2>6, ReplayIs
      <3>2. Ended(c) => Ended(c)'
        BY <2>6, ReplayIs DEF Ended, Closed
      <3>3. \A d \in Clients : Ended(d) => Ended(d)'
        BY <3>1, <3>2 DEF Ended
      <3> QED
        BY <1>5, <2>3, <2>6, <3>3, ClientKinds
    <2> QED
      BY <1>10, <2>4, <2>5, <2>6
  <1>11. ASSUME NEW c \in Clients, Attach(c) \/ Leave(c)
         PROVE  OwedInv'
    <2>1. /\ home' = home /\ (\A d \in Clients : d # c => pc'[d] = pc[d])
          /\ \A r \in Replicas : (r # home[c] => tr'[r] = tr[r]) /\ Coming(r)' = Coming(r)
      BY <1>11, HandlersMove
    <2>2. \A d \in Clients : d # c => got'[d] = got[d]
      <3>1. CASE Leave(c)
        BY <3>1 DEF Leave, StreamInv, TypeOK
      <3> QED
        BY <1>11, <3>1, AttachIs
    <2>3. \A o \in owed' : o \in owed /\ o[1] # c
      <3>1. CASE Attach(c)
        <4>1. owed' = owed /\ pc[c] = "found"
          BY <3>1 DEF Attach, hist
        <4> QED
          BY <1>1, <4>1 DEF Good, Listening
      <3>2. CASE Leave(c)
        BY <3>2 DEF Leave
      <3> QED
        BY <1>11, <3>1, <3>2
    <2>4. ASSUME NEW d \in Clients, NEW n \in Nat, Good(d, n), d # c
          PROVE  Good(d, n)'
      <3>0. home[d] \in Replicas /\ d \in tr[home[d]].handlers
        BY <1>0, <1>3, <2>4
      <3>1. tr'[home[d]].next = tr[home[d]].next /\ tr'[home[d]].pend = tr[home[d]].pend
        <4>1. CASE home[d] # home[c]
          BY <2>1, <3>0, <4>1
        <4>2. CASE home[d] = home[c] /\ Attach(c)
          BY <3>0, <4>2, AttachIs
        <4>3. CASE home[d] = home[c] /\ Leave(c)
          <5>1. tr'[home[c]].handlers = tr[home[c]].handlers \ {c}
            BY <4>3, LeaveIs
          <5>2. tr'[home[c]].handlers # {}
            BY <2>4, <3>0, <4>3, <5>1
          <5> QED
            BY <4>3, <5>2, LeaveIs
        <4> QED
          BY <1>11, <3>0, <4>1, <4>2, <4>3
      <3>2. Listening(d) /\ pc[d] # "joining"
        BY <2>4 DEF Good
      <3>3. Listening(d)' /\ pc'[d] # "joining" /\ (Ended(d) => Ended(d)')
        BY <2>1, <2>2, <2>4, <3>2 DEF Listening, Ended
      <3>4. PICK r \in Replicas : r = home[d]
        BY <3>0
      <3> QED
        BY <1>4, <2>1, <2>4, <3>1, <3>3, <3>4
    <2>5. \A o \in owed' : Good(o[1], o[2])'
      BY <1>1, <2>3, <2>4
    <2> QED
      BY <1>2, <2>5
  <1> QED
    BY <1>8, <1>9, <1>10, <1>11 DEF Next, Request

-----------------------------------------------------------------------------
(* The theorems *)

\* Every step keeps StreamInv: one number per event, a buffer that waits only
\* ahead of what it expects and never without its timer, handlers that are those
\* of the open requests, final events that are on their way until they are told.
LEMMA StreamStep ==
  ASSUME StreamInv, [Next]_vars
  PROVE  StreamInv'
  <1>1. CASE Next
    <2>1. TypeOK'
      BY <1>1, ClientTypes, DriverTypes, ReplicaTypes DEF Next
    <2>2. NumberInv' /\ UnsentInv' /\ EarlyInv' /\ GotInv' /\ LiveInOrder' /\ OwedInv'
      BY <1>1, NumbersStep, UnsentStep, EarlyStep, GotStep, OwedStep
    <2>3. \A r \in Replicas : BufferInv(r)' /\ HandlerInv(r)'
      BY <1>1, BufferStep, HandlersStep
    <2> QED
      BY <2>1, <2>2, <2>3 DEF StreamInv
  <1>2. CASE UNCHANGED vars
    BY <1>2 DEF vars, redis, rtvars, wire, cvars, hist, StreamInv, TypeOK, NumberInv, UnsentInv,
                BufferInv, HandlerInv, EarlyInv, GotInv, LiveInOrder, OwedInv, OnItsWay,
                Coming, Listening, Ended
  <1> QED
    BY <1>1, <1>2

\* StreamInv holds of every stream until the first cleanup.
THEOREM StreamInvariant == Spec => []StreamInv
  <1>1. Init => StreamInv
    BY StreamStarts
  <1>2. StreamInv /\ [Next]_vars => StreamInv'
    BY StreamStep
  <1> QED
    BY <1>1, <1>2, PTL DEF Spec

\* Whatever overtakes, is lost, overflows or is synced: live events are written
\* to a response in the order of their numbers.
THEOREM OrderAlways == Spec => []LiveInOrder
  <1>1. StreamInv => LiveInOrder
    BY DEF StreamInv
  <1> QED
    BY <1>1, StreamInvariant, PTL

\* Up to the first cleanup, a client that was live when a final event got its
\* number has been told an end, once nothing is on its way to its replica and no
\* timer runs there, unless the event is still unpublished, its PUBLISH failed,
\* or the replica has passed over its number, which syncReorderBuffer can do for
\* a late subscriber.
THEOREM DoneAlwaysHeard == Spec => []DoneIsHeard
  <1>1. StreamInv => DoneIsHeard
    <2> SUFFICES ASSUME StreamInv, NEW o \in owed, ~Ended(o[1]),
                        net[home[o[1]]] = <<>>, ~tr[home[o[1]]].timer
                 PROVE  drv.msg = Msg("final", o[2], 0) \/ abt.msg = Msg("final", o[2], 0)
      BY DEF DoneIsHeard
    <2> DEFINE c == o[1]
               n == o[2]
               r == home[c]
    <2>1. c \in Clients /\ r \in Replicas /\ OnItsWay(c, n)
      BY DEF StreamInv, TypeOK, OwedInv
    <2> HIDE DEF c, n
    <2>2. tr[r].pend = {}
      BY <2>1 DEF StreamInv, BufferInv, c
    <2>3. PICK m \in Coming(r) : m.type = "final" /\ m.seq = n
      BY <2>1, <2>2 DEF OnItsWay
    <2>4. Range(net[r]) = {}
      <3>1. DOMAIN <<>> = {}
        OBVIOUS
      <3> QED
        BY <3>1 DEF Range, c
    <2>5. m \in {drv.msg, abt.msg}
      BY <2>3, <2>4 DEF Coming
    <2> QED
      BY <2>3, <2>5 DEF StreamInv, UnsentInv, c, n
  <1> QED
    BY <1>1, StreamInvariant, PTL

-----------------------------------------------------------------------------
(* What a run of the buffer gives out *)

\* Of the messages ms, it delivers all it goes past and had not passed before,
\* but those behind the number from.
Gives(b, ms, res, from) ==
  \A m \in ms : b.next <= m.seq /\ from <= m.seq /\ m.seq < res.buf.next => m \in Range(res.out)

\* What flushPendingMessages goes past it delivers ...
LEMMA FlushGives ==
  ASSUME NEW b \in Buffers, IsFiniteSet(b.pend), Distinct(b.pend),
         \A m \in b.pend : b.next <= m.seq
  PROVE  Gives(b, b.pend, Flush(b), 0)
  <1> DEFINE n == CHOOSE n \in b.next .. b.next + Cardinality(b.pend) :
                    n \notin Seqs(b.pend) /\ b.next .. n - 1 \subseteq Seqs(b.pend)
             ready == {m \in b.pend : m.seq \in b.next .. n - 1}
             rest == b.pend \ ready
             both == b.timer /\ rest # {}
             out == InOrder(ready)
  <1>0. /\ b.pend \in SUBSET Messages /\ b.next \in Nat
        /\ \A m \in b.pend : m.seq \in Nat /\ m.seq \in Seqs(b.pend)
    BY DEF Buffers, Messages, Seqs
  <1>1. n \in b.next .. b.next + Cardinality(b.pend)
    BY <1>0, FlushRun
  <1>2. n \in Nat /\ b.next <= n
    BY <1>0, <1>1, SeqsFinite
  <1>3. Flush(b) = [buf |-> [b EXCEPT !.next = n, !.pend = rest, !.timer = both],
                    out |-> out]
    BY DEF Flush
  <1> HIDE DEF n
  <1>4. ready \subseteq b.pend /\ IsFiniteSet(ready) /\ Distinct(ready)
    BY FS_Subset DEF Distinct
  <1>5. Range(out) = ready
    BY <1>0, <1>4, InOrderIs
  <1>6. \A m \in b.pend : b.next <= m.seq /\ m.seq < n => m \in ready
    BY <1>0, <1>2
  <1> HIDE DEF ready, rest, both, out
  <1>7. Flush(b).buf = [b EXCEPT !.next = n, !.pend = rest, !.timer = both] /\ Flush(b).out = out
    BY <1>3
  <1>8. Flush(b).buf.next = n
    BY <1>7 DEF Buffers
  <1> QED
    BY <1>5, <1>6, <1>7, <1>8 DEF Gives

\* ... as forceFlushBuffer does ...
LEMMA ForceFlushGives ==
  ASSUME NEW b \in Buffers, IsFiniteSet(b.pend), Distinct(b.pend)
  PROVE  Gives(b, b.pend, ForceFlush(b), 0)
  <1>1. b.pend \in SUBSET Messages
    BY DEF Buffers
  <1>2. Range(InOrder(b.pend)) = b.pend
    BY <1>1, InOrderIs
  <1> QED
    BY <1>2 DEF Gives, ForceFlush

\* ... and the handling of a message, with the message itself.
LEMMA ReceiveGives ==
  ASSUME NEW b \in Buffers, IsFiniteSet(b.pend), \A o \in b.pend : b.next < o.seq,
         NEW m \in Messages, Distinct(b.pend \cup {m})
  PROVE  Gives(b, b.pend \cup {m}, Receive(b, m), 0)
  <1> DEFINE ms == b.pend \cup {m}
             more == [b EXCEPT !.pend = @ \cup {m}, !.timer = TRUE]
             past == [b EXCEPT !.next = @ + 1]
             res == Receive(b, m)
  <1>0. b.next \in Nat /\ m.seq \in Nat /\ ms \in SUBSET Messages /\ \A o \in ms : o.seq \in Nat
    BY DEF Buffers, Messages
  <1>1. CASE m.seq < b.next
    <2>1. res = [buf |-> b, out |-> <<>>]
      BY <1>0, <1>1 DEF Receive, Nothing
    <2> HIDE DEF res
    <2>2. res.buf = b
      BY <2>1
    <2>3. \A o \in ms : ~(b.next <= o.seq /\ o.seq < b.next)
      BY <1>0
    <2> QED
      BY <2>2, <2>3 DEF Gives, res
  <1>2. CASE m.seq > b.next
    <2>1. res = [buf |-> more, out |-> <<>>] \/ res = ForceFlush(more)
      BY <1>0, <1>2 DEF Receive, Nothing
    <2>2. more \in Buffers /\ more.next = b.next /\ more.pend = ms
      BY <1>0 DEF Buffers
    <2>3. IsFiniteSet(ms)
      BY FS_AddElement
    <2> HIDE DEF more, ms
    <2>4. CASE res = [buf |-> more, out |-> <<>>]
      <3> HIDE DEF res
      <3>1. res.buf.next = b.next
        BY <2>2, <2>4
      <3>2. \A o \in ms : ~(b.next <= o.seq /\ o.seq < b.next)
        BY <1>0
      <3> QED
        BY <3>1, <3>2 DEF Gives, res, ms
    <2>5. CASE res = ForceFlush(more)
      <3>1. Gives(more, ms, res, 0)
        BY <2>2, <2>3, <2>5, ForceFlushGives DEF ms
      <3> HIDE DEF res
      <3> QED
        BY <2>2, <3>1 DEF Gives, res, ms
    <2> QED
      BY <2>1, <2>4, <2>5
  <1>3. CASE m.seq = b.next
    <2> DEFINE F == Flush(past)
    <2>1. past \in Buffers /\ past.next = b.next + 1 /\ past.pend = b.pend
      BY <1>0 DEF Buffers
    <2>2. Distinct(b.pend) /\ \A o \in b.pend : b.next + 1 <= o.seq
      BY <1>0 DEF Distinct
    <2>3. res = [F EXCEPT !.out = <<m>> \o @]
      BY <1>3, <1>0 DEF Receive, Then
    <2> HIDE DEF past
    <2>4. Gives(past, b.pend, F, 0) /\ F \in [buf : Buffers, out : Seq(Messages)]
      BY <2>1, <2>2, FlushKeeps, FlushGives
    <2> HIDE DEF F, res
    <2>5. res.buf = F.buf /\ res.out = <<m>> \o F.out
      BY <2>3, <2>4
    <2>6. Range(res.out) = {m} \cup Range(F.out)
      <3>1. <<m>> \in Seq(Messages) /\ F.out \in Seq(Messages)
        BY <2>4
      <3>2. Range(<<m>>) = {m}
        BY DEF Range
      <3>3. \A s1, s2 \in Seq(Messages) : Range(s1 \o s2) = Range(s1) \cup Range(s2)
        BY RangeConcatenation
      <3> QED
        BY <2>5, <3>1, <3>2, <3>3
    <2>7. ASSUME NEW o \in ms, b.next <= o.seq, o.seq < F.buf.next
          PROVE  o \in Range(res.out)
      <3>1. CASE o = m
        BY <2>6, <3>1
      <3>2. CASE o # m
        <4>1. o \in b.pend /\ past.next <= o.seq /\ 0 <= o.seq
          BY <1>0, <2>1, <2>2, <2>7, <3>2
        <4> QED
          BY <2>4, <2>6, <2>7, <4>1 DEF Gives
      <3> QED
        BY <3>1, <3>2
    <2> QED
      BY <2>5, <2>7 DEF Gives, res
  <1> QED
    BY <1>0, <1>1, <1>2, <1>3

\* A sync delivers all from the number it was told; with nothing waiting it only
\* moves on, and without a replay no further than what waits.
LEMMA SyncGives ==
  ASSUME NEW b \in Buffers, IsFiniteSet(b.pend), Distinct(b.pend),
         \A m \in b.pend : b.next < m.seq,
         NEW replayed \in Nat, NEW counter \in Nat, replayed <= counter
  PROVE  /\ Gives(b, b.pend, Sync(b, replayed, counter), replayed)
         /\ b.pend = {} => /\ Sync(b, replayed, counter).out = <<>>
                           /\ counter <= b.next \/ replayed # 0
                              \/ Sync(b, replayed, counter).buf.next = counter
         /\ b.pend # {} /\ replayed = 0 =>
              \A top \in Nat : Below(b, b.pend, Sync(b, replayed, counter), top)
  <1> DEFINE keep == {m \in b.pend : m.seq >= replayed}
             bar == IF keep = {} THEN IF replayed > 0 THEN replayed ELSE counter
                    ELSE Smaller(counter, MinSeq(keep))
             synced == [b EXCEPT !.pend = keep, !.next = Larger(@, bar)]
             F == Flush(synced)
             timer == F.buf.pend # {}
             res == Sync(b, replayed, counter)
  <1>0. b.next \in Nat /\ b.pend \in SUBSET Messages /\ \A m \in b.pend : m.seq \in Nat
    BY DEF Buffers, Messages
  <1>1. keep \subseteq b.pend /\ IsFiniteSet(keep) /\ Distinct(keep)
    BY FS_Subset DEF Distinct
  <1>2. \A m \in b.pend : m \in keep <=> replayed <= m.seq
    BY <1>0
  <1> HIDE DEF keep
  <1>3. /\ bar \in Nat /\ bar <= counter
        /\ \A m \in keep : bar <= m.seq
        /\ keep = {} /\ replayed = 0 => bar = counter
        /\ keep # {} => \E m \in keep : bar <= m.seq
    <2>1. CASE keep = {}
      BY <1>0, <2>1
    <2>2. CASE keep # {}
      <3>1. /\ MinSeq(keep) \in Nat /\ MinSeq(keep) \in Seqs(keep)
            /\ \A m \in keep : MinSeq(keep) <= m.seq
        BY <1>0, <1>1, <2>2, MinMaxSeq
      <3>2. bar = Smaller(counter, MinSeq(keep))
        BY <2>2
      <3> QED
        BY <1>0, <1>1, <2>2, <3>1, <3>2 DEF Smaller
    <2> QED
      BY <2>1, <2>2
  <1> HIDE DEF bar
  <1>4. Larger(b.next, bar) = (IF b.next < bar THEN bar ELSE b.next) /\ Larger(b.next, bar) \in Nat
    BY <1>0, <1>3 DEF Larger
  <1>5. synced \in Buffers /\ synced.next = Larger(b.next, bar) /\ synced.pend = keep
    BY <1>0, <1>1, <1>4 DEF Buffers
  <1>6. res = [F EXCEPT !.buf.timer = timer]
    BY DEF Sync, keep, bar
  <1> HIDE DEF synced
  <1>7. \A m \in keep : synced.next <= m.seq
    BY <1>0, <1>1, <1>3, <1>4, <1>5
  <1>8. /\ Keeps(synced, keep, F) /\ F \in [buf : Buffers, out : Seq(Messages)]
        /\ Gives(synced, keep, F, 0)
        /\ \A top \in Nat : Below(synced, keep, F, top)
    BY <1>1, <1>5, <1>7, FlushKeeps, FlushGives
  <1>9. timer \in BOOLEAN
    OBVIOUS
  <1> HIDE DEF F, timer, res
  <1>10. res.out = F.out /\ res.buf.next = F.buf.next
    <2> DEFINE u == F.buf
               v == res.buf
    <2>1. u \in Buffers
      BY <1>8
    <2>2. v = [u EXCEPT !.timer = timer] /\ res.out = F.out
      BY <1>6, <1>8
    <2> HIDE DEF u, v
    <2>3. v.next = u.next
      BY <2>1, <2>2 DEF Buffers
    <2> QED
      BY <2>2, <2>3 DEF u, v
  <1>11. Gives(b, b.pend, res, replayed)
    <2> SUFFICES ASSUME NEW m \in b.pend, b.next <= m.seq, replayed <= m.seq, m.seq < F.buf.next
                 PROVE  m \in Range(F.out)
      BY <1>10 DEF Gives
    <2>1. m \in keep /\ synced.next <= m.seq /\ 0 <= m.seq
      BY <1>0, <1>2, <1>7
    <2> QED
      BY <1>8, <2>1 DEF Gives
  <1>12. ASSUME b.pend = {}
         PROVE  res.out = <<>> /\ (counter <= b.next \/ replayed # 0 \/ res.buf.next = counter)
    <2>1. keep = {} /\ Range(F.out) = {} /\ F.out \in Seq(Messages)
      BY <1>1, <1>8, <1>12 DEF Keeps
    <2>2. F.out = <<>>
      <3>1. DOMAIN F.out = {}
        BY <2>1 DEF Range
      <3>2. DOMAIN F.out = 1 .. Len(F.out) /\ Len(F.out) \in Nat
        BY <2>1
      <3>3. Len(F.out) = 0
        BY <3>1, <3>2
      <3> QED
        BY <2>1, <3>3, EmptySeq
    <2>3. ASSUME b.next < counter, replayed = 0
          PROVE  F.buf.next = counter
      <3>1. synced.next = counter
        BY <1>0, <1>3, <1>4, <1>5, <2>1, <2>3
      <3>2. Below(synced, keep, F, counter) /\ synced.next <= F.buf.next /\ F.buf.next \in Nat
        BY <1>8 DEF Keeps, Buffers
      <3> QED
        BY <2>1, <3>1, <3>2 DEF Below
    <2> QED
      BY <1>0, <1>10, <2>2, <2>3
  <1>13. ASSUME b.pend # {}, replayed = 0, NEW top \in Nat
         PROVE  Below(b, b.pend, res, top)
    <2> SUFFICES ASSUME b.next <= top, \A m \in b.pend : m.seq < top
                 PROVE  F.buf.next <= top
      BY <1>10 DEF Below
    <2>1. keep = b.pend
      <3>1. \A m \in b.pend : m \in keep
        BY <1>0, <1>2, <1>13
      <3> QED
        BY <1>1, <3>1
    <2>2. bar <= top
      BY <1>0, <1>3, <1>13, <2>1
    <2>3. synced.next <= top /\ \A m \in keep : m.seq < top
      BY <1>0, <1>3, <1>4, <1>5, <2>1, <2>2
    <2> QED
      BY <1>8, <2>3 DEF Below
  <1> QED
    BY <1>11, <1>12, <1>13 DEF res

-----------------------------------------------------------------------------
(* The lane from the driver to the responses *)

\* Taking the first of a sequence moves the others up.
Shifted(s, t) == Len(t) = Len(s) - 1 /\ \A j \in 1 .. Len(t) : t[j] = s[j + 1]

\* RemoveAt at the front does.
LEMMA RemoveFirstIs ==
  ASSUME NEW s \in Seq(Messages), 1 \in DOMAIN s
  PROVE  Shifted(s, RemoveAt(s, 1))
  <1> DEFINE n == Len(s)
             a == SubSeq(s, 1, 1 - 1)
             z == SubSeq(s, 1 + 1, n)
  <1>0. n \in Nat /\ DOMAIN s = 1 .. n /\ 1 <= n
    OBVIOUS
  <1>1. a = <<>>
    BY SubSeqEmpty
  <1>2. z \in Seq(Messages) /\ Len(z) = n - 1 /\ \A j \in 1 .. n - 1 : z[j] = s[1 + j]
    BY <1>0
  <1>3. RemoveAt(s, 1) = a \o z
    BY DEF RemoveAt
  <1> HIDE DEF a, z, n
  <1>4. RemoveAt(s, 1) = z
    BY <1>1, <1>2, <1>3
  <1>5. ASSUME NEW j \in 1 .. n - 1
        PROVE  z[j] = s[j + 1]
    <2>1. 1 + j = j + 1
      BY <1>0
    <2> QED
      BY <1>2, <2>1
  <1>6. 1 .. Len(z) = 1 .. n - 1
    BY <1>2
  <1> QED
    BY <1>2, <1>4, <1>5, <1>6 DEF Shifted, n

\* While undisturbed, nobody aborts, neither the agent nor the sending of its end
\* fails, and messages come in turn.
LEMMA UndisturbedSteps ==
  ASSUME StreamLaneInv, Next, ~disturbed'
  PROVE  /\ Undisturbed /\ UndisturbedInv /\ Undisturbed'
         /\ abt' = abt /\ abt.msg.type = "none"
         /\ \/ \E c \in Clients : Lookup(c) \/ Request(c) \/ Leave(c)
            \/ EmitChunk \/ PublishChunk \/ Finish \/ NumberFinal \/ PublishFinal \/ StoreEnd
            \/ \E r \in Replicas : \/ Joined(r) \/ FlushTimeout(r)
                                   \/ 1 \in DOMAIN net[r] /\ HandleMessage(r, 1)
  <1> USE DEF redis, rtvars, wire, cvars, hist
  <1>0. StreamInv /\ drv \in Drivers /\ abt \in Aborts /\ disturbed \in BOOLEAN
        /\ net \in [Replicas -> Seq(Messages)]
    BY DEF StreamLaneInv, StreamInv, TypeOK
  <1>1. ASSUME AbortSignal \/ Abort
        PROVE  FALSE
    <2>1. CASE AbortSignal
      BY <2>1 DEF AbortSignal
    <2>2. CASE Abort
      <3>1. disturbed' = disturbed /\ abt.pc \notin {"none", "off"}
        BY <2>2 DEF Abort, AbortNumber, AbortPublish, AbortFails, AbortDelete
      <3> QED
        BY <3>1 DEF StreamLaneInv, Undisturbed
    <2> QED
      BY <1>1, <2>1, <2>2
  <1>2. ASSUME NEW c \in Clients, Lookup(c) \/ Request(c) \/ Leave(c)
        PROVE  UNCHANGED <<drv, abt, disturbed>>
    BY <1>2 DEF Lookup, Request, Attach, Replay, GetCounter, SyncBuffer, Leave
  <1>3. ASSUME Fail \/ SendFails
        PROVE  FALSE
    BY <1>3 DEF Fail, SendFails
  <1>4. ASSUME Driver
        PROVE  abt' = abt /\ disturbed' = disturbed
    BY <1>3, <1>4 DEF Driver, EmitChunk, PublishChunk, Finish, NumberFinal, PublishFinal, StoreEnd
  <1>5. ASSUME NEW r \in Replicas, Joined(r) \/ FlushTimeout(r)
        PROVE  UNCHANGED <<drv, abt, disturbed>>
    BY <1>5 DEF Joined, FlushTimeout
  <1>6. ASSUME NEW r \in Replicas, NEW i \in DOMAIN net[r], HandleMessage(r, i)
        PROVE  UNCHANGED <<drv, abt>> /\ ~disturbed /\ i = 1
    <2>1. /\ UNCHANGED <<drv, abt>> /\ disturbed' = (disturbed \/ i > 1) /\ ~disturbed'
      BY <1>6 DEF HandleMessage
    <2>2. ~disturbed /\ ~(i > 1)
      BY <2>1, Zenon
    <2>3. i \in Nat /\ i >= 1
      BY <1>0
    <2> QED
      BY <2>1, <2>2, <2>3
  <1>7. ~disturbed /\ abt' = abt
    <2>1. CASE Driver
      BY <1>4, <2>1
    <2>2. CASE ~Driver
      BY <1>1, <1>2, <1>5, <1>6, <2>2 DEF Next
    <2> QED
      BY <2>1, <2>2
  <1>8. Undisturbed /\ UndisturbedInv
    BY <1>7 DEF StreamLaneInv
  <1>9. ~Fail /\ ~SendFails
    BY <1>3
  <1>10. abt.msg.type = "none"
    BY <1>0, <1>8 DEF StreamInv, UnsentInv, Undisturbed
  <1>15. Undisturbed'
    <2>1. drv'.how = "done"
      <3>1. <<Owner, 1>> \notin dead \/ drv.pc # "run"
        BY <1>8 DEF UndisturbedInv, EntryInv, Over
      <3>2. CASE Driver
        BY <1>0, <1>8, <1>9, <3>1, <3>2 DEF Driver, EmitChunk, PublishChunk, Finish, NumberFinal,
           PublishFinal, CompleteJob, StoreEnd, Drivers, Undisturbed
      <3>3. CASE ~Driver
        <4>1. drv' = drv
          BY <1>1, <1>2, <1>5, <1>6, <3>3 DEF Next
        <4> QED
          BY <1>8, <4>1 DEF Undisturbed
      <3> QED
        BY <3>2, <3>3
    <2> QED
      BY <1>7, <1>8, <2>1 DEF Undisturbed
  <1>11. CASE \E c \in Clients : Lookup(c) \/ Request(c) \/ Leave(c)
    BY <1>7, <1>8, <1>10, <1>11, <1>15
  <1>12. CASE Driver
    BY <1>7, <1>8, <1>9, <1>10, <1>12, <1>15 DEF Driver
  <1>13. CASE \E r \in Replicas : Joined(r) \/ FlushTimeout(r)
    BY <1>7, <1>8, <1>10, <1>13, <1>15
  <1>14. CASE \E r \in Replicas : \E i \in DOMAIN net[r] : HandleMessage(r, i)
    BY <1>6, <1>7, <1>8, <1>10, <1>14, <1>15
  <1> QED
    BY <1>1, <1>11, <1>12, <1>13, <1>14 DEF Next

\* What is in the lane: the buffer, the connection, and what the driver holds.
LEMMA LaneIs ==
  ASSUME StreamInv, Undisturbed, UndisturbedInv
  PROVE  /\ Lane = Queued \cup {m \in {drv.msg} : m.type # "none"}
         /\ Lane \subseteq Messages /\ Distinct(Lane)
         /\ \A m \in Lane : m.seq \in Nat /\ m.k \in Nat /\ m.seq < ctr
         /\ Owner \in Replicas /\ tr[Owner] \in Buffers /\ net[Owner] \in Seq(Messages)
         /\ ctr \in Nat /\ drv.sent \in Nat /\ tr[Owner].next \in Nat /\ tr[Owner].next <= ctr
         /\ drv.msg \in Messages
  <1>1. Owner \in Replicas
    BY StreamAssumption
  <1>2. /\ ctr \in Nat /\ drv.sent \in Nat /\ drv.msg \in Messages
        /\ tr[Owner] \in Buffers /\ net[Owner] \in Seq(Messages)
    BY <1>1 DEF StreamInv, TypeOK, Drivers
  <1>3. /\ tr[Owner].next \in Nat /\ tr[Owner].next <= ctr
        /\ Lane \subseteq Messages /\ Distinct(Lane)
        /\ \A m \in Lane : m.seq < ctr
    BY <1>1, ComingTypes DEF Lane
  <1>4. \A m \in Lane : m.seq \in Nat /\ m.k \in Nat
    BY <1>3 DEF Messages
  <1>5. \A m \in Range(net[Owner]) : m.type # "abort"
    BY DEF UndisturbedInv, PlaceInv, Range
  <1>6. abt.msg.type = "none"
    BY DEF StreamInv, UnsentInv, Undisturbed
  <1>7. Lane = Queued \cup {m \in {drv.msg} : m.type # "none"}
    BY <1>5, <1>6 DEF Lane, Queued, Coming
  <1> QED
    BY <1>1, <1>2, <1>3, <1>4, <1>7

\* What a step does to the lane: nothing; nothing but empty the buffer, when no
\* client is listening; the driver takes a number; its message is published, or
\* lost; the buffer is run, on the next message or without; or it has no owner.
Steady ==
  /\ ctr' = ctr /\ drv'.msg = drv.msg /\ drv'.sent = drv.sent /\ drv'.lost = drv.lost
  /\ (Ahead' <=> Ahead) /\ (Over => Over')
Idle ==
  /\ Steady /\ net'[Owner] = net[Owner]
  /\ tr'[Owner].next = tr[Owner].next /\ tr'[Owner].pend = tr[Owner].pend
Clears ==
  /\ Steady /\ net'[Owner] = net[Owner]
  /\ tr'[Owner].next = 0 /\ tr'[Owner].pend = {} /\ whole' = {}
Enters ==
  /\ Ahead /\ drv.msg.type = "none" /\ net' = net /\ tr' = tr
  /\ drv'.msg.seq = ctr /\ ctr' = ctr + 1 /\ drv'.lost = drv.lost
  /\ \/ drv'.msg.type = "chunk" /\ drv'.msg.k = drv.sent /\ drv'.sent = drv.sent + 1 /\ Ahead'
     \/ drv'.msg.type = "final" /\ drv'.sent = drv.sent /\ ~Ahead'
Goes ==
  /\ drv.msg.type # "none" /\ drv'.msg = NoMsg /\ ctr' = ctr /\ tr' = tr
  /\ drv'.sent = drv.sent /\ (Ahead' <=> Ahead) /\ ~Over
  /\ \/ net'[Owner] = Append(net[Owner], drv.msg) /\ drv'.lost = drv.lost
     \/ /\ net'[Owner] = net[Owner]
        /\ \/ tr[Owner].chan # "on" \/ ~Visited(Owner)
           \/ drv.msg.type = "chunk" /\ drv'.lost = drv.lost \cup {drv.msg.k}
Takes(ms, res) ==
  /\ Steady /\ Delivery(Owner, ms, res)
  /\ \/ ms = tr[Owner].pend /\ net'[Owner] = net[Owner]
     \/ /\ 1 \in DOMAIN net[Owner] /\ ms = tr[Owner].pend \cup {net[Owner][1]}
        /\ Shifted(net[Owner], net'[Owner])
Skips ==
  /\ Steady /\ 1 \in DOMAIN net[Owner] /\ Shifted(net[Owner], net'[Owner])
  /\ tr'[Owner] = tr[Owner] /\ whole' = {}

\* A step of a client or a replica is steady.
LEMMA SameDriver ==
  ASSUME drv' = drv, ctr' = ctr
  PROVE  Steady
  BY DEF Steady, Ahead, Over

\* To make an entry leaves the buffer as it is.
LEMMA EnsureLane ==
  ASSUME TypeOK, NEW r \in Replicas, (HasRuntime(r) /\ EnsureRuntime(r)) \/ tr' = tr
  PROVE  tr'[Owner].next = tr[Owner].next /\ tr'[Owner].pend = tr[Owner].pend
  <1>1. Owner \in Replicas
    BY StreamAssumption
  <1> QED
    BY <1>1, EnsureIs

\* Clients of the owner that are replayed everything listen there.
LEMMA WholeListens ==
  ASSUME StreamInv, UndisturbedInv, NEW c \in whole
  PROVE  c \in Clients /\ home[c] = Owner /\ Listening(c) /\ c \in tr[Owner].handlers
  <1>1. Owner \in Replicas /\ c \in Clients
    BY StreamAssumption DEF StreamInv, TypeOK
  <1>2. home[c] = Owner /\ Listening(c)
    BY DEF UndisturbedInv, WholeInv, Listening
  <1> QED
    BY <1>1, <1>2 DEF StreamInv, HandlerInv

\* The driver's steps on the lane,
LEMMA DriverLane ==
  ASSUME StreamInv, UndisturbedInv,
         EmitChunk \/ PublishChunk \/ Finish \/ NumberFinal \/ PublishFinal \/ StoreEnd
  PROVE  Idle \/ Enters \/ Goes
  <1> USE DEF redis, rtvars, wire, cvars, hist
  <1>0. /\ TypeOK /\ drv \in Drivers /\ Owner \in Replicas /\ UnsentInv
        /\ net \in [Replicas -> Seq(Messages)]
    BY StreamAssumption DEF StreamInv, TypeOK
  <1>1. CASE EmitChunk \/ NumberFinal
    <2>1. drv.msg.type = "none"
      BY <1>0, <1>1 DEF UnsentInv, EmitChunk, NumberFinal
    <2>2. \/ /\ drv.pc = "run" /\ drv'.pc = "chunk" /\ drv'.sent = drv.sent + 1
             /\ drv'.msg = Msg("chunk", ctr, drv.sent)
          \/ /\ drv.pc = "final" /\ drv'.pc = "publish" /\ drv'.sent = drv.sent
             /\ drv'.msg = Msg("final", ctr, 0)
      BY <1>0, <1>1 DEF EmitChunk, NumberFinal, Drivers
    <2>3. ctr' = ctr + 1 /\ net' = net /\ tr' = tr /\ drv'.lost = drv.lost
      BY <1>0, <1>1 DEF EmitChunk, NumberFinal, Drivers
    <2> QED
      BY <2>1, <2>2, <2>3 DEF Enters, Msg, Ahead
  <1>2. CASE PublishChunk \/ PublishFinal
    <2>1. drv.msg.type = IF drv.pc = "chunk" THEN "chunk" ELSE "final"
      BY <1>0, <1>2 DEF UnsentInv, PublishChunk, PublishFinal
    <2>2. /\ drv'.msg = NoMsg /\ drv'.sent = drv.sent
          /\ \/ drv.pc = "chunk" /\ drv'.pc = "run"
             \/ drv.pc = "publish" /\ drv'.pc = "store"
      BY <1>0, <1>2 DEF PublishChunk, PublishFinal, CompleteJob, Drivers
    <2>3. ctr' = ctr /\ tr' = tr
      BY <1>2 DEF PublishChunk, PublishFinal
    <2>4. \/ Publish(drv.msg) /\ drv'.lost = drv.lost
          \/ net' = net /\ drv.pc = "chunk" /\ drv'.lost = drv.lost \cup {drv.msg.k}
      BY <1>0, <1>2 DEF PublishChunk, PublishFinal, CompleteJob, Drivers
    <2>5. ASSUME Publish(drv.msg)
          PROVE  \/ net'[Owner] = Append(net[Owner], drv.msg)
                 \/ net'[Owner] = net[Owner] /\ (tr[Owner].chan # "on" \/ ~Visited(Owner))
      BY <1>0, <2>5 DEF Publish, Concerns
    <2>6. drv.msg.type # "none" /\ (Ahead' <=> Ahead) /\ ~Over
      BY <2>1, <2>2 DEF Ahead, Over
    <2>7. CASE Publish(drv.msg) /\ drv'.lost = drv.lost
      BY <2>2, <2>3, <2>5, <2>6, <2>7 DEF Goes
    <2>8. CASE net' = net /\ drv.pc = "chunk" /\ drv'.lost = drv.lost \cup {drv.msg.k}
      BY <2>1, <2>2, <2>3, <2>6, <2>8 DEF Goes
    <2> QED
      BY <2>4, <2>7, <2>8
  <1>3. CASE Finish \/ StoreEnd
    <2>1. /\ drv'.msg = drv.msg /\ drv'.sent = drv.sent /\ drv'.lost = drv.lost
          /\ ctr' = ctr /\ net' = net
      BY <1>0, <1>3 DEF Finish, StoreEnd, Drivers
    <2>2. \/ drv.pc = "run" /\ drv'.pc = "final"
          \/ drv.pc = "store" /\ drv'.pc = "over"
      <3>1. drv.pc = "run" => job # "gone"
        BY DEF UndisturbedInv, EntryInv
      <3> QED
        BY <1>0, <1>3, <3>1 DEF Finish, StoreEnd, Drivers
    <2>3. Steady
      BY <2>1, <2>2 DEF Steady, Ahead, Over
    <2>4. (HasRuntime(Owner) /\ EnsureRuntime(Owner)) \/ tr' = tr
      BY <1>3 DEF Finish, StoreEnd
    <2>5. tr'[Owner].next = tr[Owner].next /\ tr'[Owner].pend = tr[Owner].pend
      BY <1>0, <2>4, EnsureLane
    <2> QED
      BY <2>1, <2>3, <2>5 DEF Idle
  <1> QED
    BY <1>1, <1>2, <1>3

\* the clients',
LEMMA ClientLane ==
  ASSUME StreamInv, Undisturbed, UndisturbedInv,
         NEW c \in Clients, Lookup(c) \/ Request(c) \/ Leave(c)
  PROVE  \/ Idle \/ Clears
         \/ /\ SyncBuffer(c) /\ home[c] = Owner
            /\ Takes(tr[Owner].pend, Sync(tr[Owner], count[c], seen[c]))
  <1> USE DEF redis, rtvars, wire, cvars, hist
  <1>0. TypeOK /\ Owner \in Replicas /\ home[c] \in Replicas
    BY StreamAssumption DEF StreamInv, TypeOK
  <1>1. drv' = drv /\ ctr' = ctr /\ net' = net
    BY DEF Lookup, Request, Attach, Replay, GetCounter, SyncBuffer, Leave
  <1>2. Steady
    BY <1>1, SameDriver
  <1>3. CASE Lookup(c) \/ Replay(c) \/ GetCounter(c)
    <2>1. (HasRuntime(home[c]) /\ EnsureRuntime(home[c])) \/ tr' = tr
      BY <1>3 DEF Lookup, Replay, GetCounter
    <2>2. tr'[Owner].next = tr[Owner].next /\ tr'[Owner].pend = tr[Owner].pend
      BY <1>0, <2>1, EnsureLane
    <2> QED
      BY <1>1, <1>2, <2>2 DEF Idle
  <1>4. CASE SyncBuffer(c)
    <2>1. Delivery(home[c], tr[home[c]].pend, Sync(tr[home[c]], count[c], seen[c]))
      BY <1>4, SyncDelivers
    <2>2. CASE home[c] = Owner
      BY <1>1, <1>2, <1>4, <2>1, <2>2 DEF Takes
    <2>3. CASE home[c] # Owner
      <3>1. tr'[Owner] = tr[Owner]
        BY <1>0, <2>1, <2>3, DeliveryBuffers
      <3> QED
        BY <1>1, <1>2, <3>1 DEF Idle
    <2> QED
      BY <2>2, <2>3
  <1>5. CASE Attach(c) \/ Leave(c)
    <2>1. CASE home[c] # Owner
      <3>1. tr'[Owner] = tr[Owner]
        BY <1>0, <1>5, <2>1, AttachIs, LeaveIs
      <3> QED
        BY <1>1, <1>2, <3>1 DEF Idle
    <2>2. CASE home[c] = Owner /\ Attach(c)
      <3>1. CASE tr[Owner].handlers # {}
        <4>1. tr'[Owner].next = tr[Owner].next /\ tr'[Owner].pend = tr[Owner].pend
          BY <2>2, <3>1, AttachIs
        <4> QED
          BY <1>1, <1>2, <4>1 DEF Idle
      <3>2. CASE tr[Owner].handlers = {}
        <4>1. tr'[Owner].next = 0 /\ tr'[Owner].pend = {}
          BY <2>2, <3>2, AttachIs
        <4>2. whole = {}
          BY <3>2, WholeListens
        <4>3. whole' = whole
          BY <2>2 DEF Attach
        <4> QED
          BY <1>1, <1>2, <4>1, <4>2, <4>3 DEF Clears
      <3> QED
        BY <3>1, <3>2
    <2>3. CASE home[c] = Owner /\ Leave(c)
      <3>0. tr'[Owner].handlers = tr[Owner].handlers \ {c}
        BY <2>3, LeaveIs
      <3>1. CASE tr'[Owner].handlers # {}
        <4>1. tr'[Owner].next = tr[Owner].next /\ tr'[Owner].pend = tr[Owner].pend
          BY <2>3, <3>1, LeaveIs
        <4> QED
          BY <1>1, <1>2, <4>1 DEF Idle
      <3>2. CASE tr'[Owner].handlers = {}
        <4>1. tr'[Owner].next = 0 /\ tr'[Owner].pend = {}
          BY <2>3, <3>2, LeaveIs
        <4>2. \A d \in whole : d = c
          BY <3>0, <3>2, WholeListens
        <4>3. whole' = whole \ {c}
          BY <2>3 DEF Leave
        <4> QED
          BY <1>1, <1>2, <4>1, <4>2, <4>3 DEF Clears
      <3> QED
        BY <3>1, <3>2
    <2> QED
      BY <1>5, <2>1, <2>2, <2>3
  <1> QED
    BY <1>3, <1>4, <1>5 DEF Request

\* the replicas',
LEMMA ReplicaLane ==
  ASSUME StreamInv, Undisturbed, UndisturbedInv, NEW r \in Replicas,
         \/ Joined(r) \/ FlushTimeout(r)
         \/ 1 \in DOMAIN net[r] /\ HandleMessage(r, 1)
  PROVE  \/ Idle \/ Skips
         \/ /\ FlushTimeout(Owner)
            /\ Takes(tr[Owner].pend, ForceFlush(tr[Owner]))
         \/ /\ 1 \in DOMAIN net[Owner] /\ HandleMessage(Owner, 1)
            /\ Takes(tr[Owner].pend \cup {net[Owner][1]}, Receive(tr[Owner], net[Owner][1]))
  <1> USE DEF redis, rtvars, wire, cvars, hist
  <1>0. TypeOK /\ Owner \in Replicas /\ net \in [Replicas -> Seq(Messages)]
        /\ tr \in [Replicas -> Buffers]
    BY StreamAssumption DEF StreamInv, TypeOK
  <1>1. drv' = drv /\ ctr' = ctr
    BY DEF Joined, FlushTimeout, HandleMessage
  <1>2. Steady
    BY <1>1, SameDriver
  <1>3. CASE Joined(r)
    <2>1. tr' = [tr EXCEPT ![r].chan = "on"] /\ net' = net
      BY <1>3 DEF Joined
    <2>2. tr'[Owner].next = tr[Owner].next /\ tr'[Owner].pend = tr[Owner].pend
      BY <1>0, <2>1 DEF Buffers
    <2> QED
      BY <1>2, <2>1, <2>2 DEF Idle
  <1>4. CASE FlushTimeout(r)
    <2>1. Delivery(r, tr[r].pend, ForceFlush(tr[r])) /\ net' = net
      BY <1>4, FlushTimeoutDelivers DEF FlushTimeout
    <2>2. CASE r = Owner
      BY <1>2, <1>4, <2>1, <2>2 DEF Takes
    <2>3. CASE r # Owner
      <3>1. tr'[Owner] = tr[Owner]
        BY <1>0, <2>1, <2>3, DeliveryBuffers
      <3> QED
        BY <1>2, <2>1, <3>1 DEF Idle
    <2> QED
      BY <2>2, <2>3
  <1>5. CASE 1 \in DOMAIN net[r] /\ HandleMessage(r, 1)
    <2>1. net' = [net EXCEPT ![r] = RemoveAt(@, 1)]
      BY <1>5 DEF HandleMessage
    <2>2. CASE r # Owner
      <3>1. net'[Owner] = net[Owner]
        BY <1>0, <2>1, <2>2
      <3>2. tr'[Owner] = tr[Owner]
        <4>1. CASE net[r][1].type # "abort" /\ tr[r].tracked
          BY <1>0, <1>5, <2>2, <4>1, HandleDelivers, DeliveryBuffers
        <4>2. CASE ~(net[r][1].type # "abort" /\ tr[r].tracked)
          <5>1. tr' = tr
            BY <1>5, <4>2 DEF HandleMessage
          <5> QED
            BY <5>1
        <4> QED
          BY <4>1, <4>2
      <3> QED
        BY <1>2, <3>1, <3>2 DEF Idle
    <2>3. CASE r = Owner
      <3>1. net[Owner][1].type # "abort"
        BY <1>5, <2>3 DEF UndisturbedInv, PlaceInv
      <3>2. Shifted(net[Owner], net'[Owner])
        <4>1. net'[Owner] = RemoveAt(net[Owner], 1)
          BY <1>0, <2>1, <2>3
        <4> QED
          BY <1>0, <1>5, <2>3, <4>1, RemoveFirstIs
      <3>3. CASE tr[Owner].tracked
        <4>1. Delivery(Owner, tr[Owner].pend \cup {net[Owner][1]}, Receive(tr[Owner], net[Owner][1]))
          BY <1>5, <2>3, <3>1, <3>3, HandleDelivers
        <4> QED
          BY <1>2, <1>5, <2>3, <3>2, <4>1 DEF Takes
      <3>4. CASE ~tr[Owner].tracked
        <4>1. tr' = tr /\ whole' = whole
          BY <1>5, <2>3, <3>1, <3>4 DEF HandleMessage
        <4>2. tr[Owner].handlers = {}
          BY <1>0, <3>4 DEF StreamInv, HandlerInv
        <4>3. whole = {}
          BY <4>2, WholeListens
        <4> QED
          BY <1>2, <1>5, <2>3, <3>2, <4>1, <4>3 DEF Skips
      <3> QED
        BY <3>3, <3>4
    <2> QED
      BY <2>2, <2>3
  <1> QED
    BY <1>3, <1>4, <1>5

\* and all of them.
LEMMA LaneKinds ==
  ASSUME StreamLaneInv, Next, ~disturbed'
  PROVE  Idle \/ Clears \/ Enters \/ Goes \/ (\E ms, res : Takes(ms, res)) \/ Skips
  <1>1. StreamInv
    BY DEF StreamLaneInv
  <1> QED
    BY <1>1, UndisturbedSteps, DriverLane, ClientLane, ReplicaLane

-----------------------------------------------------------------------------
(* Its places and its order *)

\* The rest of a sequence.
LEMMA ShiftedIs ==
  ASSUME NEW s \in Seq(Messages), NEW t \in Seq(Messages), 1 \in DOMAIN s, Shifted(s, t)
  PROVE  /\ s[1] \in Range(s) /\ Range(t) \subseteq Range(s)
         /\ \A m \in Range(s) : m = s[1] \/ m \in Range(t)
         /\ Ascending(s) => Ascending(t) /\ \A m \in Range(t) : s[1].seq < m.seq
  <1> DEFINE n == Len(t)
  <1>1. n \in Nat /\ DOMAIN t = 1 .. n /\ DOMAIN s = 1 .. n + 1
    BY DEF Shifted
  <1>2. \A j \in 1 .. n : t[j] = s[j + 1]
    BY DEF Shifted
  <1> HIDE DEF n
  <1>3. \A j \in 1 .. n : j + 1 \in 1 .. n + 1 /\ 1 < j + 1
    BY <1>1
  <1>4. s[1] \in Range(s) /\ Range(t) \subseteq Range(s)
    BY <1>1, <1>2, <1>3 DEF Range
  <1>5. ASSUME NEW j \in 1 .. n + 1
        PROVE  j = 1 \/ s[j] \in Range(t)
    <2>1. CASE j # 1
      <3>1. j - 1 \in 1 .. n /\ s[j] = t[j - 1]
        BY <1>1, <1>2, <2>1
      <3> QED
        BY <1>1, <3>1 DEF Range
    <2> QED
      BY <2>1
  <1>6. \A m \in Range(s) : m = s[1] \/ m \in Range(t)
    BY <1>1, <1>5 DEF Range
  <1>7. ASSUME Ascending(s)
        PROVE  Ascending(t) /\ \A m \in Range(t) : s[1].seq < m.seq
    <2>1. \A j \in 1 .. n : s[1].seq < t[j].seq
      BY <1>1, <1>2, <1>3, <1>7 DEF Ascending
    <2>2. ASSUME NEW i \in 1 .. n, NEW j \in 1 .. n, i < j
          PROVE  t[i].seq < t[j].seq
      <3>1. i + 1 \in DOMAIN s /\ j + 1 \in DOMAIN s /\ i + 1 < j + 1
        BY <1>1, <2>2
      <3> QED
        BY <1>2, <1>7, <3>1 DEF Ascending
    <2> QED
      BY <1>1, <2>1, <2>2 DEF Ascending, Range
  <1> QED
    BY <1>4, <1>6, <1>7

\* A message behind the others.
LEMMA AppendIs ==
  ASSUME NEW s \in Seq(Messages), NEW m \in Messages
  PROVE  /\ Append(s, m) \in Seq(Messages) /\ Range(Append(s, m)) = Range(s) \cup {m}
         /\ Ascending(s) /\ (\A o \in Range(s) : o.seq < m.seq) => Ascending(Append(s, m))
  <1> DEFINE n == Len(s)
             t == Append(s, m)
  <1>1. /\ n \in Nat /\ t \in Seq(Messages) /\ DOMAIN t = 1 .. n + 1 /\ DOMAIN s = 1 .. n
        /\ \A j \in 1 .. n : t[j] = s[j]
        /\ t[n + 1] = m
    OBVIOUS
  <1> HIDE DEF n, t
  <1>2. \A j \in 1 .. n + 1 : j \in 1 .. n \/ j = n + 1
    BY <1>1
  <1>3. n + 1 \in 1 .. n + 1 /\ \A j \in 1 .. n : j \in 1 .. n + 1
    BY <1>1
  <1>4. Range(t) = Range(s) \cup {m}
    BY <1>1, <1>2, <1>3 DEF Range
  <1>5. ASSUME Ascending(s), \A o \in Range(s) : o.seq < m.seq
        PROVE  Ascending(t)
    <2> SUFFICES ASSUME NEW i \in 1 .. n + 1, NEW j \in 1 .. n + 1, i < j
                 PROVE  t[i].seq < t[j].seq
      BY <1>1 DEF Ascending
    <2>1. i \in 1 .. n
      BY <1>1
    <2>2. CASE j \in 1 .. n
      BY <1>1, <1>5, <2>1, <2>2 DEF Ascending
    <2>3. CASE j = n + 1
      BY <1>1, <1>5, <2>1, <2>3 DEF Range
    <2> QED
      BY <1>2, <2>2, <2>3
  <1> QED
    BY <1>1, <1>4, <1>5 DEF t

\* Only the driver brings anything into the lane.
LEMMA LaneAfter ==
  ASSUME StreamLaneInv, Next, ~disturbed'
  PROVE  /\ \A i \in DOMAIN net'[Owner] : net'[Owner][i].type # "abort"
         /\ Lane' = Queued' \cup {m \in {drv'.msg} : m.type # "none"}
         /\ net'[Owner] \in Seq(Messages)
         /\ Enters => Lane' = Lane \cup {drv'.msg}
         /\ Idle \/ Clears \/ Goes \/ (\E ms, res : Takes(ms, res)) \/ Skips => Lane' \subseteq Lane
  <1>0. /\ StreamInv /\ Undisturbed /\ UndisturbedInv /\ abt' = abt /\ abt.msg.type = "none"
        /\ StreamInv'
    BY UndisturbedSteps, StreamStep DEF StreamLaneInv
  <1>1. /\ Lane = Queued \cup {m \in {drv.msg} : m.type # "none"}
        /\ Owner \in Replicas /\ net[Owner] \in Seq(Messages) /\ drv.msg \in Messages
    BY <1>0, LaneIs
  <1>2. net'[Owner] \in Seq(Messages)
    BY <1>0, <1>1 DEF StreamInv, TypeOK
  <1>3. \A m \in Range(net'[Owner]) : m \in Range(net[Owner]) \/ (Goes /\ m = drv.msg)
    <2>1. CASE Idle \/ Clears \/ Enters
      BY <2>1 DEF Idle, Clears, Enters
    <2>2. CASE Goes
      <3>1. Range(Append(net[Owner], drv.msg)) = Range(net[Owner]) \cup {drv.msg}
        BY <1>1, AppendIs
      <3>2. net'[Owner] = net[Owner] \/ net'[Owner] = Append(net[Owner], drv.msg)
        BY <2>2 DEF Goes
      <3> QED
        BY <2>2, <3>1, <3>2
    <2>3. CASE Skips \/ \E ms, res : Takes(ms, res)
      <3>1. \/ net'[Owner] = net[Owner]
            \/ 1 \in DOMAIN net[Owner] /\ Shifted(net[Owner], net'[Owner])
        BY <2>3 DEF Skips, Takes
      <3> QED
        BY <1>1, <1>2, <3>1, ShiftedIs
    <2> QED
      BY <2>1, <2>2, <2>3, LaneKinds
  <1>4. drv.msg.type # "abort" /\ \A m \in Range(net[Owner]) : m.type # "abort"
    BY <1>0 DEF StreamInv, UnsentInv, UndisturbedInv, PlaceInv, Range
  <1>5. \A m \in Range(net'[Owner]) : m.type # "abort"
    BY <1>3, <1>4
  <1>6. Lane' = Queued' \cup {m \in {drv'.msg} : m.type # "none"}
    BY <1>0, <1>5 DEF Lane, Queued, Coming
  <1>7. ASSUME Enters
        PROVE  Lane' = Lane \cup {drv'.msg}
    BY <1>1, <1>6, <1>7 DEF Enters, Queued
  <1>8. ASSUME Idle \/ Clears \/ Skips \/ Goes \/ \E ms, res : Takes(ms, res)
        PROVE  tr'[Owner].pend \subseteq Lane /\ drv'.msg \in {drv.msg, NoMsg}
    <2>1. CASE Idle \/ Clears \/ Skips \/ Goes
      BY <1>1, <2>1 DEF Idle, Clears, Skips, Goes, Steady, Queued
    <2>2. ASSUME NEW ms, NEW res, Takes(ms, res)
          PROVE  tr'[Owner].pend \subseteq Lane /\ drv'.msg = drv.msg
      <3>1. Delivery(Owner, ms, res) /\ drv'.msg = drv.msg
        BY <2>2 DEF Takes, Steady
      <3>2. tr'[Owner] = res.buf /\ ms \subseteq Lane
        BY <1>0, <1>1, <3>1, DeliveryBuffers DEF Lane
      <3>3. res.buf.pend \subseteq ms
        BY <3>1 DEF Delivery, Keeps
      <3> QED
        BY <3>1, <3>2, <3>3
    <2> QED
      BY <1>8, <2>1, <2>2
  <1>9. ASSUME Idle \/ Clears \/ Skips \/ Goes \/ \E ms, res : Takes(ms, res)
        PROVE  Lane' \subseteq Lane
    <2>1. NoMsg.type = "none" /\ (Goes => drv.msg.type # "none")
      BY DEF NoMsg, Msg, Goes
    <2>2. Range(net'[Owner]) \subseteq Lane
      BY <1>1, <1>3, <2>1 DEF Queued
    <2> QED
      BY <1>1, <1>6, <1>8, <1>9, <2>1, <2>2 DEF Queued
  <1> QED
    BY <1>2, <1>5, <1>6, <1>7, <1>9 DEF Range

\* Chunks keep their places, and the final event the last number.
LEMMA PlaceStep ==
  ASSUME StreamLaneInv, Next, ~disturbed'
  PROVE  PlaceInv'
  <1>0. StreamInv /\ Undisturbed /\ UndisturbedInv /\ PlaceInv
    BY UndisturbedSteps DEF StreamLaneInv, UndisturbedInv
  <1>1. /\ ctr \in Nat /\ drv.sent \in Nat
        /\ \A m \in Lane : m.seq \in Nat /\ m.k \in Nat
    BY <1>0, LaneIs
  <1>2. drv.sent <= ctr /\ (~Ahead => drv.sent < ctr)
    BY <1>0 DEF PlaceInv
  <1>3. \A m \in Lane : /\ m.type = "chunk" /\ Ahead => m.seq + drv.sent = m.k + ctr
                        /\ m.type = "final" => ~Ahead /\ m.seq + 1 = ctr
    BY <1>0 DEF PlaceInv
  <1>4. CASE Enters
    <2>1. /\ Ahead /\ ctr' = ctr + 1 /\ Lane' = Lane \cup {drv'.msg} /\ drv'.msg.seq = ctr
          /\ \/ drv'.msg.type = "chunk" /\ drv'.msg.k = drv.sent /\ drv'.sent = drv.sent + 1 /\ Ahead'
             \/ drv'.msg.type = "final" /\ drv'.sent = drv.sent /\ ~Ahead'
      BY <1>4, LaneAfter DEF Enters
    <2>2. drv'.sent <= ctr' /\ (~Ahead' => drv'.sent < ctr')
      BY <1>1, <1>2, <2>1
    <2>3. \A m \in Lane : m.type # "final"
      BY <1>3, <2>1
    <2>4. ASSUME NEW m \in Lane'
          PROVE  /\ m.type = "chunk" /\ Ahead' => m.seq + drv'.sent = m.k + ctr'
                 /\ m.type = "final" => ~Ahead' /\ m.seq + 1 = ctr'
      <3>1. CASE m \in Lane
        BY <1>1, <1>3, <2>1, <2>3, <3>1
      <3>2. CASE m = drv'.msg
        BY <1>1, <2>1, <3>2
      <3> QED
        BY <2>1, <2>4, <3>1, <3>2
    <2> QED
      BY <2>2, <2>4, LaneAfter DEF PlaceInv
  <1>5. CASE ~Enters
    <2>1. Lane' \subseteq Lane
      BY <1>5, LaneKinds, LaneAfter
    <2>2. ctr' = ctr /\ drv'.sent = drv.sent /\ (Ahead' <=> Ahead)
      BY <1>5, LaneKinds DEF Idle, Clears, Goes, Takes, Skips, Steady
    <2>3. drv'.sent <= ctr' /\ (~Ahead' => drv'.sent < ctr')
      BY <1>2, <2>2
    <2>4. \A m \in Lane' : /\ m.type = "chunk" /\ Ahead' => m.seq + drv'.sent = m.k + ctr'
                           /\ m.type = "final" => ~Ahead' /\ m.seq + 1 = ctr'
      BY <1>3, <2>1, <2>2
    <2> QED
      BY <2>3, <2>4, LaneAfter DEF PlaceInv
  <1> QED
    BY <1>4, <1>5

\* What is taken out of the lane is taken in turn.
LEMMA LaneStep ==
  ASSUME StreamLaneInv, Next, ~disturbed'
  PROVE  LaneInv'
  <1>0. StreamInv /\ Undisturbed /\ UndisturbedInv /\ LaneInv
    BY UndisturbedSteps DEF StreamLaneInv, UndisturbedInv
  <1>1. /\ ctr \in Nat /\ Owner \in Replicas /\ net[Owner] \in Seq(Messages) /\ drv.msg \in Messages
        /\ net'[Owner] \in Seq(Messages)
        /\ Lane = Queued \cup {m \in {drv.msg} : m.type # "none"}
        /\ \A m \in Lane : m.seq \in Nat /\ m.seq < ctr
    BY <1>0, LaneIs, LaneAfter
  <1>2. /\ Ascending(net[Owner])
        /\ \A o \in tr[Owner].pend : \A m \in Range(net[Owner]) : o.seq < m.seq
        /\ drv.msg.type # "none" => \A m \in Queued : m.seq < drv.msg.seq
    BY <1>0 DEF LaneInv, Ascending
  <1> DEFINE Goal(n, p) == /\ Ascending(n)
                           /\ \A o \in p : \A m \in Range(n) : o.seq < m.seq
  <1>3. ASSUME Goal(net'[Owner], tr'[Owner].pend),
               drv'.msg.type # "none" => \A m \in Queued' : m.seq < drv'.msg.seq
        PROVE  LaneInv'
    BY <1>3 DEF LaneInv, Ascending
  <1>4. ASSUME Steady, Goal(net'[Owner], tr'[Owner].pend), Queued' \subseteq Queued
        PROVE  LaneInv'
    BY <1>2, <1>3, <1>4 DEF Steady
  <1>5. CASE Idle \/ Clears
    <2>1. /\ Steady /\ net'[Owner] = net[Owner]
          /\ tr'[Owner].pend = tr[Owner].pend \/ tr'[Owner].pend = {}
      BY <1>5 DEF Idle, Clears
    <2>2. Goal(net'[Owner], tr'[Owner].pend)
      BY <1>2, <2>1
    <2>3. Queued' \subseteq Queued
      BY <2>1 DEF Queued
    <2> QED
      BY <1>4, <2>1, <2>2, <2>3
  <1>6. CASE Enters
    <2>1. net' = net /\ tr' = tr /\ drv'.msg.seq = ctr
      BY <1>6 DEF Enters
    <2>2. Queued' = Queued
      BY <2>1 DEF Queued
    <2> QED
      BY <1>1, <1>2, <1>3, <2>1, <2>2
  <1>7. CASE Goes
    <2>1. /\ drv.msg.type # "none" /\ drv'.msg.type = "none" /\ tr' = tr
          /\ net'[Owner] = net[Owner] \/ net'[Owner] = Append(net[Owner], drv.msg)
      BY <1>7 DEF Goes, NoMsg, Msg
    <2>2. /\ Range(Append(net[Owner], drv.msg)) = Range(net[Owner]) \cup {drv.msg}
          /\ Ascending(Append(net[Owner], drv.msg))
      BY <1>1, <1>2, <2>1, AppendIs DEF Queued
    <2>3. \A o \in tr[Owner].pend : o.seq < drv.msg.seq
      BY <1>2, <2>1 DEF Queued
    <2>4. Goal(net'[Owner], tr'[Owner].pend)
      BY <1>2, <2>1, <2>2, <2>3
    <2> QED
      BY <1>3, <2>1, <2>4
  <1>8. CASE Skips
    <2>1. /\ Steady /\ tr'[Owner] = tr[Owner] /\ 1 \in DOMAIN net[Owner]
          /\ Shifted(net[Owner], net'[Owner])
      BY <1>8 DEF Skips
    <2>2. Range(net'[Owner]) \subseteq Range(net[Owner]) /\ Ascending(net'[Owner])
      BY <1>1, <1>2, <2>1, ShiftedIs
    <2>3. Goal(net'[Owner], tr'[Owner].pend)
      BY <1>2, <2>1, <2>2
    <2>4. Queued' \subseteq Queued
      BY <2>1, <2>2 DEF Queued
    <2> QED
      BY <1>4, <2>1, <2>3, <2>4
  <1>9. ASSUME NEW ms, NEW res, Takes(ms, res)
        PROVE  LaneInv'
    <2>1. Steady /\ Delivery(Owner, ms, res)
      BY <1>9 DEF Takes
    <2>2. tr'[Owner] = res.buf
      BY <1>0, <1>1, <2>1, DeliveryBuffers
    <2>3. res.buf.pend \subseteq ms
      BY <2>1 DEF Delivery, Keeps
    <2>4. CASE ms = tr[Owner].pend /\ net'[Owner] = net[Owner]
      <3>1. Goal(net'[Owner], tr'[Owner].pend)
        BY <1>2, <2>2, <2>3, <2>4
      <3>2. Queued' \subseteq Queued
        BY <2>2, <2>3, <2>4 DEF Queued
      <3> QED
        BY <1>4, <2>1, <3>1, <3>2
    <2>5. CASE /\ 1 \in DOMAIN net[Owner] /\ ms = tr[Owner].pend \cup {net[Owner][1]}
               /\ Shifted(net[Owner], net'[Owner])
      <3>1. /\ Range(net'[Owner]) \subseteq Range(net[Owner]) /\ Ascending(net'[Owner])
            /\ net[Owner][1] \in Range(net[Owner])
            /\ \A m \in Range(net'[Owner]) : net[Owner][1].seq < m.seq
        BY <1>1, <1>2, <2>5, ShiftedIs
      <3>2. Goal(net'[Owner], tr'[Owner].pend)
        BY <1>2, <2>2, <2>3, <2>5, <3>1
      <3>3. Queued' \subseteq Queued
        BY <2>2, <2>3, <2>5, <3>1 DEF Queued
      <3> QED
        BY <1>4, <2>1, <3>2, <3>3
    <2> QED
      BY <1>9, <2>4, <2>5 DEF Takes
  <1> QED
    BY <1>5, <1>6, <1>7, <1>8, <1>9, LaneKinds

-----------------------------------------------------------------------------
(* What is written to the responses *)

\* A closed response is left alone.  An open one gets every message that no end
\* precedes, and is closed by an end only.
LEMMA WriteOpen ==
  ASSUME NEW g \in Seq(Messages), NEW ms \in Seq(Messages)
  PROVE  /\ Range(g) \subseteq Range(Write(g, ms))
         /\ Closed(g) => Write(g, ms) = g
         /\ ~Closed(g) =>
              /\ \A i \in DOMAIN ms :
                   (\A j \in 1 .. (i - 1) : ms[j].type \notin Ends) => ms[i] \in Range(Write(g, ms))
              /\ Closed(Write(g, ms)) => \E i \in DOMAIN ms : ms[i].type \in Ends
  <1> DEFINE w == Write(g, ms)
             upto == {i \in DOMAIN ms : \A j \in 1 .. (i - 1) : ms[j].type \notin Ends}
  <1>0. Len(g) \in Nat /\ DOMAIN g = 1 .. Len(g) /\ Len(ms) \in Nat /\ DOMAIN ms = 1 .. Len(ms)
    OBVIOUS
  <1>1. CASE Closed(g)
    <2>1. w = g
      BY <1>1 DEF Write, Closed
    <2> QED
      BY <1>1, <2>1
  <1>2. CASE ~Closed(g)
    <2>1. w = g \o SubSeq(ms, 1, Cardinality(upto))
      BY <1>2 DEF Write, Closed
    <2>2. PICK k \in 0 .. Len(ms) : upto = 1 .. k
      BY UptoFirstEnd
    <2>3. \A i \in DOMAIN ms : (\A j \in 1 .. (i - 1) : ms[j].type \notin Ends) => i \in 1 .. k
      BY <2>2
    <2> HIDE DEF upto, w
    <2>4. Cardinality(upto) = k
      BY <2>2, FS_Interval
    <2> DEFINE p == SubSeq(ms, 1, k)
    <2>5. p \in Seq(Messages) /\ Len(p) = k /\ \A i \in 1 .. k : p[i] = ms[i]
      BY <1>0, <2>2
    <2>6. w = g \o p
      BY <2>1, <2>4
    <2> HIDE DEF p
    <2>7. DOMAIN p = 1 .. k
      BY <1>0, <2>5
    <2>8. Range(w) = Range(g) \cup Range(p)
      <3>1. \A s1, s2 \in Seq(Messages) : Range(s1 \o s2) = Range(s1) \cup Range(s2)
        BY RangeConcatenation
      <3> QED
        BY <2>5, <2>6, <3>1
    <2>9. \A i \in 1 .. k : ms[i] \in Range(w)
      BY <2>5, <2>7, <2>8 DEF Range
    <2>10. ASSUME Closed(w)
           PROVE  \E i \in DOMAIN ms : ms[i].type \in Ends
      <3>1. CASE k = 0
        <4>1. p = <<>>
          BY <2>5, <3>1, EmptySeq
        <4>2. w = g
          BY <2>6, <4>1
        <4> QED
          BY <1>2, <2>10, <4>2
      <3>2. CASE k # 0
        <4>1. /\ w \in Seq(Messages) /\ Len(w) = Len(g) + Len(p)
              /\ \A i \in 1 .. Len(g) + Len(p) : w[i] = IF i <= Len(g) THEN g[i] ELSE p[i - Len(g)]
          BY <2>5, <2>6, ConcatProperties
        <4>2. Len(w) = Len(g) + k /\ k \in 1 .. k /\ k \in DOMAIN ms /\ Len(g) + k \in 1 .. Len(g) + k
              /\ ~(Len(g) + k <= Len(g)) /\ Len(g) + k - Len(g) = k
          BY <1>0, <2>2, <2>5, <3>2, <4>1
        <4>3. w[Len(w)] = ms[k]
          BY <2>5, <4>1, <4>2
        <4> QED
          BY <2>10, <4>2, <4>3 DEF Closed, Last
      <3> QED
        BY <3>1, <3>2
    <2> QED
      BY <1>2, <2>3, <2>8, <2>9, <2>10 DEF w
  <1> QED
    BY <1>1, <1>2

\* The responses of the owner's clients: a replay, what the buffer gives out,
\* or the end of the connection.
LEMMA GotAfter ==
  ASSUME StreamLaneInv, Next, ~disturbed', NEW c \in Clients, home[c] = Owner
  PROVE  \/ got'[c] = got[c]
         \/ got'[c] = <<>> /\ Leave(c)
         \/ Replay(c) /\ <<Owner, ref[c]>> \notin subbed
         \/ \E ms, res : Takes(ms, res) /\ got'[c] = Write(got[c], res.out)
  <1> USE DEF redis, rtvars, wire, cvars, hist
  <1>0. StreamInv /\ TypeOK /\ Undisturbed /\ UndisturbedInv /\ got \in [Clients -> Seq(Messages)]
    BY UndisturbedSteps DEF StreamLaneInv, StreamInv, TypeOK
  <1>1. ASSUME NEW r \in Replicas, NEW ms, NEW res, Delivery(r, ms, res), r # Owner
        PROVE  got'[c] = got[c]
    BY <1>0, <1>1, DeliveryGot
  <1>2. ASSUME NEW ms, NEW res, Takes(ms, res)
        PROVE  got'[c] = got[c] \/ got'[c] = Write(got[c], res.out)
    BY <1>0, <1>2, StreamAssumption, DeliveryGot DEF Takes
  <1>3. ASSUME NEW d \in Clients, Lookup(d) \/ GetCounter(d)
        PROVE  got' = got
    BY <1>3 DEF Lookup, GetCounter
  <1>4. ASSUME NEW d \in Clients, Attach(d)
        PROVE  got' = got
    <2>1. job # "error"
      BY <1>0 DEF UndisturbedInv, EntryInv
    <2> QED
      BY <1>4, <2>1 DEF Attach
  <1>5. ASSUME NEW d \in Clients, Replay(d)
        PROVE  got'[c] = got[c] \/ (d = c /\ <<Owner, ref[c]>> \notin subbed)
    BY <1>0, <1>5 DEF Replay
  <1>6. ASSUME NEW d \in Clients, Leave(d)
        PROVE  got'[c] = got[c] \/ (d = c /\ got'[c] = <<>>)
    BY <1>0, <1>6 DEF Leave
  <1>7. ASSUME NEW d \in Clients, SyncBuffer(d)
        PROVE  got'[c] = got[c] \/ \E ms, res : Takes(ms, res) /\ got'[c] = Write(got[c], res.out)
    <2>1. Delivery(home[d], tr[home[d]].pend, Sync(tr[home[d]], count[d], seen[d]))
          /\ home[d] \in Replicas
      BY <1>0, <1>7, SyncDelivers DEF TypeOK
    <2>2. CASE home[d] # Owner
      BY <1>1, <2>1, <2>2
    <2>3. CASE home[d] = Owner
      <3>1. drv' = drv /\ ctr' = ctr /\ net' = net
        BY <1>7 DEF SyncBuffer
      <3>2. Takes(tr[Owner].pend, Sync(tr[Owner], count[d], seen[d]))
        BY <2>1, <2>3, <3>1, SameDriver DEF Takes
      <3> QED
        BY <1>2, <3>2
    <2> QED
      BY <2>2, <2>3
  <1>8. ASSUME NEW r \in Replicas,
               \/ Joined(r) \/ FlushTimeout(r)
               \/ 1 \in DOMAIN net[r] /\ HandleMessage(r, 1)
        PROVE  got'[c] = got[c] \/ \E ms, res : Takes(ms, res) /\ got'[c] = Write(got[c], res.out)
    <2>1. CASE Joined(r)
      BY <2>1 DEF Joined
    <2>2. CASE r # Owner /\ FlushTimeout(r)
      BY <1>0, <1>1, <2>2, FlushTimeoutDelivers
    <2>3. CASE r # Owner /\ 1 \in DOMAIN net[r] /\ HandleMessage(r, 1)
      <3>1. CASE net[r][1].type # "abort" /\ tr[r].tracked
        BY <1>0, <1>1, <2>3, <3>1, HandleDelivers
      <3>2. CASE ~(net[r][1].type # "abort" /\ tr[r].tracked)
        BY <2>3, <3>2 DEF HandleMessage
      <3> QED
        BY <3>1, <3>2
    <2>4. CASE r = Owner /\ FlushTimeout(Owner)
      <3>1. Takes(tr[Owner].pend, ForceFlush(tr[Owner]))
        <4>1. /\ Delivery(Owner, tr[Owner].pend, ForceFlush(tr[Owner])) /\ net' = net
              /\ drv' = drv /\ ctr' = ctr
          BY <1>0, <2>4, FlushTimeoutDelivers DEF FlushTimeout
        <4> QED
          BY <4>1, SameDriver DEF Takes
      <3> QED
        BY <1>2, <3>1
    <2>5. CASE r = Owner /\ 1 \in DOMAIN net[Owner] /\ HandleMessage(Owner, 1)
      <3>1. net[Owner][1].type # "abort" /\ drv' = drv /\ ctr' = ctr
        BY <1>0, <2>5 DEF UndisturbedInv, PlaceInv, HandleMessage
      <3>2. CASE ~tr[Owner].tracked
        BY <2>5, <3>1, <3>2 DEF HandleMessage
      <3>3. CASE tr[Owner].tracked
        <4>1. Delivery(Owner, tr[Owner].pend \cup {net[Owner][1]}, Receive(tr[Owner], net[Owner][1]))
          BY <1>0, <2>5, <3>1, <3>3, HandleDelivers
        <4>2. Shifted(net[Owner], net'[Owner])
          <5>1. net \in [Replicas -> Seq(Messages)] /\ Owner \in Replicas
            BY <1>0, StreamAssumption DEF TypeOK
          <5>2. net' = [net EXCEPT ![Owner] = RemoveAt(@, 1)]
            BY <2>5 DEF HandleMessage
          <5>3. net'[Owner] = RemoveAt(net[Owner], 1)
            BY <5>1, <5>2
          <5> QED
            BY <2>5, <5>1, <5>3, RemoveFirstIs
        <4>3. Takes(tr[Owner].pend \cup {net[Owner][1]}, Receive(tr[Owner], net[Owner][1]))
          BY <2>5, <3>1, <4>1, <4>2, SameDriver DEF Takes
        <4> QED
          BY <1>2, <4>3
      <3> QED
        BY <3>2, <3>3
    <2> QED
      BY <1>8, <2>1, <2>2, <2>3, <2>4, <2>5
  <1>9. ASSUME EmitChunk \/ PublishChunk \/ Finish \/ NumberFinal \/ PublishFinal \/ StoreEnd
        PROVE  got' = got
    BY <1>9 DEF EmitChunk, PublishChunk, Finish, NumberFinal, PublishFinal, StoreEnd
  <1>10. ASSUME NEW d \in Clients, Lookup(d) \/ Request(d) \/ Leave(d)
         PROVE  \/ got'[c] = got[c]
                \/ got'[c] = <<>> /\ Leave(c)
                \/ Replay(c) /\ <<Owner, ref[c]>> \notin subbed
                \/ \E ms, res : Takes(ms, res) /\ got'[c] = Write(got[c], res.out)
    <2>1. CASE Lookup(d) \/ GetCounter(d) \/ Attach(d)
      BY <1>3, <1>4, <2>1
    <2>2. CASE Replay(d) \/ Leave(d)
      BY <1>5, <1>6, <2>2
    <2>3. CASE SyncBuffer(d)
      BY <1>7, <2>3
    <2> QED
      BY <1>10, <2>1, <2>2, <2>3 DEF Request
  <1> QED
    BY <1>8, <1>9, <1>10, UndisturbedSteps

-----------------------------------------------------------------------------
(* The entry and its early buffer *)

\* The owner keeps its entry until the generation has been told its end.
LEMMA OwnerKeepsEntry ==
  ASSUME StreamLaneInv, Next, ~disturbed'
  PROVE  /\ home' = home /\ (Over => Over')
         /\ Over' \/ (cur'[Owner] = 1 /\ <<Owner, 1>> \notin dead')
         /\ job' = "running" \/ (job' = "gone" /\ drv'.pc = "over")
  <1> USE DEF redis, rtvars, wire, cvars, hist
  <1>0. /\ StreamInv /\ TypeOK /\ Undisturbed /\ UndisturbedInv /\ EntryInv
        /\ Owner \in Replicas /\ drv \in Drivers /\ abt \in Aborts
    BY UndisturbedSteps, StreamAssumption DEF StreamLaneInv, StreamInv, UndisturbedInv, TypeOK
  <1>1. Over \/ (cur[Owner] = 1 /\ <<Owner, 1>> \notin dead)
    BY <1>0 DEF EntryInv
  <1>2. job = "running" \/ (job = "gone" /\ drv.pc = "over")
    BY <1>0 DEF EntryInv
  <1>3. \A r \in Replicas : EnsureRuntime(r) /\ cur[Owner] = 1 => cur'[Owner] = 1
    BY <1>0 DEF EnsureRuntime, TypeOK
  <1>4. ASSUME NEW c \in Clients, Lookup(c) \/ Request(c) \/ Leave(c)
        PROVE  /\ UNCHANGED <<home, drv, job, dead>>
               /\ cur[Owner] = 1 => cur'[Owner] = 1
    <2>1. CASE Lookup(c)
      <3>1. EnsureRuntime(home[c]) \/ cur' = cur
        BY <2>1 DEF Lookup
      <3>2. home[c] \in Replicas
        BY <1>0 DEF TypeOK
      <3> QED
        BY <1>3, <2>1, <3>1, <3>2 DEF Lookup
    <2>2. CASE Request(c) \/ Leave(c)
      BY <2>2 DEF Request, Attach, Replay, GetCounter, SyncBuffer, Leave
    <2> QED
      BY <1>4, <2>1, <2>2
  <1>5. ASSUME EmitChunk \/ PublishChunk \/ NumberFinal
        PROVE  UNCHANGED <<home, job, dead, cur>> /\ ~Over
    BY <1>0, <1>5 DEF EmitChunk, PublishChunk, NumberFinal, Over
  <1>6. ASSUME Finish
        PROVE  /\ UNCHANGED <<home, job, dead>> /\ ~Over
               /\ cur[Owner] = 1 => cur'[Owner] = 1
    <2>1. EnsureRuntime(Owner) \/ cur' = cur
      BY <1>6 DEF Finish
    <2> QED
      BY <1>0, <1>3, <1>6, <2>1 DEF Finish, Over
  <1>7. ASSUME PublishFinal
        PROVE  UNCHANGED <<home, job>> /\ Over' /\ drv.pc = "publish"
    BY <1>0, <1>7 DEF PublishFinal, CompleteJob, Over, Drivers
  <1>8. ASSUME StoreEnd
        PROVE  home' = home /\ Over' /\ job' = "gone" /\ drv'.pc = "over"
    BY <1>0, <1>8, UndisturbedSteps DEF StoreEnd, Over, Drivers, Undisturbed
  <1>9. ASSUME NEW r \in Replicas,
               \/ Joined(r) \/ FlushTimeout(r)
               \/ 1 \in DOMAIN net[r] /\ HandleMessage(r, 1)
        PROVE  UNCHANGED <<home, job, drv, cur>> /\ (<<Owner, 1>> \in dead' => <<Owner, 1>> \in dead)
    <2>1. UNCHANGED <<home, job, drv, cur>>
      BY <1>9 DEF Joined, FlushTimeout, HandleMessage
    <2>2. dead' = dead \/ (dead' = dead \cup {<<r, cur[r]>>} /\ r # Owner)
      <3>1. CASE Joined(r) \/ FlushTimeout(r)
        BY <3>1 DEF Joined, FlushTimeout
      <3>2. CASE 1 \in DOMAIN net[r] /\ HandleMessage(r, 1)
        <4>1. r = Owner => net[r][1].type # "abort"
          BY <1>0, <3>2 DEF UndisturbedInv, PlaceInv
        <4> QED
          BY <3>2, <4>1 DEF HandleMessage
      <3> QED
        BY <1>9, <3>1, <3>2
    <2> QED
      BY <2>1, <2>2
  <1>10. CASE \E c \in Clients : Lookup(c) \/ Request(c) \/ Leave(c)
    BY <1>1, <1>2, <1>4, <1>10 DEF Over
  <1>11. CASE EmitChunk \/ PublishChunk \/ NumberFinal \/ Finish
    <2>1. UNCHANGED <<home, job, dead>> /\ ~Over /\ (cur[Owner] = 1 => cur'[Owner] = 1)
      BY <1>5, <1>6, <1>11
    <2>2. job = "running"
      BY <1>2, <2>1 DEF Over
    <2> QED
      BY <1>1, <2>1, <2>2
  <1>12. CASE PublishFinal
    BY <1>2, <1>7, <1>12
  <1>13. CASE StoreEnd
    BY <1>8, <1>13
  <1>14. CASE \E r \in Replicas : \/ Joined(r) \/ FlushTimeout(r)
                                  \/ 1 \in DOMAIN net[r] /\ HandleMessage(r, 1)
    BY <1>1, <1>2, <1>9, <1>14 DEF Over
  <1> QED
    BY <1>10, <1>11, <1>12, <1>13, <1>14, UndisturbedSteps

\* What the early buffers and the marks of the entries may do.
LEMMA EarlyAfter ==
  ASSUME StreamLaneInv, Next, ~disturbed'
  PROVE  \/ /\ early' = early /\ subbed' \subseteq subbed /\ drv'.sent = drv.sent
         \/ EmitChunk
         \/ \E c \in Clients : Replay(c) /\ early' = early /\ drv' = drv
                               /\ subbed' = subbed \cup {<<home[c], ref[c]>>} /\ home[c] # Owner
         \/ \E c \in Clients : /\ Replay(c) /\ home[c] = Owner /\ drv' = drv
                               /\ early' = [early EXCEPT ![ref[c]] = <<>>]
                               /\ subbed' = subbed \cup {<<Owner, ref[c]>>}
  <1> USE DEF redis, rtvars, wire, cvars, hist
  <1>0. drv \in Drivers
    BY DEF StreamLaneInv, StreamInv, TypeOK
  <1>1. ASSUME NEW c \in Clients, Lookup(c) \/ Attach(c) \/ GetCounter(c) \/ SyncBuffer(c) \/ Leave(c)
        PROVE  early' = early /\ subbed' \subseteq subbed /\ drv' = drv
    BY <1>1 DEF Lookup, Attach, GetCounter, SyncBuffer, Leave
  <1>2. ASSUME NEW c \in Clients, Replay(c)
        PROVE  \/ early' = early /\ subbed' = subbed /\ drv' = drv
               \/ Replay(c) /\ early' = early /\ drv' = drv
                  /\ subbed' = subbed \cup {<<home[c], ref[c]>>} /\ home[c] # Owner
               \/ /\ Replay(c) /\ home[c] = Owner /\ drv' = drv
                  /\ early' = [early EXCEPT ![ref[c]] = <<>>]
                  /\ subbed' = subbed \cup {<<Owner, ref[c]>>}
    BY <1>2 DEF Replay
  <1>3. ASSUME PublishChunk \/ Finish \/ NumberFinal \/ PublishFinal \/ StoreEnd
        PROVE  early' = early /\ subbed' = subbed /\ drv'.sent = drv.sent
    BY <1>0, <1>3 DEF PublishChunk, Finish, NumberFinal, PublishFinal, CompleteJob, StoreEnd, Drivers
  <1>4. ASSUME NEW r \in Replicas,
               \/ Joined(r) \/ FlushTimeout(r)
               \/ 1 \in DOMAIN net[r] /\ HandleMessage(r, 1)
        PROVE  early' = early /\ subbed' = subbed /\ drv' = drv
    BY <1>4 DEF Joined, FlushTimeout, HandleMessage
  <1> QED
    BY <1>1, <1>2, <1>3, <1>4, UndisturbedSteps DEF Request

\* The owner's entry and its early buffer.
LEMMA EntryStep ==
  ASSUME StreamLaneInv, Next, ~disturbed'
  PROVE  EntryInv'
  <1> DEFINE Run(e, n) == \A j \in DOMAIN e : e[j].k + Len(e) = n + j - 1
  <1>a. StreamInv /\ TypeOK /\ UndisturbedInv /\ EntryInv
    BY UndisturbedSteps DEF StreamLaneInv, StreamInv, UndisturbedInv
  <1>0. /\ drv.sent \in Nat /\ drv \in Drivers
        /\ early \in [1 .. 2 -> Seq(Messages)] /\ early[1] \in Seq(Messages)
    BY <1>a DEF TypeOK, Drivers
  <1>1. /\ early[2] = <<>> /\ (<<Owner, 1>> \in subbed => early[1] = <<>>)
        /\ Run(early[1], drv.sent)
    BY <1>a DEF EntryInv
  <1> DEFINE Goal == /\ early'[2] = <<>> /\ (<<Owner, 1>> \in subbed' => early'[1] = <<>>)
                     /\ Run(early'[1], drv'.sent)
  <1>2. Run(<<>>, drv.sent)
    OBVIOUS
  <1>3. ASSUME early' = early, subbed' \subseteq subbed, drv'.sent = drv.sent
        PROVE  Goal
    BY <1>1, <1>3
  <1>4. ASSUME EmitChunk
        PROVE  Goal
    <2>1. cur[Owner] = 1 /\ drv'.sent = drv.sent + 1
      BY <1>a, <1>0, <1>4 DEF EmitChunk, EntryInv, Over, Drivers
    <2>2. /\ subbed' = subbed
          /\ early' = IF <<Owner, 1>> \in subbed THEN early
                      ELSE [early EXCEPT ![1] = Append(@, Msg("replayed", 0, drv.sent))]
      BY <1>4, <2>1 DEF EmitChunk
    <2>3. CASE <<Owner, 1>> \in subbed
      BY <1>1, <2>1, <2>2, <2>3
    <2>4. CASE <<Owner, 1>> \notin subbed
      <3> DEFINE m == Msg("replayed", 0, drv.sent)
                 e == early[1]
                 f == early'[1]
      <3>1. early'[2] = <<>> /\ f = Append(e, m)
        BY <1>0, <1>1, <2>2, <2>4
      <3>2. m.k = drv.sent
        BY DEF Msg
      <3> HIDE DEF m
      <3>3. /\ Len(f) = Len(e) + 1 /\ DOMAIN f = 1 .. Len(e) + 1 /\ Len(e) \in Nat
            /\ \A j \in 1 .. Len(e) : f[j] = e[j]
            /\ f[Len(e) + 1] = m
        BY <1>0, <3>1
      <3>4. e \in Seq(Messages) /\ Run(e, drv.sent)
        BY <1>0, <1>1
      <3> HIDE DEF e, f
      <3>5. \A j \in 1 .. Len(e) : e[j] \in Messages /\ e[j].k + Len(e) = drv.sent + j - 1
        BY <3>4
      <3>6. \A j \in 1 .. Len(e) : e[j].k \in Nat
        BY <3>5 DEF Messages
      <3>7. ASSUME NEW j \in 1 .. Len(e) + 1
            PROVE  f[j].k + Len(f) = drv'.sent + j - 1
        <4> DEFINE x == f[j].k
                   n == drv'.sent
                   l == Len(f)
                   i == Len(e)
                   s == drv.sent
        <4>1. n = s + 1 /\ l = i + 1 /\ j \in 1 .. i + 1 /\ i \in Nat /\ s \in Nat
          BY <1>0, <2>1, <3>3
        <4>2. j = i + 1 => x = s
          BY <3>2, <3>3
        <4>3. j # i + 1 => x \in Nat /\ x + i = s + j - 1
          <5>1. j # Len(e) + 1 => j \in 1 .. Len(e)
            BY <3>3
          <5> QED
            BY <3>3, <3>5, <3>6, <5>1
        <4> HIDE DEF x, n, l, i, s
        <4>4. x + l = n + j - 1
          BY <4>1, <4>2, <4>3
        <4> QED
          BY <4>4 DEF x, n, l
      <3> QED
        BY <2>2, <2>4, <3>1, <3>3, <3>7 DEF f
    <2> QED
      BY <2>3, <2>4
  <1>5. ASSUME NEW c \in Clients, early' = early, drv' = drv,
               subbed' = subbed \cup {<<home[c], ref[c]>>}, home[c] # Owner
        PROVE  Goal
    BY <1>1, <1>5
  <1>6. ASSUME NEW c \in Clients, Replay(c), home[c] = Owner, drv' = drv,
               early' = [early EXCEPT ![ref[c]] = <<>>],
               subbed' = subbed \cup {<<Owner, ref[c]>>}
        PROVE  Goal
    <2>1. ref[c] \in 1 .. 2
      BY <1>a, <1>6, ReplayIs
    <2>2. CASE ref[c] = 1
      <3>1. early'[1] = <<>> /\ early'[2] = early[2]
        BY <1>0, <1>6, <2>2
      <3> QED
        BY <1>1, <1>2, <1>6, <3>1
    <2>3. CASE ref[c] = 2
      <3>1. early'[2] = <<>> /\ early'[1] = early[1]
        BY <1>0, <1>6, <2>3
      <3>2. <<Owner, 1>> \in subbed' => <<Owner, 1>> \in subbed
        BY <1>6, <2>3
      <3> QED
        BY <1>1, <1>6, <3>1, <3>2
    <2> QED
      BY <2>1, <2>2, <2>3
  <1>7. Goal
    BY <1>3, <1>4, <1>5, <1>6, EarlyAfter
  <1> QED
    BY <1>7, OwnerKeepsEntry DEF EntryInv

-----------------------------------------------------------------------------
(* Who asks for the counter *)

\* Nothing gets a number once the end is told.
LEMMA AheadOnce ==
  ASSUME StreamLaneInv, Next, ~disturbed'
  PROVE  (Ahead' => Ahead) /\ (Over => ctr' = ctr)
  <1>1. ~(Ahead /\ Over)
    BY DEF Ahead, Over
  <1> QED
    BY <1>1, LaneKinds DEF Idle, Clears, Enters, Goes, Takes, Skips, Steady

\* Another request of the owner does not unmark the entry of one that stays.
LEMMA MarksStay ==
  ASSUME StreamInv, NEW c \in Clients, Lookup(c) \/ Request(c) \/ Leave(c),
         NEW d \in tr[Owner].handlers, d # c, NEW i, <<Owner, i>> \in subbed
  PROVE  <<Owner, i>> \in subbed'
  <1> USE DEF redis, rtvars, wire, cvars, hist
  <1>0. Owner \in Replicas /\ tr \in [Replicas -> Buffers]
    BY StreamAssumption DEF StreamInv, TypeOK
  <1>1. CASE Lookup(c) \/ Request(c)
    BY <1>1 DEF Lookup, Request, Attach, Replay, GetCounter, SyncBuffer
  <1>2. CASE Leave(c) /\ home[c] # Owner
    BY <1>2 DEF Leave
  <1>3. CASE Leave(c) /\ home[c] = Owner
    <2>1. /\ tr'[Owner].handlers = tr[Owner].handlers \ {c}
          /\ tr'[Owner].subs = Cardinality(tr'[Owner].handlers)
      BY <1>3, LeaveIs
    <2>2. IsFiniteSet(tr'[Owner].handlers)
      <3>1. tr'[Owner].handlers \subseteq Clients
        BY <1>0, <2>1 DEF Buffers
      <3> QED
        BY <3>1, StreamAssumption, FS_Subset
    <2>3. tr'[Owner].subs # 0
      BY <2>1, <2>2, FS_EmptySet
    <2> DEFINE b == [tr[Owner] EXCEPT !.handlers = @ \ {c}, !.subs = @ - 1]
    <2>4. subbed' = subbed \/ (b.subs = 0 /\ tr' = [tr EXCEPT ![Owner] = [Reset(b) EXCEPT !.chan = "off"]])
      BY <1>3 DEF Leave
    <2>5. tr[Owner] \in Buffers
      BY <1>0
    <2>6. b.subs = 0 => [Reset(b) EXCEPT !.chan = "off"].subs = 0
      BY <2>5 DEF Buffers, Reset
    <2>7. subbed' = subbed
      <3> HIDE DEF b
      <3>1. tr' = [tr EXCEPT ![Owner] = [Reset(b) EXCEPT !.chan = "off"]]
              => tr'[Owner].subs = [Reset(b) EXCEPT !.chan = "off"].subs
        BY <1>0
      <3> QED
        BY <2>3, <2>4, <2>6, <3>1
    <2> QED
      BY <2>7
  <1> QED
    BY <1>1, <1>2, <1>3

\* A request changes nothing of another one, and nothing else changes it.
LEMMA OthersStay ==
  ASSUME StreamLaneInv, Next, ~disturbed', NEW d \in tr[Owner].handlers
  PROVE  \/ Request(d) \/ Leave(d)
         \/ /\ pc'[d] = pc[d] /\ ref'[d] = ref[d] /\ count'[d] = count[d] /\ seen'[d] = seen[d]
            /\ \A i : <<Owner, i>> \in subbed => <<Owner, i>> \in subbed'
  <1> USE DEF redis, rtvars, wire, cvars, hist
  <1>0. StreamInv /\ TypeOK /\ Owner \in Replicas
    BY StreamAssumption DEF StreamLaneInv, StreamInv
  <1>1. d \in Clients /\ home[d] = Owner /\ Listening(d)
    BY <1>0 DEF StreamInv, HandlerInv
  <1>2. ASSUME NEW c \in Clients, Lookup(c) \/ Request(c) \/ Leave(c), c # d
        PROVE  /\ pc'[d] = pc[d] /\ ref'[d] = ref[d] /\ count'[d] = count[d] /\ seen'[d] = seen[d]
               /\ \A i : <<Owner, i>> \in subbed => <<Owner, i>> \in subbed'
    <2>1. \A i : <<Owner, i>> \in subbed => <<Owner, i>> \in subbed'
      BY <1>0, <1>2, MarksStay
    <2> QED
      BY <1>0, <1>1, <1>2, <2>1 DEF Lookup, Request, Attach, Replay, GetCounter, SyncBuffer, Leave,
                                    TypeOK
  <1>3. ~Lookup(d)
    BY <1>1 DEF Lookup, Listening
  <1>4. ASSUME EmitChunk \/ PublishChunk \/ Finish \/ NumberFinal \/ PublishFinal \/ StoreEnd
        PROVE  UNCHANGED <<pc, ref, count, seen, subbed>>
    BY <1>4 DEF EmitChunk, PublishChunk, Finish, NumberFinal, PublishFinal, StoreEnd
  <1>5. ASSUME NEW r \in Replicas,
               \/ Joined(r) \/ FlushTimeout(r)
               \/ 1 \in DOMAIN net[r] /\ HandleMessage(r, 1)
        PROVE  UNCHANGED <<pc, ref, count, seen, subbed>>
    BY <1>5 DEF Joined, FlushTimeout, HandleMessage
  <1> QED
    BY <1>1, <1>2, <1>3, <1>4, <1>5, UndisturbedSteps

\* The requests of the owner: which entry they hold.
LEMMA RefAfter ==
  ASSUME StreamLaneInv, Next, ~disturbed', NEW c \in Clients, home[c] = Owner
  PROVE  ref'[c] = ref[c] \/ ref'[c] = 0 \/ (Lookup(c) /\ ref'[c] = cur'[Owner])
  <1> USE DEF redis, rtvars, wire, cvars, hist
  <1>0. TypeOK
    BY DEF StreamLaneInv, StreamInv
  <1>1. ASSUME NEW d \in Clients, Lookup(d) \/ Request(d) \/ Leave(d)
        PROVE  ref'[c] = ref[c] \/ ref'[c] = 0 \/ (Lookup(c) /\ ref'[c] = cur'[Owner])
    BY <1>0, <1>1 DEF Lookup, Request, Attach, Replay, GetCounter, SyncBuffer, Leave, TypeOK
  <1>2. ASSUME \/ EmitChunk \/ PublishChunk \/ Finish \/ NumberFinal \/ PublishFinal \/ StoreEnd
               \/ \E r \in Replicas : \/ Joined(r) \/ FlushTimeout(r)
                                      \/ 1 \in DOMAIN net[r] /\ HandleMessage(r, 1)
        PROVE  ref' = ref
    BY <1>2 DEF EmitChunk, PublishChunk, Finish, NumberFinal, PublishFinal, StoreEnd,
                Joined, FlushTimeout, HandleMessage
  <1> QED
    BY <1>1, <1>2, UndisturbedSteps

\* Who begins to ask.
LEMMA AskAfter ==
  ASSUME StreamLaneInv, Next, ~disturbed', NEW c \in Clients, home[c] = Owner, Asks(c)', ~Asks(c)
  PROVE  /\ Replay(c) /\ <<Owner, ref[c]>> \notin subbed /\ subbed' = subbed \cup {<<Owner, ref[c]>>}
         /\ pc'[c] = "asking" /\ ref'[c] = ref[c] /\ ref[c] \in 1 .. 2
  <1> USE DEF redis, rtvars, wire, cvars, hist
  <1>0. StreamInv /\ TypeOK
    BY DEF StreamLaneInv, StreamInv
  <1>1. ASSUME NEW d \in Clients, Lookup(d) \/ Request(d) \/ Leave(d)
        PROVE  Replay(c) /\ pc'[c] = "asking"
    BY <1>0, <1>1 DEF Lookup, Request, Attach, Replay, GetCounter, SyncBuffer, Leave, TypeOK, Asks
  <1>2. ASSUME \/ EmitChunk \/ PublishChunk \/ Finish \/ NumberFinal \/ PublishFinal \/ StoreEnd
               \/ \E r \in Replicas : \/ Joined(r) \/ FlushTimeout(r)
                                      \/ 1 \in DOMAIN net[r] /\ HandleMessage(r, 1)
        PROVE  pc' = pc
    BY <1>2 DEF EmitChunk, PublishChunk, Finish, NumberFinal, PublishFinal, StoreEnd,
                Joined, FlushTimeout, HandleMessage
  <1>3. Replay(c) /\ pc'[c] = "asking"
    BY <1>1, <1>2, UndisturbedSteps DEF Asks
  <1>4. /\ <<Owner, ref[c]>> \notin subbed /\ subbed' = subbed \cup {<<Owner, ref[c]>>}
        /\ ref'[c] = ref[c]
    BY <1>0, <1>3 DEF Replay, TypeOK
  <1>5. ref[c] \in 1 .. 2
    BY <1>0, <1>3, ReplayIs
  <1> QED
    BY <1>3, <1>4, <1>5

\* An end comes to the owner's clients through the lane, and so not before it
\* has its number.
LEMMA EndedStep ==
  ASSUME StreamLaneInv, Next, ~disturbed', NEW c \in Clients, home[c] = Owner, Ended(c)'
  PROVE  ~Ahead'
  <1>0. /\ StreamInv /\ TypeOK /\ Undisturbed /\ UndisturbedInv /\ got[c] \in Seq(Messages)
    BY UndisturbedSteps DEF StreamLaneInv, StreamInv, TypeOK
  <1>1. Ended(c) => ~Ahead
    BY <1>0 DEF UndisturbedInv, AskerInv, AtOwner
  <1>2. Closed(got'[c]) /\ (Closed(got[c]) => Ended(c))
    BY DEF Ended, Closed
  <1>3. CASE got'[c] = got[c]
    BY <1>1, <1>2, <1>3, AheadOnce
  <1>4. CASE got'[c] = <<>>
    BY <1>2, <1>4 DEF Closed
  <1>5. CASE Replay(c) /\ <<Owner, ref[c]>> \notin subbed
    <2> DEFINE e == early[ref[c]]
               n == IF c \in Resuming THEN 0 ELSE Len(e)
               p == SubSeq(e, 1, n)
    <2>1. got' = [got EXCEPT ![c] = Write(@, p)] /\ got \in [Clients -> Seq(Messages)]
      BY <1>0, <1>5 DEF Replay, TypeOK
    <2>2. got'[c] = Write(got[c], p)
      BY <2>1
    <2>3. ref[c] \in 1 .. 2
      BY <1>0, <1>5, ReplayIs
    <2>4. e \in Seq(Messages) /\ \A j \in DOMAIN e : e[j].type = "replayed"
      BY <1>0, <2>3 DEF TypeOK, StreamInv, EarlyInv
    <2> HIDE DEF e
    <2>5. n \in 0 .. Len(e) /\ Len(e) \in Nat
      BY <2>4
    <2> HIDE DEF n
    <2>6. p \in Seq(Messages) /\ Len(p) = n /\ \A j \in 1 .. n : p[j] = e[j]
      BY <2>4, <2>5
    <2>7. \A j \in DOMAIN p : p[j].type \notin Ends
      <3>1. DOMAIN p = 1 .. n /\ \A j \in 1 .. n : j \in DOMAIN e
        BY <2>4, <2>5, <2>6
      <3> QED
        BY <2>4, <2>6, <3>1 DEF Ends
    <2> HIDE DEF p
    <2>8. Closed(got[c])
      BY <1>0, <1>2, <2>2, <2>6, <2>7, WriteOpen
    <2> QED
      BY <1>1, <1>2, <2>8, AheadOnce
  <1>6. ASSUME NEW ms, NEW res, Takes(ms, res), got'[c] = Write(got[c], res.out)
        PROVE  ~Ahead'
    <2>1. CASE Closed(got[c])
      BY <1>1, <1>2, <2>1, AheadOnce
    <2>2. CASE ~Closed(got[c])
      <3>1. Delivery(Owner, ms, res)
        BY <1>6 DEF Takes
      <3>2. res.out \in Seq(Messages) /\ Range(res.out) \subseteq ms /\ ms \subseteq Lane
        BY <3>1 DEF Delivery, Keeps, Lane
      <3>3. PICK i \in DOMAIN res.out : res.out[i].type \in Ends
        BY <1>0, <1>2, <1>6, <2>2, <3>2, WriteOpen
      <3>4. res.out[i] \in Lane
        BY <3>2 DEF Range
      <3>5. res.out[i].type = "final"
        BY <1>0, <3>3, <3>4, StreamAssumption DEF StreamInv, NumberInv, Lane, LiveTypes, Ends
      <3>6. ~Ahead
        BY <1>0, <3>4, <3>5 DEF UndisturbedInv, PlaceInv
      <3> QED
        BY <3>6, AheadOnce
    <2> QED
      BY <2>1, <2>2
  <1> QED
    BY <1>3, <1>4, <1>5, <1>6, GotAfter

\* Who asks for the counter.
LEMMA AskerStep ==
  ASSUME StreamLaneInv, Next, ~disturbed'
  PROVE  AskerInv'
  <1> USE DEF redis, rtvars, wire, cvars, hist
  <1>0. /\ StreamInv /\ TypeOK /\ UndisturbedInv /\ home' = home
    BY UndisturbedSteps, OwnerKeepsEntry DEF StreamLaneInv, StreamInv
  <1> SUFFICES ASSUME NEW c \in Clients, home[c] = Owner
               PROVE  /\ ref'[c] = 2 => Over'
                      /\ Asks(c)' => <<Owner, ref'[c]>> \in subbed'
                      /\ Asks(c)' /\ ref'[c] = 2 =>
                           count'[c] = 0 /\ (pc'[c] = "asked" => seen'[c] = ctr')
                      /\ Ended(c)' => ~Ahead'
    BY <1>0 DEF AskerInv, AtOwner
  <1>1. /\ ref[c] = 2 => Over
        /\ Asks(c) => <<Owner, ref[c]>> \in subbed
        /\ Asks(c) /\ ref[c] = 2 => count[c] = 0 /\ (pc[c] = "asked" => seen[c] = ctr)
    BY <1>0 DEF UndisturbedInv, AskerInv, AtOwner
  <1>2. Ended(c)' => ~Ahead'
    BY EndedStep
  <1>3. ref'[c] = 2 => Over'
    BY <1>1, RefAfter, OwnerKeepsEntry
  <1>4. ASSUME Asks(c)', ~Asks(c)
        PROVE  /\ <<Owner, ref'[c]>> \in subbed'
               /\ ref'[c] = 2 => count'[c] = 0 /\ pc'[c] # "asked"
    <2>1. /\ Replay(c) /\ <<Owner, ref[c]>> \notin subbed /\ subbed' = subbed \cup {<<Owner, ref[c]>>}
          /\ pc'[c] = "asking" /\ ref'[c] = ref[c]
      BY <1>4, AskAfter
    <2>2. ASSUME ref[c] = 2
          PROVE  count'[c] = 0
      <3>1. early[2] = <<>> /\ Len(<<>>) = 0
        BY <1>0 DEF UndisturbedInv, EntryInv
      <3>2. count' = [count EXCEPT ![c] = IF c \in Resuming THEN 0 ELSE Len(early[2])]
        BY <2>1, <2>2 DEF Replay
      <3> QED
        BY <1>0, <3>1, <3>2 DEF TypeOK
    <2> QED
      BY <2>1, <2>2
  <1>5. ASSUME Asks(c)', Asks(c)
        PROVE  /\ <<Owner, ref'[c]>> \in subbed'
               /\ ref'[c] = 2 => count'[c] = 0 /\ (pc'[c] = "asked" => seen'[c] = ctr')
    <2>1. CASE Request(c)
      <3>1. GetCounter(c)
        BY <1>0, <1>5, <2>1 DEF Request, Attach, Replay, SyncBuffer, Asks, TypeOK
      <3>2. /\ ref' = ref /\ count' = count /\ subbed' = subbed /\ ctr' = ctr
            /\ seen'[c] = ctr
        BY <1>0, <3>1 DEF GetCounter, TypeOK
      <3> QED
        BY <1>1, <1>5, <3>2
    <2>2. CASE ~Request(c)
      <3>0. c \in tr[Owner].handlers /\ ~Leave(c)
        BY <1>0, <1>5, StreamAssumption DEF StreamInv, HandlerInv, Listening, Asks, Leave
      <3>1. /\ pc'[c] = pc[c] /\ ref'[c] = ref[c] /\ count'[c] = count[c] /\ seen'[c] = seen[c]
            /\ \A i : <<Owner, i>> \in subbed => <<Owner, i>> \in subbed'
        BY <2>2, <3>0, OthersStay
      <3> QED
        BY <1>1, <1>5, <3>1, AheadOnce
    <2> QED
      BY <2>1, <2>2
  <1> QED
    BY <1>2, <1>3, <1>4, <1>5

-----------------------------------------------------------------------------
(* The clients that were replayed everything *)

\* Chunk k stays written to a response that stays open.
LEMMA HasStays ==
  ASSUME StreamLaneInv, Next, ~disturbed', NEW c \in whole, c \in whole', NEW k, Has(c, k)
  PROVE  Has(c, k)'
  <1>0. /\ StreamInv /\ UndisturbedInv /\ c \in Clients /\ home[c] = Owner
        /\ pc[c] \in {"asking", "asked", "live"} /\ got[c] \in Seq(Messages)
    <2>1. StreamInv /\ UndisturbedInv
      BY UndisturbedSteps DEF StreamLaneInv
    <2> QED
      BY <2>1, WholeListens DEF UndisturbedInv, WholeInv, StreamInv, TypeOK
  <1>1. ~Leave(c) /\ ~Replay(c)
    BY <1>0 DEF Leave, Replay
  <1>2. Range(got[c]) \subseteq Range(got'[c])
    <2>1. CASE got'[c] = got[c]
      BY <2>1
    <2>2. ASSUME NEW ms, NEW res, Takes(ms, res), got'[c] = Write(got[c], res.out)
          PROVE  Range(got[c]) \subseteq Range(got'[c])
      <3>1. res.out \in Seq(Messages)
        BY <2>2 DEF Takes, Delivery, Keeps
      <3> QED
        BY <1>0, <2>2, <3>1, WriteOpen
    <2> QED
      BY <1>0, <1>1, <2>1, <2>2, GotAfter
  <1>3. PICK m \in Range(got[c]) : m.type \in {"chunk", "replayed"} /\ m.k = k
    BY DEF Has, Range
  <1>4. m \in Range(got'[c])
    BY <1>2
  <1> QED
    BY <1>3, <1>4 DEF Has, Range

\* What a client in "whole" is, and what the lane is to it.
LEMMA WholePlace ==
  ASSUME StreamLaneInv, Next, ~disturbed', NEW c \in whole, c \in whole'
  PROVE  /\ home'[c] = Owner /\ pc'[c] \in {"asking", "asked", "live"} /\ ref'[c] = 1
         /\ <<Owner, 1>> \in subbed'
         /\ \A d \in AtOwner' \ {c} : Asks(d)' => ref'[d] = 2
         /\ pc'[c] = "asking" => ctr' = count'[c]
         /\ pc'[c] = "asked" => seen'[c] = count'[c]
         /\ Asks(c)' => \A k \in 0 .. count'[c] - 1 : Has(c, k)'
  <1> USE DEF redis, rtvars, wire, cvars, hist
  <1>0. StreamInv /\ TypeOK /\ UndisturbedInv /\ home' = home
    BY UndisturbedSteps, OwnerKeepsEntry DEF StreamLaneInv, StreamInv
  <1>1. c \in Clients /\ home[c] = Owner /\ c \in tr[Owner].handlers
    BY <1>0, WholeListens
  <1>2. /\ pc[c] \in {"asking", "asked", "live"} /\ ref[c] = 1 /\ <<Owner, 1>> \in subbed
        /\ \A d \in AtOwner \ {c} : Asks(d) => ref[d] = 2
        /\ pc[c] = "asking" => ctr = count[c]
        /\ pc[c] = "asked" => seen[c] = count[c]
        /\ Asks(c) => \A k \in 0 .. count[c] - 1 : Has(c, k)
    BY <1>0 DEF UndisturbedInv, WholeInv
  <1>3. ~Leave(c)
    BY DEF Leave
  <1>4. ASSUME NEW d \in Clients, home[d] = Owner, d # c, Asks(d)'
        PROVE  ref'[d] = 2
    <2>1. CASE Asks(d)
      <3>1. d \in tr[Owner].handlers
        BY <1>0, <1>4, <2>1, StreamAssumption DEF StreamInv, HandlerInv, Listening, Asks
      <3>2. ~Leave(d)
        BY <2>1 DEF Leave, Asks
      <3>3. Request(d) => ref' = ref
        BY DEF Request, Attach, Replay, GetCounter, SyncBuffer
      <3>4. ref'[d] = ref[d]
        BY <3>1, <3>2, <3>3, OthersStay
      <3> QED
        BY <1>2, <1>4, <2>1, <3>4 DEF AtOwner
    <2>2. CASE ~Asks(d)
      <3>1. <<Owner, ref[d]>> \notin subbed /\ ref'[d] = ref[d] /\ ref[d] \in 1 .. 2
        BY <1>4, <2>2, AskAfter
      <3>2. ref[d] # 1
        BY <1>2, <3>1
      <3> QED
        BY <3>1, <3>2
    <2> QED
      BY <2>1, <2>2
  <1>5. \A d \in AtOwner' \ {c} : Asks(d)' => ref'[d] = 2
    BY <1>0, <1>4 DEF AtOwner
  <1>6. CASE Request(c)
    <2>1. GetCounter(c) \/ SyncBuffer(c)
      BY <1>2, <1>6 DEF Request, Attach, Replay
    <2>2. ref' = ref /\ subbed' = subbed
      BY <2>1 DEF GetCounter, SyncBuffer
    <2>3. CASE GetCounter(c)
      <3>1. /\ pc'[c] = "asked" /\ pc[c] = "asking" /\ count' = count /\ seen'[c] = ctr
        BY <1>0, <1>1, <2>3 DEF GetCounter, TypeOK
      <3>2. \A k \in 0 .. count'[c] - 1 : Has(c, k)'
        BY <1>2, <3>1, HasStays DEF Asks
      <3> QED
        BY <1>0, <1>1, <1>2, <1>5, <2>2, <3>1, <3>2
    <2>4. CASE SyncBuffer(c)
      <3>1. pc'[c] = "live" /\ ~Asks(c)'
        BY <1>0, <1>1, <2>4 DEF SyncBuffer, TypeOK, Asks
      <3> QED
        BY <1>0, <1>1, <1>2, <1>5, <2>2, <3>1
    <2> QED
      BY <2>1, <2>3, <2>4
  <1>7. CASE ~Request(c)
    <2>1. /\ pc'[c] = pc[c] /\ ref'[c] = ref[c] /\ count'[c] = count[c] /\ seen'[c] = seen[c]
          /\ <<Owner, 1>> \in subbed'
      BY <1>1, <1>2, <1>3, <1>7, OthersStay
    <2>2. ASSUME pc[c] = "asking"
          PROVE  ctr' = ctr
      <3>1. ~EmitChunk /\ ~NumberFinal
        BY <1>1, <2>2 DEF EmitChunk, NumberFinal, Pipelined
      <3>2. PublishChunk \/ Finish \/ PublishFinal \/ StoreEnd => ctr' = ctr
        BY DEF PublishChunk, Finish, PublishFinal, StoreEnd
      <3>3. \A d \in Clients : Lookup(d) \/ Request(d) \/ Leave(d) => ctr' = ctr
        BY DEF Lookup, Request, Attach, Replay, GetCounter, SyncBuffer, Leave
      <3>4. \A r \in Replicas : Joined(r) \/ FlushTimeout(r) \/ HandleMessage(r, 1) => ctr' = ctr
        BY DEF Joined, FlushTimeout, HandleMessage
      <3> QED
        BY <3>1, <3>2, <3>3, <3>4, UndisturbedSteps
    <2>3. Asks(c)' => \A k \in 0 .. count'[c] - 1 : Has(c, k)'
      BY <1>2, <2>1, HasStays DEF Asks
    <2> QED
      BY <1>0, <1>1, <1>2, <1>5, <2>1, <2>2, <2>3
  <1> QED
    BY <1>6, <1>7

\* No number was left over from an earlier turn, for such a client.
LEMMA WholeNumbers ==
  ASSUME StreamLaneInv, Next, ~disturbed', NEW c \in whole, c \in whole'
  PROVE  /\ ctr' = IF Ahead' THEN drv'.sent ELSE drv'.sent + 1
         /\ \A m \in Lane' : m.type = "chunk" => m.seq = m.k /\ m.k < drv'.sent
  <1>0. StreamInv /\ Undisturbed /\ UndisturbedInv
    BY UndisturbedSteps DEF StreamLaneInv
  <1>1. /\ ctr \in Nat /\ drv.sent \in Nat
        /\ \A m \in Lane : m.seq \in Nat /\ m.k \in Nat
    BY <1>0, LaneIs
  <1>2. /\ ctr = IF Ahead THEN drv.sent ELSE drv.sent + 1
        /\ \A m \in Lane : m.type = "chunk" => m.seq = m.k /\ m.k < drv.sent
    BY <1>0 DEF UndisturbedInv, WholeInv
  <1>3. CASE Enters
    <2>1. /\ Ahead /\ ctr' = ctr + 1 /\ Lane' = Lane \cup {drv'.msg} /\ drv'.msg.seq = ctr
          /\ \/ drv'.msg.type = "chunk" /\ drv'.msg.k = drv.sent /\ drv'.sent = drv.sent + 1 /\ Ahead'
             \/ drv'.msg.type = "final" /\ drv'.sent = drv.sent /\ ~Ahead'
      BY <1>3, LaneAfter DEF Enters
    <2>2. ctr' = IF Ahead' THEN drv'.sent ELSE drv'.sent + 1
      BY <1>1, <1>2, <2>1
    <2>3. ASSUME NEW m \in Lane', m.type = "chunk"
          PROVE  m.seq = m.k /\ m.k < drv'.sent
      <3>1. CASE m \in Lane
        BY <1>1, <1>2, <2>1, <2>3, <3>1
      <3>2. CASE m = drv'.msg
        BY <1>1, <1>2, <2>1, <2>3, <3>2
      <3> QED
        BY <2>1, <2>3, <3>1, <3>2
    <2> QED
      BY <2>2, <2>3
  <1>4. CASE ~Enters
    <2>1. Lane' \subseteq Lane
      BY <1>4, LaneKinds, LaneAfter
    <2>2. ctr' = ctr /\ drv'.sent = drv.sent /\ (Ahead' <=> Ahead)
      BY <1>4, LaneKinds DEF Idle, Clears, Goes, Takes, Skips, Steady
    <2> QED
      BY <1>2, <2>1, <2>2
  <1> QED
    BY <1>3, <1>4

\* What a run of the owner's buffer on ms makes of the chunks in the lane that
\* are still expected: it gives them out, leaves them there ahead of what it
\* then expects, or they have been replayed to c.
Serves(c, res) ==
  \A m \in Lane : m.type = "chunk" /\ tr[Owner].next <= m.seq =>
    \/ m \in Range(res.out)
    \/ m \in Lane' /\ res.buf.next <= m.seq
    \/ Has(c, m.k)

\* It does, when nothing but what c was replayed is behind the number from.
LEMMA TakesServes ==
  ASSUME StreamLaneInv, Next, ~disturbed', NEW c \in whole, NEW ms, NEW res, Takes(ms, res),
         NEW from \in Nat, Gives(tr[Owner], ms, res, from),
         \A top \in Nat : from <= top => Below(tr[Owner], ms, res, top),
         \A m \in Lane : m.type = "chunk" /\ m.seq < from => Has(c, m.k)
  PROVE  Serves(c, res)
  <1> SUFFICES ASSUME NEW m \in Lane, m.type = "chunk", tr[Owner].next <= m.seq, ~Has(c, m.k)
               PROVE  m \in Range(res.out) \/ (m \in Lane' /\ res.buf.next <= m.seq)
    BY DEF Serves
  <1>0. StreamInv /\ Undisturbed /\ UndisturbedInv /\ LaneInv
    BY UndisturbedSteps DEF StreamLaneInv, UndisturbedInv
  <1>1. /\ m.seq \in Nat /\ Owner \in Replicas /\ net[Owner] \in Seq(Messages)
        /\ tr[Owner].next \in Nat /\ \A o \in Lane : o.seq \in Nat
        /\ Lane = Queued \cup {o \in {drv.msg} : o.type # "none"}
        /\ Lane' = Queued' \cup {o \in {drv'.msg} : o.type # "none"}
        /\ net'[Owner] \in Seq(Messages)
    BY <1>0, LaneIs, LaneAfter
  <1>2. from <= m.seq
    BY <1>1
  <1>3. Delivery(Owner, ms, res) /\ drv'.msg = drv.msg
    BY DEF Takes, Steady
  <1>4. tr'[Owner] = res.buf /\ res.buf.next \in Nat
    BY <1>0, <1>1, <1>3, DeliveryBuffers
  <1>5. \A o \in ms : res.buf.next <= o.seq => o \in res.buf.pend
    BY <1>3 DEF Delivery, Keeps
  <1>6. CASE m \in ms
    <2>1. CASE m.seq < res.buf.next
      BY <1>2, <1>6, <2>1 DEF Gives
    <2>2. CASE res.buf.next <= m.seq
      BY <1>1, <1>4, <1>5, <1>6, <2>2 DEF Queued
    <2> QED
      BY <1>1, <1>4, <2>1, <2>2
  <1>7. CASE m \notin ms
    <2>1. m \in Lane' /\ \A o \in ms : o.seq < m.seq
      <3>1. CASE ms = tr[Owner].pend /\ net'[Owner] = net[Owner]
        <4>1. m \in Range(net[Owner]) \/ (m = drv.msg /\ drv.msg.type # "none")
          BY <1>1, <1>7, <3>1 DEF Queued
        <4>2. m \in Lane'
          BY <1>1, <1>3, <3>1, <4>1 DEF Queued
        <4>3. \A o \in ms : o.seq < m.seq
          BY <1>0, <3>1, <4>1 DEF LaneInv, Queued
        <4> QED
          BY <4>2, <4>3
      <3>2. CASE /\ 1 \in DOMAIN net[Owner] /\ ms = tr[Owner].pend \cup {net[Owner][1]}
                 /\ Shifted(net[Owner], net'[Owner])
        <4>0. Ascending(net[Owner])
          BY <1>0 DEF LaneInv, Ascending
        <4>1. /\ net[Owner][1] \in Range(net[Owner])
              /\ \A o \in Range(net[Owner]) : o = net[Owner][1] \/ o \in Range(net'[Owner])
              /\ Range(net'[Owner]) \subseteq Range(net[Owner])
              /\ \A o \in Range(net'[Owner]) : net[Owner][1].seq < o.seq
          BY <1>1, <3>2, <4>0, ShiftedIs
        <4>2. m \in Range(net'[Owner]) \/ (m = drv.msg /\ drv.msg.type # "none")
          BY <1>1, <1>7, <3>2, <4>1 DEF Queued
        <4>3. m \in Lane'
          BY <1>1, <1>3, <4>2 DEF Queued
        <4>4. \A o \in tr[Owner].pend : o.seq < m.seq
          BY <1>0, <4>1, <4>2 DEF LaneInv, Queued
        <4>5. net[Owner][1].seq < m.seq
          BY <1>0, <4>1, <4>2 DEF LaneInv, Queued
        <4> QED
          BY <3>2, <4>3, <4>4, <4>5
      <3> QED
        BY <3>1, <3>2 DEF Takes
    <2>2. res.buf.next <= m.seq
      BY <1>1, <1>2, <2>1 DEF Below
    <2> QED
      BY <2>1, <2>2
  <1> QED
    BY <1>6, <1>7

\* The buffer's inputs at the owner.
LEMMA OwnerBuffer ==
  ASSUME StreamInv
  PROVE  /\ tr[Owner] \in Buffers /\ IsFiniteSet(tr[Owner].pend) /\ Distinct(tr[Owner].pend)
         /\ \A o \in tr[Owner].pend : tr[Owner].next < o.seq
         /\ tr[Owner].timer <=> tr[Owner].pend # {}
         /\ tr[Owner].next \in Nat /\ tr[Owner].next <= ctr /\ ctr \in Nat
         /\ tr[Owner].pend # {} => \A o \in tr[Owner].pend : tr[Owner].next <= o.seq
  <1>1. Owner \in Replicas /\ ctr \in Nat
    BY StreamAssumption DEF StreamInv, TypeOK
  <1>2. /\ IsFiniteSet(tr[Owner].pend) /\ (\A o \in tr[Owner].pend : tr[Owner].next < o.seq)
        /\ (tr[Owner].timer <=> tr[Owner].pend # {})
    BY <1>1 DEF StreamInv, BufferInv
  <1>3. /\ tr[Owner] \in Buffers /\ Distinct(tr[Owner].pend) /\ tr[Owner].pend \subseteq Messages
        /\ tr[Owner].next \in Nat /\ tr[Owner].next <= ctr
    BY <1>1, ComingTypes DEF Distinct
  <1>4. \A o \in tr[Owner].pend : o.seq \in Nat
    BY <1>3 DEF Messages
  <1> QED
    BY <1>1, <1>2, <1>3, <1>4

\* A flush, a message that comes in turn and a sync serve the clients that
\* were replayed everything; or a late first subscriber's sync passes over all.
LEMMA SyncServes ==
  ASSUME StreamLaneInv, Next, ~disturbed', NEW c \in whole, NEW d \in Clients,
         SyncBuffer(d), home[d] = Owner,
         Takes(tr[Owner].pend, Sync(tr[Owner], count[d], seen[d]))
  PROVE  \E ms, res : /\ Takes(ms, res)
                      /\ Serves(c, res) \/ (res.out = <<>> /\ PassedOver')
  <1> DEFINE b == tr[Owner]
             res == Sync(b, count[d], seen[d])
  <1>0. StreamInv /\ Undisturbed /\ UndisturbedInv /\ WholeInv(c) /\ AskerInv
    BY UndisturbedSteps DEF StreamLaneInv, UndisturbedInv
  <1>1. /\ b \in Buffers /\ IsFiniteSet(b.pend) /\ Distinct(b.pend)
        /\ \A o \in b.pend : b.next < o.seq
        /\ b.next \in Nat /\ b.next <= ctr /\ ctr \in Nat
    BY <1>0, OwnerBuffer
  <1>2. pc[d] = "asked" /\ Asks(d)
    BY DEF SyncBuffer, Asks
  <1>3. count[d] \in Nat /\ seen[d] \in Nat /\ count[d] <= seen[d]
    BY <1>0, <1>2 DEF StreamInv, EarlyInv, TypeOK
  <1>4. /\ Gives(b, b.pend, res, count[d])
        /\ b.pend = {} => /\ res.out = <<>>
                          /\ seen[d] <= b.next \/ count[d] # 0 \/ res.buf.next = seen[d]
        /\ b.pend # {} /\ count[d] = 0 => \A top \in Nat : Below(b, b.pend, res, top)
    BY <1>1, <1>3, SyncGives
  <1>5. \A top \in Nat : seen[d] <= top => Below(b, b.pend, res, top)
    BY <1>1, <1>3, SyncKeeps
  <1> HIDE DEF res
  <1>6. Takes(b.pend, res)
    BY DEF res
  <1>7. CASE d = c
    <2>1. seen[d] = count[d]
      BY <1>0, <1>2, <1>7 DEF WholeInv
    <2>2. \A m \in Lane : m.type = "chunk" /\ m.seq < count[d] => Has(c, m.k)
      <3>1. \A m \in Lane : m.type = "chunk" => m.seq = m.k /\ m.k \in Nat
        BY <1>0, LaneIs DEF WholeInv
      <3>2. \A k \in 0 .. count[d] - 1 : Has(c, k)
        BY <1>0, <1>2, <1>7 DEF WholeInv
      <3>3. ASSUME NEW m \in Lane, m.type = "chunk", m.seq < count[d]
            PROVE  m.k \in 0 .. count[d] - 1
        BY <1>3, <3>1, <3>3
      <3> QED
        BY <3>2, <3>3
    <2>3. \A top \in Nat : count[d] <= top => Below(b, b.pend, res, top)
      BY <1>5, <2>1
    <2>4. Serves(c, res)
      BY <1>3, <1>4, <1>6, <2>2, <2>3, TakesServes
    <2> QED
      BY <1>6, <2>4
  <1>8. CASE d # c
    <2>1. Over /\ count[d] = 0 /\ seen[d] = ctr
      BY <1>0, <1>2, <1>8 DEF WholeInv, AskerInv, AtOwner
    <2>2. CASE b.pend # {}
      <3>1. Serves(c, res)
        <4>1. \A m \in Lane : ~(m.type = "chunk" /\ m.seq < 0)
          BY <1>0, LaneIs
        <4>2. Gives(b, b.pend, res, 0) /\ \A top \in Nat : 0 <= top => Below(b, b.pend, res, top)
          BY <1>4, <2>1, <2>2
        <4> QED
          BY <1>6, <4>1, <4>2, TakesServes
      <3> QED
        BY <1>6, <3>1
    <2>3. CASE b.pend = {}
      <3>1. Delivery(Owner, b.pend, res) /\ ctr' = ctr /\ Over'
        BY <1>6, <2>1 DEF Takes, Steady
      <3>2. tr'[Owner] = res.buf /\ res.buf.next \in Nat /\ res.buf.next <= ctr
            /\ b.next <= res.buf.next
        BY <1>0, <3>1, StreamAssumption, DeliveryBuffers
      <3>3. res.out = <<>> /\ (ctr <= b.next \/ res.buf.next = ctr)
        BY <1>4, <2>1, <2>3
      <3>4. res.buf.next = ctr
        BY <1>1, <3>2, <3>3
      <3>5. PassedOver'
        BY <3>1, <3>2, <3>4 DEF PassedOver
      <3> QED
        BY <1>6, <3>3, <3>5
    <2> QED
      BY <2>2, <2>3
  <1> QED
    BY <1>7, <1>8

\* The buffer is run so by every step that runs it.
LEMMA OwnerServes ==
  ASSUME StreamLaneInv, Next, ~disturbed', NEW c \in whole, c \in whole'
  PROVE  \/ Idle \/ Enters \/ Goes
         \/ \E ms, res : /\ Takes(ms, res)
                         /\ Serves(c, res) \/ (res.out = <<>> /\ PassedOver')
  <1> DEFINE Goal == \E ms, res : /\ Takes(ms, res)
                                  /\ Serves(c, res) \/ (res.out = <<>> /\ PassedOver')
  <1>0. StreamInv /\ Undisturbed /\ UndisturbedInv
    BY UndisturbedSteps DEF StreamLaneInv
  <1>1. ~Clears /\ ~Skips
    BY DEF Clears, Skips
  <1>2. /\ tr[Owner] \in Buffers /\ IsFiniteSet(tr[Owner].pend) /\ Distinct(tr[Owner].pend)
        /\ \A o \in tr[Owner].pend : tr[Owner].next < o.seq
        /\ tr[Owner].timer <=> tr[Owner].pend # {}
    BY <1>0, OwnerBuffer
  <1>3. /\ \A m \in Lane : ~(m.type = "chunk" /\ m.seq < 0)
        /\ Lane \subseteq Messages /\ Distinct(Lane) /\ Queued \subseteq Lane
    BY <1>0, LaneIs
  <1>4. ASSUME NEW ms, NEW res, Takes(ms, res), Gives(tr[Owner], ms, res, 0),
               \A top \in Nat : Below(tr[Owner], ms, res, top)
        PROVE  Goal
    <2>1. Serves(c, res)
      BY <1>3, <1>4, TakesServes
    <2> QED
      BY <1>4, <2>1
  <1>5. ASSUME FlushTimeout(Owner), Takes(tr[Owner].pend, ForceFlush(tr[Owner]))
        PROVE  Goal
    <2>1. tr[Owner].pend # {}
      BY <1>2, <1>5 DEF FlushTimeout
    <2>2. Gives(tr[Owner], tr[Owner].pend, ForceFlush(tr[Owner]), 0)
      BY <1>2, ForceFlushGives
    <2>3. \A top \in Nat : Below(tr[Owner], tr[Owner].pend, ForceFlush(tr[Owner]), top)
      BY <1>2, <2>1, ForceFlushKeeps
    <2> HIDE DEF Goal
    <2> QED
      BY <1>4, <1>5, <2>2, <2>3
  <1>6. ASSUME HandleMessage(Owner, 1), 1 \in DOMAIN net[Owner],
               Takes(tr[Owner].pend \cup {net[Owner][1]}, Receive(tr[Owner], net[Owner][1]))
        PROVE  Goal
    <2>1. net[Owner][1] \in Lane /\ tr[Owner].pend \subseteq Lane
      BY <1>3, <1>6 DEF Queued, Range
    <2>2. net[Owner][1] \in Messages /\ Distinct(tr[Owner].pend \cup {net[Owner][1]})
      BY <1>3, <2>1 DEF Distinct
    <2>3. Gives(tr[Owner], tr[Owner].pend \cup {net[Owner][1]}, Receive(tr[Owner], net[Owner][1]), 0)
      BY <1>2, <2>2, ReceiveGives
    <2>4. \A top \in Nat : Below(tr[Owner], tr[Owner].pend \cup {net[Owner][1]},
                                 Receive(tr[Owner], net[Owner][1]), top)
      BY <1>2, <2>2, ReceiveKeeps
    <2> HIDE DEF Goal
    <2> QED
      BY <1>4, <1>6, <2>3, <2>4
  <1>7. ASSUME EmitChunk \/ PublishChunk \/ Finish \/ NumberFinal \/ PublishFinal \/ StoreEnd
        PROVE  Idle \/ Enters \/ Goes
    BY <1>0, <1>7, DriverLane
  <1>8. ASSUME NEW d \in Clients, Lookup(d) \/ Request(d) \/ Leave(d)
        PROVE  Idle \/ Goal
    <2>1. CASE SyncBuffer(d) /\ home[d] = Owner
               /\ Takes(tr[Owner].pend, Sync(tr[Owner], count[d], seen[d]))
      BY <2>1, SyncServes
    <2> HIDE DEF Goal
    <2> QED
      BY <1>0, <1>1, <1>8, <2>1, ClientLane
  <1>9. ASSUME NEW r \in Replicas, \/ Joined(r) \/ FlushTimeout(r)
                                   \/ 1 \in DOMAIN net[r] /\ HandleMessage(r, 1)
        PROVE  Idle \/ Goal
    <2> HIDE DEF Goal
    <2> QED
      BY <1>0, <1>1, <1>5, <1>6, <1>9, ReplicaLane
  <1> HIDE DEF Goal
  <1>10. Idle \/ Enters \/ Goes \/ Goal
    BY <1>7, <1>8, <1>9, UndisturbedSteps
  <1> QED
    BY <1>10 DEF Goal

\* While the buffer expects what it expected, no response of those ends.
LEMMA QuietEnds ==
  ASSUME StreamLaneInv, Next, ~disturbed', NEW c \in whole, c \in whole',
         tr'[Owner].next = tr[Owner].next, Ended(c)'
  PROVE  Ended(c)
  <1>0. /\ StreamInv /\ UndisturbedInv /\ c \in Clients /\ home[c] = Owner
        /\ pc[c] \in {"asking", "asked", "live"} /\ got[c] \in Seq(Messages)
    <2>1. StreamInv /\ UndisturbedInv
      BY UndisturbedSteps DEF StreamLaneInv
    <2> QED
      BY <2>1, WholeListens DEF UndisturbedInv, WholeInv, StreamInv, TypeOK
  <1>1. ~Leave(c) /\ ~Replay(c)
    BY <1>0 DEF Leave, Replay
  <1>2. CASE got'[c] = got[c]
    BY <1>2 DEF Ended
  <1>3. ASSUME NEW ms, NEW res, Takes(ms, res), got'[c] = Write(got[c], res.out)
        PROVE  Ended(c)
    <2>1. Delivery(Owner, ms, res)
      BY <1>3 DEF Takes
    <2>2. /\ res.out \in Seq(Messages) /\ Range(res.out) \subseteq ms
          /\ \A m \in Range(res.out) : tr[Owner].next <= m.seq /\ m.seq < res.buf.next
      BY <2>1 DEF Delivery, Keeps
    <2>3. /\ tr'[Owner] = res.buf /\ tr[Owner].next \in Nat
          /\ \A m \in ms : m.seq \in Nat
      BY <1>0, <2>1, StreamAssumption, DeliveryBuffers
    <2>4. ASSUME NEW i \in DOMAIN res.out
          PROVE  FALSE
      <3>1. res.out[i] \in Range(res.out)
        BY <2>4 DEF Range
      <3> QED
        BY <2>2, <2>3, <3>1
    <2>5. Closed(Write(got[c], res.out))
      BY <1>3 DEF Ended, Closed
    <2>6. Closed(got[c])
      BY <1>0, <2>2, <2>4, <2>5, WriteOpen
    <2> QED
      BY <2>6 DEF Ended, Closed
  <1> QED
    BY <1>0, <1>1, <1>2, <1>3, GotAfter

\* No hole opens while the driver numbers and publishes, or nothing moves.
LEMMA QuietHole ==
  ASSUME StreamLaneInv, Next, ~disturbed', NEW c \in whole, c \in whole', Idle \/ Enters \/ Goes
  PROVE  NoHoleFor(c)'
  <1>0. StreamInv /\ Undisturbed /\ UndisturbedInv /\ NoHoleFor(c) /\ AskerInv
    BY UndisturbedSteps DEF StreamLaneInv, UndisturbedInv, WholeInv
  <1>1. c \in Clients /\ home[c] = Owner /\ c \in tr[Owner].handlers
    BY <1>0, WholeListens
  <1>2. /\ Lane = Queued \cup {o \in {drv.msg} : o.type # "none"}
        /\ Owner \in Replicas /\ ctr \in Nat /\ drv.sent \in Nat
        /\ tr[Owner].next \in Nat /\ tr[Owner].next <= ctr
        /\ net[Owner] \in Seq(Messages) /\ drv.msg \in Messages
    BY <1>0, LaneIs
  <1>3. Lane' = Queued' \cup {o \in {drv'.msg} : o.type # "none"}
        /\ (Enters => Lane' = Lane \cup {drv'.msg})
    BY LaneAfter
  <1>4. tr'[Owner].next = tr[Owner].next /\ tr'[Owner].pend = tr[Owner].pend
    BY DEF Idle, Enters, Goes
  <1>5. Ended(c)' => Ended(c)
    BY <1>4, QuietEnds
  <1>6. CASE ~Ended(c) /\ PassedOver
    <2>1. Idle
      BY <1>6 DEF PassedOver, Enters, Goes, Ahead, Over
    <2>2. PassedOver'
      BY <1>4, <1>6, <2>1 DEF PassedOver, Idle, Steady
    <2> QED
      BY <1>5, <1>6, <2>2 DEF NoHoleFor
  <1>7. CASE \A k \in (0 .. drv.sent - 1) \ drv.lost : Has(c, k) \/ (~Ended(c) /\ Awaits(k))
    <2> SUFFICES ASSUME NEW k \in (0 .. drv'.sent - 1) \ drv'.lost, ~Has(c, k)'
                 PROVE  (~Ended(c) /\ Awaits(k))'
      BY DEF NoHoleFor
    <2>1. ~Has(c, k)
      BY HasStays
    <2>2. CASE Idle
      <3>1. k \in (0 .. drv.sent - 1) \ drv.lost
        BY <2>2 DEF Idle, Steady
      <3>2. Lane' = Lane
        BY <1>2, <1>3, <1>4, <2>2 DEF Idle, Steady, Queued
      <3>3. ~Ended(c) /\ Awaits(k)
        BY <1>7, <2>1, <3>1
      <3> QED
        BY <1>4, <1>5, <3>2, <3>3 DEF Awaits
    <2>3. CASE Enters
      <3>1. ~Ended(c)
        BY <1>0, <1>1, <2>3 DEF AskerInv, AtOwner, Enters
      <3>2. CASE k \in 0 .. drv.sent - 1
        <4>1. Awaits(k)
          BY <1>7, <2>1, <2>3, <3>2 DEF Enters
        <4> QED
          BY <1>3, <1>4, <1>5, <2>3, <3>1, <4>1 DEF Awaits
      <3>3. CASE k \notin 0 .. drv.sent - 1
        <4>1. /\ drv'.msg.type = "chunk" /\ drv'.msg.k = k /\ drv'.msg.seq = ctr
              /\ drv'.msg \in Lane'
          BY <1>2, <1>3, <2>3, <3>3 DEF Enters
        <4> QED
          BY <1>2, <1>4, <1>5, <3>1, <4>1 DEF Awaits
      <3> QED
        BY <3>2, <3>3
    <2>4. CASE Goes
      <3>1. tr[Owner].chan = "on" /\ Visited(Owner)
        <4>1. pc[c] # "joining"
          BY <1>0 DEF UndisturbedInv, WholeInv
        <4> QED
          BY <1>0, <1>1, <1>2, <4>1 DEF StreamInv, HandlerInv, Visited
      <3>2. /\ k \in (0 .. drv.sent - 1) \ drv.lost
            /\ \/ net'[Owner] = Append(net[Owner], drv.msg)
               \/ net'[Owner] = net[Owner] /\ k # drv.msg.k
        <4>0. drv'.sent = drv.sent
          BY <2>4 DEF Goes
        <4>1. CASE net'[Owner] = Append(net[Owner], drv.msg) /\ drv'.lost = drv.lost
          BY <4>0, <4>1
        <4>2. CASE net'[Owner] = net[Owner] /\ drv'.lost = drv.lost \cup {drv.msg.k}
          BY <4>0, <4>2
        <4> QED
          BY <2>4, <3>1, <4>1, <4>2 DEF Goes
      <3>3. ~Ended(c) /\ Awaits(k)
        BY <1>7, <2>1, <3>2
      <3>4. PICK m \in Lane : m.type = "chunk" /\ m.k = k /\ tr[Owner].next <= m.seq
        BY <3>3 DEF Awaits
      <3>5. m \in Lane'
        <4>1. CASE net'[Owner] = Append(net[Owner], drv.msg)
          <5>1. Range(net'[Owner]) = Range(net[Owner]) \cup {drv.msg}
            BY <1>2, <4>1, AppendIs
          <5> QED
            BY <1>2, <1>3, <1>4, <5>1 DEF Queued
        <4>2. CASE net'[Owner] = net[Owner] /\ k # drv.msg.k
          <5>1. m # drv.msg
            BY <3>4, <4>2
          <5> QED
            BY <1>2, <1>3, <1>4, <4>2, <5>1 DEF Queued
        <4> QED
          BY <3>2, <4>1, <4>2
      <3> QED
        BY <1>4, <1>5, <3>3, <3>4, <3>5 DEF Awaits
    <2> QED
      BY <2>2, <2>3, <2>4
  <1> QED
    BY <1>0, <1>6, <1>7 DEF NoHoleFor

\* Nor when the buffer gives out messages: chunks reach the response before the
\* end, which has the last number.
LEMMA TakesHole ==
  ASSUME StreamLaneInv, Next, ~disturbed', NEW c \in whole, c \in whole', NEW ms, NEW res,
         Takes(ms, res), Serves(c, res) \/ (res.out = <<>> /\ PassedOver')
  PROVE  NoHoleFor(c)'
  <1>0. StreamInv /\ Undisturbed /\ UndisturbedInv /\ NoHoleFor(c) /\ PlaceInv
    BY UndisturbedSteps DEF StreamLaneInv, UndisturbedInv, WholeInv
  <1>1. c \in Clients /\ home[c] = Owner /\ c \in tr[Owner].handlers /\ got[c] \in Seq(Messages)
    BY <1>0, WholeListens DEF StreamInv, TypeOK
  <1>2. Delivery(Owner, ms, res) /\ Steady
    BY DEF Takes
  <1>3. /\ tr'[Owner] = res.buf /\ res.buf.next \in Nat /\ tr[Owner].next \in Nat
        /\ res.buf.next <= ctr /\ tr[Owner].next <= res.buf.next
        /\ \A m \in ms : m.seq \in Nat
        /\ ms \subseteq Lane
    BY <1>0, <1>2, StreamAssumption, DeliveryBuffers DEF Lane
  <1>4. got'[c] = Write(got[c], res.out) /\ res.out \in Seq(Messages)
    BY <1>0, <1>1, <1>2, StreamAssumption, DeliveryGot
  <1>5. /\ Ascending(res.out) /\ Range(res.out) \subseteq ms
        /\ \A m \in Range(res.out) : tr[Owner].next <= m.seq /\ m.seq < res.buf.next
    BY <1>2 DEF Delivery, Keeps
  <1>6. ctr' = ctr /\ drv'.sent = drv.sent /\ drv'.lost = drv.lost /\ (Over => Over') /\ ctr \in Nat
    BY <1>0, <1>2, LaneIs DEF Steady
  <1>7. ASSUME NEW i \in DOMAIN res.out, res.out[i].type \in Ends
        PROVE  res.out[i].seq + 1 = ctr /\ res.out[i] \in Range(res.out)
    <2>1. res.out[i] \in Range(res.out) /\ res.out[i] \in Lane
      BY <1>3, <1>5, <1>7 DEF Range
    <2>2. res.out[i].type \in LiveTypes
      BY <1>0, <2>1, StreamAssumption DEF Lane, StreamInv, NumberInv
    <2> QED
      BY <1>0, <1>7, <2>1, <2>2 DEF PlaceInv, LiveTypes, Ends
  <1>8. ASSUME Ended(c)', ~Ended(c)
        PROVE  res.buf.next = ctr /\ res.out # <<>> /\ tr[Owner].next < ctr
    <2>1. PICK i \in DOMAIN res.out : res.out[i].type \in Ends
      BY <1>1, <1>4, <1>8, WriteOpen DEF Ended, Closed
    <2>2. /\ res.out[i].seq + 1 = ctr /\ res.out[i] \in Range(res.out)
          /\ res.out[i].seq \in Nat
      BY <1>3, <1>5, <1>7, <2>1
    <2>3. tr[Owner].next <= res.out[i].seq /\ res.out[i].seq < res.buf.next
      BY <1>5, <2>2
    <2>4. res.buf.next = ctr /\ tr[Owner].next < ctr
      BY <1>3, <1>6, <2>2, <2>3
    <2> QED
      BY <2>1, <2>4
  <1>9. CASE ~Ended(c) /\ PassedOver
    <2>1. tr[Owner].next = ctr /\ Over
      BY <1>9 DEF PassedOver
    <2>2. ~Ended(c)'
      BY <1>6, <1>8, <1>9, <2>1
    <2>3. tr'[Owner].next = ctr'
      BY <1>3, <1>6, <2>1
    <2> QED
      BY <1>6, <2>1, <2>2, <2>3 DEF NoHoleFor, PassedOver
  <1>10. CASE \A k \in (0 .. drv.sent - 1) \ drv.lost : Has(c, k) \/ (~Ended(c) /\ Awaits(k))
    <2>1. CASE res.out = <<>> /\ PassedOver'
      <3>1. CASE Ended(c)
        <4>1. \A k \in (0 .. drv'.sent - 1) \ drv'.lost : Has(c, k)'
          BY <1>6, <1>10, <3>1, HasStays
        <4> QED
          BY <4>1 DEF NoHoleFor
      <3>2. CASE ~Ended(c)
        BY <1>8, <2>1, <3>2 DEF NoHoleFor
      <3> QED
        BY <3>1, <3>2
    <2>2. CASE Serves(c, res)
      <3> SUFFICES ASSUME NEW k \in (0 .. drv'.sent - 1) \ drv'.lost, ~Has(c, k)'
                   PROVE  (~Ended(c) /\ Awaits(k))'
        BY DEF NoHoleFor
      <3>1. ~Has(c, k) /\ ~Ended(c) /\ Awaits(k)
        BY <1>6, <1>10, HasStays
      <3>2. PICK m \in Lane : m.type = "chunk" /\ m.k = k /\ tr[Owner].next <= m.seq
        BY <3>1 DEF Awaits
      <3>3. m.seq \in Nat /\ m.seq < ctr
        BY <1>0, LaneIs
      <3>4. ASSUME m \in Range(res.out)
            PROVE  FALSE
        <4>1. PICK i \in DOMAIN res.out : res.out[i] = m
          BY <3>4 DEF Range
        <4>2. ASSUME NEW j \in 1 .. (i - 1), res.out[j].type \in Ends
              PROVE  FALSE
          <5>1. j \in DOMAIN res.out /\ j < i
            BY <1>4, <4>1
          <5>2. res.out[j].seq < m.seq
            BY <1>5, <4>1, <5>1 DEF Ascending
          <5>3. res.out[j].seq + 1 = ctr /\ res.out[j].seq \in Nat
            BY <1>3, <1>5, <1>7, <4>2, <5>1
          <5> QED
            BY <1>6, <3>3, <5>2, <5>3
        <4>3. m \in Range(got'[c])
          <5>1. ~Closed(got[c])
            BY <3>1 DEF Ended, Closed
          <5> QED
            BY <1>1, <1>4, <4>1, <4>2, <5>1, WriteOpen
        <4>4. Has(c, k)'
          BY <3>2, <4>3 DEF Has, Range
        <4> QED
          BY <4>4
      <3>5. m \in Lane' /\ res.buf.next <= m.seq
        BY <2>2, <3>1, <3>2, <3>4 DEF Serves
      <3>6. ~Ended(c)'
        BY <1>3, <1>6, <1>8, <3>1, <3>3, <3>5
      <3> QED
        BY <1>3, <3>2, <3>5, <3>6 DEF Awaits
    <2> QED
      BY <2>1, <2>2
  <1> QED
    BY <1>0, <1>9, <1>10 DEF NoHoleFor

-----------------------------------------------------------------------------
(* They come, and stay *)

\* A client comes to "whole" by a replay of everything, ahead of the end.
LEMMA WholeComes ==
  ASSUME StreamLaneInv, Next, ~disturbed', NEW c \in whole', c \notin whole
  PROVE  /\ Replay(c) /\ home[c] = Owner /\ <<Owner, ref[c]>> \notin subbed
         /\ c \in Clients \ Resuming
         /\ Len(early[ref[c]]) # 0 /\ drv.sent = Len(early[ref[c]]) /\ ctr = drv.sent
  <1> USE DEF redis, rtvars, wire, cvars, hist
  <1>1. ASSUME NEW d \in Clients, Lookup(d) \/ Attach(d) \/ GetCounter(d) \/ SyncBuffer(d) \/ Leave(d)
        PROVE  FALSE
    BY <1>1 DEF Lookup, Attach, GetCounter, SyncBuffer, Leave
  <1>2. ~EmitChunk /\ ~PublishChunk /\ ~Finish /\ ~NumberFinal /\ ~PublishFinal /\ ~StoreEnd
    BY DEF EmitChunk, PublishChunk, Finish, NumberFinal, PublishFinal, StoreEnd
  <1>3. ASSUME NEW r \in Replicas, Joined(r) \/ FlushTimeout(r) \/ HandleMessage(r, 1)
        PROVE  FALSE
    BY <1>3 DEF Joined, FlushTimeout, HandleMessage
  <1>4. PICK d \in Clients : Replay(d)
    BY <1>1, <1>2, <1>3, UndisturbedSteps DEF Request
  <1>5. d = c
    BY <1>4 DEF Replay
  <1>6. home[c] = Owner /\ <<Owner, ref[c]>> \notin subbed
    BY <1>4, <1>5 DEF Replay
  <1>7. /\ (IF c \in Resuming THEN 0 ELSE Len(early[ref[c]])) > 0
        /\ drv.sent = IF c \in Resuming THEN 0 ELSE Len(early[ref[c]])
        /\ ctr = IF c \in Resuming THEN 0 ELSE Len(early[ref[c]])
    BY <1>4, <1>5, <1>6 DEF Replay
  <1>8. c \notin Resuming
    BY <1>7
  <1> QED
    BY <1>4, <1>5, <1>6, <1>7, <1>8

\* What it is then.
LEMMA WholeBegins ==
  ASSUME StreamLaneInv, Next, ~disturbed', NEW c \in whole', c \notin whole
  PROVE  WholeInv(c)'
  <1> USE DEF redis, rtvars, wire, cvars, hist
  <1> DEFINE e == early[ref[c]]
             n == Len(e)
  <1>0. StreamInv /\ TypeOK /\ Undisturbed /\ UndisturbedInv /\ EntryInv /\ AskerInv /\ PlaceInv
        /\ EarlyInv
    BY UndisturbedSteps DEF StreamLaneInv, StreamInv, UndisturbedInv
  <1>1. /\ Replay(c) /\ home[c] = Owner /\ <<Owner, ref[c]>> \notin subbed /\ c \notin Resuming
        /\ n # 0 /\ drv.sent = n /\ ctr = n
    BY WholeComes
  <1>2. c \in Clients /\ pc[c] = "joining"
    <2>1. c \in Clients
      BY WholeComes
    <2> QED
      BY <1>1, <2>1 DEF Replay
  <1>3. ref[c] \in 1 .. 2 /\ early \in [1..2 -> Seq(Messages)] /\ got \in [Clients -> Seq(Messages)]
        /\ e \in Seq(Messages) /\ n \in Nat /\ DOMAIN e = 1 .. n
    <2>1. ref[c] \in 1 .. 2
      BY <1>0, <1>1, <1>2, ReplayIs
    <2> QED
      BY <1>0, <2>1 DEF TypeOK
  <1>4. ref[c] = 1
    <2>1. CASE ref[c] = 2
      BY <1>0, <1>1, <2>1 DEF EntryInv
    <2> QED
      BY <1>3, <2>1
  <1>5. /\ UNCHANGED <<ctr, drv, abt, net, tr, home, ref>>
        /\ subbed' = subbed \cup {<<Owner, ref[c]>>}
        /\ pc' = [pc EXCEPT ![c] = "asking"]
        /\ count' = [count EXCEPT ![c] = n]
        /\ got' = [got EXCEPT ![c] = Write(@, SubSeq(e, 1, n))]
    BY <1>1 DEF Replay
  <1>6. SubSeq(e, 1, n) = e
    BY <1>3
  <1>7. /\ got'[c] = Write(got[c], e) /\ got[c] \in Seq(Messages) /\ pc'[c] = "asking" /\ count'[c] = n
        /\ \A d \in Clients : d # c => pc'[d] = pc[d]
    BY <1>0, <1>2, <1>3, <1>5, <1>6 DEF TypeOK
  <1>8. Ahead
    BY <1>0, <1>1 DEF PlaceInv
  <1>9. ~Closed(got[c])
    BY <1>0, <1>1, <1>2, <1>8 DEF AskerInv, AtOwner, Ended, Closed
  <1>10. \A j \in DOMAIN e : e[j].type = "replayed" /\ e[j].k + n = drv.sent + j - 1
    BY <1>0, <1>1, <1>3, <1>4 DEF EarlyInv, EntryInv
  <1>11. ASSUME NEW j \in DOMAIN e
         PROVE  e[j].k \in Nat
    <2>1. e[j] \in Messages
      BY <1>3
    <2> QED
      BY <2>1 DEF Messages
  <1> HIDE DEF e, n
  <1>12. ASSUME NEW k \in 0 .. n - 1
         PROVE  Has(c, k)'
    <2>1. k + 1 \in DOMAIN e /\ k \in Nat
      BY <1>3
    <2>2. e[k + 1].type = "replayed" /\ e[k + 1].k + n = drv.sent + (k + 1) - 1 /\ e[k + 1].k \in Nat
      BY <1>10, <1>11, <2>1
    <2>3. e[k + 1].k = k
      BY <1>1, <1>3, <2>1, <2>2
    <2>4. \A j \in 1 .. ((k + 1) - 1) : e[j].type \notin Ends
      <3>1. \A j \in 1 .. ((k + 1) - 1) : j \in DOMAIN e
        BY <1>3
      <3> QED
        BY <1>10, <3>1 DEF Ends
    <2>5. e[k + 1] \in Range(got'[c])
      BY <1>3, <1>7, <1>9, <2>1, <2>4, WriteOpen
    <2> QED
      BY <2>2, <2>3, <2>5 DEF Has, Range
  <1>13. Lane' = Lane /\ (Ahead' <=> Ahead)
    BY <1>5 DEF Lane, Coming, Ahead
  <1>14. \A m \in Lane : m.type = "chunk" => m.seq = m.k /\ m.k < drv.sent
    <2>1. \A m \in Lane : m.seq \in Nat /\ m.k \in Nat /\ m.seq < ctr
      BY <1>0, LaneIs
    <2>2. \A m \in Lane : m.type = "chunk" => m.seq + drv.sent = m.k + ctr
      BY <1>0, <1>8 DEF PlaceInv
    <2>3. ASSUME NEW m \in Lane, m.type = "chunk"
          PROVE  m.seq = m.k /\ m.k < drv.sent
      <3>1. m.seq \in Nat /\ m.k \in Nat /\ m.seq < n /\ m.seq + n = m.k + n
        BY <1>1, <2>1, <2>2, <2>3
      <3>2. m.seq = m.k
        BY <1>3, <3>1
      <3> QED
        BY <1>1, <3>1, <3>2
    <2> QED
      BY <2>3
  <1>15. ASSUME NEW d \in AtOwner' \ {c}, Asks(d)'
         PROVE  ref'[d] = 2
    <2>1. d \in AtOwner /\ d \in Clients /\ Asks(d)
      BY <1>5, <1>7, <1>15 DEF AtOwner, Asks
    <2>2. <<Owner, ref[d]>> \in subbed
      BY <1>0, <2>1 DEF AskerInv
    <2>3. ref[d] \in 1 .. 2
      BY <1>0, <2>2 DEF TypeOK, Entries
    <2>4. ref[d] # 1
      BY <1>1, <1>4, <2>2
    <2> QED
      BY <1>5, <2>3, <2>4
  <1>16. /\ home'[c] = Owner /\ ref'[c] = 1 /\ <<Owner, 1>> \in subbed' /\ ctr' = count'[c]
         /\ ctr' = drv'.sent /\ drv' = drv /\ drv'.sent = n /\ Ahead'
    BY <1>1, <1>4, <1>5, <1>7, <1>8, <1>13
  <1>17. NoHoleFor(c)'
    BY <1>12, <1>16 DEF NoHoleFor
  <1> QED
    BY <1>7, <1>12, <1>13, <1>14, <1>15, <1>16, <1>17 DEF WholeInv

\* What holds for the clients that are replayed everything.
LEMMA WholeStep ==
  ASSUME StreamLaneInv, Next, ~disturbed', NEW c \in whole'
  PROVE  WholeInv(c)'
  <1>1. CASE c \notin whole
    BY <1>1, WholeBegins
  <1>2. CASE c \in whole
    <2>1. NoHoleFor(c)'
      BY <1>2, OwnerServes, QuietHole, TakesHole
    <2>2. /\ home'[c] = Owner /\ pc'[c] \in {"asking", "asked", "live"} /\ ref'[c] = 1
          /\ <<Owner, 1>> \in subbed'
          /\ \A d \in AtOwner' \ {c} : Asks(d)' => ref'[d] = 2
          /\ pc'[c] = "asking" => ctr' = count'[c]
          /\ pc'[c] = "asked" => seen'[c] = count'[c]
          /\ Asks(c)' => \A k \in 0 .. count'[c] - 1 : Has(c, k)'
      BY <1>2, WholePlace
    <2>3. /\ ctr' = IF Ahead' THEN drv'.sent ELSE drv'.sent + 1
          /\ \A m \in Lane' : m.type = "chunk" => m.seq = m.k /\ m.k < drv'.sent
      BY <1>2, WholeNumbers
    <2> QED
      BY <2>1, <2>2, <2>3 DEF WholeInv
  <1> QED
    BY <1>1, <1>2

\* At first the lane is empty, and nobody was replayed anything.
LEMMA StreamLaneStarts ==
  ASSUME Init
  PROVE  StreamLaneInv
  <1>1. StreamInv
    BY StreamStarts
  <1>2. Owner \in Replicas /\ net[Owner] = <<>> /\ tr[Owner].pend = {} /\ drv.msg = NoMsg
        /\ abt.msg = NoMsg
    BY StreamAssumption DEF Init, Fresh
  <1>3. Lane = {} /\ Queued = {} /\ DOMAIN net[Owner] = {} /\ Ahead
    BY <1>2 DEF Lane, Queued, Coming, NoMsg, Msg, Ahead, Range, Init
  <1>4. EntryInv
    BY <1>2 DEF EntryInv, Init, Over
  <1>5. AskerInv
    BY DEF AskerInv, Init, Over, Asks, Ended, AtOwner
  <1>6. PlaceInv
    <2>1. ctr \in Nat /\ drv.sent = 0
      BY StreamAssumption DEF Init
    <2> QED
      BY <1>3, <2>1 DEF PlaceInv
  <1>7. LaneInv
    BY <1>2, <1>3 DEF LaneInv, NoMsg, Msg
  <1>8. whole = {}
    BY DEF Init
  <1>9. Undisturbed
    BY DEF Init, Undisturbed
  <1> QED
    BY <1>1, <1>4, <1>5, <1>6, <1>7, <1>8, <1>9 DEF StreamLaneInv, UndisturbedInv

\* Every step keeps the lane, or disturbs the stream for good.
LEMMA StreamLaneStep ==
  ASSUME StreamLaneInv, [Next]_vars
  PROVE  StreamLaneInv'
  <1>1. StreamInv'
    BY StreamStep DEF StreamLaneInv
  <1>2. CASE Next
    <2>1. ASSUME ~disturbed'
          PROVE  Undisturbed' /\ UndisturbedInv'
      BY <1>2, <2>1, UndisturbedSteps, EntryStep, AskerStep, PlaceStep, LaneStep, WholeStep
         DEF UndisturbedInv
    <2> QED
      BY <1>1, <2>1 DEF StreamLaneInv
  <1>3. CASE UNCHANGED vars
    BY <1>1, <1>3 DEF vars, redis, rtvars, wire, cvars, hist, StreamLaneInv, Undisturbed,
       UndisturbedInv, EntryInv, AskerInv, PlaceInv, LaneInv, WholeInv, Lane, Queued, Coming,
       Ahead, Over, AtOwner, Asks, Ended, NoHoleFor, Has, Awaits, PassedOver
  <1> QED
    BY <1>2, <1>3

\* The lane of the owner, as long as nobody aborts, neither the agent nor the
\* sending of its end fails, and no message overtakes another.
THEOREM StreamLane == Spec => []StreamLaneInv
  <1>1. Init => StreamLaneInv
    BY StreamLaneStarts
  <1>2. StreamLaneInv /\ [Next]_vars => StreamLaneInv'
    BY StreamLaneStep
  <1> QED
    BY <1>1, <1>2, PTL DEF Spec

\* Who has been told the end awaits nothing: it has every chunk.
LEMMA LaneSeesAll ==
  ASSUME StreamLaneInv
  PROVE  FirstSeesAll
  <1> SUFFICES ASSUME NEW c \in whole, ~disturbed, Ended(c)
               PROVE  \A k \in (0 .. drv.sent - 1) \ drv.lost : Has(c, k)
    BY DEF FirstSeesAll, Has
  <1>1. NoHoleFor(c)
    BY DEF StreamLaneInv, UndisturbedInv, WholeInv
  <1> QED
    BY <1>1 DEF NoHoleFor

\* Up to the first cleanup, and while no message is overtaken, nobody aborts and
\* neither the agent nor the sending of its end fails: a browser that attached to
\* the owner before anything was missed has every chunk when it is told the end,
\* but those whose PUBLISH failed.  GenerationJobManager's early buffer and the
\* reorder buffer of the transport leave no hole between them.
THEOREM FirstAlwaysSeesAll == Spec => []FirstSeesAll
  <1>1. StreamLaneInv => FirstSeesAll
    BY LaneSeesAll
  <1> QED
    BY <1>1, StreamLane, PTL
=============================================================================
