--------------------------- MODULE ResumableStreamInv ---------------------------
(* Why a browser that came early enough sees everything.  While nobody aborts *)
(* the generation, neither the agent nor the sending of its end fails, and no *)
(* message overtakes another, the owner's replica is a single lane from the   *)
(* driver to the responses: the conjuncts below say what holds in that lane,  *)
(* and where every chunk is that a client in "whole" has not been written.    *)
EXTENDS ResumableStream

Undisturbed == ~disturbed /\ drv.how = "done" /\ abt.pc \in {"none", "off"}

\* The final event has no number yet; the generation has been told its end.
Ahead == drv.pc \in {"run", "chunk", "final"}
Over  == drv.pc \in {"store", "over"}

\* What has a number and may still be delivered at the owner.
Lane   == Coming(Owner) \cup tr[Owner].pend
Queued == Range(net[Owner]) \cup tr[Owner].pend

AtOwner == {c \in Clients : home[c] = Owner}
Asks(c) == pc[c] \in {"asking", "asked"}

\* The owner keeps its first entry to the end.  Its early buffer is what was
\* emitted since the last chunk somebody may have been replayed.
EntryInv ==
  /\ job = "running" \/ (job = "gone" /\ drv.pc = "over")
  /\ Over \/ (cur[Owner] = 1 /\ <<Owner, 1>> \notin dead)
  /\ early[2] = <<>>
  /\ <<Owner, 1>> \in subbed => early[1] = <<>>
  /\ \A j \in DOMAIN early[1] : early[1][j].k + Len(early[1]) = drv.sent + j - 1

\* A second entry is made when all is said.  Who asks for the counter has made
\* its entry's early buffer needless; with the second one it asks in vain.
AskerInv ==
  \A c \in AtOwner :
    /\ ref[c] = 2 => Over
    /\ Asks(c) => <<Owner, ref[c]>> \in subbed
    /\ Asks(c) /\ ref[c] = 2 => count[c] = 0 /\ (pc[c] = "asked" => seen[c] = ctr)
    /\ Ended(c) => ~Ahead

\* The numbers of the chunks differ from their places by what an earlier turn
\* has left in the key, and the final event has the last number.
PlaceInv ==
  /\ drv.sent <= ctr /\ (~Ahead => drv.sent < ctr)
  /\ \A m \in Lane : /\ m.type = "chunk" /\ Ahead => m.seq + drv.sent = m.k + ctr
                     /\ m.type = "final" => ~Ahead /\ m.seq + 1 = ctr
  /\ \A i \in DOMAIN net[Owner] : net[Owner][i].type # "abort"

\* First in, first out: the buffer, then the connection, then the driver.
LaneInv ==
  /\ \A i, j \in DOMAIN net[Owner] : i < j => net[Owner][i].seq < net[Owner][j].seq
  /\ \A o \in tr[Owner].pend : \A m \in Range(net[Owner]) : o.seq < m.seq
  /\ drv.msg.type # "none" => \A m \in Queued : m.seq < drv.msg.seq

\* Client c has been written chunk k, or will be when the buffer comes to it, or
\* a late first subscriber of the second entry has made the buffer pass over
\* everything, the final event included.
Has(c, k) == \E i \in DOMAIN got[c] :
               got[c][i].type \in {"chunk", "replayed"} /\ got[c][i].k = k
Awaits(k) == \E m \in Lane : m.type = "chunk" /\ m.k = k /\ tr[Owner].next <= m.seq
PassedOver == Over /\ tr[Owner].next = ctr
NoHoleFor(c) ==
  \/ ~Ended(c) /\ PassedOver
  \/ \A k \in (0 .. drv.sent - 1) \ drv.lost : Has(c, k) \/ (~Ended(c) /\ Awaits(k))

WholeInv(c) ==
  /\ home[c] = Owner /\ pc[c] \in {"asking", "asked", "live"} /\ ref[c] = 1
  /\ <<Owner, 1>> \in subbed
  /\ \A d \in AtOwner \ {c} : Asks(d) => ref[d] = 2
  /\ pc[c] = "asking" => ctr = count[c]
  /\ pc[c] = "asked" => seen[c] = count[c]
  /\ Asks(c) => \A k \in 0 .. count[c] - 1 : Has(c, k)
  /\ ctr = IF Ahead THEN drv.sent ELSE drv.sent + 1
  /\ \A m \in Lane : m.type = "chunk" => m.seq = m.k /\ m.k < drv.sent
  /\ NoHoleFor(c)

UndisturbedInv ==
  /\ EntryInv /\ AskerInv /\ PlaceInv /\ LaneInv
  /\ \A c \in whole : WholeInv(c)

\* The inductive invariant of the stream, with the lane of the owner.
StreamLaneInv == StreamInv /\ (~disturbed => Undisturbed /\ UndisturbedInv)
=============================================================================
