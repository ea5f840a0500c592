-------------------------- MODULE NextMessageSlot --------------------------
(* What the next-message queue promises, with no rows, tasks' program      *)
(* counters, streams or requests: a mailbox for one follow-up message.  A   *)
(* message in it can be replaced or cancelled until a claimer holds it, a   *)
(* claim may be taken away, and every accepted message has one end: it is   *)
(* replaced, cancelled, or consumed by the claimer that holds it, and only  *)
(* a consumed message is served to a flow, once.                            *)
EXTENDS Naturals

CONSTANTS
  Messages,   \* messages that may be queued
  Tasks,      \* who may claim
  None

VARIABLES
  slot,     \* [id, state, task]; state "empty", "queued" or "processing"
  end,      \* end[m]: "none", "queued", "replaced", "cancelled", "consumed"
  served    \* served[m]: how many flows were run on m

Empty == [id |-> None, state |-> "empty", task |-> None]

Init ==
  /\ \/ slot = Empty /\ end = [m \in Messages |-> "none"]
     \/ \E m \in Messages :
          /\ slot = [id |-> m, state |-> "queued", task |-> None]
          /\ end = [n \in Messages |-> IF n = m THEN "queued" ELSE "none"]
  /\ served = [m \in Messages |-> 0]

Queue(m) ==
  /\ end[m] = "none" /\ slot.state # "processing"
  /\ slot' = [id |-> m, state |-> "queued", task |-> None]
  /\ end' = [n \in Messages |-> IF n = m THEN "queued"
                                ELSE IF n = slot.id THEN "replaced" ELSE end[n]]
  /\ UNCHANGED served

Cancel ==
  /\ slot.state = "queued"
  /\ slot' = Empty
  /\ end' = [end EXCEPT ![slot.id] = "cancelled"]
  /\ UNCHANGED served

Claim(t) ==
  /\ slot.state = "queued"
  /\ slot' = [id |-> slot.id, state |-> "processing", task |-> t]
  /\ UNCHANGED <<end, served>>

Release ==
  /\ slot.state = "processing"
  /\ slot' = [id |-> slot.id, state |-> "queued", task |-> None]
  /\ UNCHANGED <<end, served>>

Consume ==
  /\ slot.state = "processing"
  /\ slot' = Empty
  /\ end' = [end EXCEPT ![slot.id] = "consumed"]
  /\ UNCHANGED served

Serve(m) ==
  /\ end[m] = "consumed" /\ served[m] = 0
  /\ served' = [served EXCEPT ![m] = 1]
  /\ UNCHANGED <<slot, end>>

Next ==
  \/ \E m \in Messages : Queue(m) \/ Serve(m)
  \/ Cancel \/ Release \/ Consume
  \/ \E t \in Tasks : Claim(t)

Spec == Init /\ [][Next]_<<slot, end, served>>
=============================================================================
