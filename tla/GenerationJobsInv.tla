--------------------------- MODULE GenerationJobsInv ---------------------------
(* The inductive invariant of the generation job: what ties the row, the     *)
(* drivers and the pending actions together, so that the compare-and-set of  *)
(* the store is enough to elect one driver and one decision.                 *)
EXTENDS GenerationJobs

\* Only a paused row awaits an action; a running one never shows a stale one.
RowShape ==
  /\ job.status = "requires_action" => job.action # None
  /\ job.status \in {"running", "gone"} => job.action = None
  /\ job.status = "gone" => job.gen = None

\* Whatever names a pending action names a driver that has paused for it and
\* is past driving: an action is never made twice.
Made(a) == pc[a] \in {"slot", "done"}
ActionsAreMade ==
  /\ \A a \in Drivers : job.action = a \/ sweep = a \/ a \in expired
                          \/ outcome[a] # {} => Made(a)
  /\ \A r \in Resumes : want[r] # None => Made(want[r])

\* A decided action has left the row for good, and has one decision.
Decided ==
  \A a \in Drivers :
    outcome[a] # {} => job.action # a /\ \E x \in Resumes \cup {"expired"} : outcome[a] = {x}

\* Generations are turns that have made their row; none is taken twice.
Started(g) == gen[g] = g
Generations ==
  /\ \A t \in Turns : /\ gen[t] \in {None, t}
                      /\ pc[t] \in {"off", "admitted"} => gen[t] = None
  /\ \A d \in Drivers : gen[d] # None => Started(gen[d])
  /\ job.gen # None => Started(job.gen)

\* A resume that holds the live action holds its generation too.
WantsOwn ==
  \A r \in Resumes :
    /\ pc[r] \in {"read", "stale", "admitted", "lapsed", "claim"} => want[r] # None
    /\ want[r] # None /\ job.action = want[r] => job.gen = gen[r]

\* While a row awaits its own action nobody drives it.
PausedIsIdle ==
  job.status = "requires_action" /\ job.gen \notin mispaused
    => \A d \in Drivers : gen[d] = job.gen => pc[d] \notin Driving

\* A driver owes a decrement from its admission to its release.
SlotOwed ==
  \A d \in Drivers : slot[d] <=> pc[d] \notin {"off", "read", "stale", "done"}

JobsInv ==
  /\ TypeOK /\ RowShape /\ ActionsAreMade /\ Decided /\ Generations
  /\ WantsOwn /\ PausedIsIdle /\ SoleDriver /\ SlotOwed /\ SlotsNotLeaked
=============================================================================
