---------------------------- MODULE GenerationJobs ----------------------------
(* The generation job of one LibreChat conversation.  streamId is the       *)
(* conversation id, so every turn of the conversation, and every resume of a *)
(* turn that paused for a human, works on the SAME row stream:{id}:job of    *)
(* Redis and the same entry of GenerationJobManager.runtimeState.  A driver  *)
(* is one detached background task: ResumableAgentController's startGeneration*)
(* (a turn) or ResumeAgentController (a resume).  A step is the code from    *)
(* one await on Redis to the next.                                           *)
EXTENDS Naturals, FiniteSets

CONSTANTS
  Turns,    \* POST /agents/chat requests of the conversation
  Resumes,  \* POST /agents/chat/resume requests
  Aborts,   \* POST /agents/chat/abort requests
  Limit,    \* CONCURRENT_MESSAGE_MAX
  None

Drivers     == Turns \cup Resumes
Controllers == Drivers \cup Aborts   \* an AbortController is named by who made it

ASSUME JobsAssumption ==
  /\ IsFiniteSet(Turns) /\ IsFiniteSet(Resumes)
  /\ Turns \cap Resumes = {}
  /\ Limit \in Nat
  /\ None \notin Controllers

VARIABLES
  job,      \* the row of the conversation; gen is its createdAt
  keep,     \* STREAM_KEEP_COMPLETED_JOBS: ~_cleanupOnComplete
  rt,       \* the controller of runtimeState.get(streamId), or None
  aborted,  \* the controllers whose signal is aborted
  pc,       \* pc[d]: the await driver d stands at
  gen,      \* gen[d]: jobCreatedAt, the generation d believes it drives
  ctl,      \* ctl[d]: job.abortController of d's facade
  want,     \* want[r]: the pending action a resume read
  how,      \* how[d]: what d tells completeJob, if it gets there
  writes,   \* drivers whose completeJob has its store write in flight
  slot,     \* slot[d]: d owes a decrementPendingRequest
  pending,  \* the user's counter of pending requests, in Redis
  expired,  \* pending actions past their expiresAt
  sweep,    \* the action the expiry sweep has observed as stale
  apc,      \* apc[a]: where an abort request is
  outcome,  \* outcome[a]: who has decided pending action a   (history)
  mispaused \* generations paused by a driver of another one  (history)

row  == <<job, keep>>
run  == <<rt, aborted>>
task == <<pc, gen, ctl, want, how, writes>>
lim  == <<slot, pending>>
hist == <<outcome, mispaused>>
vars == <<row, run, task, lim, expired, sweep, apc, hist>>

\* The pending action of a pause is named by the driver that paused: a driver
\* ends at its first pause, so it makes one action.
Terminal == {"complete", "error", "aborted"}
Jobs  == [gen : Turns, status : {"running", "requires_action"} \cup Terminal,
          action : Drivers \cup {None}]
Row(g, s, a) == [gen |-> g, status |-> s, action |-> a]
NoJob == Row(None, "gone", None)

Driving == {"init", "run", "pausing", "unpaused", "guard", "emit", "complete"}
Pcs == {"off", "read", "stale", "admitted", "lapsed", "claim", "slot", "owing",
        "done"} \cup Driving

TypeOK ==
  /\ job \in Jobs \cup {NoJob}
  /\ keep \in BOOLEAN
  /\ rt \in Controllers \cup {None}
  /\ aborted \in SUBSET Controllers
  /\ pc \in [Drivers -> Pcs]
  /\ gen \in [Drivers -> Turns \cup {None}]
  /\ ctl \in [Drivers -> Controllers \cup {None}]
  /\ want \in [Resumes -> Drivers \cup {None}]
  /\ how \in [Drivers -> {"complete", "error"}]
  /\ writes \in SUBSET Drivers
  /\ slot \in [Drivers -> BOOLEAN]
  /\ pending \in Nat
  /\ expired \in SUBSET Drivers
  /\ sweep \in Drivers \cup {None}
  /\ apc \in [Aborts -> {"off", "remove", "done"}]
  /\ outcome \in [Drivers -> SUBSET (Resumes \cup {"expired"})]
  /\ mispaused \in SUBSET Turns

Init ==
  /\ job = NoJob
  /\ keep \in BOOLEAN
  /\ rt = None /\ aborted = {}
  /\ pc = [d \in Drivers |-> "off"]
  /\ gen = [d \in Drivers |-> None]
  /\ ctl = [d \in Drivers |-> None]
  /\ want = [r \in Resumes |-> None]
  /\ how = [d \in Drivers |-> "complete"]
  /\ writes = {}
  /\ slot = [d \in Drivers |-> FALSE] /\ pending = 0
  /\ expired = {} /\ sweep = None
  /\ apc = [a \in Aborts |-> "off"]
  /\ outcome = [d \in Drivers |-> {}] /\ mispaused = {}

-----------------------------------------------------------------------------
(* The compare-and-set of the store and the counter of pending requests.     *)

\* Faulty: the action that was read is not compared.
CasHoldsByStatus(from, action) == job.status = from /\ action \in Drivers \cup {None}

\* JOB_CAS_LUA: the status, and the pending action when one is expected.
CasHolds(from, action) ==
  job.status = from /\ action \in {None, job.action}

Goto(d, to) == pc' = [pc EXCEPT ![d] = to]

\* decrementPendingRequest: DECR, and DEL at zero or below.
Release(d) ==
  /\ slot' = [slot EXCEPT ![d] = FALSE]
  /\ pending' = IF pending > 0 THEN pending - 1 ELSE 0

\* Faulty: it expects the status a resume leaves behind.
ExpireCasRunning(a) ==
  /\ job' = IF CasHolds("running", a) THEN Row(job.gen, "aborted", None) ELSE job
  /\ UNCHANGED outcome

\* requires_action -> aborted, for the action observed as stale.
ExpireCas(a) ==
  IF CasHolds("requires_action", a)
  THEN /\ job' = Row(job.gen, "aborted", None)
       /\ outcome' = IF job.action = None THEN outcome
                     ELSE [outcome EXCEPT ![job.action] = @ \cup {"expired"}]
  ELSE UNCHANGED <<job, outcome>>

\* The generation guard: is the live row the one of the generation d drives?
Owns(d) == job.gen = gen[d]

-----------------------------------------------------------------------------
(* Admission.                                                                *)

Waiting(d) == pc[d] = IF d \in Turns THEN "off" ELSE "read"

\* checkAndIncrementPendingRequest: INCR, and DECR back beyond the limit.
Admit(d) ==
  /\ Waiting(d)
  /\ IF pending < Limit
     THEN /\ pending' = pending + 1
          /\ slot' = [slot EXCEPT ![d] = TRUE]
          /\ Goto(d, "admitted")
     ELSE Goto(d, "done") /\ UNCHANGED lim
  /\ UNCHANGED <<row, run, gen, ctl, want, how, writes, expired, sweep, apc, hist>>

\* Redis is not answering: the request is let through and counted nowhere.
AdmitOpen(d) ==
  /\ Waiting(d)
  /\ slot' = [slot EXCEPT ![d] = TRUE]
  /\ Goto(d, "admitted")
  /\ UNCHANGED <<row, run, gen, ctl, want, how, writes, pending, expired,
                 sweep, apc, hist>>

\* The counter lives for one minute after its last increment.
CounterExpires ==
  /\ pending > 0
  /\ pending' = 0
  /\ UNCHANGED <<row, run, task, slot, expired, sweep, apc, hist>>

-----------------------------------------------------------------------------
(* A turn, up to the start of its agent.                                     *)

\* createJob overlays the row of whatever generation was there and replaces
\* the runtime entry, without looking at either.
CreateJob(t) ==
  /\ pc[t] = "admitted"
  /\ job' = Row(t, "running", None)
  /\ rt' = t
  /\ gen' = [gen EXCEPT ![t] = t]
  /\ ctl' = [ctl EXCEPT ![t] = t]
  /\ Goto(t, "init")
  /\ UNCHANGED <<keep, aborted, want, how, writes, lim, expired, sweep, apc, hist>>

\* createJob throws: the outer catch answers 500 and completes "the" job.
CreateFails(t) ==
  /\ pc[t] = "admitted"
  /\ how' = [how EXCEPT ![t] = "error"]
  /\ Goto(t, "complete")
  /\ UNCHANGED <<row, run, gen, ctl, want, writes, lim, expired, sweep, apc, hist>>

\* initializeClient returns: a turn aborted meanwhile ends in an error without
\* an event, another one runs.  A resume does not look.
Start(d) ==
  /\ pc[d] = "init"
  /\ IF d \in Turns /\ ctl[d] \in aborted
     THEN how' = [how EXCEPT ![d] = "error"] /\ Goto(d, "complete")
     ELSE Goto(d, "run") /\ UNCHANGED how
  /\ UNCHANGED <<row, run, gen, ctl, want, writes, lim, expired, sweep, apc, hist>>

-----------------------------------------------------------------------------
(* A pause: AgentClient.handleRunInterrupt.                                  *)

\* The agent hits an interrupt; the guard reads the live row.
Interrupt(d) ==
  /\ pc[d] = "run"
  /\ Goto(d, IF Owns(d) THEN "pausing" ELSE "unpaused")
  /\ UNCHANGED <<row, run, gen, ctl, want, how, writes, lim, expired, sweep, apc, hist>>

\* Faulty: the agent's task is not told that it has paused.
PauseGoesOn(d) ==
  /\ pc[d] = "pausing"
  /\ job' = IF CasHolds("running", None) THEN Row(job.gen, "requires_action", d) ELSE job
  /\ Goto(d, "unpaused")
  /\ UNCHANGED <<keep, run, gen, ctl, want, how, writes, lim, expired, sweep, apc, hist>>

\* Faulty: the row is written without the compare-and-set.
PauseBlindly(d) ==
  /\ pc[d] = "pausing"
  /\ job' = IF job = NoJob THEN NoJob ELSE Row(job.gen, "requires_action", d)
  /\ Goto(d, "slot")
  /\ UNCHANGED <<keep, run, gen, ctl, want, how, writes, lim, expired, sweep, apc, hist>>

\* approvals.pause: running -> requires_action, whoever's row it is by now.
\* Refused, or with Redis failing, the agent's task goes on to its end.
Pause(d) ==
  /\ pc[d] = "pausing"
  /\ \/ /\ CasHolds("running", None)
        /\ job' = Row(job.gen, "requires_action", d)
        /\ mispaused' = IF Owns(d) THEN mispaused ELSE mispaused \cup {job.gen}
        /\ Goto(d, "slot")
     \/ Goto(d, "unpaused") /\ UNCHANGED <<job, mispaused>>
  /\ UNCHANGED <<keep, run, gen, ctl, want, how, writes, lim, expired, sweep, apc, outcome>>

\* The slot is given back before the prompt is shown; then the task ends.
PauseReleases(d) ==
  /\ pc[d] = "slot"
  /\ Release(d)
  /\ Goto(d, "done")
  /\ UNCHANGED <<row, run, gen, ctl, want, how, writes, expired, sweep, apc, hist>>

-----------------------------------------------------------------------------
(* The end of a driver.                                                      *)

\* The agent is through.  A turn notes whether it was stopped; a resume that
\* was stopped leaves the end to the abort route.
Finish(d) ==
  /\ pc[d] \in {"run", "unpaused"}
  /\ IF d \in Resumes /\ ctl[d] \in aborted
     THEN Goto(d, "owing") /\ UNCHANGED how
     ELSE /\ how' = [how EXCEPT ![d] = IF ctl[d] \in aborted THEN "error" ELSE "complete"]
          /\ Goto(d, "guard")
  /\ UNCHANGED <<row, run, gen, ctl, want, writes, lim, expired, sweep, apc, hist>>

\* Faulty: a replaced driver returns without giving its slot back.
GuardReturns(d) ==
  /\ pc[d] = "guard"
  /\ Goto(d, IF Owns(d) THEN "emit" ELSE "done")
  /\ UNCHANGED <<row, run, gen, ctl, want, how, writes, lim, expired, sweep, apc, hist>>

\* The job-replacement guard in front of the final event.
Guard(d) ==
  /\ pc[d] = "guard"
  /\ Goto(d, IF Owns(d) THEN "emit" ELSE "owing")
  /\ UNCHANGED <<row, run, gen, ctl, want, how, writes, lim, expired, sweep, apc, hist>>

\* An error on the way.  A turn that was stopped, or whose error speaks of an
\* abort, is silent; any other turn reports the error with no guard at all; a
\* resume reads the live row first.
TurnFails(t) ==
  /\ pc[t] \in {"init", "run", "unpaused", "guard"}
  /\ \/ pc[t] # "init" /\ Goto(t, "owing") /\ UNCHANGED how
     \/ /\ pc[t] = "init" \/ ctl[t] \notin aborted
        /\ how' = [how EXCEPT ![t] = "error"]
        /\ Goto(t, "emit")
  /\ UNCHANGED <<row, run, gen, ctl, want, writes, lim, expired, sweep, apc, hist>>

ResumeFails(r) ==
  /\ pc[r] \in {"init", "run", "unpaused", "guard"}
  /\ how' = [how EXCEPT ![r] = "error"]
  /\ Goto(r, IF Owns(r) THEN "emit" ELSE "owing")
  /\ UNCHANGED <<row, run, gen, ctl, want, writes, lim, expired, sweep, apc, hist>>

\* emitDone or emitError, on the channel of the conversation.
EmitFinal(d) ==
  /\ pc[d] = "emit"
  /\ Goto(d, "complete")
  /\ UNCHANGED <<row, run, gen, ctl, want, how, writes, lim, expired, sweep, apc, hist>>

\* completeJob up to its await: it aborts the controller it finds, and drops
\* the runtime entry after a success unless completed jobs are kept.
Complete(d) ==
  /\ pc[d] = "complete"
  /\ aborted' = aborted \cup ({rt} \ {None})
  /\ rt' = IF how[d] = "complete" /\ ~keep THEN None ELSE rt
  /\ writes' = writes \cup {d}
  /\ Goto(d, "owing")
  /\ UNCHANGED <<row, gen, ctl, want, how, lim, expired, sweep, apc, hist>>

\* The rest of completeJob: updateJob writes an existing row whatever its
\* generation or status, deleteJob removes it.
StoreTerminal(d) ==
  /\ d \in writes
  /\ writes' = writes \ {d}
  /\ job' = IF (how[d] = "complete" /\ ~keep) \/ job = NoJob THEN NoJob
            ELSE Row(job.gen, how[d], job.action)
  /\ UNCHANGED <<keep, run, pc, gen, ctl, want, how, lim, expired, sweep, apc, hist>>

\* finishResumableRequest, or the finally of a resume, which has awaited
\* completeJob where a turn has not.
GiveBack(d) ==
  /\ pc[d] = "owing"
  /\ d \in Resumes => d \notin writes
  /\ Release(d)
  /\ Goto(d, "done")
  /\ UNCHANGED <<row, run, gen, ctl, want, how, writes, expired, sweep, apc, hist>>

-----------------------------------------------------------------------------
(* A resume, up to the start of its agent.                                   *)

\* getJob: the row and the runtime entry, made if the process has none.  Only
\* the live action passes; an expired one is finalized first.
ResumeRead(r) ==
  /\ pc[r] = "off"
  /\ job.status = "requires_action"
  /\ want' = [want EXCEPT ![r] = job.action]
  /\ gen' = [gen EXCEPT ![r] = job.gen]
  /\ ctl' = [ctl EXCEPT ![r] = IF rt = None THEN r ELSE rt]
  /\ rt' = IF rt = None THEN r ELSE rt
  /\ Goto(r, IF job.action \in expired THEN "stale" ELSE "read")
  /\ UNCHANGED <<row, aborted, how, writes, lim, expired, sweep, apc, hist>>

\* expireApproval, driven by the submit that came too late.
ResumeStale(r) ==
  /\ pc[r] = "stale"
  /\ ExpireCas(want[r])
  /\ Goto(r, "done")
  /\ UNCHANGED <<keep, run, gen, ctl, want, how, writes, lim, expired, sweep,
                 apc, mispaused>>

\* approvals.resolve reads the row before its compare-and-set ...
ResolveRead(r) ==
  /\ pc[r] = "admitted"
  /\ Goto(r, IF job.status = "requires_action" /\ job.action \in expired
             THEN "lapsed" ELSE "claim")
  /\ UNCHANGED <<row, run, gen, ctl, want, how, writes, lim, expired, sweep, apc, hist>>

\* ... expires it when it read an expired one ...
ResolveExpires(r) ==
  /\ pc[r] = "lapsed"
  /\ ExpireCas(want[r])
  /\ Goto(r, "owing")
  /\ UNCHANGED <<keep, run, gen, ctl, want, how, writes, lim, expired, sweep,
                 apc, mispaused>>

\* ... and else claims it: requires_action -> running, for one winner.
Claim(r) ==
  /\ pc[r] = "claim"
  /\ IF CasHolds("requires_action", want[r])
     THEN /\ job' = Row(job.gen, "running", None)
          /\ outcome' = [outcome EXCEPT ![want[r]] = @ \cup {r}]
          /\ Goto(r, "init")
     ELSE Goto(r, "owing") /\ UNCHANGED <<job, outcome>>
  /\ UNCHANGED <<keep, run, gen, ctl, want, how, writes, lim, expired, sweep,
                 apc, mispaused>>

\* Faulty: the catch forgets the counter.
ClaimErrsForgets(r) ==
  /\ pc[r] \in {"admitted", "lapsed", "claim"}
  /\ Goto(r, "done")
  /\ slot' = [slot EXCEPT ![r] = FALSE]
  /\ UNCHANGED <<row, run, gen, ctl, want, how, writes, pending, expired,
                 sweep, apc, hist>>

\* Redis refuses the claim: the catch gives the slot back.
ClaimErrs(r) ==
  /\ pc[r] \in {"admitted", "lapsed", "claim"}
  /\ Goto(r, "owing")
  /\ UNCHANGED <<row, run, gen, ctl, want, how, writes, lim, expired, sweep, apc, hist>>

-----------------------------------------------------------------------------
(* Abort requests, the sweeps, and time.                                     *)

\* abortJob reads the row, aborts the controller of the runtime entry (the
\* route's getJob has made one if there was none) ...
AbortRead(a) ==
  LET c == IF rt = None THEN a ELSE rt IN
  /\ apc[a] = "off"
  /\ job # NoJob
  /\ rt' = c
  /\ aborted' = aborted \cup {c}
  /\ apc' = [apc EXCEPT ![a] = "remove"]
  /\ UNCHANGED <<row, task, lim, expired, sweep, hist>>

\* ... and, the content read and the event emitted, ends the row it finds.
AbortRemove(a) ==
  /\ apc[a] = "remove"
  /\ rt' = IF keep THEN rt ELSE None
  /\ job' = IF ~keep \/ job = NoJob THEN NoJob ELSE Row(job.gen, "aborted", job.action)
  /\ apc' = [apc EXCEPT ![a] = "done"]
  /\ UNCHANGED <<keep, aborted, task, lim, expired, sweep, hist>>

\* The approval window of the live action closes.
WindowCloses ==
  /\ job.status = "requires_action"
  /\ expired' = expired \cup ({job.action} \ {None})
  /\ UNCHANGED <<row, run, task, lim, sweep, apc, hist>>

\* expireStaleApprovals and cleanupRequiresActionIndex: read, then expire the
\* action that was read.
SweepRead ==
  /\ sweep = None
  /\ job.status = "requires_action" /\ job.action \in expired
  /\ sweep' = job.action
  /\ UNCHANGED <<row, run, task, lim, expired, apc, hist>>

SweepExpires ==
  /\ sweep # None
  /\ ExpireCas(sweep)
  /\ sweep' = None
  /\ UNCHANGED <<keep, run, task, lim, expired, apc, mispaused>>

\* The row's TTL, and the reaping of jobs that ran for too long.  A paused row
\* outlives its approval window.
JobExpires ==
  /\ job # NoJob
  /\ job.status = "requires_action" => job.action \in expired
  /\ job' = NoJob
  /\ UNCHANGED <<keep, run, task, lim, expired, sweep, apc, hist>>

\* The manager's cleanup: a runtime entry without a row is aborted and dropped.
DropRuntime ==
  /\ job = NoJob /\ rt # None
  /\ aborted' = aborted \cup {rt}
  /\ rt' = None
  /\ UNCHANGED <<row, task, lim, expired, sweep, apc, hist>>

-----------------------------------------------------------------------------
TurnStep(t)   == CreateJob(t) \/ CreateFails(t) \/ TurnFails(t)
ResumeStep(r) == \/ ResumeStale(r) \/ ResolveRead(r) \/ ResolveExpires(r)
                 \/ Claim(r) \/ ClaimErrs(r) \/ ResumeFails(r)
DriverStep(d) == \/ Admit(d) \/ AdmitOpen(d) \/ Start(d) \/ Interrupt(d) \/ Pause(d)
                 \/ PauseReleases(d) \/ Finish(d) \/ Guard(d) \/ EmitFinal(d)
                 \/ Complete(d) \/ StoreTerminal(d) \/ GiveBack(d)
Sweeps == SweepRead \/ SweepExpires

Next ==
  \/ \E t \in Turns : TurnStep(t)
  \/ \E r \in Resumes : ResumeRead(r) \/ ResumeStep(r)
  \/ \E d \in Drivers : DriverStep(d)
  \/ \E a \in Aborts : AbortRead(a) \/ AbortRemove(a)
  \/ CounterExpires \/ WindowCloses \/ Sweeps \/ JobExpires \/ DropRuntime

Spec == Init /\ [][Next]_vars

\* A started driver goes on (a model call ends, if only in an error), a clock
\* passes every expiresAt, and the cleanup timer fires for ever.
Fairness ==
  /\ \A t \in Turns : WF_vars(TurnStep(t) \/ (pc[t] # "off" /\ DriverStep(t)))
  /\ \A r \in Resumes : WF_vars(ResumeStep(r) \/ DriverStep(r))
  /\ WF_vars(WindowCloses) /\ WF_vars(SweepRead) /\ WF_vars(SweepExpires)

FairSpec == Spec /\ Fairness

-----------------------------------------------------------------------------
(* Properties.                                                               *)

\* A pending action is decided once: two racing submits, a submit racing the
\* sweep, and a late submit never both win its compare-and-set.
OneOutcome == \A a \in Drivers : Cardinality(outcome[a]) <= 1

\* Only the winner of a claim re-enters the agent: a generation is driven by
\* one task at a time, unless a driver of another generation paused it.
SoleDriver ==
  \A d, e \in Drivers :
    pc[d] \in Driving /\ pc[e] \in Driving /\ gen[d] = gen[e] /\ gen[d] # None
      => d = e \/ gen[d] \in mispaused

\* No slot leaks: the counter never exceeds the drivers that will still
\* decrement it, over every pause, refusal, failed claim and error path.
SlotsNotLeaked == pending <= Cardinality({d \in Drivers : slot[d]})

\* A generation that has ended is never running or paused again.
TerminalIsFinal ==
  [][job.status \in Terminal /\ job'.gen = job.gen => job'.status \in Terminal]_job

Awaits(a) == job.status = "requires_action" /\ job.action = a

\* An approval nobody answers does not keep its row paused for ever.
PausedEnds == \A a \in Drivers : Awaits(a) ~> ~Awaits(a)

\* Every admitted driver gives its slot back.
DriversEnd == \A d \in Drivers : slot[d] ~> ~slot[d]
=============================================================================
