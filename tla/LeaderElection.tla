---------------------------- MODULE LeaderElection ----------------------------
(* One leader among the server processes of a LibreChat cluster: a key of    *)
(* Redis that holds the UUID of the leader for the time of a lease, taken by *)
(* SET NX when a caller of isLeader() finds it free, and renewed by a timer. *)
(* Time passes in ticks; what a process that is not stalled has to do now it *)
(* does before the next one.                                                 *)
EXTENDS Naturals

CONSTANTS
  Servers,   \* processes, each with the UUID of its one LeaderElection
  Callers,   \* isLeader() calls a process may have under way at a time
  Lease,     \* LEADER_LEASE_DURATION, in ticks
  Interval,  \* LEADER_RENEW_INTERVAL, in ticks
  Attempts,  \* LEADER_RENEW_ATTEMPTS
  MaxFaults, \* bound: stalls and failed commands
  None

ASSUME LeaseAssumption ==
  /\ Lease \in Nat /\ Interval \in Nat /\ 0 < Interval /\ Interval < Lease
  /\ Attempts \in Nat /\ MaxFaults \in Nat
  /\ None \notin Servers

VARIABLES
  key,      \* LeadingServerUUID
  lease,    \* ticks until Redis drops it
  timer,    \* timer[s]: refreshTimer # undefined
  due,      \* due[s]: ticks until the timer fires
  attempt,  \* attempt[s]: attempts of the renewal that is under way
  pc,       \* pc[s][k]: where a call of isLeader() is
  said,     \* said[s][k]: its last answer
  up,       \* processes that have not died
  stalled,  \* processes whose event loop is blocked
  resigned, \* processes that were told to shut down
  faults,
  tardy     \* processes that stalled with a reply unread, and have not renewed
            \* since                                                    (history)

redis == <<key, lease>>
timers == <<timer, due, attempt>>
calls == <<pc, said>>
procs == <<up, stalled, resigned>>
vars  == <<redis, timers, calls, procs, faults, tardy>>

Pcs == {"idle", "get", "own", "delay", "won"}

TypeOK ==
  /\ key \in Servers \cup {None}
  /\ lease \in 0 .. Lease
  /\ timer \in [Servers -> BOOLEAN]
  /\ due \in [Servers -> 0 .. Interval]
  /\ attempt \in [Servers -> 1 .. Attempts + 1]
  /\ pc \in [Servers -> [Callers -> Pcs]]
  /\ said \in [Servers -> [Callers -> BOOLEAN]]
  /\ up \in SUBSET Servers /\ stalled \in SUBSET Servers
  /\ resigned \in SUBSET Servers /\ tardy \in SUBSET Servers
  /\ faults \in 0 .. MaxFaults

Init ==
  /\ key = None /\ lease = 0
  /\ timer = [s \in Servers |-> FALSE]
  /\ due = [s \in Servers |-> 0]
  /\ attempt = [s \in Servers |-> 1]
  /\ pc = [s \in Servers |-> [k \in Callers |-> "idle"]]
  /\ said = [s \in Servers |-> [k \in Callers |-> FALSE]]
  /\ up = Servers /\ stalled = {} /\ resigned = {}
  /\ faults = 0 /\ tardy = {}

Awake(s) == s \in up /\ s \notin stalled
Goto(s, k, to)  == pc' = [pc EXCEPT ![s][k] = to]
Answer(s, k, b) == Goto(s, k, "idle") /\ said' = [said EXCEPT ![s][k] = b]

\* clearRefreshTimer
ClearTimer(s) ==
  /\ timer' = [timer EXCEPT ![s] = FALSE]
  /\ attempt' = [attempt EXCEPT ![s] = 1]
  /\ UNCHANGED due

Fault == faults < MaxFaults /\ faults' = faults + 1

-----------------------------------------------------------------------------
(* isLeader.                                                                 *)

Ask(s, k) ==
  /\ Awake(s) /\ pc[s][k] = "idle"
  /\ Goto(s, k, "get")
  /\ UNCHANGED <<redis, timers, said, procs, faults, tardy>>

\* The GET reaches Redis.
GetLeader(s, k) ==
  /\ s \in up /\ pc[s][k] = "get"
  /\ \/ key = s    /\ Goto(s, k, "own") /\ UNCHANGED said
     \/ key = None /\ Goto(s, k, "delay") /\ UNCHANGED said
     \/ key \notin {s, None} /\ Answer(s, k, FALSE)
  /\ UNCHANGED <<redis, timers, procs, faults, tardy>>

\* The lock is ours: the leader, unless the renewals were given up.
OwnAnswers(s, k) ==
  /\ Awake(s) /\ pc[s][k] = "own"
  /\ Answer(s, k, timer[s])
  /\ UNCHANGED <<redis, timers, procs, faults, tardy>>

\* Faulty: a SET without NX.
ElectByForce(s, k) ==
  /\ Awake(s) /\ pc[s][k] = "delay"
  /\ key' = s /\ lease' = Lease /\ Goto(s, k, "won") /\ UNCHANGED said
  /\ UNCHANGED <<timers, procs, faults, tardy>>

\* electSelf, after a random delay: SET NX with the lease.
Elect(s, k) ==
  /\ Awake(s) /\ pc[s][k] = "delay"
  /\ IF key = None
     THEN key' = s /\ lease' = Lease /\ Goto(s, k, "won") /\ UNCHANGED said
     ELSE Answer(s, k, FALSE) /\ UNCHANGED redis
  /\ UNCHANGED <<timers, procs, faults, tardy>>

\* Its reply: the timer is started (anew).
Won(s, k) ==
  /\ Awake(s) /\ pc[s][k] = "won"
  /\ timer' = [timer EXCEPT ![s] = TRUE]
  /\ due' = [due EXCEPT ![s] = Interval]
  /\ attempt' = [attempt EXCEPT ![s] = 1]
  /\ Answer(s, k, TRUE)
  /\ UNCHANGED <<redis, procs, faults, tardy>>

\* A command fails, a SET possibly after Redis has done it.
CallFails(s, k) ==
  /\ s \in up /\ pc[s][k] \in {"get", "delay", "won"}
  /\ Fault
  /\ Answer(s, k, FALSE)
  /\ UNCHANGED <<redis, timers, procs, tardy>>

-----------------------------------------------------------------------------
(* renewLeadership and resign.                                               *)

Fires(s) == Awake(s) /\ timer[s] /\ due[s] = 0

\* Faulty: the lease is extended whoever holds the key.
RenewAnyone(s) ==
  /\ Fires(s)
  /\ lease' = IF key = None THEN 0 ELSE Lease
  /\ due' = [due EXCEPT ![s] = Interval]
  /\ attempt' = [attempt EXCEPT ![s] = 1]
  /\ tardy' = IF key = s THEN tardy \ {s} ELSE tardy
  /\ UNCHANGED <<key, timer, calls, procs, faults>>

\* Check-and-renew; a lost leadership ends the timer.
Renew(s) ==
  /\ Fires(s)
  /\ IF key = s
     THEN /\ lease' = Lease
          /\ due' = [due EXCEPT ![s] = Interval]
          /\ attempt' = [attempt EXCEPT ![s] = 1]
          /\ tardy' = tardy \ {s}
          /\ UNCHANGED timer
     ELSE ClearTimer(s) /\ UNCHANGED <<lease, tardy>>
  /\ UNCHANGED <<key, calls, procs, faults>>

\* Faulty: a failed renewal waits for the next interval.
RenewSkips(s) ==
  /\ Fires(s) /\ Fault
  /\ due' = [due EXCEPT ![s] = Interval]
  /\ UNCHANGED <<redis, timer, attempt, calls, procs, tardy>>

\* It fails, possibly after Redis has done it, and is tried again until the
\* attempts are exceeded.
RenewFails(s) ==
  /\ Fires(s) /\ Fault
  /\ lease' \in {lease, IF key = s THEN Lease ELSE lease}
  /\ IF attempt[s] <= Attempts
     THEN attempt' = [attempt EXCEPT ![s] = @ + 1] /\ UNCHANGED <<timer, due>>
     ELSE ClearTimer(s)
  /\ UNCHANGED <<key, calls, procs, tardy>>

\* Faulty: the key is deleted whoever holds it.
ResignBlindly(s) ==
  /\ Awake(s) /\ s \notin resigned
  /\ ClearTimer(s)
  /\ key' = None /\ lease' = 0
  /\ resigned' = resigned \cup {s}
  /\ UNCHANGED <<calls, up, stalled, faults, tardy>>

\* SIGTERM or SIGINT: the timer goes, and the key if it is still ours. The
\* process goes on until it dies, and may be elected again.
Resign(s) ==
  /\ Awake(s) /\ s \notin resigned
  /\ ClearTimer(s)
  /\ IF key = s THEN key' = None /\ lease' = 0 ELSE UNCHANGED redis
  /\ resigned' = resigned \cup {s}
  /\ UNCHANGED <<calls, up, stalled, faults, tardy>>

\* The script fails: the key is left to its lease.
ResignFails(s) ==
  /\ Awake(s) /\ s \notin resigned /\ Fault
  /\ ClearTimer(s)
  /\ resigned' = resigned \cup {s}
  /\ UNCHANGED <<redis, calls, up, stalled, tardy>>

-----------------------------------------------------------------------------
(* Processes and time.                                                       *)

Crash(s) ==
  /\ s \in up
  /\ up' = up \ {s}
  /\ ClearTimer(s)
  /\ pc' = [pc EXCEPT ![s] = [k \in Callers |-> "idle"]]
  /\ said' = [said EXCEPT ![s] = [k \in Callers |-> FALSE]]
  /\ UNCHANGED <<redis, stalled, resigned, faults, tardy>>

Unread(s) == \E k \in Callers : pc[s][k] \in {"own", "won"}

\* The event loop is blocked for some ticks.
Stall(s) ==
  /\ Awake(s) /\ Fault
  /\ stalled' = stalled \cup {s}
  /\ tardy' = IF Unread(s) THEN tardy \cup {s} ELSE tardy
  /\ UNCHANGED <<redis, timers, calls, up, resigned>>

Wake(s) ==
  /\ s \in stalled
  /\ stalled' = stalled \ {s}
  /\ tardy' = IF Unread(s) THEN tardy \cup {s} ELSE tardy
  /\ UNCHANGED <<redis, timers, calls, up, resigned, faults>>

Tick ==
  /\ \A s \in Servers : Awake(s) => ~Fires(s) /\ ~Unread(s)
  /\ lease' = IF lease = 0 THEN 0 ELSE lease - 1
  /\ key' = IF lease <= 1 THEN None ELSE key
  /\ due' = [s \in Servers |-> IF due[s] = 0 THEN 0 ELSE due[s] - 1]
  /\ UNCHANGED <<timer, attempt, calls, procs, faults, tardy>>

-----------------------------------------------------------------------------
Call(s, k) == \/ GetLeader(s, k) \/ OwnAnswers(s, k) \/ Elect(s, k) \/ Won(s, k)
Server(s)  == \/ Renew(s) \/ RenewFails(s) \/ Resign(s) \/ ResignFails(s)
              \/ Crash(s) \/ Stall(s) \/ Wake(s)

Next ==
  \/ \E s \in Servers : Server(s)
  \/ \E s \in Servers, k \in Callers : Ask(s, k) \/ Call(s, k) \/ CallFails(s, k)
  \/ Tick

Spec == Init /\ [][Next]_vars

\* Every live process goes on asking (leaderCheck stands in front of each
\* write of the registry) and runs its timer, and time passes: a process does
\* not do infinitely much in one tick.
Fairness ==
  /\ \A s \in Servers : WF_vars(Renew(s)) /\ WF_vars(Wake(s))
  /\ \A s \in Servers, k \in Callers : WF_vars(Ask(s, k)) /\ WF_vars(Call(s, k))
  /\ SF_vars(Tick)

FairSpec == Spec /\ Fairness

-----------------------------------------------------------------------------
(* The inductive invariant.                                                  *)

\* A key has a lease and no lease is without its key.
KeyLease == key = None <=> lease = 0

\* The dead run no timer and no call.
DeadAreStill ==
  \A s \in Servers \ up : ~timer[s] /\ \A k \in Callers : pc[s][k] = "idle"

\* Until its timer fires, a leader's lease exceeds the time to go by what the
\* renewal leaves in hand.
Margin ==
  \A s \in Servers :
    key = s /\ timer[s] /\ s \notin tardy /\ due[s] > 0
      => lease >= due[s] + (Lease - Interval)

\* An election whose reply is read at once has the whole lease before it.
FreshWon ==
  \A s \in Servers, k \in Callers :
    pc[s][k] = "won" /\ s \notin tardy
      => s \notin stalled /\ (key = s => lease = Lease)

\* A reply that says "ours" is still true when it is read.
UnreadHolds ==
  \A s \in Servers, k \in Callers :
    /\ pc[s][k] \in {"own", "won"}
    /\ s \notin stalled /\ s \notin tardy /\ s \notin resigned
    => key = s

\* Types, and the five parts above: what makes the leases of leaders long
\* enough and their answers true.
LeaderInv ==
  /\ TypeOK /\ KeyLease /\ DeadAreStill
  /\ Margin /\ FreshWon /\ UnreadHolds

-----------------------------------------------------------------------------
(* Properties.                                                               *)

\* A leader that is awake does not lose its lease to time: whoever finds the
\* key free does not find it so because renewals and lease are badly timed.
NoLapse ==
  [][\A s \in Servers :
       key = s /\ key' # s /\ timer[s] /\ Awake(s) /\ s \notin tardy
         => s \in resigned']_vars

\* Whoever is told that it leads holds the key at that moment, and so nobody
\* else can be told so, unless the process slept on the reply or has resigned.
ToldHolds ==
  [][\A s \in Servers, k \in Callers :
       pc[s][k] \in {"own", "won"} /\ pc'[s][k] = "idle" /\ said'[s][k]
         => key = s \/ s \in tardy \/ s \in resigned]_vars

Leads(s) == s \in up /\ key = s /\ timer[s]

\* Over crashes, stalls, failed commands and resignations, and as long as a
\* process lives, there is a leader again and again.
LeaderEmerges == []<>(\E s \in Servers : Leads(s) \/ up = {})
=============================================================================
