------------------------- MODULE LeaderElection_proofs -------------------------
(* The invariant of the leader election, and what follows from it, for any    *)
(* number of servers and calls, any lease longer than the renewal interval,   *)
(* and any bound on the faults.                                               *)
EXTENDS LeaderElection, TLAPS

USE LeaseAssumption

\* The steps of a server that a Next step is one of, by name.
LEMMA NextCases ==
  ASSUME Next
  PROVE  \/ \E s \in Servers :
              \/ Renew(s) \/ RenewFails(s) \/ Resign(s) \/ ResignFails(s)
              \/ Crash(s) \/ Stall(s) \/ Wake(s)
         \/ \E s \in Servers, k \in Callers :
              \/ Ask(s, k) \/ GetLeader(s, k) \/ OwnAnswers(s, k)
              \/ Elect(s, k) \/ Won(s, k) \/ CallFails(s, k)
         \/ Tick
BY DEF Next, Server, Call

\* Going to another point of a call moves that call and no other.
LEMMA GotoMoves ==
  ASSUME TypeOK, NEW s \in Servers, NEW k \in Callers, NEW to \in Pcs, Goto(s, k, to)
  PROVE  /\ pc' \in [Servers -> [Callers -> Pcs]]
         /\ \A t \in Servers, j \in Callers :
              pc'[t][j] = IF t = s /\ j = k THEN to ELSE pc[t][j]
BY DEF TypeOK, Goto

LEMMA AnswerMoves ==
  ASSUME TypeOK, NEW s \in Servers, NEW k \in Callers, NEW b \in BOOLEAN, Answer(s, k, b)
  PROVE  /\ pc' \in [Servers -> [Callers -> Pcs]]
         /\ \A t \in Servers, j \in Callers :
              pc'[t][j] = IF t = s /\ j = k THEN "idle" ELSE pc[t][j]
         /\ said' \in [Servers -> [Callers -> BOOLEAN]]
<1>1. "idle" \in Pcs /\ Goto(s, k, "idle")
  BY DEF Pcs, Answer
<1>2. said' \in [Servers -> [Callers -> BOOLEAN]]
  BY DEF TypeOK, Answer
<1>. QED BY <1>1, <1>2, GotoMoves

-----------------------------------------------------------------------------
LEMMA InitEstablishes == Init => LeaderInv
BY DEF Init, LeaderInv, TypeOK, Pcs, KeyLease, DeadAreStill, Margin, FreshWon,
       UnreadHolds

LEMMA AskKeeps ==
  ASSUME LeaderInv, NEW s \in Servers, NEW k \in Callers, Ask(s, k)
  PROVE  LeaderInv'
BY DEF LeaderInv, TypeOK, Pcs, KeyLease, DeadAreStill, Margin, FreshWon,
       UnreadHolds, Ask, Awake, Goto, redis, timers, procs

LEMMA GetLeaderKeeps ==
  ASSUME LeaderInv, NEW s \in Servers, NEW k \in Callers, GetLeader(s, k)
  PROVE  LeaderInv'
<1>. USE DEF GetLeader, redis, timers, procs
<1>1. PICK to \in {"own", "delay", "idle"} :
        /\ to = "own" => key = s
        /\ pc' \in [Servers -> [Callers -> Pcs]]
        /\ \A t \in Servers, j \in Callers :
             pc'[t][j] = IF t = s /\ j = k THEN to ELSE pc[t][j]
        /\ said' \in [Servers -> [Callers -> BOOLEAN]]
  <2>1. CASE key = s /\ Goto(s, k, "own") /\ UNCHANGED said
    BY <2>1, GotoMoves DEF LeaderInv, TypeOK, Pcs
  <2>2. CASE key = None /\ Goto(s, k, "delay") /\ UNCHANGED said
    BY <2>2, GotoMoves DEF LeaderInv, TypeOK, Pcs
  <2>3. CASE Answer(s, k, FALSE)
    BY <2>3, AnswerMoves DEF LeaderInv
  <2>. QED BY <2>1, <2>2, <2>3
<1>2. TypeOK' /\ KeyLease' BY <1>1 DEF LeaderInv, TypeOK, KeyLease
<1>3. DeadAreStill' BY <1>1 DEF LeaderInv, TypeOK, DeadAreStill
<1>4. Margin'       BY DEF LeaderInv, TypeOK, Margin
<1>5. FreshWon'     BY <1>1 DEF LeaderInv, FreshWon
<1>6. UnreadHolds'  BY <1>1 DEF LeaderInv, UnreadHolds
<1>. QED BY <1>2, <1>3, <1>4, <1>5, <1>6 DEF LeaderInv

LEMMA OwnAnswersKeeps ==
  ASSUME LeaderInv, NEW s \in Servers, NEW k \in Callers, OwnAnswers(s, k)
  PROVE  LeaderInv'
BY DEF LeaderInv, TypeOK, Pcs, KeyLease, DeadAreStill, Margin, FreshWon,
       UnreadHolds, OwnAnswers, Awake, Goto, Answer, redis, timers, procs

LEMMA ElectKeeps ==
  ASSUME LeaderInv, NEW s \in Servers, NEW k \in Callers, Elect(s, k)
  PROVE  LeaderInv'
<1>. USE DEF Elect, Awake, timers, procs
<1>1. CASE key = None /\ key' = s /\ lease' = Lease /\ Goto(s, k, "won") /\ UNCHANGED said
  <2>1. /\ pc' \in [Servers -> [Callers -> Pcs]]
        /\ \A t \in Servers, j \in Callers :
             pc'[t][j] = IF t = s /\ j = k THEN "won" ELSE pc[t][j]
    BY <1>1, GotoMoves DEF LeaderInv, Pcs
  <2>2. TypeOK' /\ KeyLease'
    BY <1>1, <2>1 DEF LeaderInv, TypeOK, KeyLease
  <2>3. DeadAreStill' BY <2>1 DEF LeaderInv, TypeOK, DeadAreStill
  <2>4. Margin'       BY <1>1 DEF LeaderInv, TypeOK, Margin
  <2>5. FreshWon'     BY <1>1, <2>1 DEF LeaderInv, FreshWon
  <2>6. UnreadHolds'  BY <1>1, <2>1 DEF LeaderInv, UnreadHolds
  <2>. QED BY <2>2, <2>3, <2>4, <2>5, <2>6 DEF LeaderInv
<1>2. CASE Answer(s, k, FALSE) /\ UNCHANGED redis
  <2>1. /\ pc' \in [Servers -> [Callers -> Pcs]]
        /\ \A t \in Servers, j \in Callers :
             pc'[t][j] = IF t = s /\ j = k THEN "idle" ELSE pc[t][j]
        /\ said' \in [Servers -> [Callers -> BOOLEAN]]
    BY <1>2, AnswerMoves DEF LeaderInv
  <2>2. TypeOK' /\ KeyLease'
    BY <1>2, <2>1 DEF LeaderInv, TypeOK, KeyLease, redis
  <2>3. DeadAreStill' BY <2>1 DEF LeaderInv, TypeOK, DeadAreStill
  <2>4. Margin' /\ FreshWon' /\ UnreadHolds'
    BY <1>2, <2>1 DEF LeaderInv, Margin, FreshWon, UnreadHolds, redis
  <2>. QED BY <2>2, <2>3, <2>4 DEF LeaderInv
<1>. QED BY <1>1, <1>2

LEMMA WonKeeps ==
  ASSUME LeaderInv, NEW s \in Servers, NEW k \in Callers, Won(s, k)
  PROVE  LeaderInv'
BY DEF LeaderInv, TypeOK, Pcs, KeyLease, DeadAreStill, Margin, FreshWon,
       UnreadHolds, Won, Awake, Goto, Answer, redis, procs

LEMMA CallFailsKeeps ==
  ASSUME LeaderInv, NEW s \in Servers, NEW k \in Callers, CallFails(s, k)
  PROVE  LeaderInv'
BY DEF LeaderInv, TypeOK, Pcs, KeyLease, DeadAreStill, Margin, FreshWon,
       UnreadHolds, CallFails, Fault, Goto, Answer, redis, timers, procs

-----------------------------------------------------------------------------
LEMMA RenewKeeps ==
  ASSUME LeaderInv, NEW s \in Servers, Renew(s)
  PROVE  LeaderInv'
<1>. USE DEF Renew, Fires, Awake, ClearTimer, calls, procs
<1>1. TypeOK'
  <2>1. lease' \in 0 .. Lease /\ due' \in [Servers -> 0 .. Interval]
    BY DEF LeaderInv, TypeOK
  <2>2. timer' \in [Servers -> BOOLEAN]
    BY DEF LeaderInv, TypeOK
  <2>3. attempt' \in [Servers -> 1 .. Attempts + 1]
    BY DEF LeaderInv, TypeOK
  <2>4. tardy' \in SUBSET Servers
    BY DEF LeaderInv, TypeOK
  <2>. QED BY <2>1, <2>2, <2>3, <2>4 DEF LeaderInv, TypeOK
<1>2. KeyLease'     BY DEF LeaderInv, TypeOK, KeyLease
<1>3. DeadAreStill' BY DEF LeaderInv, TypeOK, DeadAreStill
<1>4. Margin'       BY DEF LeaderInv, TypeOK, KeyLease, Margin
<1>5. FreshWon'     BY DEF LeaderInv, TypeOK, KeyLease, FreshWon
<1>6. UnreadHolds'  BY DEF LeaderInv, TypeOK, KeyLease, UnreadHolds
<1>. QED BY <1>1, <1>2, <1>3, <1>4, <1>5, <1>6 DEF LeaderInv

LEMMA RenewFailsKeeps ==
  ASSUME LeaderInv, NEW s \in Servers, RenewFails(s)
  PROVE  LeaderInv'
<1>. USE DEF RenewFails, Fires, Fault, Awake, ClearTimer, calls, procs
<1>1. TypeOK'
  <2>1. lease' \in 0 .. Lease /\ key' = key /\ faults' \in 0 .. MaxFaults
    BY DEF LeaderInv, TypeOK
  <2>2. timer' \in [Servers -> BOOLEAN] /\ due' = due
    BY DEF LeaderInv, TypeOK
  <2>3. attempt' \in [Servers -> 1 .. Attempts + 1]
    <3>1. CASE attempt[s] <= Attempts   BY <3>1 DEF LeaderInv, TypeOK
    <3>2. CASE ~(attempt[s] <= Attempts) BY <3>2 DEF LeaderInv, TypeOK
    <3>. QED BY <3>1, <3>2
  <2>. QED BY <2>1, <2>2, <2>3 DEF LeaderInv, TypeOK
<1>2. KeyLease'     BY DEF LeaderInv, TypeOK, KeyLease
<1>3. DeadAreStill' BY DEF LeaderInv, TypeOK, DeadAreStill
<1>4. Margin'       BY DEF LeaderInv, TypeOK, KeyLease, Margin
<1>5. FreshWon'     BY DEF LeaderInv, TypeOK, KeyLease, FreshWon
<1>6. UnreadHolds'  BY DEF LeaderInv, TypeOK, KeyLease, UnreadHolds
<1>. QED BY <1>1, <1>2, <1>3, <1>4, <1>5, <1>6 DEF LeaderInv

LEMMA ResignKeeps ==
  ASSUME LeaderInv, NEW s \in Servers, Resign(s)
  PROVE  LeaderInv'
<1>1. CASE key = s
  BY <1>1 DEF LeaderInv, TypeOK, Pcs, KeyLease, DeadAreStill, Margin, FreshWon,
       UnreadHolds, Resign, Awake, ClearTimer, redis, calls
<1>2. CASE key # s
  BY <1>2 DEF LeaderInv, TypeOK, Pcs, KeyLease, DeadAreStill, Margin, FreshWon,
       UnreadHolds, Resign, Awake, ClearTimer, redis, calls
<1>. QED BY <1>1, <1>2

LEMMA ResignFailsKeeps ==
  ASSUME LeaderInv, NEW s \in Servers, ResignFails(s)
  PROVE  LeaderInv'
BY DEF LeaderInv, TypeOK, Pcs, KeyLease, DeadAreStill, Margin, FreshWon,
       UnreadHolds, ResignFails, Fault, Awake, ClearTimer, redis, calls

LEMMA CrashKeeps ==
  ASSUME LeaderInv, NEW s \in Servers, Crash(s)
  PROVE  LeaderInv'
BY DEF LeaderInv, TypeOK, Pcs, KeyLease, DeadAreStill, Margin, FreshWon,
       UnreadHolds, Crash, ClearTimer, redis

LEMMA StallKeeps ==
  ASSUME LeaderInv, NEW s \in Servers, Stall(s)
  PROVE  LeaderInv'
<1>1. CASE Unread(s)
  BY <1>1 DEF LeaderInv, TypeOK, Pcs, KeyLease, DeadAreStill, Margin, FreshWon,
       UnreadHolds, Stall, Unread, Fault, Awake, redis, timers, calls
<1>2. CASE ~Unread(s)
  BY <1>2 DEF LeaderInv, TypeOK, Pcs, KeyLease, DeadAreStill, Margin, FreshWon,
       UnreadHolds, Stall, Unread, Fault, Awake, redis, timers, calls
<1>. QED BY <1>1, <1>2

LEMMA WakeKeeps ==
  ASSUME LeaderInv, NEW s \in Servers, Wake(s)
  PROVE  LeaderInv'
<1>1. CASE Unread(s)
  BY <1>1 DEF LeaderInv, TypeOK, Pcs, KeyLease, DeadAreStill, Margin, FreshWon,
       UnreadHolds, Wake, Unread, redis, timers, calls
<1>2. CASE ~Unread(s)
  BY <1>2 DEF LeaderInv, TypeOK, Pcs, KeyLease, DeadAreStill, Margin, FreshWon,
       UnreadHolds, Wake, Unread, redis, timers, calls
<1>. QED BY <1>1, <1>2

LEMMA TickKeeps ==
  ASSUME LeaderInv, Tick
  PROVE  LeaderInv'
<1>1. TypeOK' /\ KeyLease' /\ DeadAreStill'
  BY DEF LeaderInv, TypeOK, Pcs, KeyLease, DeadAreStill, Tick, timers, calls, procs
<1>2. Margin'
  BY DEF LeaderInv, TypeOK, KeyLease, Margin, Tick, calls, procs
<1>3. ASSUME NEW s \in Servers, NEW k \in Callers, pc[s][k] \in {"own", "won"}
      PROVE  s \in stalled
  BY <1>3 DEF LeaderInv, TypeOK, DeadAreStill, Tick, Awake, Unread
<1>4. FreshWon' /\ UnreadHolds'
  BY <1>3 DEF LeaderInv, TypeOK, FreshWon, UnreadHolds, Tick, calls, procs
<1>. QED BY <1>1, <1>2, <1>4 DEF LeaderInv

-----------------------------------------------------------------------------
\* Every step keeps the invariant.
LEMMA NextKeeps ==
  ASSUME LeaderInv, [Next]_vars
  PROVE  LeaderInv'
<1>1. CASE UNCHANGED vars
  BY <1>1 DEF LeaderInv, TypeOK, Pcs, KeyLease, DeadAreStill, Margin, FreshWon,
       UnreadHolds, vars, redis, timers, calls, procs
<1>2. CASE Next
  BY <1>2, NextCases, AskKeeps, GetLeaderKeeps, OwnAnswersKeeps, ElectKeeps,
     WonKeeps, CallFailsKeeps, RenewKeeps, RenewFailsKeeps, ResignKeeps,
     ResignFailsKeeps, CrashKeeps, StallKeeps, WakeKeeps, TickKeeps
<1>. QED BY <1>1, <1>2

\* In every reachable state leaders that have not slept hold leases that reach
\* beyond their next renewal, and replies that say "ours" are true.
THEOREM LeaderInvariant == Spec => []LeaderInv
<1>1. Init => LeaderInv BY InitEstablishes
<1>2. LeaderInv /\ [Next]_vars => LeaderInv' BY NextKeeps
<1>. QED BY <1>1, <1>2, PTL DEF Spec

-----------------------------------------------------------------------------
\* A live, awake leader that has read its replies in time never loses the key
\* to time: only its own resignation takes it away.
THEOREM LeadersDoNotLapse == Spec => NoLapse
<1>1. ASSUME LeaderInv, [Next]_vars, NEW s \in Servers,
             key = s, key' # s, timer[s], Awake(s), s \notin tardy
      PROVE  s \in resigned'
  <2>1. CASE UNCHANGED vars
    BY <1>1, <2>1 DEF vars, redis
  <2>2. CASE Tick
    <3>1. due[s] \in Nat /\ due[s] > 0
      BY <1>1, <2>2 DEF LeaderInv, TypeOK, Tick, Fires
    <3>2. lease > 1
      BY <1>1, <3>1 DEF LeaderInv, TypeOK, Margin
    <3>. QED BY <1>1, <2>2, <3>2 DEF Tick, LeaderInv, TypeOK
  <2>3. ASSUME NEW t \in Servers, NEW k \in Callers,
               \/ Ask(t, k) \/ GetLeader(t, k) \/ OwnAnswers(t, k)
               \/ Elect(t, k) \/ Won(t, k) \/ CallFails(t, k)
        PROVE  FALSE
    BY <1>1, <2>3 DEF Ask, GetLeader, OwnAnswers, Elect, Won, CallFails, redis
  <2>4. ASSUME NEW t \in Servers,
               \/ Renew(t) \/ RenewFails(t) \/ ResignFails(t)
               \/ Crash(t) \/ Stall(t) \/ Wake(t)
        PROVE  FALSE
    BY <1>1, <2>4 DEF Renew, RenewFails, ResignFails, Crash, Stall, Wake, redis
  <2>5. ASSUME NEW t \in Servers, Resign(t)
        PROVE  s \in resigned'
    BY <1>1, <2>5 DEF Resign, redis
  <2>. QED BY <1>1, <2>1, <2>2, <2>3, <2>4, <2>5, NextCases
<1>2. LeaderInv /\ [Next]_vars =>
        [\A s \in Servers :
           key = s /\ key' # s /\ timer[s] /\ Awake(s) /\ s \notin tardy
             => s \in resigned']_vars
  BY <1>1
<1>. QED BY <1>2, LeaderInvariant, PTL DEF Spec, NoLapse

\* Whoever is told that it leads holds the key as it is told, unless it slept
\* on the reply or has resigned: no two servers are told so at once.
THEOREM TheToldHoldTheKey == Spec => ToldHolds
<1>1. ASSUME LeaderInv, [Next]_vars, NEW s \in Servers, NEW k \in Callers,
             pc[s][k] \in {"own", "won"}, pc'[s][k] = "idle", said'[s][k]
      PROVE  key = s \/ s \in tardy \/ s \in resigned
  <2>1. CASE s \notin stalled
    BY <1>1, <2>1 DEF LeaderInv, UnreadHolds
  <2>2. CASE s \in stalled
    <3>1. CASE UNCHANGED vars
      BY <1>1, <3>1 DEF vars, calls
    <3>2. ASSUME NEW t \in Servers, NEW j \in Callers,
                 \/ Ask(t, j) \/ GetLeader(t, j) \/ OwnAnswers(t, j)
                 \/ Elect(t, j) \/ Won(t, j)
          PROVE  FALSE
      BY <1>1, <2>2, <3>2 DEF LeaderInv, TypeOK, Ask, GetLeader, OwnAnswers,
           Elect, Won, Awake, Goto, Answer
    <3>3. ASSUME NEW t \in Servers, NEW j \in Callers, CallFails(t, j)
          PROVE  FALSE
      BY <1>1, <2>2, <3>3 DEF LeaderInv, TypeOK, FreshWon, CallFails, Goto, Answer
    <3>4. ASSUME NEW t \in Servers,
                 \/ Renew(t) \/ RenewFails(t) \/ Resign(t) \/ ResignFails(t)
                 \/ Stall(t) \/ Wake(t)
          PROVE  FALSE
      BY <1>1, <3>4 DEF Renew, RenewFails, Resign, ResignFails, Stall, Wake, calls
    <3>5. ASSUME NEW t \in Servers, Crash(t)
          PROVE  FALSE
      BY <1>1, <3>5 DEF LeaderInv, TypeOK, Crash
    <3>6. CASE Tick
      BY <1>1, <3>6 DEF Tick, calls
    <3>. QED BY <1>1, <3>1, <3>2, <3>3, <3>4, <3>5, <3>6, NextCases
  <2>. QED BY <2>1, <2>2
<1>2. LeaderInv /\ [Next]_vars =>
        [\A s \in Servers, k \in Callers :
           pc[s][k] \in {"own", "won"} /\ pc'[s][k] = "idle" /\ said'[s][k]
             => key = s \/ s \in tardy \/ s \in resigned]_vars
  BY <1>1
<1>. QED BY <1>2, LeaderInvariant, PTL DEF Spec, ToldHolds
=============================================================================
