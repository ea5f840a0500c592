------------------------ MODULE GenerationJobs_proofs ------------------------
EXTENDS GenerationJobsInv, FiniteSetTheorems, TLAPS

\* The row is absent, or a job.
LEMMA RowCases ==
  ASSUME TypeOK
  PROVE  \/ job = NoJob /\ job.gen = None /\ job.status = "gone" /\ job.action = None
         \/ /\ job \in Jobs /\ job # NoJob /\ job.gen \in Turns /\ job.gen # None
            /\ job.status \in {"running", "requires_action"} \cup Terminal
            /\ job.action \in Drivers \cup {None}
  BY JobsAssumption DEF TypeOK, Jobs, NoJob, Row, Terminal, Drivers, Controllers

\* Every step keeps the types.
LEMMA TypesStep == TypeOK /\ [Next]_vars => TypeOK'
<1> SUFFICES ASSUME TypeOK, [Next]_vars PROVE TypeOK'
  OBVIOUS
<1> USE DEF Goto, Release, ExpireCas, CasHolds, Owns, Waiting, Driving, Pcs, Terminal, Jobs, NoJob, Row, Drivers, Controllers,
   row, run, task, lim, hist
<1>1. ASSUME NEW t \in Turns, CreateJob(t) PROVE TypeOK'
  BY <1>1 DEF CreateJob, TypeOK
<1>2. ASSUME NEW t \in Turns, CreateFails(t) PROVE TypeOK'
  BY <1>2 DEF CreateFails, TypeOK
<1>3. ASSUME NEW t \in Turns, TurnFails(t) PROVE TypeOK'
  BY <1>3 DEF TurnFails, TypeOK
<1>4. ASSUME NEW r \in Resumes, ResumeRead(r) PROVE TypeOK'
  BY <1>4 DEF ResumeRead, TypeOK
<1>5. ASSUME NEW r \in Resumes, ResumeStale(r) PROVE TypeOK'
  BY <1>5, RowCases DEF ResumeStale, TypeOK, Terminal
<1>6. ASSUME NEW r \in Resumes, ResolveRead(r) PROVE TypeOK'
  BY <1>6 DEF ResolveRead, TypeOK
<1>7. ASSUME NEW r \in Resumes, ResolveExpires(r) PROVE TypeOK'
  BY <1>7, RowCases DEF ResolveExpires, TypeOK, Terminal
<1>8. ASSUME NEW r \in Resumes, Claim(r) PROVE TypeOK'
  BY <1>8, RowCases DEF Claim, TypeOK, Terminal
<1>9. ASSUME NEW r \in Resumes, ClaimErrs(r) PROVE TypeOK'
  BY <1>9 DEF ClaimErrs, TypeOK
<1>10. ASSUME NEW r \in Resumes, ResumeFails(r) PROVE TypeOK'
  BY <1>10 DEF ResumeFails, TypeOK
<1>11. ASSUME NEW d \in Drivers, Admit(d) PROVE TypeOK'
  <2>1. pending' \in Nat
    BY <1>11 DEF Admit, TypeOK
  <2> QED
    BY <1>11, <2>1 DEF Admit, TypeOK
<1>12. ASSUME NEW d \in Drivers, AdmitOpen(d) PROVE TypeOK'
  BY <1>12 DEF AdmitOpen, TypeOK
<1>13. ASSUME NEW d \in Drivers, Start(d) PROVE TypeOK'
  BY <1>13 DEF Start, TypeOK
<1>14. ASSUME NEW d \in Drivers, Interrupt(d) PROVE TypeOK'
  BY <1>14 DEF Interrupt, TypeOK
<1>15. ASSUME NEW d \in Drivers, Pause(d) PROVE TypeOK'
  BY <1>15, RowCases DEF Pause, TypeOK, Terminal
<1>16. ASSUME NEW d \in Drivers, PauseReleases(d) PROVE TypeOK'
  BY <1>16 DEF PauseReleases, TypeOK
<1>17. ASSUME NEW d \in Drivers, Finish(d) PROVE TypeOK'
  BY <1>17 DEF Finish, TypeOK
<1>18. ASSUME NEW d \in Drivers, Guard(d) PROVE TypeOK'
  BY <1>18 DEF Guard, TypeOK
<1>19. ASSUME NEW d \in Drivers, EmitFinal(d) PROVE TypeOK'
  BY <1>19 DEF EmitFinal, TypeOK
<1>20. ASSUME NEW d \in Drivers, Complete(d) PROVE TypeOK'
  BY <1>20 DEF Complete, TypeOK
<1>21. ASSUME NEW d \in Drivers, StoreTerminal(d) PROVE TypeOK'
  BY <1>21, RowCases DEF StoreTerminal, TypeOK, Terminal
<1>22. ASSUME NEW d \in Drivers, GiveBack(d) PROVE TypeOK'
  BY <1>22 DEF GiveBack, TypeOK
<1>23. ASSUME NEW a \in Aborts, AbortRead(a) PROVE TypeOK'
  BY <1>23 DEF AbortRead, TypeOK
<1>24. ASSUME NEW a \in Aborts, AbortRemove(a) PROVE TypeOK'
  BY <1>24, RowCases DEF AbortRemove, TypeOK, Terminal
<1>25. ASSUME CounterExpires PROVE TypeOK'
  BY <1>25 DEF CounterExpires, TypeOK
<1>26. ASSUME WindowCloses PROVE TypeOK'
  BY <1>26 DEF WindowCloses, TypeOK
<1>27. ASSUME SweepRead PROVE TypeOK'
  BY <1>27 DEF SweepRead, TypeOK
<1>28. ASSUME SweepExpires PROVE TypeOK'
  BY <1>28, RowCases DEF SweepExpires, TypeOK, Terminal
<1>29. ASSUME JobExpires PROVE TypeOK'
  BY <1>29 DEF JobExpires, TypeOK
<1>30. ASSUME DropRuntime PROVE TypeOK'
  BY <1>30 DEF DropRuntime, TypeOK
<1>31. CASE UNCHANGED vars
  BY <1>31 DEF TypeOK, vars
<1> QED
  BY <1>31, <1>1, <1>2, <1>3, <1>4, <1>5, <1>6, <1>7, <1>8, <1>9, <1>10, <1>11,
  <1>12, <1>13, <1>14, <1>15, <1>16, <1>17, <1>18, <1>19, <1>20, <1>21, <1>22,
  <1>23, <1>24, <1>25, <1>26, <1>27, <1>28, <1>29, <1>30
  DEF Next, TurnStep, ResumeStep, DriverStep, Sweeps

\* Only a pause puts an action in the row, and leaving the pause removes it.
LEMMA RowShapeStep == TypeOK /\ RowShape /\ [Next]_vars => RowShape'
<1> SUFFICES ASSUME TypeOK /\ RowShape, [Next]_vars PROVE RowShape'
  OBVIOUS
<1> USE JobsAssumption, RowCases
<1> USE DEF Goto, Release, ExpireCas, CasHolds, Owns, Waiting, Driving, Pcs, Terminal, Jobs, NoJob, Row, Drivers, Controllers,
   row, run, task, lim, hist
<1>1. ASSUME NEW t \in Turns, CreateJob(t) PROVE RowShape'
  BY <1>1 DEF CreateJob, TypeOK, RowShape
<1>2. ASSUME NEW t \in Turns, CreateFails(t) PROVE RowShape'
  BY <1>2 DEF CreateFails, TypeOK, RowShape
<1>3. ASSUME NEW t \in Turns, TurnFails(t) PROVE RowShape'
  BY <1>3 DEF TurnFails, TypeOK, RowShape
<1>4. ASSUME NEW r \in Resumes, ResumeRead(r) PROVE RowShape'
  BY <1>4 DEF ResumeRead, TypeOK, RowShape
<1>5. ASSUME NEW r \in Resumes, ResumeStale(r) PROVE RowShape'
  BY <1>5 DEF ResumeStale, TypeOK, RowShape
<1>6. ASSUME NEW r \in Resumes, ResolveRead(r) PROVE RowShape'
  BY <1>6 DEF ResolveRead, TypeOK, RowShape
<1>7. ASSUME NEW r \in Resumes, ResolveExpires(r) PROVE RowShape'
  BY <1>7 DEF ResolveExpires, TypeOK, RowShape
<1>8. ASSUME NEW r \in Resumes, Claim(r) PROVE RowShape'
  BY <1>8 DEF Claim, TypeOK, RowShape
<1>9. ASSUME NEW r \in Resumes, ClaimErrs(r) PROVE RowShape'
  BY <1>9 DEF ClaimErrs, TypeOK, RowShape
<1>10. ASSUME NEW r \in Resumes, ResumeFails(r) PROVE RowShape'
  BY <1>10 DEF ResumeFails, TypeOK, RowShape
<1>11. ASSUME NEW d \in Drivers, Admit(d) PROVE RowShape'
  BY <1>11 DEF Admit, TypeOK, RowShape
<1>12. ASSUME NEW d \in Drivers, AdmitOpen(d) PROVE RowShape'
  BY <1>12 DEF AdmitOpen, TypeOK, RowShape
<1>13. ASSUME NEW d \in Drivers, Start(d) PROVE RowShape'
  BY <1>13 DEF Start, TypeOK, RowShape
<1>14. ASSUME NEW d \in Drivers, Interrupt(d) PROVE RowShape'
  BY <1>14 DEF Interrupt, TypeOK, RowShape
<1>15. ASSUME NEW d \in Drivers, Pause(d) PROVE RowShape'
  BY <1>15 DEF Pause, TypeOK, RowShape
<1>16. ASSUME NEW d \in Drivers, PauseReleases(d) PROVE RowShape'
  BY <1>16 DEF PauseReleases, TypeOK, RowShape
<1>17. ASSUME NEW d \in Drivers, Finish(d) PROVE RowShape'
  BY <1>17 DEF Finish, TypeOK, RowShape
<1>18. ASSUME NEW d \in Drivers, Guard(d) PROVE RowShape'
  BY <1>18 DEF Guard, TypeOK, RowShape
<1>19. ASSUME NEW d \in Drivers, EmitFinal(d) PROVE RowShape'
  BY <1>19 DEF EmitFinal, TypeOK, RowShape
<1>20. ASSUME NEW d \in Drivers, Complete(d) PROVE RowShape'
  BY <1>20 DEF Complete, TypeOK, RowShape
<1>21. ASSUME NEW d \in Drivers, StoreTerminal(d) PROVE RowShape'
  BY <1>21 DEF StoreTerminal, TypeOK, RowShape
<1>22. ASSUME NEW d \in Drivers, GiveBack(d) PROVE RowShape'
  BY <1>22 DEF GiveBack, TypeOK, RowShape
<1>23. ASSUME NEW a \in Aborts, AbortRead(a) PROVE RowShape'
  BY <1>23 DEF AbortRead, TypeOK, RowShape
<1>24. ASSUME NEW a \in Aborts, AbortRemove(a) PROVE RowShape'
  BY <1>24 DEF AbortRemove, TypeOK, RowShape
<1>25. ASSUME CounterExpires PROVE RowShape'
  BY <1>25 DEF CounterExpires, TypeOK, RowShape
<1>26. ASSUME WindowCloses PROVE RowShape'
  BY <1>26 DEF WindowCloses, TypeOK, RowShape
<1>27. ASSUME SweepRead PROVE RowShape'
  BY <1>27 DEF SweepRead, TypeOK, RowShape
<1>28. ASSUME SweepExpires PROVE RowShape'
  BY <1>28 DEF SweepExpires, TypeOK, RowShape
<1>29. ASSUME JobExpires PROVE RowShape'
  BY <1>29 DEF JobExpires, TypeOK, RowShape
<1>30. ASSUME DropRuntime PROVE RowShape'
  BY <1>30 DEF DropRuntime, TypeOK, RowShape
<1>31. CASE UNCHANGED vars
  BY <1>31 DEF TypeOK, RowShape, vars
<1> QED
  BY <1>31, <1>1, <1>2, <1>3, <1>4, <1>5, <1>6, <1>7, <1>8, <1>9, <1>10, <1>11,
  <1>12, <1>13, <1>14, <1>15, <1>16, <1>17, <1>18, <1>19, <1>20, <1>21, <1>22,
  <1>23, <1>24, <1>25, <1>26, <1>27, <1>28, <1>29, <1>30
  DEF Next, TurnStep, ResumeStep, DriverStep, Sweeps

\* An action is named by a driver that has paused, and pauses only once.
LEMMA MadeStep == TypeOK /\ RowShape /\ ActionsAreMade /\ [Next]_vars => ActionsAreMade'
<1> SUFFICES ASSUME TypeOK /\ RowShape /\ ActionsAreMade, [Next]_vars PROVE ActionsAreMade'
  OBVIOUS
<1> USE JobsAssumption, RowCases
<1> USE DEF Goto, Release, ExpireCas, CasHolds, Owns, Waiting, Driving, Pcs, Terminal, Jobs, NoJob, Row, Drivers, Controllers,
   row, run, task, lim, hist
<1>1. ASSUME NEW t \in Turns, CreateJob(t) PROVE ActionsAreMade'
  BY <1>1 DEF CreateJob, TypeOK, RowShape, ActionsAreMade, Made
<1>2. ASSUME NEW t \in Turns, CreateFails(t) PROVE ActionsAreMade'
  BY <1>2 DEF CreateFails, TypeOK, RowShape, ActionsAreMade, Made
<1>3. ASSUME NEW t \in Turns, TurnFails(t) PROVE ActionsAreMade'
  BY <1>3 DEF TurnFails, TypeOK, RowShape, ActionsAreMade, Made
<1>4. ASSUME NEW r \in Resumes, ResumeRead(r) PROVE ActionsAreMade'
  BY <1>4 DEF ResumeRead, TypeOK, RowShape, ActionsAreMade, Made
<1>5. ASSUME NEW r \in Resumes, ResumeStale(r) PROVE ActionsAreMade'
  BY <1>5 DEF ResumeStale, TypeOK, RowShape, ActionsAreMade, Made
<1>6. ASSUME NEW r \in Resumes, ResolveRead(r) PROVE ActionsAreMade'
  BY <1>6 DEF ResolveRead, TypeOK, RowShape, ActionsAreMade, Made
<1>7. ASSUME NEW r \in Resumes, ResolveExpires(r) PROVE ActionsAreMade'
  BY <1>7 DEF ResolveExpires, TypeOK, RowShape, ActionsAreMade, Made
<1>8. ASSUME NEW r \in Resumes, Claim(r) PROVE ActionsAreMade'
  BY <1>8 DEF Claim, TypeOK, RowShape, ActionsAreMade, Made
<1>9. ASSUME NEW r \in Resumes, ClaimErrs(r) PROVE ActionsAreMade'
  BY <1>9 DEF ClaimErrs, TypeOK, RowShape, ActionsAreMade, Made
<1>10. ASSUME NEW r \in Resumes, ResumeFails(r) PROVE ActionsAreMade'
  BY <1>10 DEF ResumeFails, TypeOK, RowShape, ActionsAreMade, Made
<1>11. ASSUME NEW d \in Drivers, Admit(d) PROVE ActionsAreMade'
  BY <1>11 DEF Admit, TypeOK, RowShape, ActionsAreMade, Made
<1>12. ASSUME NEW d \in Drivers, AdmitOpen(d) PROVE ActionsAreMade'
  BY <1>12 DEF AdmitOpen, TypeOK, RowShape, ActionsAreMade, Made
<1>13. ASSUME NEW d \in Drivers, Start(d) PROVE ActionsAreMade'
  BY <1>13 DEF Start, TypeOK, RowShape, ActionsAreMade, Made
<1>14. ASSUME NEW d \in Drivers, Interrupt(d) PROVE ActionsAreMade'
  BY <1>14 DEF Interrupt, TypeOK, RowShape, ActionsAreMade, Made
<1>15. ASSUME NEW d \in Drivers, Pause(d) PROVE ActionsAreMade'
  BY <1>15 DEF Pause, TypeOK, RowShape, ActionsAreMade, Made
<1>16. ASSUME NEW d \in Drivers, PauseReleases(d) PROVE ActionsAreMade'
  BY <1>16 DEF PauseReleases, TypeOK, RowShape, ActionsAreMade, Made
<1>17. ASSUME NEW d \in Drivers, Finish(d) PROVE ActionsAreMade'
  BY <1>17 DEF Finish, TypeOK, RowShape, ActionsAreMade, Made
<1>18. ASSUME NEW d \in Drivers, Guard(d) PROVE ActionsAreMade'
  BY <1>18 DEF Guard, TypeOK, RowShape, ActionsAreMade, Made
<1>19. ASSUME NEW d \in Drivers, EmitFinal(d) PROVE ActionsAreMade'
  BY <1>19 DEF EmitFinal, TypeOK, RowShape, ActionsAreMade, Made
<1>20. ASSUME NEW d \in Drivers, Complete(d) PROVE ActionsAreMade'
  BY <1>20 DEF Complete, TypeOK, RowShape, ActionsAreMade, Made
<1>21. ASSUME NEW d \in Drivers, StoreTerminal(d) PROVE ActionsAreMade'
  BY <1>21 DEF StoreTerminal, TypeOK, RowShape, ActionsAreMade, Made
<1>22. ASSUME NEW d \in Drivers, GiveBack(d) PROVE ActionsAreMade'
  BY <1>22 DEF GiveBack, TypeOK, RowShape, ActionsAreMade, Made
<1>23. ASSUME NEW a \in Aborts, AbortRead(a) PROVE ActionsAreMade'
  BY <1>23 DEF AbortRead, TypeOK, RowShape, ActionsAreMade, Made
<1>24. ASSUME NEW a \in Aborts, AbortRemove(a) PROVE ActionsAreMade'
  BY <1>24 DEF AbortRemove, TypeOK, RowShape, ActionsAreMade, Made
<1>25. ASSUME CounterExpires PROVE ActionsAreMade'
  BY <1>25 DEF CounterExpires, TypeOK, RowShape, ActionsAreMade, Made
<1>26. ASSUME WindowCloses PROVE ActionsAreMade'
  BY <1>26 DEF WindowCloses, TypeOK, RowShape, ActionsAreMade, Made
<1>27. ASSUME SweepRead PROVE ActionsAreMade'
  BY <1>27 DEF SweepRead, TypeOK, RowShape, ActionsAreMade, Made
<1>28. ASSUME SweepExpires PROVE ActionsAreMade'
  BY <1>28 DEF SweepExpires, TypeOK, RowShape, ActionsAreMade, Made
<1>29. ASSUME JobExpires PROVE ActionsAreMade'
  BY <1>29 DEF JobExpires, TypeOK, RowShape, ActionsAreMade, Made
<1>30. ASSUME DropRuntime PROVE ActionsAreMade'
  BY <1>30 DEF DropRuntime, TypeOK, RowShape, ActionsAreMade, Made
<1>31. CASE UNCHANGED vars
  BY <1>31 DEF TypeOK, RowShape, ActionsAreMade, Made, vars
<1> QED
  BY <1>31, <1>1, <1>2, <1>3, <1>4, <1>5, <1>6, <1>7, <1>8, <1>9, <1>10, <1>11,
  <1>12, <1>13, <1>14, <1>15, <1>16, <1>17, <1>18, <1>19, <1>20, <1>21, <1>22,
  <1>23, <1>24, <1>25, <1>26, <1>27, <1>28, <1>29, <1>30
  DEF Next, TurnStep, ResumeStep, DriverStep, Sweeps

\* An expiry decides the action it takes from the row, and no other.
LEMMA ExpiryDecides ==
  ASSUME TypeOK, RowShape, Decided, NEW a \in Drivers \cup {None}, ExpireCas(a)
  PROVE  Decided'
<1> DEFINE b == job.action
<1>1. CASE UNCHANGED <<job, outcome>>
  BY <1>1 DEF Decided
<1>2. CASE /\ CasHolds("requires_action", a)
           /\ job' = Row(job.gen, "aborted", None)
           /\ outcome' = [outcome EXCEPT ![b] = @ \cup {"expired"}]
  <2>1. b \in Drivers /\ outcome[b] = {} /\ job'.action = None
    BY <1>2, RowCases DEF TypeOK, RowShape, Decided, CasHolds, Row
  <2>2. /\ outcome'[b] = {"expired"}
        /\ \A c \in Drivers : c # b => outcome'[c] = outcome[c]
    BY <1>2, <2>1 DEF TypeOK
  <2> QED
    BY <2>1, <2>2, JobsAssumption DEF Decided, Drivers, Controllers
<1> QED
  BY <1>1, <1>2 DEF ExpireCas, RowShape, CasHolds

\* A step that records no decision and puts no action into the row keeps Decided.
LEMMA UndecidedStep ==
  ASSUME Decided, outcome' = outcome, job'.action \in {None, job.action}
  PROVE  Decided'
<1> SUFFICES ASSUME NEW a \in Drivers, outcome[a] # {}
             PROVE  /\ job'.action # a
                    /\ \E x \in Resumes \cup {"expired"} : outcome[a] = {x}
  BY DEF Decided
<1>1. None # a
  BY JobsAssumption DEF Drivers, Controllers
<1> QED
  BY <1>1 DEF Decided

\* The compare-and-set that decides an action also takes it from the row.
LEMMA DecidedStep == TypeOK /\ RowShape /\ ActionsAreMade /\ Decided /\ WantsOwn /\ [Next]_vars => Decided'
<1> SUFFICES ASSUME TypeOK /\ RowShape /\ ActionsAreMade /\ Decided /\ WantsOwn, [Next]_vars PROVE Decided'
  OBVIOUS
<1> USE JobsAssumption, RowCases
<1> USE DEF Goto, Release, ExpireCas, CasHolds, Owns, Waiting, Driving, Pcs, Terminal, Jobs, NoJob, Row, Drivers, Controllers,
   row, run, task, lim, hist
<1>1. ASSUME NEW t \in Turns, CreateJob(t) PROVE Decided'
  <2>1. outcome' = outcome /\ job'.action \in {None, job.action}
    BY <1>1 DEF CreateJob
  <2> QED
    BY <2>1, UndecidedStep
<1>2. ASSUME NEW t \in Turns, CreateFails(t) PROVE Decided'
  <2>1. UNCHANGED <<job, outcome>>
    BY <1>2 DEF CreateFails
  <2> QED
    BY <2>1 DEF Decided
<1>3. ASSUME NEW t \in Turns, TurnFails(t) PROVE Decided'
  <2>1. UNCHANGED <<job, outcome>>
    BY <1>3 DEF TurnFails
  <2> QED
    BY <2>1 DEF Decided
<1>4. ASSUME NEW r \in Resumes, ResumeRead(r) PROVE Decided'
  <2>1. UNCHANGED <<job, outcome>>
    BY <1>4 DEF ResumeRead
  <2> QED
    BY <2>1 DEF Decided
<1>5. ASSUME NEW r \in Resumes, ResumeStale(r) PROVE Decided'
  <2>1. ExpireCas(want[r])
    BY <1>5 DEF ResumeStale
  <2> QED
    BY <2>1, ExpiryDecides DEF TypeOK
<1>6. ASSUME NEW r \in Resumes, ResolveRead(r) PROVE Decided'
  <2>1. UNCHANGED <<job, outcome>>
    BY <1>6 DEF ResolveRead
  <2> QED
    BY <2>1 DEF Decided
<1>7. ASSUME NEW r \in Resumes, ResolveExpires(r) PROVE Decided'
  <2>1. ExpireCas(want[r])
    BY <1>7 DEF ResolveExpires
  <2> QED
    BY <2>1, ExpiryDecides DEF TypeOK
<1>8. ASSUME NEW r \in Resumes, Claim(r) PROVE Decided'
  BY <1>8 DEF Claim, TypeOK, RowShape, ActionsAreMade, Decided, WantsOwn, Made
<1>9. ASSUME NEW r \in Resumes, ClaimErrs(r) PROVE Decided'
  <2>1. UNCHANGED <<job, outcome>>
    BY <1>9 DEF ClaimErrs
  <2> QED
    BY <2>1 DEF Decided
<1>10. ASSUME NEW r \in Resumes, ResumeFails(r) PROVE Decided'
  <2>1. UNCHANGED <<job, outcome>>
    BY <1>10 DEF ResumeFails
  <2> QED
    BY <2>1 DEF Decided
<1>11. ASSUME NEW d \in Drivers, Admit(d) PROVE Decided'
  <2>1. UNCHANGED <<job, outcome>>
    BY <1>11 DEF Admit
  <2> QED
    BY <2>1 DEF Decided
<1>12. ASSUME NEW d \in Drivers, AdmitOpen(d) PROVE Decided'
  <2>1. UNCHANGED <<job, outcome>>
    BY <1>12 DEF AdmitOpen
  <2> QED
    BY <2>1 DEF Decided
<1>13. ASSUME NEW d \in Drivers, Start(d) PROVE Decided'
  <2>1. UNCHANGED <<job, outcome>>
    BY <1>13 DEF Start
  <2> QED
    BY <2>1 DEF Decided
<1>14. ASSUME NEW d \in Drivers, Interrupt(d) PROVE Decided'
  <2>1. UNCHANGED <<job, outcome>>
    BY <1>14 DEF Interrupt
  <2> QED
    BY <2>1 DEF Decided
<1>15. ASSUME NEW d \in Drivers, Pause(d) PROVE Decided'
  BY <1>15 DEF Pause, TypeOK, RowShape, ActionsAreMade, Decided, WantsOwn, Made
<1>16. ASSUME NEW d \in Drivers, PauseReleases(d) PROVE Decided'
  <2>1. UNCHANGED <<job, outcome>>
    BY <1>16 DEF PauseReleases
  <2> QED
    BY <2>1 DEF Decided
<1>17. ASSUME NEW d \in Drivers, Finish(d) PROVE Decided'
  <2>1. UNCHANGED <<job, outcome>>
    BY <1>17 DEF Finish
  <2> QED
    BY <2>1 DEF Decided
<1>18. ASSUME NEW d \in Drivers, Guard(d) PROVE Decided'
  <2>1. UNCHANGED <<job, outcome>>
    BY <1>18 DEF Guard
  <2> QED
    BY <2>1 DEF Decided
<1>19. ASSUME NEW d \in Drivers, EmitFinal(d) PROVE Decided'
  <2>1. UNCHANGED <<job, outcome>>
    BY <1>19 DEF EmitFinal
  <2> QED
    BY <2>1 DEF Decided
<1>20. ASSUME NEW d \in Drivers, Complete(d) PROVE Decided'
  <2>1. UNCHANGED <<job, outcome>>
    BY <1>20 DEF Complete
  <2> QED
    BY <2>1 DEF Decided
<1>21. ASSUME NEW d \in Drivers, StoreTerminal(d) PROVE Decided'
  <2>1. outcome' = outcome /\ job'.action \in {None, job.action}
    BY <1>21 DEF StoreTerminal
  <2> QED
    BY <2>1, UndecidedStep
<1>22. ASSUME NEW d \in Drivers, GiveBack(d) PROVE Decided'
  <2>1. UNCHANGED <<job, outcome>>
    BY <1>22 DEF GiveBack
  <2> QED
    BY <2>1 DEF Decided
<1>23. ASSUME NEW a \in Aborts, AbortRead(a) PROVE Decided'
  <2>1. UNCHANGED <<job, outcome>>
    BY <1>23 DEF AbortRead
  <2> QED
    BY <2>1 DEF Decided
<1>24. ASSUME NEW a \in Aborts, AbortRemove(a) PROVE Decided'
  <2>1. outcome' = outcome /\ job'.action \in {None, job.action}
    BY <1>24 DEF AbortRemove
  <2> QED
    BY <2>1, UndecidedStep
<1>25. ASSUME CounterExpires PROVE Decided'
  <2>1. UNCHANGED <<job, outcome>>
    BY <1>25 DEF CounterExpires
  <2> QED
    BY <2>1 DEF Decided
<1>26. ASSUME WindowCloses PROVE Decided'
  <2>1. UNCHANGED <<job, outcome>>
    BY <1>26 DEF WindowCloses
  <2> QED
    BY <2>1 DEF Decided
<1>27. ASSUME SweepRead PROVE Decided'
  <2>1. UNCHANGED <<job, outcome>>
    BY <1>27 DEF SweepRead
  <2> QED
    BY <2>1 DEF Decided
<1>28. ASSUME SweepExpires PROVE Decided'
  <2>1. ExpireCas(sweep)
    BY <1>28 DEF SweepExpires
  <2> QED
    BY <2>1, ExpiryDecides DEF TypeOK
<1>29. ASSUME JobExpires PROVE Decided'
  <2>1. outcome' = outcome /\ job'.action \in {None, job.action}
    BY <1>29 DEF JobExpires
  <2> QED
    BY <2>1, UndecidedStep
<1>30. ASSUME DropRuntime PROVE Decided'
  <2>1. UNCHANGED <<job, outcome>>
    BY <1>30 DEF DropRuntime
  <2> QED
    BY <2>1 DEF Decided
<1>31. CASE UNCHANGED vars
  BY <1>31 DEF TypeOK, RowShape, ActionsAreMade, Decided, WantsOwn, vars
<1> QED
  BY <1>31, <1>1, <1>2, <1>3, <1>4, <1>5, <1>6, <1>7, <1>8, <1>9, <1>10, <1>11,
  <1>12, <1>13, <1>14, <1>15, <1>16, <1>17, <1>18, <1>19, <1>20, <1>21, <1>22,
  <1>23, <1>24, <1>25, <1>26, <1>27, <1>28, <1>29, <1>30
  DEF Next, TurnStep, ResumeStep, DriverStep, Sweeps

\* Only createJob starts a generation, and each turn calls it once.
LEMMA GenerationsStep == TypeOK /\ RowShape /\ Generations /\ [Next]_vars => Generations'
<1> SUFFICES ASSUME TypeOK /\ RowShape /\ Generations, [Next]_vars PROVE Generations'
  OBVIOUS
<1> USE JobsAssumption, RowCases
<1> USE DEF Goto, Release, ExpireCas, CasHolds, Owns, Waiting, Driving, Pcs, Terminal, Jobs, NoJob, Row, Drivers, Controllers,
   row, run, task, lim, hist
<1>1. ASSUME NEW t \in Turns, CreateJob(t) PROVE Generations'
  BY <1>1 DEF CreateJob, TypeOK, RowShape, Generations, Started
<1>2. ASSUME NEW t \in Turns, CreateFails(t) PROVE Generations'
  BY <1>2 DEF CreateFails, TypeOK, RowShape, Generations, Started
<1>3. ASSUME NEW t \in Turns, TurnFails(t) PROVE Generations'
  BY <1>3 DEF TurnFails, TypeOK, RowShape, Generations, Started
<1>4. ASSUME NEW r \in Resumes, ResumeRead(r) PROVE Generations'
  BY <1>4 DEF ResumeRead, TypeOK, RowShape, Generations, Started
<1>5. ASSUME NEW r \in Resumes, ResumeStale(r) PROVE Generations'
  BY <1>5 DEF ResumeStale, TypeOK, RowShape, Generations, Started
<1>6. ASSUME NEW r \in Resumes, ResolveRead(r) PROVE Generations'
  BY <1>6 DEF ResolveRead, TypeOK, RowShape, Generations, Started
<1>7. ASSUME NEW r \in Resumes, ResolveExpires(r) PROVE Generations'
  BY <1>7 DEF ResolveExpires, TypeOK, RowShape, Generations, Started
<1>8. ASSUME NEW r \in Resumes, Claim(r) PROVE Generations'
  BY <1>8 DEF Claim, TypeOK, RowShape, Generations, Started
<1>9. ASSUME NEW r \in Resumes, ClaimErrs(r) PROVE Generations'
  BY <1>9 DEF ClaimErrs, TypeOK, RowShape, Generations, Started
<1>10. ASSUME NEW r \in Resumes, ResumeFails(r) PROVE Generations'
  BY <1>10 DEF ResumeFails, TypeOK, RowShape, Generations, Started
<1>11. ASSUME NEW d \in Drivers, Admit(d) PROVE Generations'
  BY <1>11 DEF Admit, TypeOK, RowShape, Generations, Started
<1>12. ASSUME NEW d \in Drivers, AdmitOpen(d) PROVE Generations'
  BY <1>12 DEF AdmitOpen, TypeOK, RowShape, Generations, Started
<1>13. ASSUME NEW d \in Drivers, Start(d) PROVE Generations'
  BY <1>13 DEF Start, TypeOK, RowShape, Generations, Started
<1>14. ASSUME NEW d \in Drivers, Interrupt(d) PROVE Generations'
  BY <1>14 DEF Interrupt, TypeOK, RowShape, Generations, Started
<1>15. ASSUME NEW d \in Drivers, Pause(d) PROVE Generations'
  BY <1>15 DEF Pause, TypeOK, RowShape, Generations, Started
<1>16. ASSUME NEW d \in Drivers, PauseReleases(d) PROVE Generations'
  BY <1>16 DEF PauseReleases, TypeOK, RowShape, Generations, Started
<1>17. ASSUME NEW d \in Drivers, Finish(d) PROVE Generations'
  BY <1>17 DEF Finish, TypeOK, RowShape, Generations, Started
<1>18. ASSUME NEW d \in Drivers, Guard(d) PROVE Generations'
  BY <1>18 DEF Guard, TypeOK, RowShape, Generations, Started
<1>19. ASSUME NEW d \in Drivers, EmitFinal(d) PROVE Generations'
  BY <1>19 DEF EmitFinal, TypeOK, RowShape, Generations, Started
<1>20. ASSUME NEW d \in Drivers, Complete(d) PROVE Generations'
  BY <1>20 DEF Complete, TypeOK, RowShape, Generations, Started
<1>21. ASSUME NEW d \in Drivers, StoreTerminal(d) PROVE Generations'
  BY <1>21 DEF StoreTerminal, TypeOK, RowShape, Generations, Started
<1>22. ASSUME NEW d \in Drivers, GiveBack(d) PROVE Generations'
  BY <1>22 DEF GiveBack, TypeOK, RowShape, Generations, Started
<1>23. ASSUME NEW a \in Aborts, AbortRead(a) PROVE Generations'
  BY <1>23 DEF AbortRead, TypeOK, RowShape, Generations, Started
<1>24. ASSUME NEW a \in Aborts, AbortRemove(a) PROVE Generations'
  BY <1>24 DEF AbortRemove, TypeOK, RowShape, Generations, Started
<1>25. ASSUME CounterExpires PROVE Generations'
  BY <1>25 DEF CounterExpires, TypeOK, RowShape, Generations, Started
<1>26. ASSUME WindowCloses PROVE Generations'
  BY <1>26 DEF WindowCloses, TypeOK, RowShape, Generations, Started
<1>27. ASSUME SweepRead PROVE Generations'
  BY <1>27 DEF SweepRead, TypeOK, RowShape, Generations, Started
<1>28. ASSUME SweepExpires PROVE Generations'
  BY <1>28 DEF SweepExpires, TypeOK, RowShape, Generations, Started
<1>29. ASSUME JobExpires PROVE Generations'
  BY <1>29 DEF JobExpires, TypeOK, RowShape, Generations, Started
<1>30. ASSUME DropRuntime PROVE Generations'
  BY <1>30 DEF DropRuntime, TypeOK, RowShape, Generations, Started
<1>31. CASE UNCHANGED vars
  BY <1>31 DEF TypeOK, RowShape, Generations, Started, vars
<1> QED
  BY <1>31, <1>1, <1>2, <1>3, <1>4, <1>5, <1>6, <1>7, <1>8, <1>9, <1>10, <1>11,
  <1>12, <1>13, <1>14, <1>15, <1>16, <1>17, <1>18, <1>19, <1>20, <1>21, <1>22,
  <1>23, <1>24, <1>25, <1>26, <1>27, <1>28, <1>29, <1>30
  DEF Next, TurnStep, ResumeStep, DriverStep, Sweeps

\* A resume reads the action and the generation of one row together.
LEMMA WantsStep == TypeOK /\ RowShape /\ ActionsAreMade /\ WantsOwn /\ [Next]_vars => WantsOwn'
<1> SUFFICES ASSUME TypeOK /\ RowShape /\ ActionsAreMade /\ WantsOwn, [Next]_vars PROVE WantsOwn'
  OBVIOUS
<1> USE JobsAssumption, RowCases
<1> USE DEF Goto, Release, ExpireCas, CasHolds, Owns, Waiting, Driving, Pcs, Terminal, Jobs, NoJob, Row, Drivers, Controllers,
   row, run, task, lim, hist
<1>1. ASSUME NEW t \in Turns, CreateJob(t) PROVE WantsOwn'
  BY <1>1 DEF CreateJob, TypeOK, RowShape, ActionsAreMade, WantsOwn, Made
<1>2. ASSUME NEW t \in Turns, CreateFails(t) PROVE WantsOwn'
  BY <1>2 DEF CreateFails, TypeOK, RowShape, ActionsAreMade, WantsOwn, Made
<1>3. ASSUME NEW t \in Turns, TurnFails(t) PROVE WantsOwn'
  BY <1>3 DEF TurnFails, TypeOK, RowShape, ActionsAreMade, WantsOwn, Made
<1>4. ASSUME NEW r \in Resumes, ResumeRead(r) PROVE WantsOwn'
  BY <1>4 DEF ResumeRead, TypeOK, RowShape, ActionsAreMade, WantsOwn, Made
<1>5. ASSUME NEW r \in Resumes, ResumeStale(r) PROVE WantsOwn'
  BY <1>5 DEF ResumeStale, TypeOK, RowShape, ActionsAreMade, WantsOwn, Made
<1>6. ASSUME NEW r \in Resumes, ResolveRead(r) PROVE WantsOwn'
  BY <1>6 DEF ResolveRead, TypeOK, RowShape, ActionsAreMade, WantsOwn, Made
<1>7. ASSUME NEW r \in Resumes, ResolveExpires(r) PROVE WantsOwn'
  BY <1>7 DEF ResolveExpires, TypeOK, RowShape, ActionsAreMade, WantsOwn, Made
<1>8. ASSUME NEW r \in Resumes, Claim(r) PROVE WantsOwn'
  BY <1>8 DEF Claim, TypeOK, RowShape, ActionsAreMade, WantsOwn, Made
<1>9. ASSUME NEW r \in Resumes, ClaimErrs(r) PROVE WantsOwn'
  BY <1>9 DEF ClaimErrs, TypeOK, RowShape, ActionsAreMade, WantsOwn, Made
<1>10. ASSUME NEW r \in Resumes, ResumeFails(r) PROVE WantsOwn'
  BY <1>10 DEF ResumeFails, TypeOK, RowShape, ActionsAreMade, WantsOwn, Made
<1>11. ASSUME NEW d \in Drivers, Admit(d) PROVE WantsOwn'
  BY <1>11 DEF Admit, TypeOK, RowShape, ActionsAreMade, WantsOwn, Made
<1>12. ASSUME NEW d \in Drivers, AdmitOpen(d) PROVE WantsOwn'
  BY <1>12 DEF AdmitOpen, TypeOK, RowShape, ActionsAreMade, WantsOwn, Made
<1>13. ASSUME NEW d \in Drivers, Start(d) PROVE WantsOwn'
  BY <1>13 DEF Start, TypeOK, RowShape, ActionsAreMade, WantsOwn, Made
<1>14. ASSUME NEW d \in Drivers, Interrupt(d) PROVE WantsOwn'
  BY <1>14 DEF Interrupt, TypeOK, RowShape, ActionsAreMade, WantsOwn, Made
<1>15. ASSUME NEW d \in Drivers, Pause(d) PROVE WantsOwn'
  BY <1>15 DEF Pause, TypeOK, RowShape, ActionsAreMade, WantsOwn, Made
<1>16. ASSUME NEW d \in Drivers, PauseReleases(d) PROVE WantsOwn'
  BY <1>16 DEF PauseReleases, TypeOK, RowShape, ActionsAreMade, WantsOwn, Made
<1>17. ASSUME NEW d \in Drivers, Finish(d) PROVE WantsOwn'
  BY <1>17 DEF Finish, TypeOK, RowShape, ActionsAreMade, WantsOwn, Made
<1>18. ASSUME NEW d \in Drivers, Guard(d) PROVE WantsOwn'
  BY <1>18 DEF Guard, TypeOK, RowShape, ActionsAreMade, WantsOwn, Made
<1>19. ASSUME NEW d \in Drivers, EmitFinal(d) PROVE WantsOwn'
  BY <1>19 DEF EmitFinal, TypeOK, RowShape, ActionsAreMade, WantsOwn, Made
<1>20. ASSUME NEW d \in Drivers, Complete(d) PROVE WantsOwn'
  BY <1>20 DEF Complete, TypeOK, RowShape, ActionsAreMade, WantsOwn, Made
<1>21. ASSUME NEW d \in Drivers, StoreTerminal(d) PROVE WantsOwn'
  BY <1>21 DEF StoreTerminal, TypeOK, RowShape, ActionsAreMade, WantsOwn, Made
<1>22. ASSUME NEW d \in Drivers, GiveBack(d) PROVE WantsOwn'
  BY <1>22 DEF GiveBack, TypeOK, RowShape, ActionsAreMade, WantsOwn, Made
<1>23. ASSUME NEW a \in Aborts, AbortRead(a) PROVE WantsOwn'
  BY <1>23 DEF AbortRead, TypeOK, RowShape, ActionsAreMade, WantsOwn, Made
<1>24. ASSUME NEW a \in Aborts, AbortRemove(a) PROVE WantsOwn'
  BY <1>24 DEF AbortRemove, TypeOK, RowShape, ActionsAreMade, WantsOwn, Made
<1>25. ASSUME CounterExpires PROVE WantsOwn'
  BY <1>25 DEF CounterExpires, TypeOK, RowShape, ActionsAreMade, WantsOwn, Made
<1>26. ASSUME WindowCloses PROVE WantsOwn'
  BY <1>26 DEF WindowCloses, TypeOK, RowShape, ActionsAreMade, WantsOwn, Made
<1>27. ASSUME SweepRead PROVE WantsOwn'
  BY <1>27 DEF SweepRead, TypeOK, RowShape, ActionsAreMade, WantsOwn, Made
<1>28. ASSUME SweepExpires PROVE WantsOwn'
  BY <1>28 DEF SweepExpires, TypeOK, RowShape, ActionsAreMade, WantsOwn, Made
<1>29. ASSUME JobExpires PROVE WantsOwn'
  BY <1>29 DEF JobExpires, TypeOK, RowShape, ActionsAreMade, WantsOwn, Made
<1>30. ASSUME DropRuntime PROVE WantsOwn'
  BY <1>30 DEF DropRuntime, TypeOK, RowShape, ActionsAreMade, WantsOwn, Made
<1>31. CASE UNCHANGED vars
  BY <1>31 DEF TypeOK, RowShape, ActionsAreMade, WantsOwn, vars
<1> QED
  BY <1>31, <1>1, <1>2, <1>3, <1>4, <1>5, <1>6, <1>7, <1>8, <1>9, <1>10, <1>11,
  <1>12, <1>13, <1>14, <1>15, <1>16, <1>17, <1>18, <1>19, <1>20, <1>21, <1>22,
  <1>23, <1>24, <1>25, <1>26, <1>27, <1>28, <1>29, <1>30
  DEF Next, TurnStep, ResumeStep, DriverStep, Sweeps

\* Pausing ends the one driver of the generation.
LEMMA IdleStep == TypeOK /\ RowShape /\ Generations /\ WantsOwn /\ SoleDriver /\ PausedIsIdle /\ [Next]_vars => PausedIsIdle'
<1> SUFFICES ASSUME TypeOK /\ RowShape /\ Generations /\ WantsOwn /\ SoleDriver /\ PausedIsIdle, [Next]_vars PROVE PausedIsIdle'
  OBVIOUS
<1> USE JobsAssumption, RowCases
<1> USE DEF Goto, Release, ExpireCas, CasHolds, Owns, Waiting, Driving, Pcs, Terminal, Jobs, NoJob, Row, Drivers, Controllers,
   row, run, task, lim, hist
<1>1. ASSUME NEW t \in Turns, CreateJob(t) PROVE PausedIsIdle'
  BY <1>1 DEF CreateJob, TypeOK, RowShape, Generations, WantsOwn, SoleDriver, PausedIsIdle, Started
<1>2. ASSUME NEW t \in Turns, CreateFails(t) PROVE PausedIsIdle'
  BY <1>2 DEF CreateFails, TypeOK, RowShape, Generations, WantsOwn, SoleDriver, PausedIsIdle, Started
<1>3. ASSUME NEW t \in Turns, TurnFails(t) PROVE PausedIsIdle'
  BY <1>3 DEF TurnFails, TypeOK, RowShape, Generations, WantsOwn, SoleDriver, PausedIsIdle, Started
<1>4. ASSUME NEW r \in Resumes, ResumeRead(r) PROVE PausedIsIdle'
  BY <1>4 DEF ResumeRead, TypeOK, RowShape, Generations, WantsOwn, SoleDriver, PausedIsIdle, Started
<1>5. ASSUME NEW r \in Resumes, ResumeStale(r) PROVE PausedIsIdle'
  BY <1>5 DEF ResumeStale, TypeOK, RowShape, Generations, WantsOwn, SoleDriver, PausedIsIdle, Started
<1>6. ASSUME NEW r \in Resumes, ResolveRead(r) PROVE PausedIsIdle'
  BY <1>6 DEF ResolveRead, TypeOK, RowShape, Generations, WantsOwn, SoleDriver, PausedIsIdle, Started
<1>7. ASSUME NEW r \in Resumes, ResolveExpires(r) PROVE PausedIsIdle'
  BY <1>7 DEF ResolveExpires, TypeOK, RowShape, Generations, WantsOwn, SoleDriver, PausedIsIdle, Started
<1>8. ASSUME NEW r \in Resumes, Claim(r) PROVE PausedIsIdle'
  BY <1>8 DEF Claim, TypeOK, RowShape, Generations, WantsOwn, SoleDriver, PausedIsIdle, Started
<1>9. ASSUME NEW r \in Resumes, ClaimErrs(r) PROVE PausedIsIdle'
  BY <1>9 DEF ClaimErrs, TypeOK, RowShape, Generations, WantsOwn, SoleDriver, PausedIsIdle, Started
<1>10. ASSUME NEW r \in Resumes, ResumeFails(r) PROVE PausedIsIdle'
  BY <1>10 DEF ResumeFails, TypeOK, RowShape, Generations, WantsOwn, SoleDriver, PausedIsIdle, Started
<1>11. ASSUME NEW d \in Drivers, Admit(d) PROVE PausedIsIdle'
  BY <1>11 DEF Admit, TypeOK, RowShape, Generations, WantsOwn, SoleDriver, PausedIsIdle, Started
<1>12. ASSUME NEW d \in Drivers, AdmitOpen(d) PROVE PausedIsIdle'
  BY <1>12 DEF AdmitOpen, TypeOK, RowShape, Generations, WantsOwn, SoleDriver, PausedIsIdle, Started
<1>13. ASSUME NEW d \in Drivers, Start(d) PROVE PausedIsIdle'
  BY <1>13 DEF Start, TypeOK, RowShape, Generations, WantsOwn, SoleDriver, PausedIsIdle, Started
<1>14. ASSUME NEW d \in Drivers, Interrupt(d) PROVE PausedIsIdle'
  BY <1>14 DEF Interrupt, TypeOK, RowShape, Generations, WantsOwn, SoleDriver, PausedIsIdle, Started
<1>15. ASSUME NEW d \in Drivers, Pause(d) PROVE PausedIsIdle'
  BY <1>15 DEF Pause, TypeOK, RowShape, Generations, WantsOwn, SoleDriver, PausedIsIdle, Started
<1>16. ASSUME NEW d \in Drivers, PauseReleases(d) PROVE PausedIsIdle'
  BY <1>16 DEF PauseReleases, TypeOK, RowShape, Generations, WantsOwn, SoleDriver, PausedIsIdle, Started
<1>17. ASSUME NEW d \in Drivers, Finish(d) PROVE PausedIsIdle'
  BY <1>17 DEF Finish, TypeOK, RowShape, Generations, WantsOwn, SoleDriver, PausedIsIdle, Started
<1>18. ASSUME NEW d \in Drivers, Guard(d) PROVE PausedIsIdle'
  BY <1>18 DEF Guard, TypeOK, RowShape, Generations, WantsOwn, SoleDriver, PausedIsIdle, Started
<1>19. ASSUME NEW d \in Drivers, EmitFinal(d) PROVE PausedIsIdle'
  BY <1>19 DEF EmitFinal, TypeOK, RowShape, Generations, WantsOwn, SoleDriver, PausedIsIdle, Started
<1>20. ASSUME NEW d \in Drivers, Complete(d) PROVE PausedIsIdle'
  BY <1>20 DEF Complete, TypeOK, RowShape, Generations, WantsOwn, SoleDriver, PausedIsIdle, Started
<1>21. ASSUME NEW d \in Drivers, StoreTerminal(d) PROVE PausedIsIdle'
  BY <1>21 DEF StoreTerminal, TypeOK, RowShape, Generations, WantsOwn, SoleDriver, PausedIsIdle, Started
<1>22. ASSUME NEW d \in Drivers, GiveBack(d) PROVE PausedIsIdle'
  BY <1>22 DEF GiveBack, TypeOK, RowShape, Generations, WantsOwn, SoleDriver, PausedIsIdle, Started
<1>23. ASSUME NEW a \in Aborts, AbortRead(a) PROVE PausedIsIdle'
  BY <1>23 DEF AbortRead, TypeOK, RowShape, Generations, WantsOwn, SoleDriver, PausedIsIdle, Started
<1>24. ASSUME NEW a \in Aborts, AbortRemove(a) PROVE PausedIsIdle'
  BY <1>24 DEF AbortRemove, TypeOK, RowShape, Generations, WantsOwn, SoleDriver, PausedIsIdle, Started
<1>25. ASSUME CounterExpires PROVE PausedIsIdle'
  BY <1>25 DEF CounterExpires, TypeOK, RowShape, Generations, WantsOwn, SoleDriver, PausedIsIdle, Started
<1>26. ASSUME WindowCloses PROVE PausedIsIdle'
  BY <1>26 DEF WindowCloses, TypeOK, RowShape, Generations, WantsOwn, SoleDriver, PausedIsIdle, Started
<1>27. ASSUME SweepRead PROVE PausedIsIdle'
  BY <1>27 DEF SweepRead, TypeOK, RowShape, Generations, WantsOwn, SoleDriver, PausedIsIdle, Started
<1>28. ASSUME SweepExpires PROVE PausedIsIdle'
  BY <1>28 DEF SweepExpires, TypeOK, RowShape, Generations, WantsOwn, SoleDriver, PausedIsIdle, Started
<1>29. ASSUME JobExpires PROVE PausedIsIdle'
  BY <1>29 DEF JobExpires, TypeOK, RowShape, Generations, WantsOwn, SoleDriver, PausedIsIdle, Started
<1>30. ASSUME DropRuntime PROVE PausedIsIdle'
  BY <1>30 DEF DropRuntime, TypeOK, RowShape, Generations, WantsOwn, SoleDriver, PausedIsIdle, Started
<1>31. CASE UNCHANGED vars
  BY <1>31 DEF TypeOK, RowShape, Generations, WantsOwn, SoleDriver, PausedIsIdle, vars
<1> QED
  BY <1>31, <1>1, <1>2, <1>3, <1>4, <1>5, <1>6, <1>7, <1>8, <1>9, <1>10, <1>11,
  <1>12, <1>13, <1>14, <1>15, <1>16, <1>17, <1>18, <1>19, <1>20, <1>21, <1>22,
  <1>23, <1>24, <1>25, <1>26, <1>27, <1>28, <1>29, <1>30
  DEF Next, TurnStep, ResumeStep, DriverStep, Sweeps

\* A claim adds a driver to a generation that has none.
LEMMA SoleStep == TypeOK /\ RowShape /\ Generations /\ WantsOwn /\ PausedIsIdle /\ SoleDriver /\ [Next]_vars => SoleDriver'
<1> SUFFICES ASSUME TypeOK /\ RowShape /\ Generations /\ WantsOwn /\ PausedIsIdle /\ SoleDriver, [Next]_vars PROVE SoleDriver'
  OBVIOUS
<1> USE JobsAssumption, RowCases
<1> USE DEF Goto, Release, ExpireCas, CasHolds, Owns, Waiting, Driving, Pcs, Terminal, Jobs, NoJob, Row, Drivers, Controllers,
   row, run, task, lim, hist
<1>1. ASSUME NEW t \in Turns, CreateJob(t) PROVE SoleDriver'
  BY <1>1 DEF CreateJob, TypeOK, RowShape, Generations, WantsOwn, PausedIsIdle, SoleDriver, Started
<1>2. ASSUME NEW t \in Turns, CreateFails(t) PROVE SoleDriver'
  BY <1>2 DEF CreateFails, TypeOK, RowShape, Generations, WantsOwn, PausedIsIdle, SoleDriver, Started
<1>3. ASSUME NEW t \in Turns, TurnFails(t) PROVE SoleDriver'
  BY <1>3 DEF TurnFails, TypeOK, RowShape, Generations, WantsOwn, PausedIsIdle, SoleDriver, Started
<1>4. ASSUME NEW r \in Resumes, ResumeRead(r) PROVE SoleDriver'
  BY <1>4 DEF ResumeRead, TypeOK, RowShape, Generations, WantsOwn, PausedIsIdle, SoleDriver, Started
<1>5. ASSUME NEW r \in Resumes, ResumeStale(r) PROVE SoleDriver'
  BY <1>5 DEF ResumeStale, TypeOK, RowShape, Generations, WantsOwn, PausedIsIdle, SoleDriver, Started
<1>6. ASSUME NEW r \in Resumes, ResolveRead(r) PROVE SoleDriver'
  BY <1>6 DEF ResolveRead, TypeOK, RowShape, Generations, WantsOwn, PausedIsIdle, SoleDriver, Started
<1>7. ASSUME NEW r \in Resumes, ResolveExpires(r) PROVE SoleDriver'
  BY <1>7 DEF ResolveExpires, TypeOK, RowShape, Generations, WantsOwn, PausedIsIdle, SoleDriver, Started
<1>8. ASSUME NEW r \in Resumes, Claim(r) PROVE SoleDriver'
  BY <1>8 DEF Claim, TypeOK, RowShape, Generations, WantsOwn, PausedIsIdle, SoleDriver, Started
<1>9. ASSUME NEW r \in Resumes, ClaimErrs(r) PROVE SoleDriver'
  BY <1>9 DEF ClaimErrs, TypeOK, RowShape, Generations, WantsOwn, PausedIsIdle, SoleDriver, Started
<1>10. ASSUME NEW r \in Resumes, ResumeFails(r) PROVE SoleDriver'
  BY <1>10 DEF ResumeFails, TypeOK, RowShape, Generations, WantsOwn, PausedIsIdle, SoleDriver, Started
<1>11. ASSUME NEW d \in Drivers, Admit(d) PROVE SoleDriver'
  BY <1>11 DEF Admit, TypeOK, RowShape, Generations, WantsOwn, PausedIsIdle, SoleDriver, Started
<1>12. ASSUME NEW d \in Drivers, AdmitOpen(d) PROVE SoleDriver'
  BY <1>12 DEF AdmitOpen, TypeOK, RowShape, Generations, WantsOwn, PausedIsIdle, SoleDriver, Started
<1>13. ASSUME NEW d \in Drivers, Start(d) PROVE SoleDriver'
  BY <1>13 DEF Start, TypeOK, RowShape, Generations, WantsOwn, PausedIsIdle, SoleDriver, Started
<1>14. ASSUME NEW d \in Drivers, Interrupt(d) PROVE SoleDriver'
  BY <1>14 DEF Interrupt, TypeOK, RowShape, Generations, WantsOwn, PausedIsIdle, SoleDriver, Started
<1>15. ASSUME NEW d \in Drivers, Pause(d) PROVE SoleDriver'
  BY <1>15 DEF Pause, TypeOK, RowShape, Generations, WantsOwn, PausedIsIdle, SoleDriver, Started
<1>16. ASSUME NEW d \in Drivers, PauseReleases(d) PROVE SoleDriver'
  BY <1>16 DEF PauseReleases, TypeOK, RowShape, Generations, WantsOwn, PausedIsIdle, SoleDriver, Started
<1>17. ASSUME NEW d \in Drivers, Finish(d) PROVE SoleDriver'
  BY <1>17 DEF Finish, TypeOK, RowShape, Generations, WantsOwn, PausedIsIdle, SoleDriver, Started
<1>18. ASSUME NEW d \in Drivers, Guard(d) PROVE SoleDriver'
  BY <1>18 DEF Guard, TypeOK, RowShape, Generations, WantsOwn, PausedIsIdle, SoleDriver, Started
<1>19. ASSUME NEW d \in Drivers, EmitFinal(d) PROVE SoleDriver'
  BY <1>19 DEF EmitFinal, TypeOK, RowShape, Generations, WantsOwn, PausedIsIdle, SoleDriver, Started
<1>20. ASSUME NEW d \in Drivers, Complete(d) PROVE SoleDriver'
  BY <1>20 DEF Complete, TypeOK, RowShape, Generations, WantsOwn, PausedIsIdle, SoleDriver, Started
<1>21. ASSUME NEW d \in Drivers, StoreTerminal(d) PROVE SoleDriver'
  BY <1>21 DEF StoreTerminal, TypeOK, RowShape, Generations, WantsOwn, PausedIsIdle, SoleDriver, Started
<1>22. ASSUME NEW d \in Drivers, GiveBack(d) PROVE SoleDriver'
  BY <1>22 DEF GiveBack, TypeOK, RowShape, Generations, WantsOwn, PausedIsIdle, SoleDriver, Started
<1>23. ASSUME NEW a \in Aborts, AbortRead(a) PROVE SoleDriver'
  BY <1>23 DEF AbortRead, TypeOK, RowShape, Generations, WantsOwn, PausedIsIdle, SoleDriver, Started
<1>24. ASSUME NEW a \in Aborts, AbortRemove(a) PROVE SoleDriver'
  BY <1>24 DEF AbortRemove, TypeOK, RowShape, Generations, WantsOwn, PausedIsIdle, SoleDriver, Started
<1>25. ASSUME CounterExpires PROVE SoleDriver'
  BY <1>25 DEF CounterExpires, TypeOK, RowShape, Generations, WantsOwn, PausedIsIdle, SoleDriver, Started
<1>26. ASSUME WindowCloses PROVE SoleDriver'
  BY <1>26 DEF WindowCloses, TypeOK, RowShape, Generations, WantsOwn, PausedIsIdle, SoleDriver, Started
<1>27. ASSUME SweepRead PROVE SoleDriver'
  BY <1>27 DEF SweepRead, TypeOK, RowShape, Generations, WantsOwn, PausedIsIdle, SoleDriver, Started
<1>28. ASSUME SweepExpires PROVE SoleDriver'
  BY <1>28 DEF SweepExpires, TypeOK, RowShape, Generations, WantsOwn, PausedIsIdle, SoleDriver, Started
<1>29. ASSUME JobExpires PROVE SoleDriver'
  BY <1>29 DEF JobExpires, TypeOK, RowShape, Generations, WantsOwn, PausedIsIdle, SoleDriver, Started
<1>30. ASSUME DropRuntime PROVE SoleDriver'
  BY <1>30 DEF DropRuntime, TypeOK, RowShape, Generations, WantsOwn, PausedIsIdle, SoleDriver, Started
<1>31. CASE UNCHANGED vars
  BY <1>31 DEF TypeOK, RowShape, Generations, WantsOwn, PausedIsIdle, SoleDriver, vars
<1> QED
  BY <1>31, <1>1, <1>2, <1>3, <1>4, <1>5, <1>6, <1>7, <1>8, <1>9, <1>10, <1>11,
  <1>12, <1>13, <1>14, <1>15, <1>16, <1>17, <1>18, <1>19, <1>20, <1>21, <1>22,
  <1>23, <1>24, <1>25, <1>26, <1>27, <1>28, <1>29, <1>30
  DEF Next, TurnStep, ResumeStep, DriverStep, Sweeps

\* The program points between an admission and its release.
LEMMA SlotOwedStep == TypeOK /\ SlotOwed /\ [Next]_vars => SlotOwed'
<1> SUFFICES ASSUME TypeOK /\ SlotOwed, [Next]_vars PROVE SlotOwed'
  OBVIOUS
<1> USE JobsAssumption, RowCases
<1> USE DEF Goto, Release, ExpireCas, CasHolds, Owns, Waiting, Driving, Pcs, Terminal, Jobs, NoJob, Row, Drivers, Controllers,
   row, run, task, lim, hist
<1>1. ASSUME NEW t \in Turns, CreateJob(t) PROVE SlotOwed'
  BY <1>1 DEF CreateJob, TypeOK, SlotOwed
<1>2. ASSUME NEW t \in Turns, CreateFails(t) PROVE SlotOwed'
  BY <1>2 DEF CreateFails, TypeOK, SlotOwed
<1>3. ASSUME NEW t \in Turns, TurnFails(t) PROVE SlotOwed'
  BY <1>3 DEF TurnFails, TypeOK, SlotOwed
<1>4. ASSUME NEW r \in Resumes, ResumeRead(r) PROVE SlotOwed'
  BY <1>4 DEF ResumeRead, TypeOK, SlotOwed
<1>5. ASSUME NEW r \in Resumes, ResumeStale(r) PROVE SlotOwed'
  BY <1>5 DEF ResumeStale, TypeOK, SlotOwed
<1>6. ASSUME NEW r \in Resumes, ResolveRead(r) PROVE SlotOwed'
  BY <1>6 DEF ResolveRead, TypeOK, SlotOwed
<1>7. ASSUME NEW r \in Resumes, ResolveExpires(r) PROVE SlotOwed'
  BY <1>7 DEF ResolveExpires, TypeOK, SlotOwed
<1>8. ASSUME NEW r \in Resumes, Claim(r) PROVE SlotOwed'
  BY <1>8 DEF Claim, TypeOK, SlotOwed
<1>9. ASSUME NEW r \in Resumes, ClaimErrs(r) PROVE SlotOwed'
  BY <1>9 DEF ClaimErrs, TypeOK, SlotOwed
<1>10. ASSUME NEW r \in Resumes, ResumeFails(r) PROVE SlotOwed'
  BY <1>10 DEF ResumeFails, TypeOK, SlotOwed
<1>11. ASSUME NEW d \in Drivers, Admit(d) PROVE SlotOwed'
  BY <1>11 DEF Admit, TypeOK, SlotOwed
<1>12. ASSUME NEW d \in Drivers, AdmitOpen(d) PROVE SlotOwed'
  BY <1>12 DEF AdmitOpen, TypeOK, SlotOwed
<1>13. ASSUME NEW d \in Drivers, Start(d) PROVE SlotOwed'
  BY <1>13 DEF Start, TypeOK, SlotOwed
<1>14. ASSUME NEW d \in Drivers, Interrupt(d) PROVE SlotOwed'
  BY <1>14 DEF Interrupt, TypeOK, SlotOwed
<1>15. ASSUME NEW d \in Drivers, Pause(d) PROVE SlotOwed'
  BY <1>15 DEF Pause, TypeOK, SlotOwed
<1>16. ASSUME NEW d \in Drivers, PauseReleases(d) PROVE SlotOwed'
  BY <1>16 DEF PauseReleases, TypeOK, SlotOwed
<1>17. ASSUME NEW d \in Drivers, Finish(d) PROVE SlotOwed'
  BY <1>17 DEF Finish, TypeOK, SlotOwed
<1>18. ASSUME NEW d \in Drivers, Guard(d) PROVE SlotOwed'
  BY <1>18 DEF Guard, TypeOK, SlotOwed
<1>19. ASSUME NEW d \in Drivers, EmitFinal(d) PROVE SlotOwed'
  BY <1>19 DEF EmitFinal, TypeOK, SlotOwed
<1>20. ASSUME NEW d \in Drivers, Complete(d) PROVE SlotOwed'
  BY <1>20 DEF Complete, TypeOK, SlotOwed
<1>21. ASSUME NEW d \in Drivers, StoreTerminal(d) PROVE SlotOwed'
  BY <1>21 DEF StoreTerminal, TypeOK, SlotOwed
<1>22. ASSUME NEW d \in Drivers, GiveBack(d) PROVE SlotOwed'
  BY <1>22 DEF GiveBack, TypeOK, SlotOwed
<1>23. ASSUME NEW a \in Aborts, AbortRead(a) PROVE SlotOwed'
  BY <1>23 DEF AbortRead, TypeOK, SlotOwed
<1>24. ASSUME NEW a \in Aborts, AbortRemove(a) PROVE SlotOwed'
  BY <1>24 DEF AbortRemove, TypeOK, SlotOwed
<1>25. ASSUME CounterExpires PROVE SlotOwed'
  BY <1>25 DEF CounterExpires, TypeOK, SlotOwed
<1>26. ASSUME WindowCloses PROVE SlotOwed'
  BY <1>26 DEF WindowCloses, TypeOK, SlotOwed
<1>27. ASSUME SweepRead PROVE SlotOwed'
  BY <1>27 DEF SweepRead, TypeOK, SlotOwed
<1>28. ASSUME SweepExpires PROVE SlotOwed'
  BY <1>28 DEF SweepExpires, TypeOK, SlotOwed
<1>29. ASSUME JobExpires PROVE SlotOwed'
  BY <1>29 DEF JobExpires, TypeOK, SlotOwed
<1>30. ASSUME DropRuntime PROVE SlotOwed'
  BY <1>30 DEF DropRuntime, TypeOK, SlotOwed
<1>31. CASE UNCHANGED vars
  BY <1>31 DEF TypeOK, SlotOwed, vars
<1> QED
  BY <1>31, <1>1, <1>2, <1>3, <1>4, <1>5, <1>6, <1>7, <1>8, <1>9, <1>10, <1>11,
  <1>12, <1>13, <1>14, <1>15, <1>16, <1>17, <1>18, <1>19, <1>20, <1>21, <1>22,
  <1>23, <1>24, <1>25, <1>26, <1>27, <1>28, <1>29, <1>30
  DEF Next, TurnStep, ResumeStep, DriverStep, Sweeps

-----------------------------------------------------------------------------
(* The counter of pending requests.                                          *)

Owing == {d \in Drivers : slot[d]}

\* The drivers that owe are finitely many.
LEMMA OwingFinite ==
  IsFiniteSet(Owing) /\ Cardinality(Owing) \in Nat
<1>1. IsFiniteSet(Drivers)
  BY JobsAssumption, FS_Union DEF Drivers
<1>2. IsFiniteSet(Owing)
  BY <1>1, FS_Subset DEF Owing
<1> QED
  BY <1>2, FS_CardinalityType

\* An admission adds a driver to those that owe, a release takes one away.
LEMMA AdmissionCounts ==
  ASSUME TypeOK, SlotOwed, SlotsNotLeaked, NEW d \in Drivers, ~slot[d],
         slot' = [slot EXCEPT ![d] = TRUE], pending' \in {pending, pending + 1}
  PROVE  SlotsNotLeaked'
<1>1. Owing' = Owing \cup {d} /\ d \notin Owing
  BY DEF Owing, TypeOK
<1>2. Cardinality(Owing') = Cardinality(Owing) + 1
  BY <1>1, OwingFinite, FS_AddElement
<1> QED
  BY <1>2, OwingFinite DEF SlotsNotLeaked, Owing, TypeOK

\* A release takes from the counter what its driver put there.
LEMMA ReleaseCounts ==
  ASSUME TypeOK, SlotsNotLeaked, NEW d \in Drivers, slot[d], Release(d)
  PROVE  SlotsNotLeaked'
<1>1. Owing' = Owing \ {d} /\ d \in Owing
  BY DEF Owing, TypeOK, Release
<1>2. Cardinality(Owing') = Cardinality(Owing) - 1
  BY <1>1, OwingFinite, FS_RemoveElement
<1>3. Cardinality(Owing) \in Nat /\ Cardinality(Owing') \in Nat
  BY <1>2, OwingFinite, <1>1, FS_RemoveElement, FS_CardinalityType
<1>4. pending <= Cardinality(Owing) /\ pending \in Nat
  BY DEF SlotsNotLeaked, Owing, TypeOK
<1>5. pending' = IF pending > 0 THEN pending - 1 ELSE 0
  BY DEF Release
<1>6. pending' <= Cardinality(Owing')
  BY <1>2, <1>3, <1>4, <1>5
<1> QED
  BY <1>6 DEF SlotsNotLeaked, Owing

\* No other step touches the counter or who owes.
LEMMA CounterStep == TypeOK /\ SlotOwed /\ SlotsNotLeaked /\ [Next]_vars => SlotsNotLeaked'
<1> SUFFICES ASSUME TypeOK, SlotOwed, SlotsNotLeaked, [Next]_vars PROVE SlotsNotLeaked'
  OBVIOUS
<1>1. ASSUME NEW t \in Turns, CreateJob(t) PROVE SlotsNotLeaked'
  BY <1>1 DEF CreateJob, lim, SlotsNotLeaked
<1>2. ASSUME NEW t \in Turns, CreateFails(t) PROVE SlotsNotLeaked'
  BY <1>2 DEF CreateFails, lim, SlotsNotLeaked
<1>3. ASSUME NEW t \in Turns, TurnFails(t) PROVE SlotsNotLeaked'
  BY <1>3 DEF TurnFails, lim, SlotsNotLeaked
<1>4. ASSUME NEW r \in Resumes, ResumeRead(r) PROVE SlotsNotLeaked'
  BY <1>4 DEF ResumeRead, lim, SlotsNotLeaked
<1>5. ASSUME NEW r \in Resumes, ResumeStale(r) PROVE SlotsNotLeaked'
  BY <1>5 DEF ResumeStale, lim, SlotsNotLeaked
<1>6. ASSUME NEW r \in Resumes, ResolveRead(r) PROVE SlotsNotLeaked'
  BY <1>6 DEF ResolveRead, lim, SlotsNotLeaked
<1>7. ASSUME NEW r \in Resumes, ResolveExpires(r) PROVE SlotsNotLeaked'
  BY <1>7 DEF ResolveExpires, lim, SlotsNotLeaked
<1>8. ASSUME NEW r \in Resumes, Claim(r) PROVE SlotsNotLeaked'
  BY <1>8 DEF Claim, lim, SlotsNotLeaked
<1>9. ASSUME NEW r \in Resumes, ClaimErrs(r) PROVE SlotsNotLeaked'
  BY <1>9 DEF ClaimErrs, lim, SlotsNotLeaked
<1>10. ASSUME NEW r \in Resumes, ResumeFails(r) PROVE SlotsNotLeaked'
  BY <1>10 DEF ResumeFails, lim, SlotsNotLeaked
<1>11. ASSUME NEW d \in Drivers, Admit(d) PROVE SlotsNotLeaked'
  <2>1. ~slot[d]
    BY <1>11 DEF Admit, Waiting, SlotOwed
  <2>2. CASE UNCHANGED lim
    BY <2>2 DEF lim, SlotsNotLeaked
  <2>3. CASE slot' = [slot EXCEPT ![d] = TRUE] /\ pending' = pending + 1
    BY <2>1, <2>3, AdmissionCounts
  <2> QED
    BY <1>11, <2>2, <2>3 DEF Admit
<1>12. ASSUME NEW d \in Drivers, AdmitOpen(d) PROVE SlotsNotLeaked'
  <2>1. ~slot[d]
    BY <1>12 DEF AdmitOpen, Waiting, SlotOwed
  <2> QED
    BY <1>12, <2>1, AdmissionCounts DEF AdmitOpen
<1>13. ASSUME NEW d \in Drivers, Start(d) PROVE SlotsNotLeaked'
  BY <1>13 DEF Start, lim, SlotsNotLeaked
<1>14. ASSUME NEW d \in Drivers, Interrupt(d) PROVE SlotsNotLeaked'
  BY <1>14 DEF Interrupt, lim, SlotsNotLeaked
<1>15. ASSUME NEW d \in Drivers, Pause(d) PROVE SlotsNotLeaked'
  BY <1>15 DEF Pause, lim, SlotsNotLeaked
<1>16. ASSUME NEW d \in Drivers, PauseReleases(d) PROVE SlotsNotLeaked'
  <2>1. slot[d]
    BY <1>16 DEF PauseReleases, SlotOwed
  <2> QED
    BY <1>16, <2>1, ReleaseCounts DEF PauseReleases
<1>17. ASSUME NEW d \in Drivers, Finish(d) PROVE SlotsNotLeaked'
  BY <1>17 DEF Finish, lim, SlotsNotLeaked
<1>18. ASSUME NEW d \in Drivers, Guard(d) PROVE SlotsNotLeaked'
  BY <1>18 DEF Guard, lim, SlotsNotLeaked
<1>19. ASSUME NEW d \in Drivers, EmitFinal(d) PROVE SlotsNotLeaked'
  BY <1>19 DEF EmitFinal, lim, SlotsNotLeaked
<1>20. ASSUME NEW d \in Drivers, Complete(d) PROVE SlotsNotLeaked'
  BY <1>20 DEF Complete, lim, SlotsNotLeaked
<1>21. ASSUME NEW d \in Drivers, StoreTerminal(d) PROVE SlotsNotLeaked'
  BY <1>21 DEF StoreTerminal, lim, SlotsNotLeaked
<1>22. ASSUME NEW d \in Drivers, GiveBack(d) PROVE SlotsNotLeaked'
  <2>1. slot[d]
    BY <1>22 DEF GiveBack, SlotOwed
  <2> QED
    BY <1>22, <2>1, ReleaseCounts DEF GiveBack
<1>23. ASSUME NEW a \in Aborts, AbortRead(a) PROVE SlotsNotLeaked'
  BY <1>23 DEF AbortRead, lim, SlotsNotLeaked
<1>24. ASSUME NEW a \in Aborts, AbortRemove(a) PROVE SlotsNotLeaked'
  BY <1>24 DEF AbortRemove, lim, SlotsNotLeaked
<1>25. ASSUME CounterExpires PROVE SlotsNotLeaked'
  <2>1. pending' <= pending /\ pending \in Nat /\ pending' = 0
    BY <1>25 DEF CounterExpires, TypeOK
  <2> QED
    BY <1>25, <2>1, OwingFinite DEF CounterExpires, SlotsNotLeaked, Owing
<1>26. ASSUME WindowCloses PROVE SlotsNotLeaked'
  BY <1>26 DEF WindowCloses, lim, SlotsNotLeaked
<1>27. ASSUME SweepRead PROVE SlotsNotLeaked'
  BY <1>27 DEF SweepRead, lim, SlotsNotLeaked
<1>28. ASSUME SweepExpires PROVE SlotsNotLeaked'
  BY <1>28 DEF SweepExpires, lim, SlotsNotLeaked
<1>29. ASSUME JobExpires PROVE SlotsNotLeaked'
  BY <1>29 DEF JobExpires, lim, SlotsNotLeaked
<1>30. ASSUME DropRuntime PROVE SlotsNotLeaked'
  BY <1>30 DEF DropRuntime, lim, SlotsNotLeaked
<1>31. CASE UNCHANGED vars
  BY <1>31 DEF vars, lim, SlotsNotLeaked
<1> QED
  BY <1>31, <1>1, <1>2, <1>3, <1>4, <1>5, <1>6, <1>7, <1>8, <1>9, <1>10, <1>11,
  <1>12, <1>13, <1>14, <1>15, <1>16, <1>17, <1>18, <1>19, <1>20, <1>21, <1>22,
  <1>23, <1>24, <1>25, <1>26, <1>27, <1>28, <1>29, <1>30
  DEF Next, TurnStep, ResumeStep, DriverStep, Sweeps

-----------------------------------------------------------------------------
(* The theorems.                                                             *)

\* Nothing has happened yet.
LEMMA InitInv == Init => JobsInv
<1> SUFFICES ASSUME Init PROVE JobsInv
  OBVIOUS
<1> USE JobsAssumption DEF Init
<1>1. TypeOK /\ RowShape /\ ActionsAreMade /\ Generations
  BY DEF TypeOK, RowShape, ActionsAreMade, Generations, Started, NoJob, Row, Pcs, Driving,
         Drivers, Controllers
<1>2. Decided /\ WantsOwn /\ PausedIsIdle /\ SoleDriver /\ SlotOwed
  BY DEF Decided, WantsOwn, PausedIsIdle, SoleDriver, SlotOwed, NoJob, Row, Driving, Drivers
<1>3. SlotsNotLeaked
  BY OwingFinite DEF SlotsNotLeaked, Owing
<1> QED
  BY <1>1, <1>2, <1>3 DEF JobsInv

\* The parts keep each other.
LEMMA StepInv == JobsInv /\ [Next]_vars => JobsInv'
  BY TypesStep, RowShapeStep, MadeStep, DecidedStep, GenerationsStep, WantsStep, IdleStep,
     SoleStep, SlotOwedStep, CounterStep DEF JobsInv

\* Every reachable state of every instance satisfies the invariant: the row,
\* the drivers and the pending actions of a conversation fit together.
THEOREM JobsInvariant == Spec => []JobsInv
  BY InitInv, StepInv, PTL DEF Spec

\* ApprovalLifecycle.resolve, expire and the sweeps: a pending action has at
\* most one decision, however many submits and sweeps race for it.
THEOREM OneOutcomeAlways == Spec => []OneOutcome
<1>1. JobsInv => OneOutcome
  <2> SUFFICES ASSUME JobsInv, NEW a \in Drivers PROVE Cardinality(outcome[a]) <= 1
    BY DEF OneOutcome
  <2>1. CASE outcome[a] = {}
    BY <2>1, FS_EmptySet
  <2>2. CASE outcome[a] # {}
    <3>1. PICK x : outcome[a] = {x}
      BY <2>2 DEF JobsInv, Decided
    <3>2. Cardinality(outcome[a]) = 1
      BY <3>1, FS_Singleton
    <3> QED
      BY <3>2
  <2> QED
    BY <2>1, <2>2
<1> QED
  BY <1>1, JobsInvariant, PTL

\* At most one background task drives a generation, however resumes race,
\* unless a task of another generation paused its row.
THEOREM SoleDriverAlways == Spec => []SoleDriver
<1>1. JobsInv => SoleDriver
  BY DEF JobsInv
<1> QED
  BY <1>1, JobsInvariant, PTL

\* The pending-request counter never exceeds the drivers that will decrement
\* it: no error path of the two controllers leaks a slot or releases it twice.
THEOREM SlotsNeverLeak == Spec => []SlotsNotLeaked
<1>1. JobsInv => SlotsNotLeaked
  BY DEF JobsInv
<1> QED
  BY <1>1, JobsInvariant, PTL

\* No step of any driver, sweep or abort brings an ended generation back.
THEOREM TerminalStaysFinal == Spec => TerminalIsFinal
<1> DEFINE Stays == job.status \in Terminal /\ job'.gen = job.gen => job'.status \in Terminal
<1>1. JobsInv /\ [Next]_vars => [Stays]_job
  <2> SUFFICES ASSUME JobsInv, [Next]_vars, job' # job, job.status \in Terminal,
                      job'.gen = job.gen
               PROVE  job'.status \in Terminal
    OBVIOUS
  <2> USE JobsAssumption, RowCases DEF JobsInv, Terminal, Row, NoJob
  <2>1. job.gen \in Turns /\ Started(job.gen)
    BY DEF Generations
  <2>2. ASSUME NEW t \in Turns, TurnStep(t) PROVE job'.status \in Terminal
    BY <2>1, <2>2 DEF TurnStep, CreateJob, CreateFails, TurnFails, row, Generations, Started
  <2>3. ASSUME NEW r \in Resumes, ResumeRead(r) \/ ResumeStep(r)
        PROVE job'.status \in Terminal
    BY <2>3 DEF ResumeRead, ResumeStep, ResumeStale, ResolveRead, ResolveExpires, Claim,
                ClaimErrs, ResumeFails, row, ExpireCas, CasHolds
  <2>4. ASSUME NEW d \in Drivers, DriverStep(d) PROVE job'.status \in Terminal
    BY <2>1, <2>4 DEF DriverStep, Admit, AdmitOpen, Start, Interrupt, Pause, PauseReleases,
         Finish, Guard, EmitFinal, Complete, StoreTerminal, GiveBack, row, CasHolds, TypeOK
  <2>5. CASE \E a \in Aborts : AbortRead(a) \/ AbortRemove(a)
    BY <2>1, <2>5 DEF AbortRead, AbortRemove, row
  <2>6. CASE CounterExpires \/ WindowCloses \/ Sweeps \/ JobExpires \/ DropRuntime
    BY <2>1, <2>6 DEF CounterExpires, WindowCloses, Sweeps, SweepRead, SweepExpires, JobExpires,
         DropRuntime, row, ExpireCas, CasHolds
  <2>7. CASE UNCHANGED vars
    BY <2>7 DEF vars, row
  <2> QED
    BY <2>2, <2>3, <2>4, <2>5, <2>6, <2>7 DEF Next
<1> QED
  BY <1>1, JobsInvariant, PTL DEF Spec, TerminalIsFinal
=============================================================================
