--------------------------- MODULE MCSessionRuns ---------------------------
(* Small instances of SessionRuns for TLC. *)
EXTENDS SessionRunsInv, TLC

CONSTANTS r1, t1, t2, t3, m1, m2

OneTab      == {r1}        \* one client that waits for each answer
TwoTasks    == {t1, t2}
ThreeTasks  == {t1, t2, t3}
TwoMessages == {m1, m2}

CalmOps == AllOps \ {"stop"}
Nothing == {}

Symmetric == Permutations(Tasks) \cup Permutations(Messages)
=============================================================================
