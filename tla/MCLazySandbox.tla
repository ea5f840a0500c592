--------------------------- MODULE MCLazySandbox ---------------------------
(* A small instance of LazySandbox for TLC: two tasks, one of which makes    *)
(* two calls at a time.                                                      *)
EXTENDS LazySandboxInv, TLC

CONSTANTS r1, r2, c1, c2, c3, k1, k2, f1

TwoRuntimes   == {r1, r2}
ThreeCallers  == {c1, c2, c3}
TwoShareOne   == c1 :> r1 @@ c2 :> r1 @@ c3 :> r2
TwoContainers == {k1, k2}
OneFile       == {f1}

\* Without "getFails" a restore misses a container only when it is gone.
TrueLookups == AllFaults \ {"getFails"}
=============================================================================
