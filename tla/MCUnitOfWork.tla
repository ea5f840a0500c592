---------------------------- MODULE MCUnitOfWork ----------------------------
(* Small instances of UnitOfWork for TLC. *)
EXTENDS UnitOfWorkInv, TLC

CONSTANTS b1, b2, b3, o1, o2

ThreeBlocks == {b1, b2, b3}
TwoUows     == {o1, o2}
Shared      == b1 :> o1 @@ b2 :> o1 @@ b3 :> o2
OnlyAlone   == {b3}
=============================================================================
