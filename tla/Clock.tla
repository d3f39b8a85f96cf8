-------------------------------- MODULE Clock --------------------------------
(***************************************************************************)
(* The clock that the parts in memory share.  It starts at 1: 0 stands for *)
(* a time that has not been set.                                           *)
(***************************************************************************)
EXTENDS Naturals

CONSTANT MaxTime    \* bound on the clock

ASSUME ClockAssumption == MaxTime \in Nat \ {0}

VARIABLE now

Time == 1..MaxTime
=============================================================================
