----------------------------- MODULE MCTwinCodes -----------------------------
(***************************************************************************)
(* A small instance of TwinCodes.                                          *)
(***************************************************************************)
EXTENDS TwinCodes, TLC

StrangersAndStaff == {{}, BOOLEAN}
Symmetric == Permutations(Proc) \cup Permutations(Ip)

=============================================================================
