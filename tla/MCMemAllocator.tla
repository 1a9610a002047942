--------------------------- MODULE MCMemAllocator ---------------------------
(* Instances of MemAllocator for TLC.  In the safety instance every thread   *)
(* has the same role (Getters = Users), which makes the threads              *)
(* interchangeable; the other instances use no symmetry.                     *)
EXTENDS MemAllocator, TLC

Symmetry == Permutations(Users)
=============================================================================
