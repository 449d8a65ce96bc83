------------------------------ MODULE MCLuaGC ------------------------------
(* Instances of LuaGC for TLC.  Stack slots are interchangeable as long as *)
(* nothing captures one.                                                   *)
EXTENDS LuaGC, TLC

SlotSymmetry == Permutations(Slots)
=============================================================================
