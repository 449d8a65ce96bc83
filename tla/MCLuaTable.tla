---------------------------- MODULE MCLuaTable -----------------------------
(* An instance of LuaTable for TLC.                                        *)
EXTENDS LuaTable

CONSTANTS a, c

(* The string meets 3 in a node vector of four, the object meets 1; in     *)
(* smaller ones all meet.                                                  *)
MCHash == [k \in Keys |-> CASE k = 1 -> 1 [] k = 2 -> 3 [] k = c -> 1 [] OTHER -> 2]

(* Every key has a value of its own, so that none can be taken for another. *)
MCValues == [k \in Keys |-> {k}]
=============================================================================
