----------------------------- MODULE MCLuaCalls -----------------------------
EXTENDS LuaCalls

CONSTANTS c1, c2
MCDeep == [t \in Threads |-> CASE t = c1 -> 2 [] t = c2 -> 0 [] OTHER -> 1]
=============================================================================
