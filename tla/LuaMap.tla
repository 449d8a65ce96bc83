------------------------------- MODULE LuaMap -------------------------------
(* What a Lua table promises: a map from keys to values, with nil for the  *)
(* keys that are absent, and traversals of it.                             *)
CONSTANTS
  Keys,
  Values,  \* the values that are stored at each key
  Nil

VARIABLES
  map,     \* the value of every key
  on,      \* a traversal is under way
  seen,    \* the keys it has answered
  owed     \* the keys that have had a value since it began

vars == <<map, on, seen, owed>>

Present == {k \in Keys : map[k] # Nil}

Init ==
  /\ map = [k \in Keys |-> Nil] /\ on = FALSE /\ seen = {} /\ owed = {}

(* While a traversal is under way, only fields that exist are assigned.    *)
Set ==
  \E k \in Keys : \E v \in Values[k] \cup {Nil} :
    /\ on => k \in Present
    /\ map' = [map EXCEPT ![k] = v]
    /\ owed' = IF v = Nil THEN owed \ {k} ELSE owed
    /\ UNCHANGED <<on, seen>>

Begin ==
  /\ ~on /\ on' = TRUE /\ seen' = {} /\ owed' = Present
  /\ UNCHANGED map

Visit ==
  /\ on
  /\ \E k \in Present \ seen : seen' = seen \cup {k}
  /\ UNCHANGED <<map, on, owed>>

Finish ==
  /\ on /\ owed \subseteq seen
  /\ on' = FALSE /\ seen' = {} /\ owed' = {}
  /\ UNCHANGED map

Next == Set \/ Begin \/ Visit \/ Finish

Spec == Init /\ [][Next]_vars
=============================================================================
