----------------------------- MODULE Coroutines -----------------------------
(* What the coroutine library promises: one thread runs, those that resumed *)
(* one another up to it are normal, the others are suspended or dead; a     *)
(* coroutine goes on only when it is resumed while suspended, control goes  *)
(* back to the thread that resumed it, and the dead stay dead.  A coroutine *)
(* dies when it returns or fails; but not when it returns more than the     *)
(* stack that resumed it can take.                                          *)
EXTENDS Sequences, SequencesExt

CONSTANTS
  Main,    \* the main thread
  Coros    \* the coroutines

VARIABLES
  chain,   \* the threads that resumed one another, the running one last
  state    \* the state of every coroutine

vars == <<chain, state>>

Init ==
  /\ chain = <<Main>>
  /\ state = [t \in Coros |-> "suspended"]

(* coroutine.create: a coroutine nobody needs any more makes room.         *)
Create(t) ==
  /\ state[t] = "dead"
  /\ state' = [state EXCEPT ![t] = "suspended"]
  /\ UNCHANGED chain

(* The thread that resumes becomes normal.                                 *)
Resume(t) ==
  /\ state[t] = "suspended"
  /\ chain' = Append(chain, t)
  /\ state' = [c \in Coros |-> IF c = t THEN "running"
                               ELSE IF c = Last(chain) THEN "normal" ELSE state[c]]

(* A coroutine yields, and is suspended, or returns or fails, and is dead; *)
(* when its results are refused it is suspended, with one of them to call. *)
Leave(after) ==
  /\ Len(chain) > 1
  /\ chain' = Front(chain)
  /\ state' = [c \in Coros |-> IF c = Last(chain) THEN after
                               ELSE IF c = Last(Front(chain)) THEN "running" ELSE state[c]]

(* A coroutine that cannot be started for lack of C stack is dead.         *)
Refuse(t) ==
  /\ state[t] = "suspended"
  /\ state' = [state EXCEPT ![t] = "dead"]
  /\ UNCHANGED chain

Next ==
  \/ \E t \in Coros : Create(t) \/ Resume(t) \/ Refuse(t)
  \/ Leave("suspended")
  \/ Leave("dead")

Spec == Init /\ [][Next]_vars
=============================================================================
