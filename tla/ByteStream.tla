----------------------------- MODULE ByteStream -----------------------------
(* What a LuaSocket client object promises the Lua program that reads from *)
(* it (doc/tcp.html, receive).  The peer writes the bytes 1, 2, ... of a   *)
(* stream; a byte is named by its place in the stream, and Kind[n] says    *)
(* what it is.  An answer is the text that the pattern selects from the    *)
(* bytes between the place where the program began and the place where it  *)
(* is now; a program that was interrupted may go on with the text it got.  *)
EXTENDS Naturals, Sequences

CONSTANTS
  Kind,    \* the stream: a sequence of "chr", "cr" and "lf"
  Goals    \* the numbers of bytes a program asks for

VARIABLES
  written,  \* bytes the peer has written so far
  fin,      \* the peer's end: "open", "closed", "reset", or "broken" once reported
  own,      \* the program's end: "open" or "closed"
  pos,      \* bytes the program has been given, or has skipped
  ret       \* the last answer

vars == <<written, fin, own, pos, ret>>

Statuses == {"none", "done", "timeout", "closed", "reset"}

Broken(r) == r.status \in {"timeout", "closed", "reset"}

(* The texts of a line that begins behind from, up to each later place: a  *)
(* line has no CR and no LF.                                               *)
LineFrom(from) ==
  LET upto[n \in from .. Len(Kind)] ==
        IF n = from THEN <<>>
        ELSE IF Kind[n] = "chr" THEN Append(upto[n - 1], n) ELSE upto[n - 1]
  IN  upto

(* The text of the bytes from+1 .. to.                                     *)
Text(pattern, from, to) ==
  IF pattern = "line" THEN LineFrom(from)[to] ELSE [i \in 1 .. to - from |-> from + i]

(* The bytes from+1 .. to are a whole line, a whole block of n bytes, or   *)
(* everything up to the end of the connection, when some of it is new: what *)
(* the program goes on with does not count.                                *)
Whole(pattern, goal, from, to) ==
  \/ /\ pattern = "line" /\ to > from /\ Kind[to] = "lf"
     /\ \A n \in from + 1 .. to - 1 : Kind[n] # "lf"
  \/ pattern = "raw" /\ to - from = goal
  \/ /\ pattern = "all" /\ to > pos
     /\ own = "closed" \/ (fin \in {"closed", "broken"} /\ to = written)

(* What a broken answer says of the connection.                            *)
Why(status, pattern, from, to) ==
  /\ pattern = "line" => \A n \in from + 1 .. to : Kind[n] # "lf"
  /\ status = "closed" => own = "closed" \/ (fin # "open" /\ to = written)
  /\ status = "reset" => fin = "reset" /\ to = written

Init ==
  /\ written = 0 /\ fin = "open" /\ own = "open" /\ pos = 0
  /\ ret = [status |-> "none", pattern |-> "raw", goal |-> 0, from |-> 0, text |-> <<>>]

Write ==
  /\ fin = "open" /\ written < Len(Kind)
  /\ \E n \in written + 1 .. Len(Kind) : written' = n
  /\ UNCHANGED <<fin, own, pos, ret>>

Finish ==
  /\ fin = "open" /\ fin' \in {"closed", "reset"}
  /\ UNCHANGED <<written, own, pos, ret>>

(* A send was told of the reset.                                           *)
Report ==
  /\ fin = "reset" /\ fin' = "broken"
  /\ UNCHANGED <<written, own, pos, ret>>

Close ==
  /\ own = "open" /\ own' = "closed"
  /\ UNCHANGED <<written, fin, pos, ret>>

(* A line can go on with the text of a line, a block with that of a block. *)
GoesOn(pattern) == Broken(ret) /\ (pattern = "line" <=> ret.pattern = "line")

(* The program is given the bytes up to some place, from here or from      *)
(* where the answer it goes on with began.                                 *)
Answer(pattern, goal) ==
  \E to \in pos .. written, status \in Statuses \ {"none"},
     from \in {pos} \cup (IF GoesOn(pattern) THEN {ret.from} ELSE {}) :
    /\ IF status = "done" THEN Whole(pattern, goal, from, to)
                          ELSE Why(status, pattern, from, to)
    /\ pos' = to
    /\ ret' = [status |-> status, pattern |-> pattern, goal |-> goal, from |-> from,
               text |-> Text(pattern, from, to)]
    /\ fin' = IF status = "reset" THEN "broken" ELSE fin
    /\ UNCHANGED <<written, own>>

Next ==
  \/ Write \/ Finish \/ Report \/ Close
  \/ \E pattern \in {"line", "raw", "all"}, goal \in Goals : Answer(pattern, goal)

Spec == Init /\ [][Next]_vars
=============================================================================
