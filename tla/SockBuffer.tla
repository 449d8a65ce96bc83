----------------------------- MODULE SockBuffer -----------------------------
(* A connected LuaSocket client object: the read buffer and the send loop  *)
(* of buffer.c over the system calls of usocket.c, with the time limits of *)
(* timeout.c, and select with its question whether a buffer holds bytes.   *)
(* The process has one thread: the program makes one call at a time, and   *)
(* between the system calls of a call the peer, the kernel and the clock   *)
(* move on.  Bytes are named by their place in the stream they belong to:  *)
(* Kind is what the peer writes, 1 .. OutLen what the program sends.       *)
EXTENDS Integers, Sequences

CONSTANTS
  Kind,      \* the stream of the peer: a sequence of "chr", "cr" and "lf"
  OutLen,    \* length of the string the program sends
  BufSize,   \* BUF_SIZE
  StepSize,  \* STEPSIZE
  Word,      \* 2^w, for the w bits of a size_t
  Room,      \* how many bytes being sent the kernel holds
  Counts,    \* numbers given to receive
  Limits,    \* limits of either mode given to settimeout, in ticks; -1 for none
  Waits,     \* limits given to select
  Horizon    \* no limit is longer: the clock of a call stops there

ASSUME SizesAssumption ==
  /\ Kind \in Seq({"chr", "cr", "lf"})
  /\ BufSize \in Nat \ {0} /\ StepSize \in Nat \ {0} /\ Room \in Nat \ {0} /\ OutLen \in Nat
  /\ Counts \subseteq Nat /\ Horizon \in Nat /\ Waits \subseteq -1 .. Horizon
  /\ Limits \in [{"block", "total"} -> SUBSET (-1 .. Horizon)]
  /\ Word \in Nat /\ Word > Len(Kind) /\ \A n \in Counts : n < Word

VARIABLES
  written,    \* bytes the peer has written
  fin,        \* the end of the peer: "open", "closed", "reset", or "broken" once reported
  own,        \* the end of the program: "open" or "closed"
  taken,      \* bytes of the stream that recv has handed over
  data,       \* buf->data
  first,      \* buf->first
  last,       \* buf->last
  received,   \* buf->received, as getstats answers it
  out,        \* the bytes the kernel has accepted, in order
  drained,    \* how many of them have left the kernel
  acked,      \* the index the last send answered
  tm,         \* the limits of the object
  call,       \* the running call and its locals
  elapsed,    \* ticks since timeout_markstart
  waiting,    \* in the select of socket_waitfd or of socket_select
  deadline,   \* when that select gives up, -1 for never
  ret,        \* the last answer of receive
  chosen      \* the answer of the select just made

conn == <<written, fin, own>>
buf == <<taken, data, first, last, received>>
sending == <<out, acked>>
clock == <<elapsed, waiting, deadline>>
vars == <<conn, buf, sending, drained, tm, call, clock, ret, chosen>>

NoLimit == [block |-> -1, total |-> -1]

(* wanted and total are those of recvraw, recvall and sendraw, acc is the  *)
(* luaL_Buffer of receive, start the first index of send.  goal, from and  *)
(* base are no locals: the number given to receive, where the text of acc  *)
(* began in the stream, and received when the call began.                  *)
Idle == [op |-> "none", lim |-> NoLimit, wanted |-> 0, total |-> 0, acc |-> <<>>,
         start |-> 0, goal |-> 0, from |-> 0, base |-> 0]

MinOf(a, b) == IF a < b THEN a ELSE b
-----------------------------------------------------------------------------
(* timeout.c: what is left of the limits for a call that has just failed.  *)
Left(limit) == IF limit > elapsed THEN limit - elapsed ELSE 0

(* Mutant: the block limit alone starts again at every wait.               *)
GetRetryWhole(l) ==
  IF l.block < 0 THEN IF l.total < 0 THEN -1 ELSE Left(l.total)
  ELSE IF l.total < 0 THEN l.block ELSE MinOf(l.block, Left(l.total))

GetRetry(l) ==
  CASE l.block < 0 /\ l.total < 0 -> -1
    [] l.block < 0 /\ l.total >= 0 -> Left(l.total)
    [] l.block >= 0 /\ l.total < 0 -> Left(l.block)
    [] OTHER -> MinOf(l.block, Left(l.total))

(* Mutant: no limit is taken for a limit of nothing.                       *)
IsZeroOrNone(l) == l.block <= 0

IsZero(l) == l.block = 0

GivesUp(l) == IF GetRetry(l) < 0 THEN -1 ELSE elapsed + GetRetry(l)

MarkStart == elapsed' = 0 /\ waiting' = FALSE /\ deadline' = -1

(* socket_waitfd, entered when a call would block.                         *)
Wait(l) ==
  /\ waiting' = TRUE /\ deadline' = GivesUp(l)
  /\ UNCHANGED elapsed
-----------------------------------------------------------------------------
(* What recv, send and select find.  A reset is reported once, to the recv *)
(* or the send that meets it first, and is a plain end from then on.       *)
Available == written - taken
Space == Room - (Len(out) - drained)
Readable == Available > 0 \/ fin # "open"
Lost == fin \in {"reset", "broken"}
Writable == Space > 0 \/ Lost

RecvFails == own = "closed" \/ (Available = 0 /\ fin # "open")
RecvError == IF own = "open" /\ fin = "reset" THEN "reset" ELSE "closed"
Reported == fin' = IF own = "open" /\ fin = "reset" THEN "broken" ELSE fin

RecvBlocks == own = "open" /\ Available = 0 /\ fin = "open"
SendBlocks == own = "open" /\ ~Lost /\ Space = 0

Receiving == call.op \in {"line", "raw", "all"}
Sending == call.op = "send"
Selecting == call.op = "select"

IsEmpty == first >= last

(* check_dirty of select: a closed object has no descriptor any more, and   *)
(* is passed over whatever its buffer holds.                                *)
Dirty == own = "open" /\ ~IsEmpty
-----------------------------------------------------------------------------
(* The calls of the program                                                *)

SetTimeout ==
  /\ call = Idle
  /\ \E mode \in {"block", "total"} : \E t \in Limits[mode] : tm' = [tm EXCEPT ![mode] = t]
  /\ UNCHANGED <<conn, buf, sending, drained, call, clock, ret, chosen>>

Broken(r) == r.status \in {"timeout", "closed", "reset"}

(* The prefix is empty, or the text of the answer that was cut short: a    *)
(* program goes on with a line where it read a line.                       *)
GoesOn(pattern) == Broken(ret) /\ (pattern = "line" <=> ret.pattern = "line")

(* Mutant: what the prefix already holds is not taken off the number.      *)
ReceiveWhole(pattern, n, again) ==
  /\ call = Idle
  /\ again => GoesOn(pattern)
  /\ call' = [Idle EXCEPT !.op = pattern, !.lim = tm, !.goal = n,
                !.acc = IF again THEN ret.text ELSE <<>>,
                !.wanted = IF pattern = "raw" THEN n ELSE 0,
                !.from = IF again THEN ret.from ELSE received, !.base = received]
  /\ MarkStart /\ chosen' = "none"
  /\ UNCHANGED <<conn, buf, sending, drained, tm, ret>>

Receive(pattern, n, again) ==
  LET part == IF again THEN ret.text ELSE <<>>
  IN  /\ call = Idle
      /\ again => GoesOn(pattern)
      /\ call' = [Idle EXCEPT !.op = pattern, !.lim = tm, !.goal = n, !.acc = part,
                    !.wanted = IF pattern = "raw" THEN (n - Len(part)) % Word ELSE 0,
                    !.from = IF again THEN ret.from ELSE received, !.base = received]
      /\ MarkStart /\ chosen' = "none"
      /\ UNCHANGED <<conn, buf, sending, drained, tm, ret>>

FromEnd(i) == IF i < 0 THEN OutLen + i + 1 ELSE i

(* send(data, i, j); i and j may count from the end.                       *)
Send(i, j) ==
  LET i1 == IF FromEnd(i) < 1 THEN 1 ELSE FromEnd(i)
      j1 == MinOf(FromEnd(j), OutLen)
  IN  /\ call = Idle
      /\ IF i1 <= j1
         THEN /\ call' = [Idle EXCEPT !.op = "send", !.lim = tm, !.start = i1,
                            !.wanted = j1 - i1 + 1, !.base = received]
              /\ UNCHANGED acked
         ELSE acked' = i1 - 1 /\ UNCHANGED call
      /\ MarkStart /\ chosen' = "none"
      /\ UNCHANGED <<conn, buf, out, drained, tm, ret>>

(* A program sends what follows the index it was last answered, or nothing. *)
SendRest ==
  \E j \in acked .. OutLen, i \in {acked + 1, acked - OutLen} \ {0} :
    Send(i, j) \/ Send(i, j - OutLen - 1)

(* select({object}, nil, t): an object that is dirty is taken out of the    *)
(* set, and then nothing is waited for.                                    *)
(* Mutant: the buffer is not asked for.                                    *)
SelectAsleep(t) ==
  /\ call = Idle
  /\ call' = [Idle EXCEPT !.op = "select", !.lim.block = t, !.base = received]
  /\ elapsed' = 0 /\ waiting' = TRUE /\ deadline' = t
  /\ chosen' = "none"
  /\ UNCHANGED <<conn, buf, sending, drained, tm, ret>>

Select(t) ==
  /\ call = Idle
  /\ LET l == [block |-> IF Dirty THEN 0 ELSE t, total |-> -1]
     IN  /\ call' = [Idle EXCEPT !.op = "select", !.lim = l, !.base = received]
         /\ deadline' = l.block
  /\ elapsed' = 0 /\ waiting' = TRUE
  /\ chosen' = "none"
  /\ UNCHANGED <<conn, buf, sending, drained, tm, ret>>

Close ==
  /\ call = Idle /\ own = "open" /\ own' = "closed" /\ chosen' = "none"
  /\ UNCHANGED <<written, fin, buf, sending, drained, tm, call, clock, ret>>
-----------------------------------------------------------------------------
(* receive: a turn of the loop of recvline, recvraw or recvall, after      *)
(* buffer_get has answered err with the buffer d from f to l.              *)

Block(d, f, n) == [i \in 1 .. n |-> d[f + i - 1]]

Chars(bytes) ==
  LET upto[n \in 0 .. Len(bytes)] ==
        IF n = 0 THEN <<>>
        ELSE IF Kind[bytes[n]] = "cr" THEN upto[n - 1] ELSE Append(upto[n - 1], bytes[n])
  IN  upto[Len(bytes)]

Newlines(d, f, l) == {k \in f .. l - 1 : Kind[d[k]] = "lf"}

Ends(d, f, l) == CHOOSE k \in Newlines(d, f, l) : \A m \in Newlines(d, f, l) : k <= m

(* buffer_skip                                                             *)
(* Mutant: only the index of the first byte starts again.                  *)
SkipFirst(f, l, n) ==
  /\ received' = received + n
  /\ first' = IF f + n >= l THEN 0 ELSE f + n
  /\ last' = l

Skip(f, l, n) ==
  /\ received' = received + n
  /\ first' = IF f + n >= l THEN 0 ELSE f + n
  /\ last' = IF f + n >= l THEN 0 ELSE l

Answer(status, text) ==
  /\ ret' = [status |-> status, pattern |-> call.op, goal |-> call.goal,
             from |-> call.from, text |-> text]
  /\ call' = Idle /\ MarkStart

Continue(text, n) ==
  /\ call' = [call EXCEPT !.acc = text, !.total = @ + n]
  /\ waiting' = FALSE /\ deadline' = -1
  /\ UNCHANGED <<elapsed, ret>>

RawTurn(err, d, f, l) ==
  LET n == MinOf(l - f, call.wanted - call.total)
      text == call.acc \o Block(d, f, n)
  IN  /\ call.op = "raw"
      /\ Skip(f, l, n)
      /\ IF call.total + n >= call.wanted \/ err # "done"
         THEN Answer(err, text) ELSE Continue(text, n)

AllTurn(err, d, f, l) ==
  LET text == call.acc \o Block(d, f, l - f)
  IN  /\ call.op = "all"
      /\ Skip(f, l, l - f)
      /\ CASE err = "done" -> Continue(text, l - f)
           [] err = "closed" /\ call.total + l - f > 0 -> Answer("done", text)
           [] OTHER -> Answer(err, text)

LineTurn(err, d, f, l) ==
  /\ call.op = "line"
  /\ IF Newlines(d, f, l) # {}
     THEN LET n == Ends(d, f, l) - f
          IN  Skip(f, l, n + 1) /\ Answer(err, call.acc \o Chars(Block(d, f, n)))
     ELSE LET text == call.acc \o Chars(Block(d, f, l - f))
          IN  /\ Skip(f, l, l - f)
              /\ IF err = "done" THEN Continue(text, 0) ELSE Answer(err, text)

Turn(err, d, f, l) ==
  /\ RawTurn(err, d, f, l) \/ AllTurn(err, d, f, l) \/ LineTurn(err, d, f, l)
  /\ UNCHANGED <<written, own, sending, drained, tm, chosen>>

TurnFromBuffer ==
  /\ Receiving /\ ~waiting /\ ~IsEmpty
  /\ Turn("done", data, first, last)
  /\ UNCHANGED <<taken, data, fin>>

TurnFromKernel ==
  /\ Receiving /\ ~waiting /\ IsEmpty /\ own = "open" /\ Available > 0
  /\ \E n \in 1 .. MinOf(BufSize, Available) :
       /\ data' = [i \in DOMAIN data |-> IF i < n THEN taken + i + 1 ELSE data[i]]
       /\ taken' = taken + n
       /\ Turn("done", data', 0, n)
  /\ UNCHANGED fin

TurnOnError ==
  /\ Receiving /\ ~waiting /\ IsEmpty /\ RecvFails
  /\ Turn(RecvError, data, 0, 0) /\ Reported
  /\ UNCHANGED <<taken, data>>

TurnOnTimeout ==
  /\ Receiving
  /\ \/ ~waiting /\ IsEmpty /\ RecvBlocks /\ IsZero(call.lim)
     \/ waiting /\ deadline >= 0 /\ elapsed >= deadline
  /\ Turn("timeout", data, 0, 0)
  /\ UNCHANGED <<taken, data, fin>>

RecvWait ==
  /\ Receiving /\ ~waiting /\ IsEmpty /\ RecvBlocks /\ ~IsZero(call.lim)
  /\ Wait(call.lim)
  /\ UNCHANGED <<conn, buf, sending, drained, tm, call, ret, chosen>>
-----------------------------------------------------------------------------
(* send: the loop of sendraw.                                              *)

(* Mutant: the number of bytes is answered, not the index of the last.     *)
SendAnswerCount(n) ==
  /\ acked' = n
  /\ call' = Idle /\ MarkStart

SendAnswer(n) ==
  /\ acked' = n + call.start - 1
  /\ call' = Idle /\ MarkStart

SendSome ==
  /\ Sending /\ ~waiting /\ own = "open" /\ ~Lost /\ Space > 0
  /\ LET step == MinOf(call.wanted - call.total, StepSize)
     IN  \E n \in 1 .. MinOf(step, Space) :
           /\ out' = out \o [i \in 1 .. n |-> call.start + call.total + i - 1]
           /\ IF call.total + n >= call.wanted
              THEN SendAnswer(call.total + n)
              ELSE /\ call' = [call EXCEPT !.total = @ + n]
                   /\ UNCHANGED <<acked, clock>>
  /\ UNCHANGED <<conn, buf, drained, tm, ret, chosen>>

SendFails ==
  /\ Sending
  /\ \/ ~waiting /\ (own = "closed" \/ Lost) /\ Reported
     \/ ~waiting /\ SendBlocks /\ IsZero(call.lim) /\ UNCHANGED fin
     \/ waiting /\ deadline >= 0 /\ elapsed >= deadline /\ UNCHANGED fin
  /\ SendAnswer(call.total)
  /\ UNCHANGED <<written, own, buf, out, drained, tm, ret, chosen>>

SendWait ==
  /\ Sending /\ ~waiting /\ SendBlocks /\ ~IsZero(call.lim)
  /\ Wait(call.lim)
  /\ UNCHANGED <<conn, buf, sending, drained, tm, call, ret, chosen>>
-----------------------------------------------------------------------------
(* The end of a wait                                                       *)

WaitDone ==
  /\ waiting
  /\ (Receiving /\ Readable) \/ (Sending /\ Writable)
  /\ waiting' = FALSE /\ deadline' = -1
  /\ UNCHANGED <<conn, buf, sending, drained, tm, call, elapsed, ret, chosen>>

(* A signal: the select is made again with what is left by then.           *)
Interrupted ==
  /\ waiting /\ deadline' = GivesUp(call.lim)
  /\ UNCHANGED <<conn, buf, sending, drained, tm, call, elapsed, waiting, ret, chosen>>

(* Mutant: an expired wait is a timeout, whatever was dirty.               *)
SelectAnswersLate ==
  /\ Selecting
  /\ \/ own = "open" /\ IsEmpty /\ Readable /\ chosen' = "ready"
     \/ deadline >= 0 /\ elapsed >= deadline /\ chosen' = "timeout"
  /\ call' = Idle /\ MarkStart
  /\ UNCHANGED <<conn, buf, sending, drained, tm, ret>>

SelectAnswers ==
  /\ Selecting
  /\ \/ own = "open" /\ IsEmpty /\ Readable /\ chosen' = "ready"
     \/ /\ deadline >= 0 /\ elapsed >= deadline
        /\ chosen' = IF Dirty THEN "ready" ELSE "timeout"
  /\ call' = Idle /\ MarkStart
  /\ UNCHANGED <<conn, buf, sending, drained, tm, ret>>
-----------------------------------------------------------------------------
(* The peer, the kernel and the clock                                      *)

Write ==
  /\ fin = "open"
  /\ \E n \in written + 1 .. Len(Kind) : written' = n
  /\ UNCHANGED <<fin, own, buf, sending, drained, tm, call, clock, ret, chosen>>

Finish ==
  /\ fin = "open" /\ fin' \in {"closed", "reset"}
  /\ UNCHANGED <<written, own, buf, sending, drained, tm, call, clock, ret, chosen>>

Drain ==
  /\ drained < Len(out) /\ drained' = drained + 1
  /\ UNCHANGED <<conn, buf, sending, tm, call, clock, ret, chosen>>

Tick ==
  /\ call # Idle /\ elapsed < Horizon /\ elapsed' = elapsed + 1
  /\ UNCHANGED <<conn, buf, sending, drained, tm, call, waiting, deadline, ret, chosen>>
-----------------------------------------------------------------------------
Init ==
  /\ written = 0 /\ fin = "open" /\ own = "open"
  /\ taken = 0 /\ first = 0 /\ last = 0 /\ received = 0
  /\ data = [i \in 0 .. BufSize - 1 |-> 0]
  /\ out = <<>> /\ drained = 0 /\ acked = 0
  /\ tm = NoLimit /\ call = Idle
  /\ elapsed = 0 /\ waiting = FALSE /\ deadline = -1
  /\ ret = [status |-> "none", pattern |-> "raw", goal |-> 0, from |-> 0, text |-> <<>>]
  /\ chosen = "none"

Program ==
  \/ SetTimeout \/ SendRest \/ Close
  \/ \E t \in Waits : Select(t)
  \/ \E again \in BOOLEAN :
       \/ \E n \in Counts : Receive("raw", n, again)
       \/ Receive("line", 0, again) \/ Receive("all", 0, again)

Run ==
  \/ TurnFromBuffer \/ TurnFromKernel \/ TurnOnError \/ TurnOnTimeout \/ RecvWait
  \/ SendSome \/ SendFails \/ SendWait \/ WaitDone \/ SelectAnswers

Next == Program \/ Run \/ Interrupted \/ Write \/ Finish \/ Drain \/ Tick

Spec == Init /\ [][Next]_vars

(* The process is scheduled and time passes.  Nothing is asked of the      *)
(* peer, of the kernel's queue, or of the program between two calls.       *)
FairSpec == Spec /\ WF_vars(Run) /\ WF_vars(Tick)
-----------------------------------------------------------------------------
Limited == call.lim.block >= 0 \/ call.lim.total >= 0

(* What the object keeps is what the stream says: the buffer holds exactly *)
(* the bytes that recv handed over and no answer has used, in order, and   *)
(* getstats counts the others (buffer_get, buffer_skip).                   *)
BufferSound ==
  /\ received + (last - first) = taken /\ taken <= written
  /\ 0 <= first /\ first <= last /\ last <= BufSize
  /\ \A i \in first .. last - 1 : data[i] = received + 1 + (i - first)

(* What the kernel was given is the beginning of the program's string,     *)
(* with no byte missing and none repeated, however often a send was cut    *)
(* short and taken up again at the index it answered (sendraw).            *)
SendExact ==
  /\ out = [i \in 1 .. Len(out) |-> i]
  /\ ~Sending => acked = Len(out)

(* No wait of a call outlasts its limits, counted from the beginning of    *)
(* the call: after the total limit, or the block limit when it stands      *)
(* alone, the next wait only looks (timeout_getretry).                     *)
WaitsBounded ==
  waiting /\ Limited =>
    LET limit == IF call.lim.total >= 0 THEN call.lim.total ELSE call.lim.block
    IN  deadline >= 0 /\ (deadline <= limit \/ deadline <= elapsed)

(* A select that answers that the object is ready is right for as long as  *)
(* the program makes no other call, and one that timed out overlooked      *)
(* nothing in the buffer of an object that is still open (check_dirty); a   *)
(* closed object is never ready, though receive would still give what its   *)
(* buffer holds.                                                            *)
SelectHonest ==
  /\ chosen = "ready" => own = "open" /\ (~IsEmpty \/ Readable)
  /\ chosen = "timeout" => ~Dirty

(* A receive answers "timeout" only when one of its limits has passed.     *)
TimeoutHonest ==
  [][Receiving /\ call' = Idle /\ ret'.status = "timeout" =>
       \/ call.lim.block >= 0 /\ elapsed >= call.lim.block
       \/ call.lim.total >= 0 /\ elapsed >= call.lim.total]_vars

(* A call with a limit returns, and so does a receive or a send without one *)
(* on a closed object, or when the peer has ended; a select without one     *)
(* returns when the object is open and there is something to read, in the   *)
(* kernel or in the buffer.  Signals do not keep a call for ever.           *)
MustReturn ==
  \/ call # Idle /\ Limited
  \/ (Receiving \/ Sending) /\ own = "closed"
  \/ Receiving /\ fin # "open"
  \/ Sending /\ Lost
  \/ Selecting /\ own = "open" /\ (Readable \/ ~IsEmpty)

CallsReturn == MustReturn ~> call = Idle

(* Read as the stream of ByteStream, with the text of a running call not   *)
(* yet given to the program.                                               *)
Stream == INSTANCE ByteStream
  WITH pos <- IF call = Idle THEN received ELSE call.base, Goals <- Counts \cup {0}

(* Every answer of receive is what the pattern selects from the stream,    *)
(* whole if it says so, with nothing lost, repeated or put out of order by *)
(* timeouts, by the end of the connection, or by the program going on      *)
(* after them with the partial text as prefix (buffer_meth_receive).       *)
AnswersTheStream == Stream!Spec
=============================================================================
