------------------------- MODULE SockBuffer_proofs --------------------------
(***************************************************************************)
(* What SockBuffer promises, for every stream, every size of the buffers   *)
(* and every set of limits.                                                *)
(*                                                                         *)
(* The heart is that recv is called into an empty buffer only: a wait of a *)
(* receive then has an empty buffer too, and what a turn of a loop takes   *)
(* from the buffer, it takes from its beginning.                           *)
(*                                                                         *)
(* For the refinement of ByteStream, the text of a call is followed from   *)
(* turn to turn: it is always what the pattern selects from where the text *)
(* began to where the object is now (StreamInv), and raw has counted so    *)
(* that it stops at the number asked for, whatever the prefix (WantedIs).  *)
(***************************************************************************)
EXTENDS SockBuffer, SequenceTheorems, WellFoundedInduction, TLAPS

LimitType == [block : Int, total : Int]

(* The text of a line is left out: whatever a line is, its text is no      *)
(* prefix of a block.                                                      *)
CallOK ==
  /\ call \in [op : {"none", "line", "raw", "all", "send", "select"}, lim : LimitType,
               wanted : Nat, total : Nat, acc : {call.acc}, start : Nat, goal : Nat,
               from : Nat, base : Nat]
  /\ call.op \in {"raw", "all"} => call.acc \in Seq(Int)
  /\ call.op = "raw" => call.total <= call.wanted

RetOK ==
  /\ ret.pattern # "line" => ret.text \in Seq(Int)
  /\ ret.from \in Nat

Types ==
  /\ written \in Nat /\ taken \in Nat /\ received \in Nat /\ first \in Nat /\ last \in Nat
  /\ data \in [0 .. BufSize - 1 -> Nat]
  /\ out \in Seq(Nat) /\ acked \in Int
  /\ tm \in LimitType /\ CallOK /\ RetOK
  /\ elapsed \in Nat /\ waiting \in BOOLEAN /\ deadline \in Int

(* The bytes at f .. l-1 of d are those behind the first r of the stream.  *)
Holds(d, f, l, r) == \A i \in f .. l - 1 : d[i] = r + 1 + (i - f)

WaitsEmpty == waiting /\ Receiving => IsEmpty

(* The inductive invariant of the read buffer.                             *)
ReadInv == Types /\ BufferSound /\ WaitsEmpty

-----------------------------------------------------------------------------
LEMMA Sizes ==
  /\ BufSize \in Nat \ {0} /\ StepSize \in Nat \ {0} /\ Room \in Nat \ {0} /\ OutLen \in Nat
  /\ Counts \subseteq Nat /\ Horizon \in Nat /\ Word \in Nat \ {0}
  /\ Waits \subseteq Int
  /\ Limits.block \subseteq Int /\ Limits.total \subseteq Int
<1>1. Len(Kind) \in Nat
  BY SizesAssumption
<1>2. Limits \in [{"block", "total"} -> SUBSET Int]
  BY SizesAssumption
<1> QED
  BY <1>1, <1>2, SizesAssumption

LEMMA MinOfIs ==
  ASSUME NEW a \in Int, NEW b \in Int
  PROVE  MinOf(a, b) \in {a, b} /\ MinOf(a, b) <= a /\ MinOf(a, b) <= b
BY DEF MinOf

LEMMA SmallestIs ==
  ASSUME NEW S \in SUBSET Nat, S # {}
  PROVE  \E k \in S : \A m \in S : k <= m
<1> DEFINE R == OpToRel(<, Nat)
<1>1. IsWellFoundedOn(R, Nat)
  BY NatLessThanWellFounded, Zenon
<1>2. \A m, k \in Nat : m < k => <<m, k>> \in R
  BY Zenon DEF OpToRel
<1> HIDE DEF R
<1>3. PICK k \in S : \A m \in S : ~ (<<m, k>> \in R)
  BY <1>1, WFMin
<1>4. \A m \in S : ~ (m < k) /\ m \in Nat /\ k \in Nat
  BY <1>2, <1>3
<1>5. \A m \in S : k <= m
  BY <1>4
<1> QED
  BY <1>5

(* The end of a line is the first newline.                                 *)
LEMMA EndsIs ==
  ASSUME NEW d, NEW f \in Nat, NEW l \in Nat, Newlines(d, f, l) # {}
  PROVE  /\ Ends(d, f, l) \in f .. l - 1 /\ Kind[d[Ends(d, f, l)]] = "lf"
         /\ \A m \in f .. Ends(d, f, l) - 1 : Kind[d[m]] # "lf"
<1>1. Newlines(d, f, l) \subseteq f .. l - 1 /\ Newlines(d, f, l) \subseteq Nat
  BY DEF Newlines
<1>2. \E k \in Newlines(d, f, l) : \A m \in Newlines(d, f, l) : k <= m
  BY <1>1, SmallestIs
<1>3. Ends(d, f, l) \in Newlines(d, f, l) /\ \A m \in Newlines(d, f, l) : Ends(d, f, l) <= m
  BY <1>2 DEF Ends
<1> DEFINE e == Ends(d, f, l)
<1>4. e \in f .. l - 1
  BY <1>1, <1>3
<1>5. ASSUME NEW m \in f .. e - 1, Kind[d[m]] = "lf" PROVE FALSE
  <2>1. m \in f .. l - 1 /\ ~(e <= m)
    BY <1>4
  <2>2. m \in Newlines(d, f, l)
    BY <1>5, <2>1 DEF Newlines
  <2> QED
    BY <1>3, <2>1, <2>2
<1>6. Kind[d[e]] = "lf"
  BY <1>3 DEF Newlines
<1> QED
  BY <1>4, <1>5, <1>6

LEMMA BlockIs ==
  ASSUME NEW d \in [0 .. BufSize - 1 -> Nat], NEW f \in Nat, NEW n \in Nat, f + n <= BufSize
  PROVE  Block(d, f, n) \in Seq(Int)
<1>1. \A i \in 1 .. n : d[f + i - 1] \in Int
  BY Sizes
<1> QED
  BY <1>1 DEF Block

(* Skipping n bytes leaves those behind them.                              *)
LEMMA SkipKeeps ==
  ASSUME NEW d, NEW f \in Nat, NEW l \in Nat, NEW n \in Nat, received \in Nat,
         f + n <= l, l <= BufSize, Holds(d, f, l, received), Skip(f, l, n)
  PROVE  /\ received' \in Nat /\ first' \in Nat /\ last' \in Nat
         /\ received' + (last' - first') = received + (l - f)
         /\ first' <= last' /\ last' <= BufSize
         /\ Holds(d, first', last', received')
<1>1. CASE f + n >= l
  BY <1>1, Sizes DEF Skip, Holds
<1>2. CASE f + n < l
  <2>1. received' = received + n /\ first' = f + n /\ last' = l
    BY <1>2 DEF Skip
  <2>2. Holds(d, f + n, l, received + n)
    BY <1>2 DEF Holds
  <2> QED
    BY <2>1, <2>2, <1>2
<1> QED
  BY <1>1, <1>2

-----------------------------------------------------------------------------
(* A turn of the loops of receive.                                         *)
StillTyped ==
  /\ CallOK' /\ RetOK'
  /\ waiting' = FALSE /\ deadline' \in Int /\ elapsed' \in Nat

LEMMA AnswerTyped ==
  ASSUME Types, NEW status, NEW text, Answer(status, text),
         call.op # "line" => text \in Seq(Int)
  PROVE  StillTyped
<1>1. call' = Idle /\ waiting' = FALSE /\ deadline' = -1 /\ elapsed' = 0
  BY DEF Answer, MarkStart
<1>2. CallOK'
  BY <1>1 DEF CallOK, Idle, LimitType, NoLimit
<1>3. ret'.pattern = call.op /\ ret'.text = text /\ ret'.from = call.from
  BY DEF Answer
<1>4. RetOK'
  BY <1>3 DEF RetOK, Types, CallOK
<1> QED
  BY <1>1, <1>2, <1>4 DEF StillTyped

LEMMA ContinueTyped ==
  ASSUME Types, NEW text, NEW n \in Nat, Continue(text, n),
         call.op \in {"raw", "all"} => text \in Seq(Int),
         call.op = "raw" => call.total + n <= call.wanted
  PROVE  StillTyped
<1>1. call' = [call EXCEPT !.acc = text, !.total = @ + n]
  BY DEF Continue
<1>2. CallOK'
  <2> DEFINE R(acc) == [op : {"none", "line", "raw", "all", "send", "select"}, lim : LimitType,
                        wanted : Nat, total : Nat, acc : {acc}, start : Nat, goal : Nat,
                        from : Nat, base : Nat]
             mid == [call EXCEPT !.acc = text]
  <2>1. call \in R(call.acc)
    BY DEF Types, CallOK
  <2>2. mid \in R(text) /\ mid.op = call.op /\ mid.wanted = call.wanted /\ mid.total = call.total
    BY <2>1
  <2>3. call' = [mid EXCEPT !.total = mid.total + n]
    BY <1>1, <2>1, <2>2
  <2> HIDE DEF mid
  <2>4. /\ call' \in R(text) /\ call'.op = call.op /\ call'.wanted = call.wanted
        /\ call'.total = call.total + n /\ call'.acc = text
    BY <2>2, <2>3
  <2> QED
    BY <2>4 DEF CallOK
<1>3. RetOK'
  BY DEF Continue, Types, RetOK
<1> QED
  BY <1>2, <1>3 DEF Continue, StillTyped, Types

LEMMA TurnKeeps ==
  ASSUME Types, NEW err, NEW d \in [0 .. BufSize - 1 -> Nat], NEW f \in Nat, NEW l \in Nat,
         f <= l, l <= BufSize, Holds(d, f, l, received), Turn(err, d, f, l)
  PROVE  /\ StillTyped
         /\ received' \in Nat /\ first' \in Nat /\ last' \in Nat
         /\ received' + (last' - first') = received + (l - f)
         /\ first' <= last' /\ last' <= BufSize
         /\ Holds(d, first', last', received')
<1> USE Sizes
<1>0. /\ received \in Nat
      /\ call.wanted \in Nat /\ call.total \in Nat
      /\ call.op \in {"raw", "all"} => call.acc \in Seq(Int)
      /\ call.op = "raw" => call.total <= call.wanted
  BY DEF Types, CallOK
<1>1. CASE RawTurn(err, d, f, l)
  <2> DEFINE n == MinOf(l - f, call.wanted - call.total)
             text == call.acc \o Block(d, f, n)
  <2>1. call.op = "raw" /\ Skip(f, l, n)
    BY <1>1 DEF RawTurn
  <2>2. n \in Nat /\ f + n <= l /\ call.total + n <= call.wanted
    BY <1>0, <2>1 DEF MinOf
  <2>3. text \in Seq(Int)
    <3>1. Block(d, f, n) \in Seq(Int)
      BY <2>2, BlockIs
    <3> HIDE DEF n
    <3> QED
      BY <1>0, <2>1, <3>1
  <2>4. Answer(err, text) \/ Continue(text, n)
    BY <1>1 DEF RawTurn
  <2> HIDE DEF n, text
  <2>5. StillTyped
    BY <2>1, <2>2, <2>3, <2>4, AnswerTyped, ContinueTyped
  <2> QED
    BY <1>0, <2>1, <2>2, <2>5, SkipKeeps
<1>2. CASE AllTurn(err, d, f, l)
  <2> DEFINE text == call.acc \o Block(d, f, l - f)
  <2>1. call.op = "all" /\ Skip(f, l, l - f)
    BY <1>2 DEF AllTurn
  <2>2. text \in Seq(Int)
    <3>1. Block(d, f, l - f) \in Seq(Int)
      BY BlockIs
    <3> QED
      BY <1>0, <2>1, <3>1
  <2>3. (\E status : Answer(status, text)) \/ Continue(text, l - f)
    BY <1>2, Zenon DEF AllTurn
  <2> HIDE DEF text
  <2>4. l - f \in Nat /\ f + (l - f) <= l
    OBVIOUS
  <2>5. StillTyped
    BY <2>1, <2>2, <2>3, <2>4, AnswerTyped, ContinueTyped
  <2> QED
    BY <1>0, <2>1, <2>4, <2>5, SkipKeeps
<1>3. CASE LineTurn(err, d, f, l)
  <2>1. call.op = "line"
    BY <1>3 DEF LineTurn
  <2>2. CASE Newlines(d, f, l) # {}
    <3> DEFINE n == Ends(d, f, l) - f
    <3>1. Skip(f, l, n + 1) /\ Answer(err, call.acc \o Chars(Block(d, f, n)))
      BY <1>3, <2>2 DEF LineTurn
    <3>2. n + 1 \in Nat /\ f + (n + 1) <= l
      <4>1. Ends(d, f, l) \in f .. l - 1
        BY <2>2, EndsIs
      <4> QED
        BY <4>1
    <3> HIDE DEF n
    <3>3. StillTyped
      BY <2>1, <3>1, AnswerTyped
    <3> QED
      BY <1>0, <3>1, <3>2, <3>3, SkipKeeps
  <2>3. CASE Newlines(d, f, l) = {}
    <3> DEFINE text == call.acc \o Chars(Block(d, f, l - f))
    <3>1. Skip(f, l, l - f) /\ (Answer(err, text) \/ Continue(text, 0))
      BY <1>3, <2>3 DEF LineTurn
    <3> HIDE DEF text
    <3>2. l - f \in Nat /\ f + (l - f) <= l
      OBVIOUS
    <3>3. StillTyped
      BY <2>1, <3>1, AnswerTyped, ContinueTyped
    <3> QED
      BY <1>0, <3>1, <3>2, <3>3, SkipKeeps
  <2> QED
    BY <2>2, <2>3
<1> QED
  BY <1>1, <1>2, <1>3 DEF Turn

-----------------------------------------------------------------------------
(* Every step keeps the read buffer sound.                                 *)
LEMMA ModuloNat ==
  ASSUME NEW a \in Int, NEW b \in Nat \ {0}
  PROVE  a % b \in Nat
OBVIOUS

LEMMA CallStays == CallOK /\ call' = call => CallOK'
BY DEF CallOK

LEMMA ReceiveTyped ==
  ASSUME Types, NEW pattern \in {"raw", "line", "all"}, NEW n \in Nat, NEW again \in BOOLEAN,
         Receive(pattern, n, again)
  PROVE  CallOK'
<1> DEFINE part == IF again THEN ret.text ELSE <<>>
           wanted == IF pattern = "raw" THEN (n - Len(part)) % Word ELSE 0
<1>1. pattern \in {"raw", "all"} => part \in Seq(Int)
  BY DEF Receive, GoesOn, Types, RetOK
<1>2. wanted \in Nat
  <2>1. CASE pattern = "raw"
    <3>1. Len(part) \in Nat
      BY <1>1, <2>1
    <3>2. n - Len(part) \in Int
      BY <3>1
    <3>3. (n - Len(part)) % Word \in Nat
      BY <3>2, Sizes, ModuloNat
    <3> QED
      BY <2>1, <3>3
  <2> QED
    BY <2>1
<1>3. call' = [op |-> pattern, lim |-> tm, wanted |-> wanted, total |-> 0, acc |-> part,
               start |-> 0, goal |-> n, from |-> IF again THEN ret.from ELSE received,
               base |-> received]
  BY DEF Receive, Idle
<1> HIDE DEF part, wanted
<1> QED
  BY <1>1, <1>2, <1>3 DEF CallOK, Types, RetOK

LEMMA SendTyped ==
  ASSUME Types, NEW i \in Int, NEW j \in Int, Send(i, j)
  PROVE  CallOK' /\ acked' \in Int
<1> DEFINE i1 == IF FromEnd(i) < 1 THEN 1 ELSE FromEnd(i)
           j1 == MinOf(FromEnd(j), OutLen)
<1>1. i1 \in Nat \ {0} /\ j1 \in Int
  BY Sizes DEF FromEnd, MinOf
<1>2. CASE i1 <= j1
  <2>1. acked' = acked
    BY <1>2 DEF Send
  <2>2. call' = [op |-> "send", lim |-> tm, wanted |-> j1 - i1 + 1, total |-> 0, acc |-> <<>>,
                 start |-> i1, goal |-> 0, from |-> 0, base |-> received]
    BY <1>2 DEF Send, Idle
  <2> HIDE DEF i1, j1
  <2>3. j1 - i1 + 1 \in Nat
    BY <1>1, <1>2
  <2> QED
    BY <1>1, <2>1, <2>2, <2>3 DEF CallOK, Types
<1>3. CASE ~(i1 <= j1)
  <2>1. acked' = i1 - 1 /\ call' = call
    BY <1>3 DEF Send
  <2>2. acked' \in Int
    BY <1>1, <2>1
  <2> QED
    BY <2>1, <2>2, CallStays DEF Types
<1> QED
  BY <1>2, <1>3

LEMMA SelectTyped ==
  ASSUME Types, NEW t \in Int, Select(t)
  PROVE  CallOK' /\ deadline' \in Int
<1> DEFINE l == [block |-> IF Dirty THEN 0 ELSE t, total |-> -1]
<1>1. call' = [op |-> "select", lim |-> l, wanted |-> 0, total |-> 0, acc |-> <<>>,
               start |-> 0, goal |-> 0, from |-> 0, base |-> received]
  BY DEF Select, Idle
<1>2. l \in LimitType /\ deadline' = l.block
  BY DEF LimitType, Select
<1>3. received \in Nat
  BY DEF Types
<1> HIDE DEF l
<1>4. CallOK'
  BY <1>1, <1>2, <1>3 DEF CallOK
<1> QED
  BY <1>2, <1>4 DEF LimitType

LEMMA GivesUpInt ==
  ASSUME NEW l \in LimitType, elapsed \in Nat
  PROVE  GivesUp(l) \in Int
<1>1. l.block \in Int /\ l.total \in Int
  BY DEF LimitType
<1> QED
  BY <1>1 DEF GivesUp, GetRetry, Left, MinOf

LEMMA RetStays == RetOK /\ ret' = ret => RetOK'
BY DEF RetOK

(* Steps that do not touch the read buffer.                                *)
LEMMA QuietKeeps ==
  ASSUME ReadInv, UNCHANGED buf, written' \in Nat, written' >= written,
         out' \in Seq(Nat), acked' \in Int, tm' \in LimitType, CallOK', RetOK',
         elapsed' \in Nat, waiting' \in BOOLEAN, deadline' \in Int,
         waiting' /\ Receiving' => IsEmpty
  PROVE  ReadInv'
<1>1. Types'
  BY DEF ReadInv, Types, buf
<1>2. BufferSound'
  <2>1. /\ taken \in Nat /\ written \in Nat /\ received \in Nat /\ first \in Nat /\ last \in Nat
        /\ BufferSound
    BY DEF ReadInv, Types
  <2>2. taken' = taken /\ data' = data /\ first' = first /\ last' = last /\ received' = received
    BY DEF buf
  <2> QED
    BY <2>1, <2>2 DEF BufferSound
<1>3. WaitsEmpty'
  BY DEF WaitsEmpty, IsEmpty, buf
<1> QED
  BY <1>1, <1>2, <1>3 DEF ReadInv

(* The end of a send or of a select.                                       *)
LEMMA CallEnds ==
  ASSUME ReadInv, call' = Idle, MarkStart, UNCHANGED buf, written' = written, tm' = tm,
         ret' = ret, out' \in Seq(Nat), acked' \in Int
  PROVE  ReadInv'
<1>1. elapsed' \in Nat /\ waiting' = FALSE /\ deadline' \in Int
  BY DEF MarkStart
<1>w. waiting' \in BOOLEAN
  BY <1>1, Zenon
<1>2. CallOK'
  BY DEF CallOK, Idle, LimitType, NoLimit
<1>3. RetOK' /\ tm' \in LimitType /\ written' \in Nat /\ written' >= written
  BY RetStays DEF ReadInv, Types
<1> QED
  BY <1>1, <1>w, <1>2, <1>3, QuietKeeps

(* A turn with the buffer d, f, l after recv has handed over tk bytes.     *)
LEMMA TurnReads ==
  ASSUME ReadInv, NEW err, NEW d \in [0 .. BufSize - 1 -> Nat], NEW f \in Nat, NEW l \in Nat,
         f <= l, l <= BufSize, Holds(d, f, l, received), Turn(err, d, f, l),
         data' = d, taken' = received + (l - f), taken' <= written
  PROVE  ReadInv'
<1>1. Types
  BY DEF ReadInv
<1>2. /\ StillTyped
      /\ received' \in Nat /\ first' \in Nat /\ last' \in Nat
      /\ received' + (last' - first') = received + (l - f)
      /\ first' <= last' /\ last' <= BufSize
      /\ Holds(d, first', last', received')
  BY <1>1, TurnKeeps
<1>3. UNCHANGED <<written, own, out, acked, drained, tm>>
  BY DEF Turn, sending
<1>4. received \in Nat /\ taken' \in Nat
  BY <1>1 DEF Types
<1>5. Types'
  BY <1>1, <1>2, <1>3, <1>4 DEF Types, StillTyped
<1>6. BufferSound'
  <2>1. \A i \in first' .. last' - 1 : data'[i] = received' + 1 + (i - first')
    BY <1>2 DEF Holds
  <2>2. received' + (last' - first') = taken' /\ taken' <= written'
    BY <1>2, <1>3
  <2>3. 0 <= first' /\ first' <= last' /\ last' <= BufSize
    BY <1>2
  <2> QED
    BY <2>1, <2>2, <2>3 DEF BufferSound
<1>7. WaitsEmpty'
  BY <1>2 DEF WaitsEmpty, StillTyped
<1> QED
  BY <1>5, <1>6, <1>7 DEF ReadInv

LEMMA RunReads == ReadInv /\ Run => ReadInv'
<1> SUFFICES ASSUME ReadInv, Run PROVE ReadInv'
  OBVIOUS
<1> USE Sizes
<1>0. /\ taken \in Nat /\ written \in Nat /\ received \in Nat /\ first \in Nat /\ last \in Nat
      /\ data \in [0 .. BufSize - 1 -> Nat] /\ out \in Seq(Nat) /\ acked \in Int
      /\ tm \in LimitType /\ CallOK /\ RetOK
      /\ elapsed \in Nat /\ waiting \in BOOLEAN /\ deadline \in Int
      /\ received + (last - first) = taken /\ taken <= written
      /\ 0 <= first /\ first <= last /\ last <= BufSize
      /\ Holds(data, first, last, received)
      /\ call.lim \in LimitType
  BY DEF ReadInv, Types, BufferSound, Holds, CallOK
<1>e. IsEmpty => first = last /\ received = taken
  BY <1>0 DEF IsEmpty
<1>1. CASE TurnFromBuffer
  <2>1. Turn("done", data, first, last) /\ data' = data /\ taken' = taken
    BY <1>1 DEF TurnFromBuffer
  <2> QED
    BY <1>0, <2>1, TurnReads
<1>2. CASE TurnFromKernel
  <2>1. PICK n \in 1 .. MinOf(BufSize, Available) :
          /\ data' = [i \in DOMAIN data |-> IF i < n THEN taken + i + 1 ELSE data[i]]
          /\ taken' = taken + n
          /\ Turn("done", data', 0, n)
    BY <1>2 DEF TurnFromKernel
  <2>2. n \in Nat /\ n <= BufSize /\ n <= written - taken
    BY <1>0 DEF MinOf, Available
  <2>3. data' \in [0 .. BufSize - 1 -> Nat]
    <3>1. DOMAIN data = 0 .. BufSize - 1
      BY <1>0
    <3>2. \A i \in 0 .. BufSize - 1 : taken + i + 1 \in Nat /\ data[i] \in Nat
      BY <1>0
    <3> QED
      BY <2>1, <3>1, <3>2
  <2>4. received = taken
    BY <1>2, <1>e DEF TurnFromKernel
  <2>5. Holds(data', 0, n, received)
    <3>1. \A i \in 0 .. BufSize - 1 : data'[i] = IF i < n THEN taken + i + 1 ELSE data[i]
      BY <1>0, <2>1
    <3>2. \A i \in 0 .. n - 1 : data'[i] = received + 1 + (i - 0)
      BY <1>0, <2>2, <2>4, <3>1
    <3> QED
      BY <3>2 DEF Holds
  <2>6. taken' = received + (n - 0) /\ taken' <= written
    BY <1>0, <2>1, <2>2, <2>4
  <2> QED
    BY <2>1, <2>2, <2>3, <2>5, <2>6, TurnReads
<1>3. CASE TurnOnError
  <2>1. Turn(RecvError, data, 0, 0) /\ data' = data /\ taken' = taken /\ received = taken
    BY <1>3, <1>e DEF TurnOnError
  <2>2. Holds(data, 0, 0, received)
    BY DEF Holds
  <2> QED
    BY <1>0, <2>1, <2>2, TurnReads
<1>4. CASE TurnOnTimeout
  <2>1. Turn("timeout", data, 0, 0) /\ data' = data /\ taken' = taken /\ IsEmpty
    BY <1>4 DEF TurnOnTimeout, ReadInv, WaitsEmpty
  <2>2. Holds(data, 0, 0, received) /\ received = taken
    BY <1>e, <2>1 DEF Holds
  <2>3. taken' = received + (0 - 0) /\ taken' <= written /\ 0 <= BufSize
    BY <1>0, <2>1, <2>2
  <2> QED
    BY <1>0, <2>1, <2>2, <2>3, TurnReads, SMTT(30)
<1>5. CASE RecvWait
  <2>1. deadline' \in Int /\ waiting' \in BOOLEAN /\ elapsed' = elapsed
    BY <1>0, <1>5, GivesUpInt DEF RecvWait, Wait
  <2>2. IsEmpty /\ UNCHANGED <<buf, conn, out, acked, tm, call, ret>>
    BY <1>5 DEF RecvWait, sending
  <2>3. CallOK' /\ RetOK' /\ written' = written
    BY <1>0, <2>2, CallStays, RetStays DEF conn
  <2> QED
    BY <1>0, <2>1, <2>2, <2>3, QuietKeeps
<1>6. CASE SendSome
  <2>1. PICK n \in 1 .. MinOf(MinOf(call.wanted - call.total, StepSize), Space) :
          /\ out' = out \o [i \in 1 .. n |-> call.start + call.total + i - 1]
          /\ IF call.total + n >= call.wanted
             THEN SendAnswer(call.total + n)
             ELSE call' = [call EXCEPT !.total = @ + n] /\ UNCHANGED <<acked, clock>>
    BY <1>6 DEF SendSome
  <2>2. /\ call.total \in Nat /\ call.start \in Nat /\ call.op = "send"
    BY <1>0, <1>6 DEF CallOK, SendSome, Sending
  <2>3. n \in Nat \ {0}
    OBVIOUS
  <2>4. out' \in Seq(Nat)
    <3>1. [i \in 1 .. n |-> call.start + call.total + i - 1] \in Seq(Nat)
      BY <2>2, <2>3
    <3> QED
      BY <1>0, <2>1, <3>1
  <2>5. UNCHANGED <<conn, buf, tm, ret>>
    BY <1>6 DEF SendSome
  <2>6. CASE SendAnswer(call.total + n)
    <3>1. call' = Idle /\ MarkStart /\ acked' = call.total + n + call.start - 1
      BY <2>6 DEF SendAnswer
    <3>2. acked' \in Int
      BY <2>2, <2>3, <3>1
    <3> QED
      BY <2>4, <2>5, <3>1, <3>2, CallEnds DEF conn
  <2>7. CASE call' = [call EXCEPT !.total = @ + n] /\ UNCHANGED <<acked, clock>>
    <3>1. call' = [call EXCEPT !.total = call.total + n]
      BY <2>7
    <3>2. call'.acc = call.acc /\ call'.op = "send"
      BY <1>0, <2>2, <3>1 DEF CallOK
    <3>3. call.total + n \in Nat
      BY <2>2, <2>3
    <3>4. CallOK' /\ ~Receiving'
      BY <1>0, <3>1, <3>2, <3>3 DEF CallOK, Receiving
    <3>5. RetOK' /\ written' = written /\ tm' = tm
      BY <1>0, <2>5, RetStays DEF conn
    <3>6. elapsed' = elapsed /\ waiting' = waiting /\ deadline' = deadline /\ acked' = acked
      BY <2>7 DEF clock
    <3> QED
      BY <1>0, <2>4, <2>5, <3>4, <3>5, <3>6, QuietKeeps
  <2> QED
    BY <2>1, <2>6, <2>7
<1>7. CASE SendFails
  <2>1. /\ call' = Idle /\ MarkStart /\ acked' = call.total + call.start - 1
        /\ UNCHANGED <<written, buf, out, tm, ret>>
    BY <1>7 DEF SendFails, SendAnswer
  <2>2. call.total \in Nat /\ call.start \in Nat
    BY <1>0 DEF CallOK
  <2>3. acked' \in Int
    BY <2>1, <2>2
  <2> QED
    BY <1>0, <2>1, <2>3, CallEnds
<1>8. CASE SendWait
  <2>1. deadline' \in Int /\ waiting' \in BOOLEAN /\ elapsed' = elapsed
    BY <1>0, <1>8, GivesUpInt DEF SendWait, Wait
  <2>2. ~Receiving /\ UNCHANGED <<buf, conn, out, acked, tm, call, ret>>
    BY <1>8 DEF SendWait, Sending, Receiving, sending
  <2>3. CallOK' /\ RetOK' /\ written' = written /\ ~Receiving'
    BY <1>0, <2>2, CallStays, RetStays DEF conn, Receiving
  <2> QED
    BY <1>0, <2>1, <2>2, <2>3, QuietKeeps
<1>9. CASE WaitDone
  <2>1. ~waiting' /\ deadline' \in Int /\ elapsed' = elapsed
        /\ UNCHANGED <<buf, conn, out, acked, tm, call, ret>>
    BY <1>9 DEF WaitDone, sending
  <2>w. waiting' \in BOOLEAN
    BY <1>9, Zenon DEF WaitDone
  <2>2. CallOK' /\ RetOK' /\ written' = written
    BY <1>0, <2>1, CallStays, RetStays DEF conn
  <2> QED
    BY <1>0, <2>1, <2>w, <2>2, QuietKeeps
<1>10. CASE SelectAnswers
  <2>1. call' = Idle /\ MarkStart /\ UNCHANGED <<buf, conn, out, acked, tm, ret>>
    BY <1>10 DEF SelectAnswers, sending
  <2> QED
    BY <1>0, <2>1, CallEnds DEF conn
<1> QED
  BY <1>1, <1>2, <1>3, <1>4, <1>5, <1>6, <1>7, <1>8, <1>9, <1>10 DEF Run

LEMMA ProgramReads == ReadInv /\ Program => ReadInv'
<1> SUFFICES ASSUME ReadInv, Program PROVE ReadInv'
  OBVIOUS
<1> USE Sizes
<1>0. /\ Types /\ written \in Nat /\ out \in Seq(Nat) /\ acked \in Int
      /\ tm \in LimitType /\ CallOK /\ RetOK
      /\ elapsed \in Nat /\ waiting \in BOOLEAN /\ deadline \in Int
      /\ (waiting /\ Receiving => IsEmpty)
  BY DEF ReadInv, Types, WaitsEmpty
<1>m. ASSUME MarkStart PROVE elapsed' \in Nat /\ ~waiting' /\ waiting' \in BOOLEAN /\ deadline' \in Int
  <2>1. elapsed' \in Nat /\ deadline' \in Int
    BY <1>m DEF MarkStart
  <2>2. ~waiting' /\ waiting' \in BOOLEAN
    BY <1>m, Zenon DEF MarkStart
  <2> QED
    BY <2>1, <2>2
<1>1. CASE SetTimeout
  <2>1. PICK mode \in {"block", "total"} :
          \E t \in Limits[mode] : tm' = [tm EXCEPT ![mode] = t]
    BY <1>1 DEF SetTimeout
  <2>2. PICK t \in Int : tm' = [tm EXCEPT ![mode] = t]
    BY <2>1
  <2>3. tm' \in LimitType
    BY <1>0, <2>1, <2>2 DEF LimitType
  <2>4. UNCHANGED <<buf, conn, out, acked, call, ret, elapsed, waiting, deadline>>
    BY <1>1 DEF SetTimeout, sending, clock
  <2>5. CallOK' /\ RetOK' /\ written' = written /\ (Receiving' = Receiving)
    BY <1>0, <2>4, CallStays, RetStays DEF conn, Receiving
  <2> QED
    BY <1>0, <2>3, <2>4, <2>5, QuietKeeps
<1>2. CASE SendRest
  <2>1. PICK i \in Int, j \in Int : Send(i, j)
    <3>1. PICK j \in acked .. OutLen, i \in {acked + 1, acked - OutLen} \ {0} :
            Send(i, j) \/ Send(i, j - OutLen - 1)
      BY <1>2 DEF SendRest
    <3>2. i \in Int /\ j \in Int /\ j - OutLen - 1 \in Int
      BY <1>0
    <3> QED
      BY <3>1, <3>2
  <2>2. CallOK' /\ acked' \in Int
    BY <1>0, <2>1, SendTyped
  <2>3. MarkStart /\ UNCHANGED <<conn, buf, out, drained, tm, ret>>
    BY <2>1 DEF Send
  <2>4. RetOK' /\ written' = written
    BY <1>0, <2>3, RetStays DEF conn
  <2> QED
    BY <1>0, <1>m, <2>2, <2>3, <2>4, QuietKeeps
<1>3. CASE Close
  <2>1. UNCHANGED <<written, buf, out, acked, tm, call, ret, elapsed, waiting, deadline>>
    BY <1>3 DEF Close, sending, clock
  <2>2. CallOK' /\ RetOK' /\ (Receiving' = Receiving)
    BY <1>0, <2>1, CallStays, RetStays DEF Receiving
  <2> QED
    BY <1>0, <2>1, <2>2, QuietKeeps
<1>4. ASSUME NEW t \in Waits, Select(t) PROVE ReadInv'
  <2>1. CallOK' /\ deadline' \in Int
    BY <1>0, <1>4, SelectTyped
  <2>2. elapsed' = 0 /\ waiting' = TRUE /\ call'.op = "select"
        /\ UNCHANGED <<conn, buf, out, acked, tm, ret>>
    BY <1>4 DEF Select, Idle, sending
  <2>3. RetOK' /\ written' = written /\ ~Receiving' /\ elapsed' \in Nat
    BY <1>0, <2>2, RetStays DEF conn, Receiving
  <2>4. waiting' \in BOOLEAN
    BY <2>2, Zenon
  <2> QED
    BY <1>0, <2>1, <2>2, <2>3, <2>4, QuietKeeps
<1>5. ASSUME NEW pattern \in {"raw", "line", "all"}, NEW n \in Nat, NEW again \in BOOLEAN,
             Receive(pattern, n, again)
      PROVE  ReadInv'
  <2>1. CallOK'
    BY <1>0, <1>5, ReceiveTyped
  <2>2. MarkStart /\ UNCHANGED <<conn, buf, out, acked, tm, ret>>
    BY <1>5 DEF Receive, sending
  <2>3. RetOK' /\ written' = written
    BY <1>0, <2>2, RetStays DEF conn
  <2> QED
    BY <1>0, <1>m, <2>1, <2>2, <2>3, QuietKeeps
<1> QED
  BY <1>1, <1>2, <1>3, <1>4, <1>5 DEF Program

LEMMA OthersRead ==
  ReadInv /\ (Interrupted \/ Write \/ Finish \/ Drain \/ Tick) => ReadInv'
<1> SUFFICES ASSUME ReadInv, Interrupted \/ Write \/ Finish \/ Drain \/ Tick PROVE ReadInv'
  OBVIOUS
<1>0. /\ written \in Nat /\ out \in Seq(Nat) /\ acked \in Int
      /\ tm \in LimitType /\ CallOK /\ RetOK /\ call.lim \in LimitType
      /\ elapsed \in Nat /\ waiting \in BOOLEAN /\ deadline \in Int
      /\ (waiting /\ Receiving => IsEmpty)
  BY DEF ReadInv, Types, WaitsEmpty, CallOK
<1>1. UNCHANGED <<buf, out, acked, tm, call, waiting, ret>>
  BY DEF Interrupted, Write, Finish, Drain, Tick, sending, clock
<1>2. CallOK' /\ RetOK' /\ (Receiving' = Receiving)
  BY <1>0, <1>1, CallStays, RetStays DEF Receiving
<1>3. written' \in Nat /\ written' >= written
  <2>1. CASE Write
    <3>1. PICK n \in written + 1 .. Len(Kind) : written' = n
      BY <2>1 DEF Write
    <3> QED
      BY <1>0, <3>1
  <2>2. CASE ~Write
    BY <1>0, <2>2 DEF Interrupted, Finish, Drain, Tick, conn
  <2> QED
    BY <2>1, <2>2
<1>4. elapsed' \in Nat /\ deadline' \in Int
  BY <1>0, GivesUpInt DEF Interrupted, Write, Finish, Drain, Tick, clock
<1> QED
  BY <1>0, <1>1, <1>2, <1>3, <1>4, QuietKeeps

LEMMA ReadStep == ReadInv /\ [Next]_vars => ReadInv'
<1>1. ReadInv /\ UNCHANGED vars => ReadInv'
  <2> SUFFICES ASSUME ReadInv, UNCHANGED vars PROVE ReadInv'
    OBVIOUS
  <2>1. UNCHANGED <<buf, written, out, acked, tm, call, ret, elapsed, waiting, deadline>>
    BY DEF vars, conn, sending, clock
  <2>2. CallOK' /\ RetOK' /\ (Receiving' = Receiving)
    BY <2>1, CallStays, RetStays DEF ReadInv, Types, Receiving
  <2> QED
    BY <2>1, <2>2, QuietKeeps DEF ReadInv, Types, WaitsEmpty
<1> QED
  BY <1>1, ProgramReads, RunReads, OthersRead DEF Next

LEMMA ReadInit == Init => ReadInv
<1> SUFFICES ASSUME Init PROVE ReadInv
  OBVIOUS
<1> USE Sizes
<1>1. CallOK
  BY DEF Init, CallOK, Idle, LimitType, NoLimit
<1>2. RetOK
  BY DEF Init, RetOK
<1>3. waiting \in BOOLEAN /\ ~waiting
  BY Zenon DEF Init
<1>4. Types
  BY <1>1, <1>2, <1>3 DEF Init, Types, LimitType, NoLimit
<1>5. BufferSound
  BY DEF Init, BufferSound
<1> QED
  BY <1>3, <1>4, <1>5 DEF ReadInv, WaitsEmpty

(* The read buffer always holds the bytes that recv has handed over and no *)
(* answer has used, whatever timeouts, errors and patterns came before     *)
(* (buffer_get, buffer_skip).                                              *)
THEOREM BufferAlwaysSound == Spec => []BufferSound
<1>1. Spec => []ReadInv
  BY ReadInit, ReadStep, PTL DEF Spec
<1> QED
  BY <1>1, PTL DEF ReadInv

(* The object's fields keep their types: no index of the buffer, counter   *)
(* or limit leaves the integers it is taken from, and a prefix that is     *)
(* longer than the number asked for leaves a count, not a negative number  *)
(* (buffer_meth_receive, buffer_get, buffer_skip).                         *)
THEOREM TypeCorrect == Spec => []Types
<1>1. Spec => []ReadInv
  BY ReadInit, ReadStep, PTL DEF Spec
<1> QED
  BY <1>1, PTL DEF ReadInv
-----------------------------------------------------------------------------
(* What a turn leaves of the call.                                         *)
LEMMA TurnCall ==
  ASSUME Types, NEW err, NEW d, NEW f, NEW l, Turn(err, d, f, l)
  PROVE  /\ Receiving /\ ~waiting'
         /\ call' = Idle \/ (call'.op = call.op /\ call'.lim = call.lim)
         /\ UNCHANGED <<written, own, out, acked, drained, tm, chosen>>
<1>1. RawTurn(err, d, f, l) \/ AllTurn(err, d, f, l) \/ LineTurn(err, d, f, l)
  BY DEF Turn
<1>2. Receiving
  BY <1>1 DEF RawTurn, AllTurn, LineTurn, Receiving
<1>3. PICK status, text, n : Answer(status, text) \/ Continue(text, n)
  <2>1. CASE RawTurn(err, d, f, l)
    BY <2>1, Zenon DEF RawTurn
  <2>2. CASE AllTurn(err, d, f, l)
    BY <2>2, Zenon DEF AllTurn
  <2>3. CASE LineTurn(err, d, f, l)
    BY <2>3, Zenon DEF LineTurn
  <2> QED
    BY <1>1, <2>1, <2>2, <2>3
<1>4. CASE Answer(status, text)
  BY <1>2, <1>4 DEF Answer, MarkStart, Turn, sending
<1>5. CASE Continue(text, n)
  <2>1. call' = [call EXCEPT !.acc = text, !.total = call.total + n] /\ ~waiting'
    BY <1>5 DEF Continue
  <2>2. call'.op = call.op /\ call'.lim = call.lim
    BY <2>1 DEF Types, CallOK
  <2> QED
    BY <1>2, <2>1, <2>2 DEF Turn, sending
<1> QED
  BY <1>3, <1>4, <1>5

(* Which of the steps of a call end with a turn.                           *)
LEMMA RunTurns ==
  ASSUME TurnFromBuffer \/ TurnFromKernel \/ TurnOnError \/ TurnOnTimeout
  PROVE  \E err, d, f, l : Turn(err, d, f, l)
BY Zenon DEF TurnFromBuffer, TurnFromKernel, TurnOnError, TurnOnTimeout

-----------------------------------------------------------------------------
(* What has been sent is a beginning of the string, and the call in hand   *)
(* goes on where it ends.                                                  *)
SendInv ==
  /\ drained \in Nat
  /\ Len(out) <= OutLen /\ out = [i \in 1 .. Len(out) |-> i]
  /\ IF Sending
     THEN /\ call.start >= 1 /\ call.start + call.total = Len(out) + 1
          /\ call.total < call.wanted /\ call.start + call.wanted <= OutLen + 1
     ELSE acked = Len(out)

(* SendInv of the next state, when it has sent m bytes.                    *)
LEMMA SentIs ==
  ASSUME NEW m \in Nat, m <= OutLen, Len(out') = m, out' = [i \in 1 .. m |-> i],
         drained' \in Nat,
         IF Sending'
         THEN /\ call'.start >= 1 /\ call'.start + call'.total = m + 1
              /\ call'.total < call'.wanted /\ call'.start + call'.wanted <= OutLen + 1
         ELSE acked' = m
  PROVE  SendInv'
BY Zenon DEF SendInv

LEMMA SentSoFar ==
  ASSUME SendInv
  PROVE  /\ drained \in Nat /\ Len(out) <= OutLen /\ out = [i \in 1 .. Len(out) |-> i]
         /\ Sending =>
              /\ call.start >= 1 /\ call.start + call.total = Len(out) + 1
              /\ call.total < call.wanted /\ call.start + call.wanted <= OutLen + 1
         /\ ~Sending => acked = Len(out)
BY Zenon DEF SendInv

LEMMA SendStays ==
  ASSUME SendInv, UNCHANGED <<out, acked>>, drained' \in Nat,
         call' = call \/ (~Sending /\ ~Sending')
  PROVE  SendInv'
<1>1. CASE call' = call
  BY <1>1 DEF SendInv, Sending
<1>2. CASE ~Sending /\ ~Sending'
  BY <1>2 DEF SendInv
<1> QED
  BY <1>1, <1>2

LEMMA SendBegins ==
  ASSUME Types, SendInv, SendRest
  PROVE  SendInv'
<1> USE Sizes
<1>a. out \in Seq(Nat) /\ acked \in Int
  BY DEF Types
<1>b. Len(out) \in Nat
  BY <1>a
<1>0. acked \in Int /\ Len(out) \in Nat /\ Len(out) <= OutLen
  BY <1>a, <1>b, SentSoFar
<1>1. PICK i \in {acked + 1, acked - OutLen} \ {0}, j \in Int : Send(i, j)
  <2>1. PICK j \in acked .. OutLen, i \in {acked + 1, acked - OutLen} \ {0} :
          Send(i, j) \/ Send(i, j - OutLen - 1)
    BY DEF SendRest
  <2>2. j \in Int /\ j - OutLen - 1 \in Int
    BY <1>0
  <2> QED
    BY <2>1, <2>2
<1>2. acked = Len(out) /\ ~Sending
  BY <1>1 DEF Send, SendInv, Sending, Idle
<1>3. FromEnd(i) = acked + 1
  BY <1>0, <1>1, <1>2 DEF FromEnd
<1>4. out' = out /\ drained' = drained
  BY <1>1 DEF Send
<1> DEFINE j1 == MinOf(FromEnd(j), OutLen)
<1>5. j1 \in Int /\ j1 <= OutLen
  BY DEF FromEnd, MinOf
<1>6. CASE acked + 1 <= j1
  <2>1. /\ call'.op = "send" /\ call'.start = acked + 1 /\ call'.total = 0
        /\ call'.wanted = j1 - (acked + 1) + 1
    <3>1. ~(FromEnd(i) < 1) /\ acked + 1 <= MinOf(FromEnd(j), OutLen)
      BY <1>0, <1>2, <1>3, <1>6
    <3>2. call' = [Idle EXCEPT !.op = "send", !.lim = tm, !.start = acked + 1,
                     !.wanted = MinOf(FromEnd(j), OutLen) - (acked + 1) + 1, !.base = received]
      BY <1>1, <1>3, <3>1, Zenon DEF Send
    <3> QED
      BY <3>2 DEF Idle
  <2>2. j1 - (acked + 1) + 1 = j1 - acked
    BY <1>0, <1>5
  <2> HIDE DEF j1
  <2>3. Len(out') = Len(out) /\ out' = [m \in 1 .. Len(out) |-> m] /\ drained' \in Nat
    BY <1>4, SentSoFar, Zenon
  <2>4. /\ call'.start >= 1 /\ call'.start + call'.total = Len(out) + 1
        /\ call'.total < call'.wanted /\ call'.start + call'.wanted <= OutLen + 1
    BY <1>0, <1>2, <1>5, <1>6, <2>1, <2>2
  <2>5. Sending'
    BY <2>1 DEF Sending
  <2> QED
    BY <1>0, <2>3, <2>4, <2>5, SentIs
<1>7. CASE ~(acked + 1 <= j1)
  <2>1. acked' = acked /\ call' = call
    BY <1>0, <1>2, <1>3, <1>1, <1>7 DEF Send
  <2> QED
    BY <1>4, <2>1, SendStays DEF SendInv
<1> QED
  BY <1>6, <1>7

LEMMA SendGoesOn ==
  ASSUME Types, SendInv, SendSome
  PROVE  SendInv'
<1>0. out \in Seq(Nat) /\ call.start \in Nat /\ call.total \in Nat /\ call.wanted \in Nat
  BY DEF Types, CallOK
<1>7. Len(out) \in Nat
  BY <1>0
<1>8. out = [i \in 1 .. Len(out) |-> i]
  BY SentSoFar
<1>1. /\ Sending /\ drained' = drained /\ drained \in Nat
      /\ Len(out) \in Nat /\ Len(out) <= OutLen
      /\ call.start >= 1 /\ call.start + call.total = Len(out) + 1
      /\ call.total < call.wanted /\ call.start + call.wanted <= OutLen + 1
  BY <1>7, SentSoFar DEF SendSome
<1> DEFINE a == call.wanted - call.total
<1>2. \A k \in 1 .. MinOf(MinOf(a, StepSize), Space) :
        k \in Nat \ {0} /\ call.total + k <= call.wanted
  <2>1. a \in Int /\ Space \in Int /\ StepSize \in Int
    BY <1>0, <1>1, Sizes DEF Space
  <2>2. MinOf(a, StepSize) \in Int /\ MinOf(a, StepSize) <= a
    BY <2>1, MinOfIs
  <2>3. /\ MinOf(MinOf(a, StepSize), Space) <= MinOf(a, StepSize)
        /\ MinOf(MinOf(a, StepSize), Space) \in Int
    BY <2>1, <2>2, MinOfIs
  <2> HIDE DEF a
  <2>4. \A k \in 1 .. MinOf(MinOf(a, StepSize), Space) : k \in Nat \ {0} /\ k <= a
    BY <2>1, <2>2, <2>3
  <2> USE DEF a
  <2> QED
    BY <1>0, <2>4
<1>3. PICK n :
        /\ n \in Nat \ {0} /\ call.total + n <= call.wanted
        /\ out' = out \o [i \in 1 .. n |-> call.start + call.total + i - 1]
        /\ IF call.total + n >= call.wanted
           THEN SendAnswer(call.total + n)
           ELSE call' = [call EXCEPT !.total = call.total + n] /\ UNCHANGED <<acked, clock>>
  <2>1. PICK k \in 1 .. MinOf(MinOf(a, StepSize), Space) :
          /\ out' = out \o [i \in 1 .. k |-> call.start + call.total + i - 1]
          /\ IF call.total + k >= call.wanted
             THEN SendAnswer(call.total + k)
             ELSE call' = [call EXCEPT !.total = call.total + k] /\ UNCHANGED <<acked, clock>>
    BY DEF SendSome
  <2>2. k \in Nat \ {0} /\ call.total + k <= call.wanted
    BY <1>2
  <2> HIDE DEF a
  <2> QED
    BY <2>1, <2>2, Zenon
<1>10. n \in Nat \ {0} /\ n \in Nat /\ call.total + n <= call.wanted
  BY <1>3, Zenon
<1> HIDE DEF a
<1>9. /\ call.total + n + call.start - 1 = Len(out) + n
      /\ call.start + (call.total + n) = Len(out) + n + 1
      /\ Len(out) + n \in Nat /\ Len(out) + n <= OutLen
  <2> DEFINE s == call.start
             t == call.total
             w == call.wanted
             m == Len(out)
  <2>1. n \in Nat /\ t + n <= w
    BY <1>10
  <2>2. s + t = m + 1 /\ s + w <= OutLen + 1
    BY <1>1
  <2>3. s \in Nat /\ t \in Nat /\ w \in Nat /\ m \in Nat
    BY <1>0, <1>7
  <2> HIDE DEF s, t, w, m
  <2>4. t + n + s - 1 = m + n /\ s + (t + n) = m + n + 1 /\ m + n <= OutLen
    BY <2>1, <2>2, <2>3, Sizes
  <2>5. m + n \in Nat
    BY <2>1, <2>3
  <2> USE DEF s, t, w, m
  <2> QED
    BY <2>4, <2>5
<1>4. Len(out') = Len(out) + n /\ out' = [i \in 1 .. Len(out) + n |-> i]
  <2> DEFINE more == [i \in 1 .. n |-> call.start + call.total + i - 1]
  <2>1. more \in Seq(Int) /\ Len(more) = n
    BY <1>0, <1>10
  <2>2. \A i \in 1 .. n : more[i] = Len(out) + i
    BY <1>0, <1>1, <1>10
  <2>3. out \in Seq(Int)
    BY <1>0
  <2> HIDE DEF more
  <2>4. out' = out \o more
    BY <1>3 DEF more
  <2>5. Len(out') = Len(out) + n
    <3>1. Len(out \o more) = Len(out) + Len(more)
      BY <2>1, <2>3
    <3> QED
      BY <2>1, <2>4, <3>1
  <2>7. out' \in Seq(Int)
    BY <2>1, <2>3, <2>4
  <2>6. \A i \in 1 .. Len(out) + n : out'[i] = i
    <3> TAKE i \in 1 .. Len(out) + n
    <3>1. CASE i <= Len(out)
      <4>1. out'[i] = out[i] /\ i \in 1 .. Len(out)
        BY <1>1, <2>1, <2>3, <2>4, <3>1
      <4> QED
        BY <1>8, <4>1
    <3>2. CASE i > Len(out)
      <4>1. out'[i] = more[i - Len(out)] /\ i - Len(out) \in 1 .. n
        BY <1>1, <1>10, <2>1, <2>3, <2>4, <3>2
      <4> QED
        BY <1>1, <2>2, <4>1
    <3> QED
      BY <1>1, <1>10, <3>1, <3>2
  <2>8. out' = [i \in 1 .. Len(out') |-> out'[i]]
    BY <2>7
  <2> QED
    BY <2>5, <2>6, <2>8
<1>5. CASE call.total + n >= call.wanted
  <2>1. call' = Idle /\ acked' = call.total + n + call.start - 1
    BY <1>3, <1>5 DEF SendAnswer
  <2>2. ~Sending'
    BY <2>1 DEF Sending, Idle
  <2>3. acked' = Len(out) + n /\ Len(out) + n \in Nat /\ Len(out) + n <= OutLen
    BY <1>9, <2>1
  <2> QED
    BY <1>1, <1>4, <2>2, <2>3, SentIs
<1>6. CASE ~(call.total + n >= call.wanted)
  <2>1. call' = [call EXCEPT !.total = call.total + n]
    BY <1>3, <1>6
  <2>2. /\ call'.op = call.op /\ call'.start = call.start /\ call'.wanted = call.wanted
        /\ call'.total = call.total + n
    BY <2>1 DEF Types, CallOK
  <2>3. Sending'
    BY <1>1, <2>2 DEF Sending
  <2>4. Len(out) + n \in Nat /\ Len(out) + n <= OutLen
    BY <1>9
  <2>5. /\ call'.start >= 1 /\ call'.start + call'.total = Len(out) + n + 1
        /\ call'.total < call'.wanted /\ call'.start + call'.wanted <= OutLen + 1
    BY <1>0, <1>1, <1>10, <1>6, <1>9, <2>2
  <2> QED
    BY <1>1, <1>4, <2>3, <2>4, <2>5, SentIs
<1> QED
  BY <1>5, <1>6

LEMMA SendStep == Types /\ SendInv /\ [Next]_vars => SendInv'
<1> SUFFICES ASSUME Types, SendInv, [Next]_vars PROVE SendInv'
  OBVIOUS
<1>a. out \in Seq(Nat) /\ acked \in Int
  BY DEF Types
<1>b. Len(out) \in Nat
  BY <1>a
<1>0. drained \in Nat /\ acked \in Int /\ Len(out) \in Nat
  BY <1>a, <1>b, SentSoFar
<1>1. CASE Program
  <2>1. CASE SendRest
    BY <2>1, SendBegins
  <2>2. CASE SetTimeout \/ Close
    BY <1>0, <2>2, SendStays DEF SetTimeout, Close, sending
  <2>3. CASE \E t \in Waits : Select(t)
    <3>1. ~Sending /\ ~Sending' /\ UNCHANGED <<out, acked, drained>>
      BY <2>3 DEF Select, sending, Sending, Idle
    <3> QED
      BY <1>0, <3>1, SendStays
  <2>4. CASE \E again \in BOOLEAN :
               \/ \E n \in Counts : Receive("raw", n, again)
               \/ Receive("line", 0, again) \/ Receive("all", 0, again)
    <3>1. PICK pattern \in {"raw", "line", "all"}, n \in Counts \cup {0}, again \in BOOLEAN : Receive(pattern, n, again)
      BY <2>4, Zenon
    <3>2. ~Sending /\ ~Sending' /\ UNCHANGED <<out, acked, drained>>
      BY <3>1 DEF Receive, sending, Sending, Idle
    <3> QED
      BY <1>0, <3>2, SendStays
  <2> QED
    BY <1>1, <2>1, <2>2, <2>3, <2>4 DEF Program
<1>2. CASE Run
  <2>1. CASE TurnFromBuffer \/ TurnFromKernel \/ TurnOnError \/ TurnOnTimeout
    <3>1. PICK err, d, f, l : Turn(err, d, f, l)
      BY <2>1, RunTurns
    <3>2. /\ Receiving /\ (call' = Idle \/ (call'.op = call.op /\ call'.lim = call.lim))
          /\ UNCHANGED <<out, acked, drained>>
      BY <3>1, TurnCall
    <3>3. Receiving
      BY <3>1, TurnCall
    <3>4. ~Sending /\ ~Sending'
      BY <3>2, <3>3 DEF Receiving, Sending, Idle
    <3> QED
      BY <1>0, <3>2, <3>4, SendStays
  <2>2. CASE SendSome
    BY <2>2, SendGoesOn
  <2>3. CASE SendFails
    <3>1. Sending /\ call' = Idle /\ acked' = call.total + call.start - 1
          /\ UNCHANGED <<out, drained>>
      BY <2>3 DEF SendFails, SendAnswer
    <3>2. call.total \in Nat /\ call.start \in Nat
      BY DEF Types, CallOK
    <3>3. ~Sending'
      BY <3>1 DEF Sending, Idle
    <3> QED
      BY <1>0, <3>1, <3>2, <3>3 DEF SendInv
  <2>4. CASE RecvWait \/ SendWait \/ WaitDone
    BY <1>0, <2>4, SendStays DEF RecvWait, SendWait, WaitDone, sending
  <2>5. CASE SelectAnswers
    <3>1. ~Sending /\ ~Sending' /\ UNCHANGED <<out, acked, drained>>
      BY <2>5 DEF SelectAnswers, sending, Sending, Selecting, Idle
    <3> QED
      BY <1>0, <3>1, SendStays
  <2> QED
    BY <1>2, <2>1, <2>2, <2>3, <2>4, <2>5 DEF Run
<1>3. CASE Interrupted \/ Write \/ Finish \/ Tick
  BY <1>0, <1>3, SendStays DEF Interrupted, Write, Finish, Tick, sending
<1>4. CASE Drain
  BY <1>0, <1>4, SendStays DEF Drain, sending
<1>5. CASE UNCHANGED vars
  BY <1>0, <1>5, SendStays DEF vars, sending
<1> QED
  BY <1>1, <1>2, <1>3, <1>4, <1>5 DEF Next

(* However often a send is cut short and taken up again at the index it    *)
(* answered, the kernel has been given the beginning of the string         *)
(* (buffer_meth_send, sendraw).                                            *)
THEOREM SendAlwaysExact == Spec => []SendExact
<1>1. Init => SendInv
  <2> SUFFICES ASSUME Init PROVE SendInv
    OBVIOUS
  <2>1. ~Sending /\ out = <<>> /\ acked = 0 /\ drained = 0
    BY DEF Init, Sending, Idle
  <2> QED
    BY <2>1, Sizes DEF SendInv
<1>2. SendInv => SendExact
  BY DEF SendInv, SendExact
<1> QED
  BY <1>1, <1>2, TypeCorrect, SendStep, PTL DEF Spec
-----------------------------------------------------------------------------
(* A wait lasts to its limit or only looks, and it does not end before.    *)
Reaches(l) ==
  deadline >= 0 => \/ l.block >= 0 /\ deadline >= l.block
                   \/ l.total >= 0 /\ deadline >= l.total

WaitInv == WaitsBounded /\ (waiting => Reaches(call.lim))

(* What a wait that begins or is taken up again is given.                  *)
LEMMA GivenWait ==
  ASSUME Types, call' = call, elapsed' = elapsed, deadline' = GivesUp(call.lim)
  PROVE  WaitInv'
<1> DEFINE b == call.lim.block
           t == call.lim.total
           e == elapsed
<1>1. b \in Int /\ t \in Int /\ e \in Nat
  BY DEF Types, CallOK, LimitType
<1>2. GetRetry(call.lim) =
        IF b < 0 THEN IF t < 0 THEN -1 ELSE Left(t)
        ELSE IF t < 0 THEN Left(b) ELSE MinOf(b, Left(t))
  BY <1>1 DEF GetRetry
<1>3. \A l \in Int : Left(l) = IF l > e THEN l - e ELSE 0
  BY DEF Left
<1>4. GivesUp(call.lim) = IF GetRetry(call.lim) < 0 THEN -1 ELSE e + GetRetry(call.lim)
  BY DEF GivesUp
<1>5. /\ deadline' >= 0 => (b >= 0 /\ deadline' >= b) \/ (t >= 0 /\ deadline' >= t)
      /\ t >= 0 => deadline' >= 0 /\ (deadline' <= t \/ deadline' <= e)
      /\ t < 0 /\ b >= 0 => deadline' >= 0 /\ (deadline' <= b \/ deadline' <= e)
  <2> HIDE DEF b, t, e
  <2>1. deadline' = IF GetRetry(call.lim) < 0 THEN -1 ELSE e + GetRetry(call.lim)
    BY <1>4
  <2>2. CASE b < 0 /\ t < 0
    BY <1>1, <1>2, <2>1, <2>2
  <2>3. CASE b < 0 /\ t >= 0
    BY <1>1, <1>2, <1>3, <2>1, <2>3
  <2>4. CASE b >= 0 /\ t < 0
    BY <1>1, <1>2, <1>3, <2>1, <2>4
  <2>5. CASE b >= 0 /\ t >= 0
    BY <1>1, <1>2, <1>3, <2>1, <2>5 DEF MinOf
  <2> QED
    BY <1>1, <2>2, <2>3, <2>4, <2>5
<1>6. call'.lim.block = b /\ call'.lim.total = t
  OBVIOUS
<1>7. Reaches(call.lim)'
  BY <1>5, <1>6 DEF Reaches
<1>8. WaitsBounded'
  BY <1>1, <1>5, <1>6 DEF WaitsBounded, Limited
<1> QED
  BY <1>7, <1>8 DEF WaitInv

LEMMA WaitOver == ~waiting' => WaitInv'
BY DEF WaitInv, WaitsBounded

LEMMA WaitGoesOn ==
  ASSUME Types, WaitInv, elapsed' \in Nat, elapsed' >= elapsed,
         UNCHANGED <<call, waiting, deadline>>
  PROVE  WaitInv'
<1>1. elapsed \in Nat /\ deadline \in Int
  BY DEF Types
<1>2. Reaches(call.lim)' <=> Reaches(call.lim)
  BY DEF Reaches
<1>3. WaitsBounded'
  BY <1>1 DEF WaitInv, WaitsBounded, Limited
<1> QED
  BY <1>2, <1>3 DEF WaitInv

LEMMA SelectWaits ==
  ASSUME NEW t \in Waits, Select(t)
  PROVE  WaitInv'
<1> DEFINE b == IF Dirty THEN 0 ELSE t
<1>1. b \in Int
  BY Sizes
<1> HIDE DEF b
<1>2. deadline' = b /\ call' = [Idle EXCEPT !.op = "select",
                       !.lim = [block |-> b, total |-> -1], !.base = received]
  BY Zenon DEF Select, b
<1>3. call'.lim.block = b /\ call'.lim.total = -1
  BY <1>2 DEF Idle
<1>4. Reaches(call.lim)'
  BY <1>1, <1>2, <1>3 DEF Reaches
<1>5. WaitsBounded'
  BY <1>1, <1>2, <1>3 DEF WaitsBounded, Limited
<1> QED
  BY <1>4, <1>5 DEF WaitInv

LEMMA WaitStep == Types /\ WaitInv /\ [Next]_vars => WaitInv'
<1> SUFFICES ASSUME Types, WaitInv, [Next]_vars PROVE WaitInv'
  OBVIOUS
<1>0. elapsed \in Nat
  BY DEF Types
<1>1. CASE Program
  <2>1. CASE SetTimeout \/ Close
    BY <1>0, <2>1, WaitGoesOn DEF SetTimeout, Close, clock
  <2>2. CASE SendRest
    BY <2>2, WaitOver DEF SendRest, Send, MarkStart
  <2>3. CASE \E t \in Waits : Select(t)
    BY <2>3, SelectWaits
  <2>4. CASE \E again \in BOOLEAN :
               \/ \E n \in Counts : Receive("raw", n, again)
               \/ Receive("line", 0, again) \/ Receive("all", 0, again)
    <3>1. PICK pattern, n, again : Receive(pattern, n, again)
      BY <2>4, Zenon
    <3> QED
      BY <3>1, WaitOver DEF Receive, MarkStart
  <2> QED
    BY <1>1, <2>1, <2>2, <2>3, <2>4 DEF Program
<1>2. CASE Run
  <2>1. CASE TurnFromBuffer \/ TurnFromKernel \/ TurnOnError \/ TurnOnTimeout
    <3>1. PICK err, d, f, l : Turn(err, d, f, l)
      BY <2>1, RunTurns
    <3> QED
      BY <3>1, TurnCall, WaitOver
  <2>2. CASE SendSome
    <3>1. (\E n : SendAnswer(n)) \/ UNCHANGED clock
      BY <2>2 DEF SendSome
    <3>2. ~waiting
      BY <2>2 DEF SendSome
    <3> QED
      BY <3>1, <3>2, WaitOver DEF SendAnswer, MarkStart, clock
  <2>3. CASE SendFails \/ WaitDone \/ SelectAnswers
    BY <2>3, WaitOver DEF SendFails, SendAnswer, WaitDone, SelectAnswers, MarkStart
  <2>4. CASE RecvWait \/ SendWait
    BY <2>4, GivenWait DEF RecvWait, SendWait, Wait
  <2> QED
    BY <1>2, <2>1, <2>2, <2>3, <2>4 DEF Run
<1>3. CASE Interrupted
  BY <1>3, GivenWait DEF Interrupted
<1>4. CASE Write \/ Finish \/ Drain
  BY <1>0, <1>4, WaitGoesOn DEF Write, Finish, Drain, clock
<1>5. CASE Tick
  BY <1>0, <1>5, WaitGoesOn DEF Tick
<1>6. CASE UNCHANGED vars
  BY <1>0, <1>6, WaitGoesOn DEF vars, clock
<1> QED
  BY <1>1, <1>2, <1>3, <1>4, <1>5, <1>6 DEF Next

LEMMA WaitAlways == Spec => [](Types /\ WaitInv)
<1>1. Init => WaitInv
  BY WaitOver DEF Init, WaitInv, WaitsBounded
<1> QED
  BY <1>1, TypeCorrect, WaitStep, PTL DEF Spec

(* No wait outlasts the limits of its call, whatever the limits, however   *)
(* often signals interrupt it and whatever came in between                 *)
(* (timeout_getretry, socket_waitfd).                                      *)
THEOREM WaitsAlwaysBounded == Spec => []WaitsBounded
BY WaitAlways, PTL DEF WaitInv

-----------------------------------------------------------------------------
(* A turn that answers "timeout" was given it.                             *)
LEMMA AnswerGiven ==
  ASSUME NEW err, NEW d, NEW f, NEW l, Turn(err, d, f, l), call' = Idle,
         ret'.status = "timeout", Types
  PROVE  err = "timeout"
<1>1. Receiving
  BY TurnCall
<1>2. PICK status, text, n : (Answer(status, text) /\ status \in {err, "done"})
                             \/ Continue(text, n)
  <2>1. CASE RawTurn(err, d, f, l)
    BY <2>1, Zenon DEF RawTurn
  <2>2. CASE AllTurn(err, d, f, l)
    BY <2>2, Zenon DEF AllTurn
  <2>3. CASE LineTurn(err, d, f, l)
    BY <2>3, Zenon DEF LineTurn
  <2> QED
    BY <2>1, <2>2, <2>3 DEF Turn
<1>3. CASE Answer(status, text) /\ status \in {err, "done"}
  BY <1>3 DEF Answer
<1>4. CASE Continue(text, n)
  <2>1. call'.op = call.op
    BY <1>4 DEF Continue, Types, CallOK
  <2> QED
    BY <1>1, <2>1 DEF Receiving, Idle
<1> QED
  BY <1>2, <1>3, <1>4

(* A receive answers "timeout" only when one of its limits has passed,     *)
(* whatever the limits and however often it was interrupted                *)
(* (buffer_get, recvraw, recvline, recvall, timeout_iszero).               *)
THEOREM TimeoutsAlwaysHonest == Spec => TimeoutHonest
<1> DEFINE Passed == \/ call.lim.block >= 0 /\ elapsed >= call.lim.block
                     \/ call.lim.total >= 0 /\ elapsed >= call.lim.total
<1>1. ASSUME Types, WaitInv, Next, Receiving, call' = Idle, ret'.status = "timeout"
      PROVE  Passed
  <2>1. call # Idle /\ call' # call /\ ~Sending /\ ~Selecting
    BY <1>1 DEF Receiving, Idle, Sending, Selecting
  <2>2. TurnFromBuffer \/ TurnFromKernel \/ TurnOnError \/ TurnOnTimeout
    <3>1. ~Program
      BY <2>1 DEF Program, SetTimeout, SendRest, Send, Close, Select, Receive
    <3>2. ~(Interrupted \/ Write \/ Finish \/ Drain \/ Tick)
      BY <2>1 DEF Interrupted, Write, Finish, Drain, Tick
    <3>3. ~(RecvWait \/ SendSome \/ SendFails \/ SendWait \/ WaitDone \/ SelectAnswers)
      BY <2>1 DEF RecvWait, SendSome, SendFails, SendWait, WaitDone, SelectAnswers
    <3> QED
      BY <1>1, <3>1, <3>2, <3>3 DEF Next, Run
  <2>3. ~(TurnFromBuffer \/ TurnFromKernel \/ TurnOnError)
    <3>1. SUFFICES ASSUME NEW err, NEW d, NEW f, NEW l, Turn(err, d, f, l),
                          err \in {"done", "reset", "closed"}
                   PROVE  FALSE
      BY Zenon DEF TurnFromBuffer, TurnFromKernel, TurnOnError, RecvError
    <3> QED
      BY <1>1, <3>1, AnswerGiven
  <2>4. TurnOnTimeout
    BY <2>2, <2>3
  <2>5. elapsed \in Nat /\ deadline \in Int /\ call.lim.block \in Int /\ call.lim.total \in Int
    BY <1>1 DEF Types, CallOK, LimitType
  <2>6. CASE IsZero(call.lim)
    BY <2>5, <2>6 DEF IsZero
  <2>7. CASE waiting /\ deadline >= 0 /\ elapsed >= deadline
    BY <1>1, <2>5, <2>7 DEF WaitInv, Reaches
  <2> QED
    BY <2>4, <2>6, <2>7 DEF TurnOnTimeout
<1>2. Types /\ WaitInv /\ [Next]_vars =>
        [Receiving /\ call' = Idle /\ ret'.status = "timeout" => Passed]_vars
  BY <1>1
<1> QED
  BY <1>2, WaitAlways, PTL DEF Spec, TimeoutHonest

-----------------------------------------------------------------------------
(* The answer of a select is looked at between two calls only.             *)
SelectInv == (chosen # "none" => call = Idle) /\ SelectHonest

LEMMA NoAnswer == chosen' = "none" => SelectInv'
BY DEF SelectInv, SelectHonest

LEMMA AnswerStays ==
  ASSUME SelectInv, UNCHANGED <<call, chosen, first, last, own>>, Readable => Readable'
  PROVE  SelectInv'
BY DEF SelectInv, SelectHonest, IsEmpty, Dirty

LEMMA SelectStep == Types /\ SelectInv /\ [Next]_vars => SelectInv'
<1> SUFFICES ASSUME Types, SelectInv, [Next]_vars PROVE SelectInv'
  OBVIOUS
<1>0. call # Idle => chosen = "none"
  BY DEF SelectInv
<1>1. CASE Program
  <2>1. CASE SetTimeout
    BY <2>1, AnswerStays DEF SetTimeout, conn, buf, Readable, Available
  <2>2. CASE Close \/ SendRest \/ \E t \in Waits : Select(t)
    BY <2>2, NoAnswer DEF Close, SendRest, Send, Select
  <2>4. CASE \E again \in BOOLEAN :
               \/ \E n \in Counts : Receive("raw", n, again)
               \/ Receive("line", 0, again) \/ Receive("all", 0, again)
    <3>1. PICK pattern, n, again : Receive(pattern, n, again)
      BY <2>4, Zenon
    <3> QED
      BY <3>1, NoAnswer DEF Receive
  <2> QED
    BY <1>1, <2>1, <2>2, <2>4 DEF Program
<1>2. CASE Run
  <2>1. CASE TurnFromBuffer \/ TurnFromKernel \/ TurnOnError \/ TurnOnTimeout
    <3>1. PICK err, d, f, l : Turn(err, d, f, l)
      BY <2>1, RunTurns
    <3>2. Receiving /\ chosen' = chosen
      BY <3>1, TurnCall
    <3> QED
      BY <1>0, <3>2, NoAnswer DEF Receiving, Idle
  <2>2. CASE RecvWait \/ SendSome \/ SendFails \/ SendWait
    <3>1. (Receiving \/ Sending) /\ chosen' = chosen
      BY <2>2 DEF RecvWait, SendSome, SendFails, SendWait
    <3> QED
      BY <1>0, <3>1, NoAnswer DEF Receiving, Sending, Idle
  <2>3. CASE WaitDone
    <3>1. (Receiving \/ Sending) /\ chosen' = chosen
      BY <2>3 DEF WaitDone
    <3> QED
      BY <1>0, <3>1, NoAnswer DEF Receiving, Sending, Idle
  <2>4. CASE SelectAnswers
    <3>1. /\ call' = Idle
          /\ chosen' = "ready" => own = "open" /\ (~IsEmpty \/ Readable)
          /\ chosen' = "timeout" => ~Dirty
      BY <2>4 DEF SelectAnswers, Dirty
    <3>2. IsEmpty' = IsEmpty /\ Readable' = Readable /\ own' = own
      BY <2>4 DEF SelectAnswers, conn, buf, IsEmpty, Readable, Available
    <3> QED
      BY <3>1, <3>2 DEF SelectInv, SelectHonest, Dirty
  <2> QED
    BY <1>2, <2>1, <2>2, <2>3, <2>4 DEF Run
<1>3. CASE Interrupted \/ Drain \/ Tick
  BY <1>3, AnswerStays DEF Interrupted, Drain, Tick, conn, buf, Readable, Available
<1>4. CASE Write
  <2>1. PICK n \in written + 1 .. Len(Kind) : written' = n
    BY <1>4 DEF Write
  <2>2. written \in Nat /\ taken \in Nat /\ Len(Kind) \in Nat
    BY SizesAssumption DEF Types
  <2>3. taken' = taken /\ fin' = fin /\ UNCHANGED <<call, chosen, first, last, own>>
    BY <1>4 DEF Write, buf
  <2>4. Readable => Readable'
    BY <2>1, <2>2, <2>3 DEF Readable, Available
  <2> QED
    BY <2>3, <2>4, AnswerStays
<1>5. CASE Finish
  <2>1. Readable'
    BY <1>5 DEF Finish, Readable
  <2> QED
    BY <1>5, <2>1, AnswerStays DEF Finish, buf
<1>6. CASE UNCHANGED vars
  BY <1>6, AnswerStays DEF vars, conn, buf, Readable, Available
<1> QED
  BY <1>1, <1>2, <1>3, <1>4, <1>5, <1>6 DEF Next

(* What select answered holds until the program's next call                *)
(* (check_dirty, meth_dirty, buffer_isempty).                              *)
THEOREM SelectAlwaysHonest == Spec => []SelectHonest
<1>1. Init => SelectInv
  BY DEF Init, SelectInv, SelectHonest
<1>2. SelectInv => SelectHonest
  BY DEF SelectInv
<1> QED
  BY <1>1, <1>2, TypeCorrect, SelectStep, PTL DEF Spec
-----------------------------------------------------------------------------

(* Induction over the set of the numbers for which something holds         *)
LEMMA Upwards ==
  ASSUME NEW m \in Nat, NEW n \in Nat, NEW P,
         m \in P, \A i \in m + 1 .. n : i - 1 \in P => i \in P
  PROVE  \A i \in m .. n : i \in P
<1> DEFINE S == {i \in m .. n : i \notin P}
<1> SUFFICES ASSUME S # {} PROVE FALSE
  OBVIOUS
<1>1. PICK k \in S : \A i \in S : k <= i
  <2>1. S \in SUBSET Nat
    OBVIOUS
  <2> HIDE DEF S
  <2> QED
    BY <2>1, SmallestIs
<1>2. k \in m + 1 .. n /\ k - 1 \in m .. n /\ ~ (k <= k - 1)
  BY <1>1
<1>3. k - 1 \in P
  BY <1>1, <1>2
<1> QED
  BY <1>1, <1>2, <1>3

(* A text to which each place from m to n adds its byte or nothing: where  *)
(* the texts are defined step by step they exist.                          *)
Added(text, n, byte, in) == IF n \in in THEN Append(text, byte[n]) ELSE text

Grows(u, m, n, byte, in) ==
  u = [k \in m .. n |-> IF k = m THEN <<>> ELSE Added(u[k - 1], k, byte, in)]

LEMMA GrowsIs ==
  ASSUME NEW m \in Nat, NEW n \in Nat, m <= n, NEW byte \in [m + 1 .. n -> Nat], NEW in,
         NEW u, Grows(u, m, n, byte, in)
  PROVE  /\ u[m] = <<>>
         /\ \A k \in m + 1 .. n : u[k] = Added(u[k - 1], k, byte, in)
         /\ \A k \in m .. n : u[k] \in Seq(Nat)
<1>1. u[m] = <<>>
  BY DEF Grows
<1>2. \A k \in m + 1 .. n : u[k] = Added(u[k - 1], k, byte, in)
  BY DEF Grows
<1> DEFINE P == {k \in Nat : u[k] \in Seq(Nat)}
<1>e. <<>> \in Seq(Nat)
  OBVIOUS
<1>3. m \in P
  BY <1>1, <1>e
<1>4. ASSUME NEW k \in m + 1 .. n, k - 1 \in P PROVE k \in P
  <2>1. k \in Nat /\ u[k - 1] \in Seq(Nat) /\ byte[k] \in Nat
    BY <1>4
  <2>2. Append(u[k - 1], byte[k]) \in Seq(Nat)
    BY <2>1
  <2>3. u[k] \in Seq(Nat)
    BY <1>2, <2>1, <2>2, Zenon DEF Added
  <2> QED
    BY <2>1, <2>3
<1> HIDE DEF P
<1>5. \A k \in m .. n : k \in P
  BY <1>3, <1>4, Upwards
<1> QED
  BY <1>1, <1>2, <1>5 DEF P

LEMMA GrowsExists ==
  ASSUME NEW m \in Nat, NEW n \in Nat, m <= n, NEW byte \in [m + 1 .. n -> Nat], NEW in
  PROVE  \E u : Grows(u, m, n, byte, in)
<1> DEFINE P == {k \in Nat : \E u : Grows(u, m, k, byte, in)}
<1>1. m \in P
  <2> DEFINE u == [k \in m .. m |-> <<>>]
  <2>1. u = [k \in m .. m |-> IF k = m THEN <<>> ELSE Added(u[k - 1], k, byte, in)]
    OBVIOUS
  <2> QED
    BY <2>1 DEF Grows
<1>2. ASSUME NEW k \in m + 1 .. n, k - 1 \in P PROVE k \in P
  <2>1. PICK u : Grows(u, m, k - 1, byte, in)
    BY <1>2
  <2> DEFINE e == [i \in m .. k |-> IF i < k THEN u[i] ELSE Added(u[k - 1], k, byte, in)]
  <2>3. ASSUME NEW i \in m .. k
        PROVE  e[i] = IF i = m THEN <<>> ELSE Added(e[i - 1], i, byte, in)
    <3>1. CASE i < k
      <4>1. e[i] = u[i] /\ i \in m .. k - 1
        BY <3>1
      <4>2. i # m => e[i - 1] = u[i - 1]
        BY <3>1
      <4> HIDE DEF e
      <4>3. u[i] = IF i = m THEN <<>> ELSE Added(u[i - 1], i, byte, in)
        BY <2>1, <4>1 DEF Grows
      <4> QED
        BY <4>1, <4>2, <4>3
    <3>2. CASE i = k
      <4>1. e[i] = Added(u[k - 1], k, byte, in) /\ e[i - 1] = u[k - 1] /\ i # m
        BY <3>2
      <4> HIDE DEF e
      <4> QED
        BY <3>2, <4>1
    <3> QED
      BY <3>1, <3>2
  <2>4. e = [i \in m .. k |-> e[i]]
    OBVIOUS
  <2> HIDE DEF e
  <2>5. e = [i \in m .. k |-> IF i = m THEN <<>> ELSE Added(e[i - 1], i, byte, in)]
    BY <2>3, <2>4
  <2>6. Grows(e, m, k, byte, in) /\ k \in Nat
    BY <2>5 DEF Grows
  <2> QED
    BY <2>6
<1> HIDE DEF P
<1>3. \A k \in m .. n : k \in P
  BY <1>1, <1>2, Upwards
<1>4. n \in P
  BY <1>3
<1> QED
  BY <1>4 DEF P

(* What a line holds, byte by byte.                                        *)
LEMMA LineIs ==
  ASSUME NEW from \in 0 .. Len(Kind)
  PROVE  LET u == Stream!LineFrom(from)
         IN  /\ u[from] = <<>>
             /\ \A k \in from + 1 .. Len(Kind) :
                  u[k] = IF Kind[k] = "chr" THEN Append(u[k - 1], k) ELSE u[k - 1]
             /\ \A k \in from .. Len(Kind) : u[k] \in Seq(Nat)
<1> DEFINE n == Len(Kind)
           u == Stream!LineFrom(from)
           byte == [k \in from + 1 .. n |-> k]
           in == {k \in from + 1 .. n : Kind[k] = "chr"}
<1>1. n \in Nat /\ from \in Nat /\ from <= n
  BY SizesAssumption
<1>2. byte \in [from + 1 .. n -> Nat]
  BY <1>1
<1>0. ASSUME NEW v, Grows(v, from, n, byte, in)
      PROVE  v = [k \in from .. n |-> IF k = from THEN <<>>
                   ELSE IF Kind[k] = "chr" THEN Append(v[k - 1], k) ELSE v[k - 1]]
  <2>1. \A k \in from .. n : v[k] = IF k = from THEN <<>> ELSE Added(v[k - 1], k, byte, in)
    BY <1>0 DEF Grows
  <2>2. v = [k \in from .. n |-> v[k]]
    BY <1>0 DEF Grows
  <2>3. \A k \in from .. n : \A t : k # from =>
          Added(t, k, byte, in) = IF Kind[k] = "chr" THEN Append(t, k) ELSE t
    BY <1>1 DEF Added
  <2> HIDE DEF n, byte, in
  <2>4. \A k \in from .. n : v[k] = IF k = from THEN <<>>
                   ELSE IF Kind[k] = "chr" THEN Append(v[k - 1], k) ELSE v[k - 1]
    BY <2>1, <2>3, Zenon
  <2> QED
    BY <2>2, <2>4
<1>3. PICK v : Grows(v, from, n, byte, in)
  <2> HIDE DEF n, byte, in
  <2> QED
    BY <1>1, <1>2, GrowsExists
<1>4. u = [k \in from .. n |-> IF k = from THEN <<>>
            ELSE IF Kind[k] = "chr" THEN Append(u[k - 1], k) ELSE u[k - 1]]
  <2>1. \E w : w = [k \in from .. n |-> IF k = from THEN <<>>
            ELSE IF Kind[k] = "chr" THEN Append(w[k - 1], k) ELSE w[k - 1]]
    BY <1>0, <1>3
  <2> QED
    BY <2>1 DEF Stream!LineFrom
<1> HIDE DEF u
<1>5. Grows(u, from, n, byte, in)
  <2>1. \A k \in from .. n : u[k] = IF k = from THEN <<>>
            ELSE IF Kind[k] = "chr" THEN Append(u[k - 1], k) ELSE u[k - 1]
    BY <1>4
  <2>2. u = [k \in from .. n |-> u[k]]
    BY <1>4
  <2>3. \A k \in from .. n : \A t : k # from =>
          Added(t, k, byte, in) = IF Kind[k] = "chr" THEN Append(t, k) ELSE t
    BY <1>1 DEF Added
  <2> HIDE DEF n, byte, in
  <2>4. \A k \in from .. n : u[k] = IF k = from THEN <<>> ELSE Added(u[k - 1], k, byte, in)
    BY <2>1, <2>3, Zenon
  <2> QED
    BY <2>2, <2>4 DEF Grows
<1>6. /\ u[from] = <<>>
      /\ \A k \in from + 1 .. n : u[k] = Added(u[k - 1], k, byte, in)
      /\ \A k \in from .. n : u[k] \in Seq(Nat)
  <2> HIDE DEF n, byte, in
  <2> QED
    BY <1>1, <1>2, <1>5, GrowsIs
<1>7. \A k \in from + 1 .. n :
        u[k] = IF Kind[k] = "chr" THEN Append(u[k - 1], k) ELSE u[k - 1]
  BY <1>1, <1>6 DEF Added
<1> QED
  BY <1>6, <1>7 DEF u

(* What recvline keeps of a block, byte by byte.                           *)
LEMMA CharsAre ==
  ASSUME NEW bytes \in Seq(Nat)
  PROVE  \E u : /\ Chars(bytes) = u[Len(bytes)]
                /\ u[0] = <<>>
                /\ \A k \in 1 .. Len(bytes) :
                     u[k] = IF Kind[bytes[k]] = "cr" THEN u[k - 1] ELSE Append(u[k - 1], bytes[k])
                /\ \A k \in 0 .. Len(bytes) : u[k] \in Seq(Nat)
<1> DEFINE n == Len(bytes)
           byte == [k \in 1 .. n |-> bytes[k]]
           in == {k \in 1 .. n : Kind[bytes[k]] # "cr"}
           Is(u) == u = [k \in 0 .. n |-> IF k = 0 THEN <<>>
                          ELSE IF Kind[bytes[k]] = "cr" THEN u[k - 1]
                          ELSE Append(u[k - 1], bytes[k])]
           U == CHOOSE u : Is(u)
<1>1. n \in Nat /\ 0 \in Nat /\ 0 <= n
  OBVIOUS
<1>2. byte \in [0 + 1 .. n -> Nat]
  OBVIOUS
<1>3. PICK v : Grows(v, 0, n, byte, in)
  <2> HIDE DEF n, byte, in
  <2> QED
    BY <1>1, <1>2, GrowsExists, Zenon
<1>a. \A k \in 0 .. n : \A t : k # 0 =>
        Added(t, k, byte, in) = IF Kind[bytes[k]] = "cr" THEN t ELSE Append(t, bytes[k])
  BY <1>1 DEF Added
<1>4. Is(v)
  <2>1. \A k \in 0 .. n : v[k] = IF k = 0 THEN <<>> ELSE Added(v[k - 1], k, byte, in)
    BY <1>3 DEF Grows
  <2>2. v = [k \in 0 .. n |-> v[k]]
    BY <1>3 DEF Grows
  <2> HIDE DEF n, byte, in
  <2>4. \A k \in 0 .. n : v[k] = IF k = 0 THEN <<>>
                   ELSE IF Kind[bytes[k]] = "cr" THEN v[k - 1] ELSE Append(v[k - 1], bytes[k])
    BY <1>a, <2>1, Zenon
  <2> QED
    BY <2>2, <2>4
<1>5. Is(U)
  <2> HIDE DEF Is
  <2> QED
    BY <1>4
<1>6. Chars(bytes) = U[Len(bytes)]
  BY DEF Chars
<1> HIDE DEF U
<1>7. Grows(U, 0, n, byte, in)
  <2>1. \A k \in 0 .. n : U[k] = IF k = 0 THEN <<>>
                   ELSE IF Kind[bytes[k]] = "cr" THEN U[k - 1] ELSE Append(U[k - 1], bytes[k])
    BY <1>5
  <2>2. U = [k \in 0 .. n |-> U[k]]
    BY <1>5
  <2> HIDE DEF n, byte, in
  <2>4. \A k \in 0 .. n : U[k] = IF k = 0 THEN <<>> ELSE Added(U[k - 1], k, byte, in)
    BY <1>a, <2>1, Zenon
  <2> QED
    BY <2>2, <2>4 DEF Grows
<1>8. /\ U[0] = <<>>
      /\ \A k \in 0 + 1 .. n : U[k] = Added(U[k - 1], k, byte, in)
      /\ \A k \in 0 .. n : U[k] \in Seq(Nat)
  <2> HIDE DEF n, byte, in
  <2> QED
    BY <1>1, <1>2, <1>7, GrowsIs
<1>9. \A k \in 1 .. n :
        U[k] = IF Kind[bytes[k]] = "cr" THEN U[k - 1] ELSE Append(U[k - 1], bytes[k])
  BY <1>1, <1>8 DEF Added
<1> QED
  BY <1>6, <1>8, <1>9

-----------------------------------------------------------------------------
(* The n bytes that follow the first r of the stream.                      *)
Follow(bytes, n, r) == Len(bytes) = n /\ \A k \in 1 .. n : bytes[k] = r + k

LEMMA Placed ==
  ASSUME NEW d \in [0 .. BufSize - 1 -> Nat], NEW f \in Nat, NEW n \in Nat, NEW r \in Nat,
         f + n <= BufSize, Holds(d, f, f + n, r)
  PROVE  Block(d, f, n) \in Seq(Nat) /\ Follow(Block(d, f, n), n, r)
<1>1. ASSUME NEW k \in 1 .. n PROVE d[f + k - 1] = r + k
  <2>1. f + k - 1 \in f .. f + n - 1
    OBVIOUS
  <2>2. d[f + k - 1] = r + 1 + ((f + k - 1) - f)
    BY <2>1 DEF Holds
  <2> QED
    BY <2>2
<1>2. \A k \in 1 .. n : d[f + k - 1] \in Nat
  BY <1>1
<1>3. Block(d, f, n) = [k \in 1 .. n |-> d[f + k - 1]]
  BY DEF Block
<1> DEFINE bytes == [k \in 1 .. n |-> d[f + k - 1]]
<1>4. bytes \in Seq(Nat)
  BY <1>2
<1>5. Len(bytes) = n /\ \A k \in 1 .. n : bytes[k] = d[f + k - 1]
  BY <1>2
<1> HIDE DEF bytes
<1>6. \A k \in 1 .. n : bytes[k] = r + k
  BY <1>1, <1>5
<1>7. Follow(bytes, n, r)
  BY <1>5, <1>6 DEF Follow
<1> QED
  BY <1>3, <1>4, <1>7 DEF bytes

(* The text of a block goes on with the bytes that follow.                 *)
Between(from, to) == [i \in 1 .. to - from |-> from + i]

Appends(from, r, n, bytes) == Between(from, r) \o bytes = Between(from, r + n)

LEMMA BlockGrows ==
  ASSUME NEW from \in Nat, NEW r \in Nat, NEW n \in Nat, from <= r,
         NEW bytes \in Seq(Nat), Follow(bytes, n, r)
  PROVE  Appends(from, r, n, bytes)
<1> DEFINE old == [i \in 1 .. r - from |-> from + i]
           new == [i \in 1 .. (r + n) - from |-> from + i]
<1>0. Len(bytes) = n /\ \A k \in 1 .. n : bytes[k] = r + k
  BY DEF Follow
<1>1. r - from \in Nat /\ (r + n) - from \in Nat /\ (r + n) - from = (r - from) + n
  OBVIOUS
<1>2. /\ old \in Seq(Nat) /\ Len(old) = r - from
      /\ \A i \in 1 .. r - from : old[i] = from + i
  BY <1>1
<1>3. /\ new \in Seq(Nat) /\ Len(new) = (r - from) + n
      /\ \A i \in 1 .. (r - from) + n : new[i] = from + i
  BY <1>1
<1> HIDE DEF old, new
<1>4. /\ old \o bytes \in Seq(Nat) /\ Len(old \o bytes) = (r - from) + n
      /\ \A i \in 1 .. (r - from) + n :
           (old \o bytes)[i] = IF i <= r - from THEN old[i] ELSE bytes[i - (r - from)]
  <2>1. old \in Seq(Nat) /\ bytes \in Seq(Nat)
    BY <1>2
  <2>2. /\ old \o bytes \in Seq(Nat)
        /\ Len(old \o bytes) = Len(old) + Len(bytes)
        /\ \A i \in 1 .. Len(old) + Len(bytes) :
             (old \o bytes)[i] = IF i <= Len(old) THEN old[i] ELSE bytes[i - Len(old)]
    BY <2>1, ConcatProperties
  <2>3. Len(old) = r - from /\ Len(bytes) = n
    BY <1>0, <1>2
  <2> QED
    BY <2>2, <2>3
<1>5. ASSUME NEW i \in 1 .. (r - from) + n PROVE (old \o bytes)[i] = new[i]
  <2>0. (old \o bytes)[i] = IF i <= r - from THEN old[i] ELSE bytes[i - (r - from)]
    BY <1>4
  <2>1. CASE i <= r - from
    <3>1. i \in 1 .. r - from
      BY <1>1, <2>1
    <3> QED
      BY <1>2, <1>3, <2>0, <2>1, <3>1
  <2>2. CASE i > r - from
    <3>1. (old \o bytes)[i] = bytes[i - (r - from)] /\ i - (r - from) \in 1 .. n
      BY <1>1, <2>0, <2>2
    <3>2. r + (i - (r - from)) = from + i
      BY <1>1
    <3> QED
      BY <1>0, <1>3, <3>1, <3>2
  <2>3. i <= r - from \/ i > r - from
    BY <1>1
  <2> QED
    BY <2>1, <2>2, <2>3, Zenon
<1> QED
  <2>1. /\ old \o bytes \in Seq(Nat) /\ new \in Seq(Nat) /\ Len(old \o bytes) = Len(new)
        /\ \A i \in 1 .. Len(old \o bytes) : (old \o bytes)[i] = new[i]
    BY <1>3, <1>4, <1>5
  <2>2. old \o bytes = new
    BY <2>1, SeqEqual
  <2> QED
    BY <2>2 DEF old, new, Between, Appends

LEMMA ConcatAppend ==
  ASSUME NEW s \in Seq(Nat), NEW t \in Seq(Nat), NEW e \in Nat
  PROVE  s \o Append(t, e) = Append(s \o t, e)
<1>1. /\ <<e>> \in Seq(Nat) /\ s \o t \in Seq(Nat)
      /\ Append(t, e) = t \o <<e>>
      /\ Append(s \o t, e) = (s \o t) \o <<e>>
  <2>1. <<e>> \in Seq(Nat) /\ s \o t \in Seq(Nat)
    OBVIOUS
  <2>2. \A u \in Seq(Nat) : Append(u, e) = u \o <<e>>
    OBVIOUS
  <2> QED
    BY <2>1, <2>2
<1> QED
  BY <1>1, ConcatAssociative

NoNewline(pattern, from, to) == pattern = "line" => \A k \in from + 1 .. to : Kind[k] # "lf"

(* The text of a line goes on with what recvline keeps of a block without  *)
(* a newline.                                                              *)
LEMMA LineGrows ==
  ASSUME NEW from \in Nat, NEW r \in Nat, NEW n \in Nat, from <= r, r + n <= Len(Kind),
         NEW bytes \in Seq(Nat), Follow(bytes, n, r),
         NoNewline("line", r, r + n)
  PROVE  Stream!LineFrom(from)[r] \o Chars(bytes) = Stream!LineFrom(from)[r + n]
<1> DEFINE u == Stream!LineFrom(from)
<1>0. /\ Len(bytes) = n /\ \A k \in 1 .. n : bytes[k] = r + k
      /\ \A k \in r + 1 .. r + n : Kind[k] # "lf"
  BY DEF Follow, NoNewline
<1>1. Len(Kind) \in Nat /\ from \in 0 .. Len(Kind)
  BY SizesAssumption
<1>2. /\ \A k \in from + 1 .. Len(Kind) :
           u[k] = IF Kind[k] = "chr" THEN Append(u[k - 1], k) ELSE u[k - 1]
      /\ \A k \in from .. Len(Kind) : u[k] \in Seq(Nat)
  BY <1>1, LineIs
<1> HIDE DEF u
<1>3. PICK c : /\ Chars(bytes) = c[n]
               /\ c[0] = <<>>
               /\ \A k \in 1 .. n :
                    c[k] = IF Kind[bytes[k]] = "cr" THEN c[k - 1] ELSE Append(c[k - 1], bytes[k])
               /\ \A k \in 0 .. n : c[k] \in Seq(Nat)
  BY <1>0, CharsAre
<1> DEFINE P == {k \in Nat : u[r] \o c[k] = u[r + k]}
<1>4. 0 \in P
  <2>1. u[r] \in Seq(Nat)
    BY <1>1, <1>2
  <2>2. u[r] \o <<>> = u[r] /\ r + 0 = r
    BY <2>1
  <2> QED
    BY <1>3, <2>2
<1>5. ASSUME NEW k \in 0 + 1 .. n, k - 1 \in P PROVE k \in P
  <2>1. u[r] \o c[k - 1] = u[(r + k) - 1]
    <3>1. r + (k - 1) = (r + k) - 1
      OBVIOUS
    <3> QED
      BY <1>5, <3>1
  <2>2. /\ k \in 1 .. n /\ k \in Nat /\ r + k \in from + 1 .. Len(Kind) /\ bytes[k] = r + k
        /\ r + k \in Nat
    BY <1>0, <1>1
  <2>3. Kind[r + k] \in {"chr", "cr"}
    <3>1. Kind[r + k] \in {"chr", "cr", "lf"} /\ r + k \in r + 1 .. r + n
      BY <1>1, <2>2, SizesAssumption
    <3> QED
      BY <1>0, <3>1
  <2>4. u[r] \in Seq(Nat) /\ c[k - 1] \in Seq(Nat)
    BY <1>1, <1>2, <1>3
  <2>5. CASE Kind[r + k] = "chr"
    <3>1. u[r + k] = Append(u[(r + k) - 1], r + k)
      BY <1>2, <2>2, <2>5
    <3>2. c[k] = Append(c[k - 1], r + k)
      BY <1>3, <2>2, <2>5
    <3>3. u[r] \o Append(c[k - 1], r + k) = Append(u[r] \o c[k - 1], r + k)
      BY <2>2, <2>4, ConcatAppend
    <3> QED
      BY <2>1, <2>2, <3>1, <3>2, <3>3
  <2>6. CASE Kind[r + k] = "cr"
    <3>1. u[r + k] = u[(r + k) - 1] /\ c[k] = c[k - 1]
      BY <1>2, <1>3, <2>2, <2>6
    <3> QED
      BY <2>1, <2>2, <3>1
  <2> QED
    BY <2>3, <2>5, <2>6
<1> HIDE DEF P
<1>6. \A k \in 0 .. n : k \in P
  BY <1>4, <1>5, Upwards
<1>7. n \in P
  BY <1>6
<1> QED
  BY <1>3, <1>7 DEF P, u

-----------------------------------------------------------------------------
(* The inductive invariant of the refinement: the text of a running call,  *)
(* and that of an answer that was cut short, is what the pattern selects   *)
(* from where it began to where it is now, and raw and all have counted    *)
(* what they have read.                                                    *)
GoodText(pattern, from, to, text) ==
  /\ from <= to
  /\ text = Stream!Text(pattern, from, to)
  /\ NoNewline(pattern, from, to)

CallText ==
  /\ GoodText(call.op, call.from, received, call.acc)
  /\ call.base <= received
  /\ call.from = call.base \/ (GoesOn(call.op) /\ call.from = ret.from)
  /\ call.goal \in Counts \cup {0}
  /\ call.op \in {"raw", "all"} => call.total = received - call.base
  /\ call.op = "raw" => call.wanted = (call.goal - (call.base - call.from)) % Word

Pos == IF call = Idle THEN received ELSE call.base

ConnOK == fin \in {"open", "closed", "reset", "broken"} /\ own \in {"open", "closed"}

StreamInv ==
  /\ written <= Len(Kind) /\ ConnOK
  /\ Broken(ret) => GoodText(ret.pattern, ret.from, Pos, ret.text)
  /\ call # Idle /\ ~Receiving => call.base = received
  /\ Receiving => CallText

(* What is left to read, once the prefix is taken off: all of it, or when  *)
(* the prefix is longer than the number, more than there ever is.          *)
LEMMA WantedIs ==
  ASSUME NEW goal \in Counts \cup {0}, NEW part \in Nat
  PROVE  /\ part <= goal => (goal - part) % Word = goal - part
         /\ part > goal /\ part <= Len(Kind) => (goal - part) % Word = Word + goal - part
<1>1. goal \in Nat /\ goal < Word /\ Word \in Nat /\ Word > 0 /\ Len(Kind) \in Nat /\ Len(Kind) < Word
  BY SizesAssumption
<1>2. ASSUME part <= goal PROVE (goal - part) % Word = goal - part
  BY <1>1, <1>2
<1>3. ASSUME part > goal, part <= Len(Kind) PROVE (goal - part) % Word = Word + goal - part
  BY <1>1, <1>3
<1> QED
  BY <1>2, <1>3

(* What a turn does to the text, and when it answers.                      *)
TurnGives(err) ==
  \E text : \E n \in Nat :
    /\ received' = received + n
    /\ text = Stream!Text(call.op, call.from, received')
    /\ \/ /\ err = "done" /\ Continue(text, IF call.op = "line" THEN 0 ELSE n)
          /\ NoNewline(call.op, call.from, received')
       \/ /\ err = "done" /\ Answer("done", text)
          /\ Stream!Whole(call.op, call.goal, call.from, received')
       \/ /\ err # "done" /\ n = 0 /\ Answer(err, text)
       \/ /\ err = "closed" /\ n = 0 /\ Answer("done", text)
          /\ call.op = "all" /\ received > call.base

LEMMA BaseIs ==
  ASSUME Types, StreamInv, Receiving
  PROVE  /\ call.from \in Nat /\ call.base \in Nat /\ received \in Nat
         /\ call.from <= call.base /\ call.base <= received
<1>1. call.from \in Nat /\ call.base \in Nat /\ received \in Nat /\ ret.from \in Nat
  BY DEF Types, CallOK, RetOK
<1>2. call # Idle
  BY DEF Receiving, Idle
<1>3. Broken(ret) => ret.from <= call.base
  BY <1>2 DEF StreamInv, GoodText, Pos
<1>4. call.from = call.base \/ (GoesOn(call.op) /\ call.from = ret.from)
  BY DEF StreamInv, CallText
<1>5. call.from <= call.base
  BY <1>1, <1>3, <1>4 DEF GoesOn
<1>6. call.base <= received
  BY DEF StreamInv, CallText
<1> QED
  BY <1>1, <1>5, <1>6

LEMMA RawGives ==
  ASSUME Types, StreamInv, NEW err, NEW d \in [0 .. BufSize - 1 -> Nat], NEW f \in Nat,
         NEW l \in Nat, f <= l, l <= BufSize, Holds(d, f, l, received),
         received + (l - f) <= written, err = "done" \/ f = l, RawTurn(err, d, f, l)
  PROVE  TurnGives(err)
<1> DEFINE n == MinOf(l - f, call.wanted - call.total)
           bytes == Block(d, f, n)
           text == call.acc \o bytes
<1>0. call.op = "raw" /\ Receiving
  BY DEF RawTurn, Receiving
<1>1. /\ call.from \in Nat /\ call.base \in Nat /\ received \in Nat
      /\ call.from <= call.base /\ call.base <= received
  BY <1>0, BaseIs
<1>2. /\ call.wanted \in Nat /\ call.total \in Nat /\ call.total <= call.wanted
      /\ call.total = received - call.base /\ call.goal \in Counts \cup {0}
      /\ call.wanted = (call.goal - (call.base - call.from)) % Word
      /\ call.acc = Between(call.from, received)
  BY <1>0 DEF Types, CallOK, StreamInv, CallText, GoodText, Stream!Text, Between
<1>3. n \in Nat /\ n <= l - f /\ n <= call.wanted - call.total
  BY <1>2 DEF MinOf
<1>4. Holds(d, f, f + n, received)
  BY <1>3 DEF Holds
<1>5. bytes \in Seq(Nat) /\ Follow(bytes, n, received)
  <2>1. f + n <= BufSize
    BY <1>3, Sizes
  <2> HIDE DEF n
  <2> QED
    BY <1>1, <1>3, <1>4, <2>1, Placed
<1>6. text = Stream!Text(call.op, call.from, received + n)
  <2> HIDE DEF n, bytes
  <2>1. call.from <= received
    BY <1>1
  <2>2. Between(call.from, received) \o bytes = Between(call.from, received + n)
    <3> DEFINE a == call.from
               r == received
    <3>1. a \in Nat /\ r \in Nat /\ n \in Nat /\ a <= r
      BY <1>1, <1>3, <2>1
    <3>2. bytes \in Seq(Nat) /\ Follow(bytes, n, r)
      BY <1>5
    <3> HIDE DEF a, r
    <3>3. Appends(a, r, n, bytes)
      BY <3>1, <3>2, BlockGrows, Zenon
    <3> QED
      BY <3>3, Zenon DEF Appends, a, r
  <2> QED
    BY <1>0, <1>2, <2>2 DEF Stream!Text, Between
<1>7. received' = received + n
  BY DEF RawTurn, Skip
<1>8. NoNewline(call.op, call.from, received')
  BY <1>0 DEF NoNewline
<1>9. IF call.total + n >= call.wanted \/ err # "done" THEN Answer(err, text) ELSE Continue(text, n)
  BY DEF RawTurn
<1>10. f = l => n = 0
  BY <1>2 DEF MinOf
<1>11. ASSUME call.total + n >= call.wanted, err = "done"
       PROVE  Stream!Whole(call.op, call.goal, call.from, received')
  <2>1. received' = call.base + call.wanted
    <3>1. /\ call.wanted \in Nat /\ call.total \in Nat
          /\ call.total = received - call.base
      BY <1>2
    <3>2. n \in Nat /\ n <= call.wanted - call.total /\ call.total + n >= call.wanted
      BY <1>3, <1>11
    <3> DEFINE w == call.wanted
               t == call.total
               b == call.base
    <3>3. w \in Nat /\ t \in Nat /\ b \in Nat /\ received \in Nat /\ t = received - b
      BY <1>1, <3>1
    <3>4. n \in Nat /\ n <= w - t /\ t + n >= w
      BY <3>2
    <3> HIDE DEF n, w, t, b
    <3>5. received + n = b + w
      BY <3>3, <3>4
    <3> QED
      BY <1>7, <3>5 DEF w, b
  <2>2. received' <= Len(Kind) /\ Len(Kind) \in Nat /\ Word \in Nat
    <3>1. written \in Nat /\ written <= Len(Kind) /\ Len(Kind) \in Nat /\ Word \in Nat
      BY SizesAssumption DEF Types, StreamInv
    <3> HIDE DEF n
    <3> QED
      BY <1>1, <1>3, <1>7, <3>1
  <2>3. call.goal \in Nat
    <3>1. call.goal \in Counts \cup {0}
      BY <1>2
    <3>2. \A c \in Counts \cup {0} : c \in Nat
      BY SizesAssumption
    <3> QED
      BY <3>1, <3>2, Zenon
  <2> DEFINE part == call.base - call.from
  <2>4. part \in Nat /\ part <= Len(Kind)
    BY <1>1, <1>2, <2>1, <2>2
  <2>5. CASE part <= call.goal
    <3>1. call.wanted = call.goal - part
      BY <1>2, <2>4, <2>5, WantedIs
    <3>2. received' - call.from = call.goal
      BY <1>1, <2>1, <2>3, <3>1
    <3> QED
      BY <1>0, <3>2 DEF Stream!Whole
  <2>6. CASE part > call.goal
    <3>1. call.wanted = Word + call.goal - part
      BY <1>2, <2>4, <2>6, WantedIs
    <3>2. Len(Kind) < Word
      BY SizesAssumption
    <3> QED
      BY <1>1, <2>1, <2>2, <2>3, <3>1, <3>2
  <2> QED
    BY <2>3, <2>4, <2>5, <2>6
<1> HIDE DEF n, text
<1> QED
  BY <1>0, <1>3, <1>6, <1>7, <1>8, <1>9, <1>10, <1>11 DEF TurnGives

LEMMA AllGives ==
  ASSUME Types, StreamInv, NEW err, NEW d \in [0 .. BufSize - 1 -> Nat], NEW f \in Nat,
         NEW l \in Nat, f <= l, l <= BufSize, Holds(d, f, l, received),
         received + (l - f) <= written, err = "done" \/ f = l, AllTurn(err, d, f, l)
  PROVE  TurnGives(err)
<1> DEFINE n == l - f
           bytes == Block(d, f, n)
           text == call.acc \o bytes
<1>0. call.op = "all" /\ Receiving
  BY DEF AllTurn, Receiving
<1>1. /\ call.from \in Nat /\ call.base \in Nat /\ received \in Nat
      /\ call.from <= call.base /\ call.base <= received
  BY <1>0, BaseIs
<1>2. /\ call.total = received - call.base
      /\ call.acc = Between(call.from, received)
  BY <1>0 DEF StreamInv, CallText, GoodText, Stream!Text, Between
<1>3. n \in Nat
  OBVIOUS
<1>4. Holds(d, f, f + n, received)
  BY DEF Holds
<1>5. bytes \in Seq(Nat) /\ Follow(bytes, n, received)
  <2>1. f + n <= BufSize
    BY <1>3, Sizes
  <2> HIDE DEF n
  <2> QED
    BY <1>1, <1>3, <1>4, <2>1, Placed
<1>6. text = Stream!Text(call.op, call.from, received + n)
  <2> HIDE DEF n, bytes
  <2>1. call.from <= received
    BY <1>1
  <2>2. Between(call.from, received) \o bytes = Between(call.from, received + n)
    <3> DEFINE a == call.from
               r == received
    <3>1. a \in Nat /\ r \in Nat /\ n \in Nat /\ a <= r
      BY <1>1, <1>3, <2>1
    <3>2. bytes \in Seq(Nat) /\ Follow(bytes, n, r)
      BY <1>5
    <3> HIDE DEF a, r
    <3>3. Appends(a, r, n, bytes)
      BY <3>1, <3>2, BlockGrows, Zenon
    <3> QED
      BY <3>3, Zenon DEF Appends, a, r
  <2> QED
    BY <1>0, <1>2, <2>2 DEF Stream!Text, Between
<1>7. received' = received + n
  BY DEF AllTurn, Skip
<1>8. NoNewline(call.op, call.from, received')
  BY <1>0 DEF NoNewline
<1>9. \/ err = "done" /\ Continue(text, n)
      \/ err = "closed" /\ call.total + n > 0 /\ Answer("done", text)
      \/ err # "done" /\ Answer(err, text)
  <2>1. call.total + l - f = call.total + n
    BY <1>1, <1>2
  <2> HIDE DEF n
  <2> QED
    BY <2>1 DEF AllTurn, n
<1>10. f = l => n = 0
  OBVIOUS
<1>11. n = 0 /\ call.total + n > 0 => received > call.base
  BY <1>1, <1>2
<1> HIDE DEF n, text
<1> QED
  BY <1>0, <1>3, <1>6, <1>7, <1>8, <1>9, <1>10, <1>11 DEF TurnGives

Clean(d, f, m) == \A k \in f .. m - 1 : Kind[d[k]] # "lf"

(* Bytes without a newline leave the line a line without one.              *)
LEMMA LineGoesOn ==
  ASSUME NEW d \in [0 .. BufSize - 1 -> Nat], NEW f \in Nat, NEW n \in Nat, f + n <= BufSize,
         NEW from \in Nat, NEW r \in Nat, from <= r, r + n <= Len(Kind),
         Holds(d, f, f + n, r), Clean(d, f, f + n), NoNewline("line", from, r)
  PROVE  /\ Stream!LineFrom(from)[r] \o Chars(Block(d, f, n)) = Stream!LineFrom(from)[r + n]
         /\ NoNewline("line", from, r + n)
<1>1. ASSUME NEW k \in r + 1 .. r + n PROVE Kind[k] # "lf"
  <2>1. f + (k - r - 1) \in f .. f + n - 1
    OBVIOUS
  <2>2. d[f + (k - r - 1)] = r + 1 + ((f + (k - r - 1)) - f)
    BY <2>1 DEF Holds
  <2>3. r + 1 + ((f + (k - r - 1)) - f) = k
    OBVIOUS
  <2>4. Kind[d[f + (k - r - 1)]] # "lf"
    BY <2>1 DEF Clean
  <2> QED
    BY <2>2, <2>3, <2>4
<1>2. ASSUME NEW k \in from + 1 .. r + n PROVE Kind[k] # "lf"
  <2>1. k \in from + 1 .. r \/ k \in r + 1 .. r + n
    OBVIOUS
  <2> QED
    BY <1>1, <2>1 DEF NoNewline
<1>3. NoNewline("line", r, r + n) /\ NoNewline("line", from, r + n)
  BY <1>1, <1>2 DEF NoNewline
<1> DEFINE bytes == Block(d, f, n)
<1>4. bytes \in Seq(Nat) /\ Follow(bytes, n, r)
  BY Placed
<1> HIDE DEF bytes
<1>5. Stream!LineFrom(from)[r] \o Chars(bytes) = Stream!LineFrom(from)[r + n]
  BY <1>3, <1>4, LineGrows
<1> QED
  BY <1>3, <1>5 DEF bytes

LEMMA LineGives ==
  ASSUME Types, StreamInv, NEW err, NEW d \in [0 .. BufSize - 1 -> Nat], NEW f \in Nat,
         NEW l \in Nat, f <= l, l <= BufSize, Holds(d, f, l, received),
         received + (l - f) <= written, err = "done" \/ f = l, LineTurn(err, d, f, l)
  PROVE  TurnGives(err)
<1> DEFINE a == call.from
           r == received
           u == Stream!LineFrom(a)
<1>0. call.op = "line" /\ Receiving
  BY DEF LineTurn, Receiving
<1>1. a \in Nat /\ r \in Nat /\ a <= r
  <2>1. call.from \in Nat /\ call.base \in Nat /\ received \in Nat
        /\ call.from <= call.base /\ call.base <= received
    BY <1>0, BaseIs
  <2> QED
    BY <2>1
<1>2. call.acc = u[r] /\ \A k \in a + 1 .. r : Kind[k] # "lf"
  BY <1>0 DEF StreamInv, CallText, GoodText, NoNewline, Stream!Text
<1>3. Len(Kind) \in Nat /\ r + (l - f) <= Len(Kind) /\ BufSize \in Nat
  <2>1. written \in Nat /\ written <= Len(Kind) /\ Len(Kind) \in Nat /\ BufSize \in Nat
    BY SizesAssumption DEF Types, StreamInv
  <2> QED
    BY <1>1, <2>1
<1>4. Stream!Text(call.op, call.from, received') = u[received']
  BY <1>0 DEF Stream!Text
<1>5. ASSUME NEW n \in Nat, f + n <= l, \A k \in f .. f + n - 1 : Kind[d[k]] # "lf"
      PROVE  /\ call.acc \o Chars(Block(d, f, n)) = u[r + n]
             /\ \A k \in a + 1 .. r + n : Kind[k] # "lf"
  <2>1. Holds(d, f, f + n, r) /\ f + n <= BufSize /\ r + n <= Len(Kind)
    <3>1. Holds(d, f, f + n, r)
      BY <1>5 DEF Holds
    <3> HIDE DEF r
    <3> QED
      BY <1>1, <1>3, <1>5, <3>1
  <2>2. Clean(d, f, f + n)
    BY <1>5 DEF Clean
  <2> HIDE DEF a, r
  <2>3. /\ Stream!LineFrom(a)[r] \o Chars(Block(d, f, n)) = Stream!LineFrom(a)[r + n]
        /\ NoNewline("line", a, r + n)
    <3>1. NoNewline("line", a, r)
      BY <1>2 DEF NoNewline
    <3> QED
      BY <1>1, <2>1, <2>2, <3>1, LineGoesOn
  <2> QED
    BY <1>2, <2>3 DEF u, NoNewline
<1>6. CASE Newlines(d, f, l) # {}
  <2> DEFINE e == Ends(d, f, l)
             n == e - f
             to == r + n + 1
  <2>1. /\ e \in f .. l - 1 /\ Kind[d[e]] = "lf"
        /\ \A m \in f .. e - 1 : Kind[d[m]] # "lf"
    BY <1>6, EndsIs
  <2> HIDE DEF e
  <2>2. n \in Nat /\ f + n <= l /\ f + n = e /\ f + n < l /\ f < l
    BY <2>1
  <2>3. /\ call.acc \o Chars(Block(d, f, n)) = u[r + n]
        /\ \A k \in a + 1 .. r + n : Kind[k] # "lf"
    <3>1. \A k \in f .. f + n - 1 : Kind[d[k]] # "lf"
      BY <2>1, <2>2
    <3> HIDE DEF n, a, r, u
    <3> QED
      BY <1>5, <2>2, <3>1
  <2>4. Kind[to] = "lf"
    <3>1. d[e] = r + 1 + (e - f)
      BY <2>1 DEF Holds
    <3>2. r + 1 + (e - f) = to
      BY <1>1, <2>2
    <3> QED
      BY <2>1, <3>1, <3>2
  <2>5. to \in a + 1 .. Len(Kind) /\ to - 1 = r + n
    <3>1. n \in Nat /\ n < l - f
      BY <2>2
    <3> HIDE DEF a, r, n
    <3> QED
      BY <1>1, <1>3, <3>1
  <2>6. u[to] = u[r + n]
    <3>1. a \in 0 .. Len(Kind)
      BY <1>1, <2>5
    <3> HIDE DEF a, to
    <3>2. u[to] = u[to - 1]
      BY <2>4, <2>5, <3>1, LineIs
    <3> QED
      BY <2>5, <3>2
  <2>7. received' = received + (n + 1) /\ n + 1 \in Nat /\ to = received'
    <3>1. received' = received + (n + 1)
      BY <1>6 DEF LineTurn, Skip, e
    <3> QED
      BY <1>1, <2>2, <3>1
  <2>8. Answer(err, u[to]) /\ err = "done"
    <3>1. Answer(err, call.acc \o Chars(Block(d, f, n)))
      BY <1>6 DEF LineTurn, e
    <3> HIDE DEF n, u, to
    <3>2. Answer(err, u[to])
      BY <2>3, <2>6, <3>1
    <3> QED
      BY <2>2, <3>2
  <2>9. Stream!Whole(call.op, call.goal, call.from, received')
    <3>1. to > a /\ \A k \in a + 1 .. to - 1 : Kind[k] # "lf"
      <4>1. \A k \in a + 1 .. to - 1 : Kind[k] # "lf"
        BY <2>3, <2>5, Zenon
      <4>2. to > a
        BY <1>1, <2>2
      <4> QED
        BY <4>1, <4>2
    <3> QED
      BY <1>0, <2>4, <2>7, <3>1 DEF Stream!Whole
  <2> HIDE DEF n, to, u
  <2>10. /\ received' = received + (n + 1) /\ n + 1 \in Nat
         /\ u[to] = Stream!Text(call.op, call.from, received')
         /\ err = "done" /\ Answer("done", u[to])
         /\ Stream!Whole(call.op, call.goal, call.from, received')
    BY <1>4, <2>7, <2>8, <2>9
  <2> QED
    BY <2>10 DEF TurnGives
<1>7. CASE Newlines(d, f, l) = {}
  <2> DEFINE n == l - f
             text == call.acc \o Chars(Block(d, f, n))
  <2>1. n \in Nat /\ f + n <= l /\ f + n = l /\ (f = l => n = 0)
    OBVIOUS
  <2>2. \A k \in f .. l - 1 : Kind[d[k]] # "lf"
    BY <1>7 DEF Newlines
  <2>3. received' = received + n /\ IF err = "done" THEN Continue(text, 0) ELSE Answer(err, text)
    BY <1>7 DEF LineTurn, Skip
  <2>4. text = u[r + n] /\ \A k \in a + 1 .. r + n : Kind[k] # "lf"
    <3>1. \A k \in f .. f + n - 1 : Kind[d[k]] # "lf"
      BY <2>1, <2>2
    <3> HIDE DEF n, a, r, u
    <3> QED
      BY <1>5, <2>1, <3>1
  <2>5. text = Stream!Text(call.op, call.from, received')
    BY <1>4, <2>3, <2>4
  <2>6. NoNewline(call.op, call.from, received')
    BY <2>3, <2>4 DEF NoNewline
  <2> HIDE DEF n, text
  <2> QED
    BY <1>0, <2>1, <2>3, <2>5, <2>6 DEF TurnGives
<1> QED
  BY <1>6, <1>7

LEMMA TurnGivesText ==
  ASSUME Types, StreamInv, NEW err, NEW d \in [0 .. BufSize - 1 -> Nat], NEW f \in Nat,
         NEW l \in Nat, f <= l, l <= BufSize, Holds(d, f, l, received),
         received + (l - f) <= written, err = "done" \/ f = l, Turn(err, d, f, l)
  PROVE  TurnGives(err)
BY RawGives, AllGives, LineGives DEF Turn

-----------------------------------------------------------------------------
(* The steps, read as steps of the stream.                                 *)
LEMMA QuietMaps ==
  ASSUME UNCHANGED <<written, fin, own, ret>>, Pos' = Pos
  PROVE  UNCHANGED Stream!vars
BY DEF Stream!vars, Pos

LEMMA QuietText ==
  ASSUME StreamInv, UNCHANGED <<received, ret, call>>, written' <= Len(Kind), ConnOK'
  PROVE  StreamInv' /\ Pos' = Pos
<1>1. Receiving' = Receiving /\ Pos' = Pos
  BY DEF Receiving, Pos
<1>2. CallText => CallText'
  BY DEF CallText, GoesOn
<1> QED
  BY <1>1, <1>2 DEF StreamInv

(* A call that reads nothing begins or ends.                               *)
LEMMA OtherText ==
  ASSUME StreamInv, UNCHANGED <<received, ret>>, written' <= Len(Kind), ConnOK',
         ~Receiving, ~Receiving', call' = Idle \/ call'.base = received
  PROVE  StreamInv' /\ Pos' = Pos
<1>1. Pos = received /\ Pos' = received
  BY DEF StreamInv, Pos
<1> QED
  BY <1>1 DEF StreamInv

LEMMA ReceivedWritten ==
  ASSUME ReadInv', UNCHANGED written
  PROVE  received' \in Nat /\ received' <= written
<1>1. /\ received' \in Nat /\ taken' \in Nat /\ first' \in Nat /\ last' \in Nat
      /\ written' \in Nat
  BY DEF ReadInv, Types
<1>2. received' + (last' - first') = taken' /\ taken' <= written' /\ first' <= last'
  BY DEF ReadInv, BufferSound
<1>3. \A r, f, l, t \in Nat : r + (l - f) = t /\ f <= l => r <= t
  OBVIOUS
<1>4. received' <= taken'
  BY <1>1, <1>2, <1>3, Zenon
<1>5. received' <= written' /\ written' = written
  BY <1>1, <1>2, <1>4
<1> QED
  BY <1>1, <1>5

LEMMA AnswerMaps ==
  ASSUME ReadInv, ReadInv', StreamInv, Receiving,
         NEW status \in {"done", "timeout", "closed", "reset"},
         NEW text, Answer(status, text), text = Stream!Text(call.op, call.from, received'),
         received <= received',
         IF status = "done" THEN Stream!Whole(call.op, call.goal, call.from, received')
                            ELSE Stream!Why(status, call.op, call.from, received'),
         fin' = IF status = "reset" THEN "broken" ELSE fin, UNCHANGED <<written, own>>
  PROVE  Stream!Next
<1>1. /\ call.from \in Nat /\ call.base \in Nat /\ received \in Nat
      /\ call.from <= call.base /\ call.base <= received
  BY BaseIs DEF ReadInv
<1>2. received' \in Nat /\ received' <= written /\ written \in Nat
  BY ReceivedWritten DEF ReadInv, Types
<1>3. call' = Idle /\ call # Idle
  BY DEF Answer, Receiving, Idle
<1>4. received' \in call.base .. written
  BY <1>1, <1>2
<1>5. call.from \in {call.base} \cup (IF Stream!GoesOn(call.op) THEN {ret.from} ELSE {})
  <2>1. call.from = call.base \/ (GoesOn(call.op) /\ call.from = ret.from)
    BY DEF StreamInv, CallText
  <2>2. GoesOn(call.op) = Stream!GoesOn(call.op)
    BY DEF GoesOn, Stream!GoesOn, Broken, Stream!Broken
  <2> QED
    BY <2>1, <2>2
<1>6. ret' = [status |-> status, pattern |-> call.op, goal |-> call.goal,
              from |-> call.from, text |-> Stream!Text(call.op, call.from, received')]
  BY DEF Answer
<1>7. status \in Stream!Statuses \ {"none"}
  BY DEF Stream!Statuses
<1>8. Stream!Answer(call.op, call.goal)
  <2>1. (IF call = Idle THEN received ELSE call.base) = call.base
        /\ (IF call' = Idle THEN received' ELSE call'.base) = received'
    BY <1>3
  <2> QED
    BY <1>4, <1>5, <1>6, <1>7, <2>1 DEF Stream!Answer
<1>9. call.op \in {"line", "raw", "all"} /\ call.goal \in Counts \cup {0}
  BY DEF Receiving, StreamInv, CallText
<1> QED
  BY <1>8, <1>9 DEF Stream!Next

(* A turn goes on with its call or answers it.                             *)
LEMMA ContinueText ==
  ASSUME Types, StreamInv, Receiving, NEW text, NEW n \in Nat,
         Continue(text, IF call.op = "line" THEN 0 ELSE n),
         received' = received + n, text = Stream!Text(call.op, call.from, received'),
         NoNewline(call.op, call.from, received'), UNCHANGED <<written, own, fin>>
  PROVE  StreamInv' /\ Pos' = Pos /\ ret' = ret
<1> DEFINE m == IF call.op = "line" THEN 0 ELSE n
<1>1. call' = [call EXCEPT !.acc = text, !.total = call.total + m] /\ ret' = ret
  BY DEF Continue
<1>2. /\ call'.op = call.op /\ call'.from = call.from /\ call'.base = call.base
      /\ call'.goal = call.goal /\ call'.wanted = call.wanted /\ call'.acc = text
      /\ call'.total = call.total + m
  BY <1>1 DEF Types, CallOK
<1>3. call # Idle /\ call' # Idle /\ Receiving'
  BY <1>2 DEF Receiving, Idle
<1>4. Pos' = Pos
  BY <1>2, <1>3 DEF Pos
<1>5. /\ call.from \in Nat /\ call.base \in Nat /\ received \in Nat
      /\ call.from <= call.base /\ call.base <= received
  BY BaseIs
<1>6. call.from <= received' /\ call.base <= received'
  BY <1>5
<1>7. call.op \in {"raw", "all"} => call'.total = received' - call.base
  BY <1>2, <1>5 DEF StreamInv, CallText
<1>8. CallText'
  <2>1. GoodText(call.op, call.from, received, call.acc)'
    BY <1>2, <1>6 DEF GoodText
  <2>2. (call.from = call.base \/ (GoesOn(call.op) /\ call.from = ret.from))'
    BY <1>1, <1>2 DEF StreamInv, CallText, GoesOn
  <2>3. (call.op = "raw" => call.wanted = (call.goal - (call.base - call.from)) % Word)'
    BY <1>2 DEF StreamInv, CallText
  <2>4. (call.goal \in Counts \cup {0})'
    BY <1>2 DEF StreamInv, CallText
  <2> QED
    BY <1>2, <1>6, <1>7, <2>1, <2>2, <2>3, <2>4 DEF CallText
<1> QED
  BY <1>1, <1>3, <1>4, <1>8 DEF StreamInv, ConnOK

LEMMA AnswerText ==
  ASSUME StreamInv, NEW status, NEW text, Answer(status, text), UNCHANGED written,
         ConnOK',
         status # "done" => GoodText(call.op, call.from, received', text)
  PROVE  StreamInv'
<1>1. /\ call' = Idle /\ ret'.status = status /\ ret'.pattern = call.op
      /\ ret'.from = call.from /\ ret'.text = text
  BY DEF Answer
<1>2. ~Receiving' /\ Pos' = received'
  BY <1>1 DEF Receiving, Idle, Pos
<1>3. (Broken(ret) => GoodText(ret.pattern, ret.from, Pos, ret.text))'
  BY <1>1, <1>2 DEF Broken
<1> QED
  BY <1>1, <1>2, <1>3 DEF StreamInv

LEMMA TurnMaps ==
  ASSUME ReadInv, ReadInv', StreamInv, Receiving,
         NEW err \in {"done", "timeout", "closed", "reset"}, TurnGives(err),
         UNCHANGED <<written, own>>, fin' = IF err = "reset" THEN "broken" ELSE fin,
         err = "closed" =>
           own = "closed" \/ (fin \in {"closed", "broken"} /\ received = written),
         err = "reset" => fin = "reset" /\ received = written
  PROVE  StreamInv' /\ [Stream!Next]_(Stream!vars)
<1>0. Types /\ ConnOK
  BY DEF ReadInv, StreamInv
<1>1. PICK text :
        \E n \in Nat :
          /\ received' = received + n
          /\ text = Stream!Text(call.op, call.from, received')
          /\ \/ /\ err = "done" /\ Continue(text, IF call.op = "line" THEN 0 ELSE n)
                /\ NoNewline(call.op, call.from, received')
             \/ /\ err = "done" /\ Answer("done", text)
                /\ Stream!Whole(call.op, call.goal, call.from, received')
             \/ /\ err # "done" /\ n = 0 /\ Answer(err, text)
             \/ /\ err = "closed" /\ n = 0 /\ Answer("done", text)
                /\ call.op = "all" /\ received > call.base
  BY Zenon DEF TurnGives
<1>2. PICK n \in Nat :
        /\ received' = received + n
        /\ text = Stream!Text(call.op, call.from, received')
        /\ \/ /\ err = "done" /\ Continue(text, IF call.op = "line" THEN 0 ELSE n)
              /\ NoNewline(call.op, call.from, received')
           \/ /\ err = "done" /\ Answer("done", text)
              /\ Stream!Whole(call.op, call.goal, call.from, received')
           \/ /\ err # "done" /\ n = 0 /\ Answer(err, text)
           \/ /\ err = "closed" /\ n = 0 /\ Answer("done", text)
              /\ call.op = "all" /\ received > call.base
  BY <1>1, Zenon
<1>3. /\ call.from \in Nat /\ call.base \in Nat /\ received \in Nat
      /\ call.from <= call.base /\ call.base <= received
  BY <1>0, BaseIs
<1>4. received <= received' /\ (n = 0 => received' = received)
  BY <1>2, <1>3
<1>5. text = Stream!Text(call.op, call.from, received')
  BY <1>2
<1>6. ConnOK'
  BY <1>0 DEF ConnOK
<1>7. NoNewline(call.op, call.from, received)
  BY DEF StreamInv, CallText, GoodText
<1>8. CASE err = "done" /\ Continue(text, IF call.op = "line" THEN 0 ELSE n)
           /\ NoNewline(call.op, call.from, received')
  <2>1. fin' = fin
    BY <1>8
  <2>2. StreamInv' /\ Pos' = Pos /\ ret' = ret
    BY <1>0, <1>2, <1>5, <1>8, <2>1, ContinueText
  <2> QED
    BY <2>1, <2>2, QuietMaps
<1>9. CASE err = "done" /\ Answer("done", text)
           /\ Stream!Whole(call.op, call.goal, call.from, received')
  <2>1. StreamInv'
    BY <1>6, <1>9, AnswerText
  <2>2. Stream!Next
    BY <1>4, <1>5, <1>9, AnswerMaps
  <2> QED
    BY <2>1, <2>2
<1>10. CASE err # "done" /\ n = 0 /\ Answer(err, text)
  <2>1. received' = received /\ NoNewline(call.op, call.from, received')
    BY <1>4, <1>7, <1>10
  <2>2. GoodText(call.op, call.from, received', text)
    BY <1>3, <1>5, <2>1 DEF GoodText
  <2>3. StreamInv'
    BY <1>6, <1>10, <2>2, AnswerText
  <2>4. Stream!Why(err, call.op, call.from, received')
    BY <1>10, <2>1 DEF Stream!Why, NoNewline
  <2>5. Stream!Next
    BY <1>4, <1>5, <1>10, <2>4, AnswerMaps
  <2> QED
    BY <2>3, <2>5
<1>11. CASE /\ err = "closed" /\ n = 0 /\ Answer("done", text)
            /\ call.op = "all" /\ received > call.base
  <2>1. received' = received
    BY <1>4, <1>11
  <2>2. received' > call.base /\ call # Idle
    BY <1>3, <1>11, <2>1 DEF Idle
  <2>3. Stream!Whole(call.op, call.goal, call.from, received')
    BY <1>11, <2>1, <2>2 DEF Stream!Whole
  <2>4. StreamInv'
    BY <1>6, <1>11, AnswerText
  <2>5. fin' = fin
    BY <1>11
  <2>6. Stream!Next
    BY <1>4, <1>5, <1>11, <2>3, <2>5, AnswerMaps
  <2> QED
    BY <2>4, <2>6
<1> QED
  BY <1>2, <1>8, <1>9, <1>10, <1>11

(* The four steps that end with a turn.                                    *)
LEMMA TurnsMap ==
  ASSUME ReadInv, ReadInv', StreamInv,
         TurnFromBuffer \/ TurnFromKernel \/ TurnOnError \/ TurnOnTimeout
  PROVE  StreamInv' /\ [Stream!Next]_(Stream!vars)
<1> USE Sizes
<1>0. /\ taken \in Nat /\ written \in Nat /\ received \in Nat /\ first \in Nat /\ last \in Nat
      /\ data \in [0 .. BufSize - 1 -> Nat]
      /\ received + (last - first) = taken /\ taken <= written
      /\ first <= last /\ last <= BufSize
      /\ Holds(data, first, last, received)
  BY DEF ReadInv, Types, BufferSound, Holds
<1>e. IsEmpty => first = last /\ received = taken
  BY <1>0 DEF IsEmpty
<1>t. Types
  BY DEF ReadInv
<1>r. Receiving /\ UNCHANGED <<written, own>>
  BY <1>t, RunTurns, TurnCall
<1>1. CASE TurnFromBuffer
  <2>1. Turn("done", data, first, last) /\ fin' = fin
    BY <1>1 DEF TurnFromBuffer
  <2>2. received + (last - first) <= written
    BY <1>0
  <2>3. TurnGives("done")
    BY <1>0, <1>t, <2>1, <2>2, TurnGivesText
  <2> QED
    BY <1>r, <2>1, <2>3, TurnMaps
<1>2. CASE TurnFromKernel
  <2>1. PICK n \in 1 .. MinOf(BufSize, Available) :
          /\ data' = [i \in DOMAIN data |-> IF i < n THEN taken + i + 1 ELSE data[i]]
          /\ taken' = taken + n
          /\ Turn("done", data', 0, n)
    BY <1>2 DEF TurnFromKernel
  <2>2. n \in Nat /\ n <= BufSize /\ n <= written - taken
    BY <1>0 DEF MinOf, Available
  <2>3. data' \in [0 .. BufSize - 1 -> Nat]
    BY DEF ReadInv, Types
  <2>4. received = taken /\ fin' = fin
    BY <1>2, <1>e DEF TurnFromKernel
  <2>5. Holds(data', 0, n, received)
    <3>1. \A i \in 0 .. BufSize - 1 : data'[i] = IF i < n THEN taken + i + 1 ELSE data[i]
      BY <1>0, <2>1
    <3>2. \A i \in 0 .. n - 1 : data'[i] = received + 1 + (i - 0)
      BY <1>0, <2>2, <2>4, <3>1
    <3> QED
      BY <3>2 DEF Holds
  <2>6. received + (n - 0) <= written /\ 0 <= n
    BY <1>0, <2>2, <2>4
  <2>7. TurnGives("done")
    BY <1>t, <2>1, <2>2, <2>3, <2>5, <2>6, TurnGivesText
  <2> QED
    BY <1>r, <2>4, <2>7, TurnMaps
<1>3. CASE TurnOnError
  <2>1. Turn(RecvError, data, 0, 0) /\ received = taken /\ RecvFails /\ Reported
    BY <1>3, <1>e DEF TurnOnError
  <2>2. Holds(data, 0, 0, received) /\ received + (0 - 0) <= written /\ 0 <= BufSize
    BY <1>0, <2>1 DEF Holds
  <2>3. TurnGives(RecvError)
    BY <1>0, <1>t, <2>1, <2>2, TurnGivesText
  <2>4. fin' = IF RecvError = "reset" THEN "broken" ELSE fin
    BY <2>1 DEF Reported, RecvError
  <2>5. own = "closed" \/ (received = written /\ fin # "open")
    BY <1>0, <2>1 DEF RecvFails, Available
  <2>6. fin \in {"open", "closed", "reset", "broken"} /\ own \in {"open", "closed"}
    BY DEF StreamInv, ConnOK
  <2>7. /\ RecvError \in {"done", "timeout", "closed", "reset"}
        /\ RecvError = "closed" =>
             own = "closed" \/ (fin \in {"closed", "broken"} /\ received = written)
        /\ RecvError = "reset" => fin = "reset" /\ received = written
    BY <2>5, <2>6 DEF RecvError
  <2> QED
    BY <1>r, <2>3, <2>4, <2>7, TurnMaps
<1>4. CASE TurnOnTimeout
  <2>1. Turn("timeout", data, 0, 0) /\ fin' = fin /\ IsEmpty
    BY <1>4 DEF TurnOnTimeout, ReadInv, WaitsEmpty
  <2>2. Holds(data, 0, 0, received) /\ received + (0 - 0) <= written /\ 0 <= BufSize
    BY <1>0, <1>e, <2>1 DEF Holds
  <2>3. TurnGives("timeout")
    BY <1>0, <1>t, <2>1, <2>2, TurnGivesText
  <2> QED
    BY <1>r, <2>1, <2>3, TurnMaps
<1> QED
  BY <1>1, <1>2, <1>3, <1>4

LEMMA ReceiveBegins ==
  ASSUME ReadInv, StreamInv, NEW pattern \in {"raw", "line", "all"}, NEW n \in Counts \cup {0},
         NEW again \in BOOLEAN, Receive(pattern, n, again)
  PROVE  StreamInv' /\ Pos' = Pos
<1> DEFINE part == IF again THEN ret.text ELSE <<>>
           wanted == IF pattern = "raw" THEN (n - Len(part)) % Word ELSE 0
           from == IF again THEN ret.from ELSE received
<1>1. /\ call' = [op |-> pattern, lim |-> tm, wanted |-> wanted, total |-> 0, acc |-> part,
                  start |-> 0, goal |-> n, from |-> from, base |-> received]
      /\ call = Idle
  BY DEF Receive, Idle
<1>2. UNCHANGED <<written, fin, own, received, ret>> /\ (again => GoesOn(pattern))
  BY DEF Receive, conn, buf
<1>3. Pos = received /\ received \in Nat /\ ret.from \in Nat
      /\ received <= Len(Kind) /\ Len(Kind) \in Nat
  <2>1. Pos = received
    BY <1>1 DEF Pos
  <2>2. /\ received \in Nat /\ ret.from \in Nat /\ written \in Nat /\ taken \in Nat
        /\ first \in Nat /\ last \in Nat /\ Len(Kind) \in Nat
    BY SizesAssumption DEF ReadInv, Types, RetOK
  <2>3. received + (last - first) = taken /\ first <= last /\ taken <= written
        /\ written <= Len(Kind)
    BY DEF ReadInv, BufferSound, StreamInv
  <2> QED
    BY <2>1, <2>2, <2>3
<1>4. GoodText(pattern, from, received, part)
  <2>1. CASE again
    <3>1. /\ Broken(ret) /\ (pattern = "line" <=> ret.pattern = "line")
          /\ part = ret.text /\ from = ret.from
      BY <1>2, <2>1 DEF GoesOn
    <3>2. GoodText(ret.pattern, ret.from, received, ret.text)
      BY <1>3, <3>1 DEF StreamInv
    <3> HIDE DEF part, from
    <3> QED
      BY <3>1, <3>2 DEF GoodText, NoNewline, Stream!Text
  <2>2. CASE ~again
    <3>1. part = <<>> /\ from = received
      BY <2>2
    <3> HIDE DEF part, from
    <3>2. Stream!Text(pattern, received, received) = <<>>
      <4>1. CASE pattern = "line"
        <5>1. received \in 0 .. Len(Kind)
          BY <1>3
        <5>2. Stream!LineFrom(received)[received] = <<>>
          BY <5>1, LineIs
        <5> QED
          BY <4>1, <5>2 DEF Stream!Text
      <4>2. CASE pattern # "line"
        <5>1. [i \in 1 .. received - received |-> received + i] = <<>>
          BY <1>3
        <5> QED
          BY <4>2, <5>1 DEF Stream!Text
      <4> QED
        BY <4>1, <4>2
    <3>3. received <= received /\ received + 1 .. received = {}
      BY <1>3
    <3> QED
      BY <3>1, <3>2, <3>3 DEF GoodText, NoNewline
  <2> QED
    BY <2>1, <2>2
<1>5. pattern = "raw" => wanted = (n - (received - from)) % Word
  <2> SUFFICES ASSUME pattern = "raw" PROVE Len(part) = received - from
    OBVIOUS
  <2>1. from <= received /\ part = Between(from, received)
    BY <1>4 DEF GoodText, Stream!Text, Between
  <2>2. from \in Nat /\ received \in Nat
    BY <1>3
  <2> HIDE DEF from, part
  <2>3. Len(Between(from, received)) = received - from
    BY <2>1, <2>2 DEF Between
  <2> QED
    BY <2>1, <2>3
<1>6. from = received \/ (GoesOn(pattern) /\ from = ret.from)
  BY <1>2
<1> HIDE DEF part, wanted, from
<1>7. /\ call'.op = pattern /\ call'.from = from /\ call'.base = received /\ call'.goal = n
      /\ call'.wanted = wanted /\ call'.acc = part /\ call'.total = 0
  BY <1>1
<1>8. Receiving' /\ call' # Idle
  BY <1>7 DEF Receiving, Idle
<1>9. Pos' = received
  BY <1>7, <1>8 DEF Pos
<1>10. CallText'
  <2>1. GoodText(call.op, call.from, received, call.acc)'
    BY <1>2, <1>4, <1>7 DEF GoodText
  <2>2. received' = received /\ call'.base = received' /\ received - received = 0
        /\ received <= received
    BY <1>2, <1>3, <1>7
  <2>3. (call.from = call.base \/ (GoesOn(call.op) /\ call.from = ret.from))'
    BY <1>2, <1>6, <1>7 DEF GoesOn
  <2>4. (call.op = "raw" => call.wanted = (call.goal - (call.base - call.from)) % Word)'
    BY <1>5, <1>7
  <2> QED
    BY <1>7, <2>1, <2>2, <2>3, <2>4 DEF CallText
<1>11. (Broken(ret) => GoodText(ret.pattern, ret.from, Pos, ret.text))'
  BY <1>2, <1>3, <1>9 DEF StreamInv
<1> QED
  BY <1>2, <1>3, <1>8, <1>9, <1>10, <1>11 DEF StreamInv, ConnOK

LEMMA ProgramMaps ==
  ASSUME ReadInv, StreamInv, Program
  PROVE  StreamInv' /\ [Stream!Next]_(Stream!vars)
<1>0. /\ written <= Len(Kind) /\ ConnOK /\ (written' = written => written' <= Len(Kind))
      /\ (UNCHANGED <<fin, own>> => ConnOK')
  BY DEF StreamInv, ConnOK
<1>1. CASE SetTimeout
  <2>1. UNCHANGED <<written, fin, own, ret, received, call>>
    BY <1>1 DEF SetTimeout, conn, buf
  <2> QED
    BY <1>0, <2>1, QuietText, QuietMaps
<1>2. CASE SendRest
  <2>1. PICK i, j : Send(i, j)
    BY <1>2, Zenon DEF SendRest
  <2>2. UNCHANGED <<written, fin, own, ret, received>> /\ call = Idle
    BY <2>1 DEF Send, conn, buf
  <2>3. call' = Idle \/ (call'.op = "send" /\ call'.base = received)
    BY <2>1 DEF Send, Idle
  <2>4. ~Receiving /\ ~Receiving'
    BY <2>2, <2>3 DEF Receiving, Idle
  <2> QED
    BY <1>0, <2>2, <2>3, <2>4, OtherText, QuietMaps
<1>3. CASE Close
  <2>1. /\ UNCHANGED <<written, fin, ret, received, call>> /\ call = Idle
        /\ own = "open" /\ own' = "closed"
    BY <1>3 DEF Close, buf
  <2>2. ConnOK' /\ written' <= Len(Kind)
    BY <1>0, <2>1 DEF ConnOK
  <2>3. StreamInv' /\ Pos' = Pos
    BY <2>1, <2>2, QuietText
  <2>4. Stream!Close
    BY <2>1 DEF Stream!Close
  <2> QED
    BY <2>3, <2>4 DEF Stream!Next
<1>4. ASSUME NEW t \in Waits, Select(t) PROVE StreamInv' /\ [Stream!Next]_(Stream!vars)
  <2>1. UNCHANGED <<written, fin, own, ret, received>> /\ call = Idle
        /\ call'.op = "select" /\ call'.base = received
    BY <1>4 DEF Select, conn, buf, Idle
  <2>2. ~Receiving /\ ~Receiving'
    BY <2>1 DEF Receiving, Idle
  <2> QED
    BY <1>0, <2>1, <2>2, OtherText, QuietMaps
<1>5. ASSUME NEW again \in BOOLEAN, NEW pattern \in {"raw", "line", "all"},
             NEW n \in Counts \cup {0}, Receive(pattern, n, again)
      PROVE  StreamInv' /\ [Stream!Next]_(Stream!vars)
  <2>1. StreamInv' /\ Pos' = Pos
    BY <1>5, ReceiveBegins
  <2>2. UNCHANGED <<written, fin, own, ret>>
    BY <1>5 DEF Receive, conn
  <2> QED
    BY <2>1, <2>2, QuietMaps
<1> QED
  BY <1>1, <1>2, <1>3, <1>4, <1>5 DEF Program

LEMMA RunMaps ==
  ASSUME ReadInv, ReadInv', StreamInv, Run
  PROVE  StreamInv' /\ [Stream!Next]_(Stream!vars)
<1>0. /\ written <= Len(Kind) /\ ConnOK /\ (written' = written => written' <= Len(Kind))
      /\ (UNCHANGED <<fin, own>> => ConnOK')
  BY DEF StreamInv, ConnOK
<1>1. CASE TurnFromBuffer \/ TurnFromKernel \/ TurnOnError \/ TurnOnTimeout
  BY <1>1, TurnsMap
<1>2. CASE RecvWait \/ SendWait \/ WaitDone
  <2>1. UNCHANGED <<written, fin, own, ret, received, call>>
    BY <1>2 DEF RecvWait, SendWait, WaitDone, conn, buf
  <2> QED
    BY <1>0, <2>1, QuietText, QuietMaps
<1>3. CASE SendSome
  <2>1. UNCHANGED <<written, fin, own, ret, received>> /\ Sending /\ call # Idle
    BY <1>3 DEF SendSome, conn, buf, Sending, Idle
  <2>2. call' = Idle \/ (\E n : call' = [call EXCEPT !.total = call.total + n])
    BY <1>3, Zenon DEF SendSome, SendAnswer
  <2>3. ~Receiving /\ call.base = received
    BY <2>1 DEF Sending, Receiving, StreamInv
  <2>4. call' = Idle \/ (call'.op = "send" /\ call'.base = received)
    BY <2>1, <2>2, <2>3 DEF Sending, ReadInv, Types, CallOK
  <2>5. ~Receiving'
    BY <2>4 DEF Receiving, Idle
  <2> QED
    BY <1>0, <2>1, <2>3, <2>4, <2>5, OtherText, QuietMaps
<1>4. CASE SendFails
  <2>1. UNCHANGED <<written, own, ret, received>> /\ call' = Idle /\ Sending
        /\ (fin' = fin \/ (own = "open" /\ fin = "reset" /\ fin' = "broken"))
    BY <1>4 DEF SendFails, SendAnswer, buf, Reported
  <2>2. ~Receiving /\ ~Receiving' /\ ConnOK'
    BY <1>0, <2>1 DEF Sending, Receiving, Idle, ConnOK
  <2>3. StreamInv' /\ Pos' = Pos
    BY <1>0, <2>1, <2>2, OtherText
  <2>4. CASE fin' = fin
    BY <2>1, <2>3, <2>4, QuietMaps
  <2>5. CASE fin = "reset" /\ fin' = "broken"
    <3>1. Stream!Report
      BY <2>1, <2>3, <2>5 DEF Stream!Report, Pos
    <3> QED
      BY <2>3, <3>1 DEF Stream!Next
  <2> QED
    BY <2>1, <2>4, <2>5
<1>5. CASE SelectAnswers
  <2>1. UNCHANGED <<written, fin, own, ret, received>> /\ Selecting /\ call' = Idle
    BY <1>5 DEF SelectAnswers, conn, buf
  <2>2. ~Receiving /\ ~Receiving'
    BY <2>1 DEF Selecting, Receiving, Idle
  <2> QED
    BY <1>0, <2>1, <2>2, OtherText, QuietMaps
<1> QED
  BY <1>1, <1>2, <1>3, <1>4, <1>5 DEF Run

LEMMA OthersMap ==
  ASSUME ReadInv, StreamInv, Interrupted \/ Write \/ Finish \/ Drain \/ Tick
  PROVE  StreamInv' /\ [Stream!Next]_(Stream!vars)
<1>0. /\ written <= Len(Kind) /\ ConnOK /\ (written' = written => written' <= Len(Kind))
      /\ (UNCHANGED <<fin, own>> => ConnOK')
      /\ written \in Nat /\ Len(Kind) \in Nat
  BY SizesAssumption DEF StreamInv, ConnOK, ReadInv, Types
<1>1. CASE Interrupted \/ Drain \/ Tick
  <2>1. UNCHANGED <<written, fin, own, ret, received, call>>
    BY <1>1 DEF Interrupted, Drain, Tick, conn, buf
  <2> QED
    BY <1>0, <2>1, QuietText, QuietMaps
<1>2. CASE Write
  <2>1. PICK n \in written + 1 .. Len(Kind) : written' = n
    BY <1>2 DEF Write
  <2>2. /\ UNCHANGED <<fin, own, ret, received, call>> /\ fin = "open"
        /\ written < Len(Kind) /\ written' <= Len(Kind)
    BY <1>0, <1>2, <2>1 DEF Write, buf
  <2>3. StreamInv' /\ Pos' = Pos
    BY <1>0, <2>2, QuietText
  <2>4. Stream!Write
    BY <2>1, <2>2, <2>3 DEF Stream!Write, Pos
  <2> QED
    BY <2>3, <2>4 DEF Stream!Next
<1>3. CASE Finish
  <2>1. /\ UNCHANGED <<written, own, ret, received, call>> /\ fin = "open"
        /\ fin' \in {"closed", "reset"}
    BY <1>3 DEF Finish, buf
  <2>2. ConnOK'
    BY <1>0, <2>1 DEF ConnOK
  <2>3. StreamInv' /\ Pos' = Pos
    BY <1>0, <2>1, <2>2, QuietText
  <2>4. Stream!Finish
    BY <2>1, <2>3 DEF Stream!Finish, Pos
  <2> QED
    BY <2>3, <2>4 DEF Stream!Next
<1> QED
  BY <1>1, <1>2, <1>3

LEMMA StreamStep ==
  ReadInv /\ ReadInv' /\ StreamInv /\ [Next]_vars => StreamInv' /\ [Stream!Next]_(Stream!vars)
<1>1. ASSUME ReadInv, StreamInv, UNCHANGED vars
      PROVE  StreamInv' /\ [Stream!Next]_(Stream!vars)
  <2>1. UNCHANGED <<written, fin, own, ret, received, call>>
    BY <1>1 DEF vars, conn, buf
  <2>2. ConnOK' /\ written' <= Len(Kind)
    BY <1>1, <2>1 DEF StreamInv, ConnOK
  <2> QED
    BY <1>1, <2>1, <2>2, QuietText, QuietMaps
<1> QED
  BY <1>1, ProgramMaps, RunMaps, OthersMap DEF Next

LEMMA StreamInit == Init => StreamInv /\ Stream!Init
<1> SUFFICES ASSUME Init PROVE StreamInv /\ Stream!Init
  OBVIOUS
<1>1. Len(Kind) \in Nat
  BY SizesAssumption
<1>2. StreamInv
  BY <1>1 DEF Init, StreamInv, ConnOK, Broken, Receiving, Idle
<1>3. Stream!Init
  BY DEF Init, Stream!Init
<1> QED
  BY <1>2, <1>3

(* For every stream of the peer, every size of the buffers, all limits and *)
(* all numbers asked for, each answer of receive is what its pattern       *)
(* selects from the stream: a whole line, a block of that number of bytes, *)
(* all there was, or what had come when the call was cut short, after the  *)
(* text it went on with (buffer_meth_receive, recvline, recvraw, recvall). *)
THEOREM AlwaysAnswersTheStream == Spec => AnswersTheStream
<1>1. Spec => []ReadInv
  BY ReadInit, ReadStep, PTL DEF Spec
<1>2. ReadInv /\ ReadInv' /\ StreamInv /\ [Next]_vars => StreamInv' /\ [Stream!Next]_(Stream!vars)
  BY StreamStep
<1>3. Init => StreamInv /\ Stream!Init
  BY StreamInit
<1> QED
  BY <1>1, <1>2, <1>3, PTL DEF Spec, AnswersTheStream, Stream!Spec
=============================================================================
