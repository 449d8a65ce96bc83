----------------------------- MODULE SprotoPack -----------------------------
(* Zero-packing of sproto: sproto_pack in the buffer that lpack gives it,  *)
(* and sproto_unpack of its result in the buffers of lunpack.  The source  *)
(* is taken in groups of eight bytes; a group is stored as a header with a *)
(* bit for each byte that is not 0, and those bytes, or, if it has (nearly) *)
(* no 0, as part of a run of literal groups, whose head is written when    *)
(* the run is over, over what was stored in the meantime.                  *)
EXTENDS Integers, Sequences, FiniteSets

CONSTANTS
  Sources,   \* the strings that are packed
  Junk,      \* what may be behind a source and in a fresh buffer
  MaxRun,    \* 256: groups in a run of literals
  OutSizes   \* sizes of the buffer that unpack starts with

Byte == 0 .. 255

ASSUME PackAssumption ==
  /\ \A s \in Sources : s \in Seq(Byte)
  /\ Junk \subseteq Byte /\ MaxRun \in 2 .. 256 /\ OutSizes \subseteq Nat \ {0}

VARIABLES
  src,     \* the source
  junk,    \* what is behind it, and in the buffers
  phase,   \* "pack", "packed", "error" for a packing error, "done", "invalid"
  buf,     \* the buffer of pack
  i,       \* how much of the source is packed
  size,    \* how much of the buffer is used, or would be
  run,     \* the run of literals: its groups, where it begins in src and in buf
  out,     \* the buffer of unpack
  room,    \* its size
  pos,     \* how much of the packed string is read
  osize    \* how much of out is used, or would be

source == <<src, junk>>
packing == <<buf, i, size, run>>
unpacking == <<out, room, pos, osize>>
vars == <<source, phase, packing, unpacking>>

NoRun == [n |-> 0, from |-> 0, at |-> 0]

Fresh(n) == [p \in 0 .. n - 1 |-> junk]

(* The bytes f stored over g.                                              *)
Over(f, g) == [p \in DOMAIN f \cup DOMAIN g |-> IF p \in DOMAIN f THEN f[p] ELSE g[p]]

Aligned(n) == ((n + 7) \div 8) * 8

(* lpack: two bytes for every run that the source may fill.                *)
MaxSize == ((Len(src) + 8 * MaxRun - 1) \div (8 * MaxRun)) * 2 + Len(src)

AtSource(p) == IF p < Len(src) THEN src[p + 1] ELSE junk
-----------------------------------------------------------------------------
(* pack_seg *)

Group == [b \in 0 .. 7 |-> IF i + b < Len(src) THEN src[i + b + 1] ELSE 0]

NonZero == {b \in 0 .. 7 : Group[b] # 0}

Weight == <<1, 2, 4, 8, 16, 32, 64, 128>>

Flag(b) == IF b \in NonZero THEN Weight[b + 1] ELSE 0

Header == Flag(0) + Flag(1) + Flag(2) + Flag(3) + Flag(4) + Flag(5) + Flag(6) + Flag(7)

Literal == Cardinality(NonZero) = 8 \/ (run.n > 0 /\ Cardinality(NonZero) >= 6)

SegSize == IF ~Literal THEN Cardinality(NonZero) + 1 ELSE IF run.n > 0 THEN 8 ELSE 10

(* How many bytes that are not 0 come before a byte of the group.          *)
Rank(b) == Cardinality({c \in NonZero : c < b})

(* The bytes are stored as far as there is room, whatever comes of them.   *)
SegStored ==
  [p \in {q \in size .. size + Cardinality(NonZero) : q < MaxSize /\ ~(Literal /\ q = size)} |->
     IF p = size THEN Header ELSE Group[CHOOSE b \in NonZero : Rank(b) = p - size - 1]]

(* write_ff for n bytes                                                    *)
(* Mutant: the padding of the last group is not counted.                   *)
RunStoredShort(r, n) ==
  [p \in r.at .. r.at + 1 + Aligned(n) |->
     IF p = r.at THEN 255 ELSE IF p = r.at + 1 THEN n \div 8 - 1
     ELSE IF p - r.at - 2 < n THEN AtSource(r.from + p - r.at - 2) ELSE 0]

RunStored(r, n) ==
  [p \in r.at .. r.at + 1 + Aligned(n) |->
     IF p = r.at THEN 255 ELSE IF p = r.at + 1 THEN Aligned(n) \div 8 - 1
     ELSE IF p - r.at - 2 < n THEN AtSource(r.from + p - r.at - 2) ELSE 0]

(* Mutant: a run is written whether or not it fits.                        *)
FlushAnyway(r, n, used) == IF n = 0 THEN Fresh(0) ELSE RunStored(r, n)

Flush(r, n, used) == IF n > 0 /\ used <= MaxSize THEN RunStored(r, n) ELSE Fresh(0)

PackGroup ==
  /\ phase = "pack" /\ i < Len(src)
  /\ i' = i + 8 /\ size' = size + SegSize
  /\ LET grown == run.n + 1
         ended == ~Literal \/ (run.n > 0 /\ grown = MaxRun)
     IN  /\ run' = IF ended THEN NoRun
                   ELSE IF run.n = 0 THEN [n |-> 1, from |-> i, at |-> size]
                   ELSE [run EXCEPT !.n = grown]
         /\ buf' = Over(Flush(run, IF ~ended THEN 0 ELSE 8 * (IF Literal THEN grown ELSE run.n), size'),
                        Over(SegStored, buf))
  /\ UNCHANGED <<source, phase, unpacking>>

(* The last run, and lpack's check of the size.                            *)
PackEnd ==
  /\ phase = "pack" /\ i >= Len(src)
  /\ buf' = Over(Flush(run, IF run.n <= 1 THEN 8 * run.n ELSE Len(src) - run.from, size), buf)
  /\ phase' = IF size > MaxSize THEN "error" ELSE "packed"
  /\ UNCHANGED <<source, i, size, run, unpacking>>
-----------------------------------------------------------------------------
(* sproto_unpack of the packed string, which Lua ends with a 0.            *)

AtPacked(p) == IF p < size THEN buf[p] ELSE 0

Bit(h, b) == (h \div Weight[b + 1]) % 2

(* How many bits below b are set.                                          *)
Ones(h, b) == Cardinality({c \in 0 .. b - 1 : Bit(h, c) = 1})

(* Where the byte for bit b of the header is.                              *)
Place(h, b) == pos + 1 + Ones(h, b)

UnpackRun ==
  /\ phase = "packed" /\ pos < size /\ AtPacked(pos) = 255
  /\ LET n == (AtPacked(pos + 1) + 1) * 8
     IN  IF size - (pos + 1) < n + 1
         THEN phase' = "invalid" /\ UNCHANGED unpacking
         ELSE /\ out' = Over(IF osize + n > room THEN Fresh(0)
                             ELSE [p \in osize .. osize + n - 1 |-> AtPacked(pos + 2 + p - osize)], out)
              /\ pos' = pos + 2 + n /\ osize' = osize + n
              /\ UNCHANGED <<phase, room>>
  /\ UNCHANGED <<source, packing>>

(* The input is checked behind the byte that is read: the first byte too   *)
(* many is taken for a part of it.                                         *)
UnpackGroup ==
  /\ phase = "packed" /\ pos < size /\ AtPacked(pos) # 255
  /\ LET h == AtPacked(pos)
     IN  IF \E b \in 0 .. 7 : Bit(h, b) = 1 /\ Place(h, b) > size
         THEN phase' = "invalid" /\ UNCHANGED unpacking
         ELSE /\ out' = Over([p \in {q \in osize .. osize + 7 : q < room} |->
                                LET b == p - osize
                                IN  IF Bit(h, b) = 1 THEN AtPacked(Place(h, b)) ELSE 0], out)
              /\ pos' = Place(h, 8) /\ osize' = osize + 8
              /\ UNCHANGED <<phase, room>>
  /\ UNCHANGED <<source, packing>>

(* Mutant: the second call goes on where the first came to its end.        *)
UnpackEndOnward ==
  /\ phase = "packed" /\ pos >= size
  /\ IF osize > room
     THEN /\ room' = osize /\ out' = Fresh(osize) /\ osize' = 0
          /\ UNCHANGED <<phase, pos>>
     ELSE phase' = "done" /\ UNCHANGED unpacking
  /\ UNCHANGED <<source, packing>>

(* lunpack asks again, in a buffer as large as the answer, if the first    *)
(* was too small.  Answers beyond ENCODE_MAXSIZE, for which expand_buffer  *)
(* raises "object is too large", are left out.                             *)
UnpackEnd ==
  /\ phase = "packed" /\ pos >= size
  /\ IF osize > room
     THEN /\ room' = osize /\ out' = Fresh(osize) /\ pos' = 0 /\ osize' = 0
          /\ UNCHANGED phase
     ELSE phase' = "done" /\ UNCHANGED unpacking
  /\ UNCHANGED <<source, packing>>
-----------------------------------------------------------------------------
Init ==
  /\ src \in Sources /\ junk \in Junk /\ room \in OutSizes
  /\ phase = "pack" /\ i = 0 /\ size = 0 /\ run = NoRun /\ buf = Fresh(MaxSize)
  /\ out = Fresh(room) /\ pos = 0 /\ osize = 0

Next == PackGroup \/ PackEnd \/ UnpackRun \/ UnpackGroup \/ UnpackEnd

Spec == Init /\ [][Next]_vars
-----------------------------------------------------------------------------
(* Neither pack nor unpack stores a byte outside its buffer, also when the *)
(* result does not fit and heads of runs are written late (bufsz).         *)
InBuffer == DOMAIN buf = 0 .. MaxSize - 1 /\ DOMAIN out = 0 .. room - 1

(* What pack answers is a stream that unpack reads to its end and not      *)
(* beyond (sproto_pack, sproto_unpack).                                    *)
StreamSound == phase # "invalid" /\ pos <= size

(* Unpacking what was packed gives the source, filled up to whole groups,  *)
(* also when the first buffer is too small and when a run is ended by its  *)
(* length, by another group or by the end of the source.                   *)
RoundTrip ==
  phase = "done" =>
    /\ osize = Aligned(Len(src))
    /\ \A p \in 1 .. Len(src) : out[p - 1] = src[p]

(* The size that lpack allows is enough (the comment in lpack).            *)
PackFits == phase # "error"
=============================================================================
