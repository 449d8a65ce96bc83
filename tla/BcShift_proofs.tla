-------------------------- MODULE BcShift_proofs --------------------------
(***************************************************************************)
(* The shift map, proved for every set of holes, and the invariants of the *)
(* rewrite, proved for every set of prototypes and every register limit.   *)
(***************************************************************************)
EXTENDS BcShift, FiniteSetTheorems, SequenceTheorems, TLAPS

(* The holes below a register are a finite set, so counting them gives a   *)
(* natural number.                                                         *)
LEMMA PrefixType ==
  ASSUME NEW H \in SUBSET Regs, NEW r \in Int
  PROVE  /\ IsFiniteSet({h \in H : h < r})
         /\ Prefix(H, r) \in Nat
         /\ MapReg(H, r) \in Int
<1>1. IsFiniteSet(Regs)
  BY FS_Interval, MaxRegAssumption DEF Regs
<1>2. {h \in H : h < r} \in SUBSET Regs
  OBVIOUS
<1>3. IsFiniteSet({h \in H : h < r})
  BY <1>1, <1>2, FS_Subset
<1>4. Prefix(H, r) \in Nat
  BY <1>3, FS_CardinalityType DEF Prefix
<1> QED
  BY <1>3, <1>4 DEF MapReg

(* The number of holes below a register grows with the register.           *)
LEMMA PrefixMono ==
  ASSUME NEW H \in SUBSET Regs, NEW r \in Int, NEW s \in Int, r <= s
  PROVE  Prefix(H, r) <= Prefix(H, s)
<1>1. IsFiniteSet({h \in H : h < s})
  BY PrefixType
<1>2. {h \in H : h < r} \in SUBSET {h \in H : h < s}
  <2>1. \A h \in H : h \in Int
    BY MaxRegAssumption DEF Regs
  <2>2. \A h \in H : h < r => h < s
    BY <2>1
  <2> QED
    BY <2>2
<1> QED
  BY <1>1, <1>2, FS_Subset DEF Prefix

(* Where there is no hole between two registers, the count does not change.*)
LEMMA PrefixFlat ==
  ASSUME NEW H \in SUBSET Regs, NEW r \in Int, NEW s \in Int, r <= s, ~RangeHole(H, r, s)
  PROVE  Prefix(H, r) = Prefix(H, s)
<1>1. {h \in H : h < r} = {h \in H : h < s}
  <2>1. \A h \in H : h \in Int
    BY MaxRegAssumption DEF Regs
  <2>2. \A h \in H : h < r <=> h < s
    BY <2>1 DEF RangeHole
  <2> QED
    BY <2>2
<1> QED
  BY <1>1 DEF Prefix

(* Stepping over a hole adds one to the count.                             *)
LEMMA PrefixHole ==
  ASSUME NEW H \in SUBSET Regs, NEW h \in H
  PROVE  Prefix(H, h + 1) = Prefix(H, h) + 1
<1> h \in Int
  BY MaxRegAssumption DEF Regs
<1> h + 1 \in Int
  OBVIOUS
<1>1. IsFiniteSet({x \in H : x < h})
  BY PrefixType
<1>2. {x \in H : x < h + 1} = {x \in H : x < h} \cup {h}
  <2>1. \A x \in H : x \in Int
    BY MaxRegAssumption DEF Regs
  <2>2. \A x \in H : x < h + 1 <=> x < h \/ x = h
    BY <2>1
  <2> QED
    BY <2>2
<1>3. h \notin {x \in H : x < h}
  OBVIOUS
<1> QED
  BY <1>1, <1>2, <1>3, FS_AddElement DEF Prefix

(* tolua_map_reg keeps registers apart and in order.                       *)
LEMMA MapStrict ==
  ASSUME NEW H \in SUBSET Regs, NEW r \in Int, NEW s \in Int, r < s
  PROVE  MapReg(H, r) < MapReg(H, s)
<1>1. /\ Prefix(H, r) \in Nat
      /\ Prefix(H, s) \in Nat
  BY PrefixType
<1>2. Prefix(H, r) <= Prefix(H, s)
  BY PrefixMono
<1> QED
  BY <1>1, <1>2 DEF MapReg

(* A range of registers with no hole inside stays a range.                 *)
LEMMA MapContiguous ==
  ASSUME NEW H \in SUBSET Regs, NEW r \in Int, NEW s \in Int, r <= s, ~RangeHole(H, r, s)
  PROVE  MapReg(H, s) = MapReg(H, r) + (s - r)
<1>1. /\ Prefix(H, r) \in Nat
      /\ Prefix(H, s) \in Nat
  BY PrefixType
<1>2. Prefix(H, r) = Prefix(H, s)
  BY PrefixFlat
<1> QED
  BY <1>1, <1>2 DEF MapReg

(* The register above a hole is shifted one further than the hole.         *)
LEMMA MapAboveHole ==
  ASSUME NEW H \in SUBSET Regs, NEW h \in H
  PROVE  MapReg(H, h + 1) = MapReg(H, h) + 2
<1> h \in Int
  BY MaxRegAssumption DEF Regs
<1> h + 1 \in Int
  OBVIOUS
<1> /\ Prefix(H, h) \in Nat
    /\ Prefix(H, h + 1) \in Nat
  BY PrefixType
<1> QED
  BY PrefixHole DEF MapReg

(* No register is shifted onto the slot above a call base: the second slot *)
(* of the FR2 frame header is free.                                        *)
LEMMA HoleIsNobodysImage ==
  ASSUME NEW H \in SUBSET Regs, NEW h \in H, NEW r \in Int
  PROVE  MapReg(H, r) # MapReg(H, h) + 1
<1> h \in Int
  BY MaxRegAssumption DEF Regs
<1> h + 1 \in Int
  OBVIOUS
<1> /\ MapReg(H, r) \in Int
    /\ MapReg(H, h) \in Int
    /\ MapReg(H, h + 1) \in Int
  BY PrefixType
<1>1. CASE r < h
  BY <1>1, MapStrict
<1>2. CASE r = h
  BY <1>2
<1>3. CASE r = h + 1
  BY <1>3, MapAboveHole
<1>4. CASE r > h + 1
  <2>1. MapReg(H, h + 1) < MapReg(H, r)
    BY <1>4, MapStrict
  <2> QED
    BY <2>1, MapAboveHole
<1> QED
  BY <1>1, <1>2, <1>3, <1>4

(* A run of consecutive slots with no hole before its last is shifted as a *)
(* whole.                                                                  *)
LEMMA SpanFollows ==
  ASSUME NEW H \in SUBSET Regs, NEW a \in Int, NEW n \in Int,
         ~RangeHole(H, a, a + n - 1)
  PROVE  MappedSeq(H, Span(a, n)) = Span(MapReg(H, a), n)
<1>1. CASE n < 1
  BY <1>1 DEF Span, MappedSeq
<1>2. CASE n >= 1
  <2>1. Span(a, n) = [k \in 1 .. n |-> a + k - 1]
    BY <1>2 DEF Span
  <2>2. Len(Span(a, n)) = n
    BY <1>2, <2>1
  <2>3. \A k \in 1 .. n : MapReg(H, a + k - 1) = MapReg(H, a) + k - 1
    <3> SUFFICES ASSUME NEW k \in 1 .. n
                 PROVE  MapReg(H, a + k - 1) = MapReg(H, a) + k - 1
      OBVIOUS
    <3>1. ~RangeHole(H, a, a + k - 1)
      BY MaxRegAssumption DEF RangeHole, Regs
    <3>2. /\ a + k - 1 \in Int
          /\ a <= a + k - 1
      OBVIOUS
    <3>3. MapReg(H, a + k - 1) = MapReg(H, a) + ((a + k - 1) - a)
      BY <3>1, <3>2, MapContiguous
    <3> QED
      BY <3>3, PrefixType
  <2>4. MappedSeq(H, Span(a, n)) = [k \in 1 .. n |-> MapReg(H, a + k - 1)]
    BY <2>1, <2>2 DEF MappedSeq
  <2>5. Span(MapReg(H, a), n) = [k \in 1 .. n |-> MapReg(H, a) + k - 1]
    BY <1>2 DEF Span
  <2> QED
    BY <2>3, <2>4, <2>5
<1> QED
  BY <1>1, <1>2

(* The callee and its arguments: a call base with a hole above it and no   *)
(* hole among the arguments turns the FR1 layout into the FR2 layout.      *)
LEMMA CallSpanFollows ==
  ASSUME NEW H \in SUBSET Regs, NEW a \in H, NEW n \in Int,
         ~RangeHole(H, a + 1, a + n - 1)
  PROVE  MappedSeq(H, CallSpan(a, n, 0)) = CallSpan(MapReg(H, a), n, 1)
<1> a \in Int
  BY MaxRegAssumption DEF Regs
<1> a + 1 \in Int
  OBVIOUS
<1>1. CASE n < 1
  BY <1>1 DEF CallSpan, MappedSeq
<1>2. CASE n >= 1
  <2>1. CallSpan(a, n, 0) = [k \in 1 .. n |-> IF k = 1 THEN a ELSE a + k - 1 + 0]
    BY <1>2 DEF CallSpan
  <2>2. Len(CallSpan(a, n, 0)) = n
    BY <1>2, <2>1
  <2>3. \A k \in 1 .. n : k # 1 => MapReg(H, a + k - 1 + 0) = MapReg(H, a) + k - 1 + 1
    <3> SUFFICES ASSUME NEW k \in 1 .. n, k # 1
                 PROVE  MapReg(H, a + k - 1 + 0) = MapReg(H, a) + k - 1 + 1
      OBVIOUS
    <3> /\ MapReg(H, a) \in Int
        /\ MapReg(H, a + 1) \in Int
      BY PrefixType
    <3> a + k - 1 + 0 = a + k - 1
      OBVIOUS
    <3>1. ~RangeHole(H, a + 1, a + k - 1)
      BY MaxRegAssumption DEF RangeHole, Regs
    <3>2. /\ a + 1 \in Int
          /\ a + k - 1 \in Int
          /\ a + 1 <= a + k - 1
      OBVIOUS
    <3>3. MapReg(H, a + k - 1) = MapReg(H, a + 1) + ((a + k - 1) - (a + 1))
      BY <3>1, <3>2, MapContiguous
    <3> QED
      BY <3>3, PrefixType, MapAboveHole
  <2>4. MappedSeq(H, CallSpan(a, n, 0))
          = [k \in 1 .. n |-> IF k = 1 THEN MapReg(H, a) ELSE MapReg(H, a + k - 1 + 0)]
    BY <2>1, <2>2 DEF MappedSeq
  <2>5. CallSpan(MapReg(H, a), n, 1)
          = [k \in 1 .. n |-> IF k = 1 THEN MapReg(H, a) ELSE MapReg(H, a) + k - 1 + 1]
    BY <1>2 DEF CallSpan
  <2> QED
    BY <2>3, <2>4, <2>5
<1> QED
  BY <1>1, <1>2

(* Operands named one by one are shifted one by one.                       *)
LEMMA MappedNone ==
  ASSUME NEW H
  PROVE  MappedSeq(H, <<>>) = <<>>
  BY DEF MappedSeq

LEMMA MappedOne ==
  ASSUME NEW H, NEW x
  PROVE  MappedSeq(H, <<x>>) = <<MapReg(H, x)>>
  BY DEF MappedSeq

LEMMA MappedTwo ==
  ASSUME NEW H, NEW x, NEW y
  PROVE  MappedSeq(H, <<x, y>>) = <<MapReg(H, x), MapReg(H, y)>>
  BY DEF MappedSeq

LEMMA MappedThree ==
  ASSUME NEW H, NEW x, NEW y, NEW z
  PROVE  MappedSeq(H, <<x, y, z>>) = <<MapReg(H, x), MapReg(H, y), MapReg(H, z)>>
  BY DEF MappedSeq

(***************************************************************************)
(* One accepted instruction.                                               *)
(***************************************************************************)
(* An instruction tolua_validate_proto_ins accepts reads in FR2 the        *)
(* shifted images of what it read in FR1.                                  *)
LEMMA ReadsFollow ==
  ASSUME NEW H \in SUBSET Regs, NEW i \in Ins, NEW bc, NEW n,
         i.op \in OpensHole => i.a \in H,
         Valid(H, bc, n, ShiftedForCheck(H, i)), InPlace(H, i)
  PROVE  Reads(Shifted(H, i), 1) = MappedSeq(H, Reads(i, 0))
<1> DEFINE j == Shifted(H, i)
<1>1. i.op \in Ops /\ i.a \in Int /\ i.b \in Int /\ i.c \in Int /\ i.d \in Int
  BY MaxRegAssumption DEF Ins, Regs
<1>2. /\ MapReg(H, i.a) \in Int /\ MapReg(H, i.b) \in Int
      /\ MapReg(H, i.c) \in Int /\ MapReg(H, i.d) \in Int
  BY <1>1, PrefixType
<1>3. CASE i.op \in {"MOV", "USETV"}
  <2>1. Reads(i, 0) = <<i.d>> /\ Reads(j, 1) = <<MapReg(H, i.d)>>
    BY <1>3 DEF Reads, Shifted, DIsReg
  <2> QED
    BY <1>1, <2>1, MappedOne
<1>4. CASE i.op = "TGETV"
  <2>1. Reads(i, 0) = <<i.b, i.c>> /\ Reads(j, 1) = <<MapReg(H, i.b), MapReg(H, i.c)>>
    BY <1>4 DEF Reads, Shifted, BIsReg, CIsReg
  <2> QED
    BY <1>1, <2>1, MappedTwo
<1>5. CASE i.op = "TSETV"
  <2>1. /\ Reads(i, 0) = <<i.a, i.b, i.c>>
        /\ Reads(j, 1) = <<MapReg(H, i.a), MapReg(H, i.b), MapReg(H, i.c)>>
    BY <1>5 DEF Reads, Shifted, AIsReg, BIsReg, CIsReg
  <2> QED
    BY <1>1, <2>1, MappedThree
<1>6. CASE i.op = "CAT"
  <2>1. /\ Reads(i, 0) = Span(i.b, i.c - i.b + 1)
        /\ Reads(j, 1) = Span(MapReg(H, i.b), MapReg(H, i.c) - MapReg(H, i.b) + 1)
    BY <1>6 DEF Reads, Shifted, BIsReg, CIsReg
  <2>2. ~ClosedRangeHole(H, i.b, i.c)
    BY <1>6 DEF Valid, ShiftedForCheck
  <2>3. ~RangeHole(H, i.b, i.b + (i.c - i.b + 1) - 1)
    <3>1. i.b + (i.c - i.b + 1) - 1 = i.c
      BY <1>1
    <3>2. \A h \in H : h \in Int
      BY MaxRegAssumption DEF Regs
    <3> QED
      BY <1>1, <2>2, <3>1, <3>2 DEF ClosedRangeHole, RangeHole
  <2>4. MappedSeq(H, Reads(i, 0)) = Span(MapReg(H, i.b), i.c - i.b + 1)
    BY <1>1, <2>1, <2>3, SpanFollows
  <2>5. CASE i.b <= i.c
    <3>1. ~RangeHole(H, i.b, i.c)
      BY <1>1, <2>3
    <3>2. MapReg(H, i.c) = MapReg(H, i.b) + (i.c - i.b)
      BY <1>1, <2>5, <3>1, MapContiguous
    <3> QED
      BY <1>1, <1>2, <2>1, <2>4, <3>2
  <2>6. CASE i.c < i.b
    <3>1. MapReg(H, i.c) < MapReg(H, i.b)
      BY <1>1, <2>6, MapStrict
    <3> QED
      BY <1>1, <1>2, <2>1, <2>4, <2>6, <3>1 DEF Span
  <2> QED
    BY <1>1, <2>5, <2>6
<1>7. CASE i.op = "CALL"
  <2>1. /\ Reads(i, 0) = CallSpan(i.a, i.c, 0)
        /\ Reads(j, 1) = CallSpan(MapReg(H, i.a), i.c, 1)
    BY <1>7 DEF Reads, Shifted, AIsReg, CIsReg
  <2>2. i.a \in H
    BY <1>7 DEF OpensHole
  <2>3. ~RangeHole(H, i.a + 1, i.a + i.c - 1)
    BY <1>7 DEF Valid, ValidCall, ShiftedForCheck
  <2> QED
    BY <1>1, <2>1, <2>2, <2>3, CallSpanFollows
<1>8. CASE i.op = "CALLT"
  <2>1. /\ Reads(i, 0) = CallSpan(i.a, i.d, 0)
        /\ Reads(j, 1) = CallSpan(MapReg(H, i.a), i.d, 1)
    BY <1>8 DEF Reads, Shifted, AIsReg, DIsReg
  <2>2. i.a \in H
    BY <1>8 DEF OpensHole
  <2>3. ~RangeHole(H, i.a + 1, i.a + i.d - 1)
    BY <1>8 DEF Valid, ValidCallTail, ShiftedForCheck
  <2> QED
    BY <1>1, <2>1, <2>2, <2>3, CallSpanFollows
<1>9. CASE i.op = "ITERC"
  <2>1. /\ Reads(i, 0) = Span(i.a - 3, 3)
        /\ Reads(j, 1) = Span(MapReg(H, i.a) - 3, 3)
    BY <1>9 DEF Reads, Shifted, AIsReg
  <2>2. ~RangeHole(H, i.a - 3, i.a)
    BY <1>9 DEF InPlace
  <2>3. i.a - 3 \in Int /\ i.a - 3 <= i.a /\ MapReg(H, i.a - 3) \in Int
    <3>1. i.a - 3 \in Int /\ i.a - 3 <= i.a
      BY <1>1
    <3> QED
      BY <3>1, PrefixType
  <2>4. MapReg(H, i.a) = MapReg(H, i.a - 3) + (i.a - (i.a - 3))
    BY <1>1, <2>2, <2>3, MapContiguous
  <2>5. MapReg(H, i.a) - 3 = MapReg(H, i.a - 3)
    BY <1>1, <1>2, <2>3, <2>4
  <2>6. ~RangeHole(H, i.a - 3, (i.a - 3) + 3 - 1)
    <3>1. \A h \in H : h \in Int
      BY MaxRegAssumption DEF Regs
    <3> QED
      BY <1>1, <2>2, <3>1 DEF RangeHole
  <2> QED
    BY <2>1, <2>3, <2>5, <2>6, SpanFollows
<1>10. CASE i.op = "ITERL"
  <2>1. Reads(i, 0) = <<i.a>> /\ Reads(j, 1) = <<MapReg(H, i.a)>>
    BY <1>10 DEF Reads, Shifted, AIsReg
  <2> QED
    BY <1>1, <2>1, MappedOne
<1>11. CASE i.op = "TSETM"
  <2>1. Reads(i, 0) = <<i.a - 1>> /\ Reads(j, 1) = <<MapReg(H, i.a) - 1>>
    BY <1>11 DEF Reads, Shifted, AIsReg
  <2>2. ~RangeHole(H, i.a - 1, i.a)
    <3>1. \A h \in H : h \in Int
      BY MaxRegAssumption DEF Regs
    <3> QED
      BY <1>1, <1>11, <3>1 DEF RangeHole, InPlace
  <2>3. i.a - 1 \in Int /\ i.a - 1 <= i.a /\ MapReg(H, i.a - 1) \in Int
    <3>1. i.a - 1 \in Int /\ i.a - 1 <= i.a
      BY <1>1
    <3> QED
      BY <3>1, PrefixType
  <2>4. MapReg(H, i.a) = MapReg(H, i.a - 1) + (i.a - (i.a - 1))
    BY <1>1, <2>2, <2>3, MapContiguous
  <2>5. MapReg(H, i.a) - 1 = MapReg(H, i.a - 1)
    BY <1>1, <1>2, <2>3, <2>4
  <2> QED
    BY <2>1, <2>3, <2>5, MappedOne
<1>12. CASE i.op = "RET"
  <2>1. /\ Reads(i, 0) = Span(i.a, i.d - 1)
        /\ Reads(j, 1) = Span(MapReg(H, i.a), i.d - 1)
    BY <1>12 DEF Reads, Shifted, AIsReg, DIsReg
  <2>2. ~RangeHole(H, i.a, i.a + i.d - 2)
    BY <1>12 DEF Valid, ShiftedForCheck
  <2>3. ~RangeHole(H, i.a, i.a + (i.d - 1) - 1) /\ i.d - 1 \in Int
    BY <1>1, <2>2
  <2> QED
    BY <1>1, <2>1, <2>3, SpanFollows
<1>13. CASE i.op = "FORL"
  <2>1. Reads(i, 0) = Span(i.a, 3) /\ Reads(j, 1) = Span(MapReg(H, i.a), 3)
    BY <1>13 DEF Reads, Shifted, AIsReg
  <2>2. ~RangeHole(H, i.a, i.a + 3 - 1)
    <3>1. \A h \in H : h \in Int
      BY MaxRegAssumption DEF Regs
    <3> QED
      BY <1>1, <1>13, <3>1 DEF Valid, ShiftedForCheck, ClosedRangeHole, RangeHole
  <2> QED
    BY <1>1, <2>1, <2>2, SpanFollows
<1>14. CASE i.op \in {"KNIL", "CALLM", "CALLMT", "RETM", "VARG"}
  <2>1. Reads(i, 0) = <<>> /\ Reads(j, 1) = <<>>
    BY <1>14 DEF Reads, Shifted
  <2> QED
    BY <2>1, MappedNone
<1> QED
  BY <1>1, <1>3, <1>4, <1>5, <1>6, <1>7, <1>8, <1>9, <1>10, <1>11, <1>12, <1>13, <1>14 DEF Ops

(* It writes the shifted images of what it wrote in FR1; KNIL, which also  *)
(* clears the holes inside its range, writes no other image.               *)
LEMMA WritesFollow ==
  ASSUME NEW H \in SUBSET Regs, NEW i \in Ins, NEW bc, NEW n,
         i.op # "KNIL",
         Valid(H, bc, n, ShiftedForCheck(H, i)), InPlace(H, i)
  PROVE  Writes(Shifted(H, i)) = MappedSeq(H, Writes(i))
<1> DEFINE j == Shifted(H, i)
<1>1. i.op \in Ops /\ i.a \in Int /\ i.b \in Int /\ i.c \in Int /\ i.d \in Int
  BY MaxRegAssumption DEF Ins, Regs
<1>2. MapReg(H, i.a) \in Int
  BY <1>1, PrefixType
<1>3. \A h \in H : h \in Int
  BY MaxRegAssumption DEF Regs
<1>4. CASE i.op \in {"MOV", "TGETV", "CAT"}
  <2>1. Writes(i) = <<i.a>> /\ Writes(j) = <<MapReg(H, i.a)>>
    BY <1>4 DEF Writes, Shifted, AIsReg
  <2> QED
    BY <2>1, MappedOne
<1>5. CASE i.op \in {"CALL", "ITERC", "VARG"}
  <2>1. Writes(i) = Span(i.a, i.b - 1) /\ Writes(j) = Span(MapReg(H, i.a), i.b - 1)
    BY <1>5 DEF Writes, Shifted, AIsReg, BIsReg
  <2>2. i.op # "VARG" => i.b <= 2
    BY <1>5 DEF InPlace
  <2>3. i.op = "VARG" => i.b = 0 \/ ~RangeHole(H, i.a, i.a + i.b - 2)
    BY <1>5 DEF Valid, ValidVarg, ShiftedForCheck
  <2>4. i.b - 1 \in Int /\ ~RangeHole(H, i.a, i.a + (i.b - 1) - 1)
    BY <1>1, <1>3, <2>2, <2>3 DEF RangeHole
  <2> QED
    BY <1>1, <2>1, <2>4, SpanFollows
<1>6. CASE i.op = "ITERL"
  <2>1. Writes(i) = <<i.a - 1>> /\ Writes(j) = <<MapReg(H, i.a) - 1>>
    BY <1>6 DEF Writes, Shifted, AIsReg
  <2>2. ~RangeHole(H, i.a - 1, i.a)
    BY <1>1, <1>3, <1>6 DEF RangeHole, InPlace
  <2>3. i.a - 1 \in Int /\ i.a - 1 <= i.a
    BY <1>1
  <2>4. MapReg(H, i.a - 1) \in Int
    BY <2>3, PrefixType
  <2>5. MapReg(H, i.a) = MapReg(H, i.a - 1) + (i.a - (i.a - 1))
    BY <1>1, <2>2, <2>3, MapContiguous
  <2>6. MapReg(H, i.a) - 1 = MapReg(H, i.a - 1)
    BY <1>1, <1>2, <2>4, <2>5
  <2> QED
    BY <2>1, <2>6, MappedOne
<1>7. CASE i.op = "FORL"
  <2>1. Writes(i) = <<i.a, i.a + 3>> /\ Writes(j) = <<MapReg(H, i.a), MapReg(H, i.a) + 3>>
    BY <1>7 DEF Writes, Shifted, AIsReg
  <2>2. ~RangeHole(H, i.a, i.a + 3)
    BY <1>1, <1>3, <1>7 DEF Valid, ShiftedForCheck, ClosedRangeHole, RangeHole
  <2>3. i.a + 3 \in Int /\ i.a <= i.a + 3
    BY <1>1
  <2>4. MapReg(H, i.a + 3) = MapReg(H, i.a) + ((i.a + 3) - i.a)
    BY <1>1, <2>2, <2>3, MapContiguous
  <2>5. MapReg(H, i.a) + 3 = MapReg(H, i.a + 3)
    BY <1>1, <1>2, <2>4
  <2> QED
    BY <2>1, <2>5, MappedTwo
<1>8. CASE i.op \in {"USETV", "TSETV", "CALLM", "CALLT", "CALLMT", "RETM", "TSETM", "RET"}
  <2>1. Writes(i) = <<>> /\ Writes(j) = <<>>
    BY <1>8 DEF Writes, Shifted
  <2> QED
    BY <2>1, MappedNone
<1> QED
  BY <1>1, <1>4, <1>5, <1>6, <1>7, <1>8 DEF Ops

LEMMA NilsFollow ==
  ASSUME NEW H \in SUBSET Regs, NEW i \in Ins, i.op = "KNIL", NEW r \in Regs
  PROVE  MapReg(H, r) \in ElementsOf(Writes(Shifted(H, i))) <=> r \in ElementsOf(Writes(i))
<1> DEFINE a == MapReg(H, i.a)
           d == MapReg(H, i.d)
<1>1. i.a \in Int /\ i.d \in Int /\ r \in Int
  BY MaxRegAssumption DEF Ins, Regs
<1>2. a \in Int /\ d \in Int /\ MapReg(H, r) \in Int
  BY <1>1, PrefixType
<1>3. Writes(i) = Span(i.a, i.d - i.a + 1) /\ Writes(Shifted(H, i)) = Span(a, d - a + 1)
  BY DEF Writes, Shifted, AIsReg, DIsReg
<1>4. \A x \in Int, y \in Int, s \in Int : s \in ElementsOf(Span(x, y - x + 1)) <=> x <= s /\ s <= y
  <2> SUFFICES ASSUME NEW x \in Int, NEW y \in Int, NEW s \in Int
               PROVE  s \in ElementsOf(Span(x, y - x + 1)) <=> x <= s /\ s <= y
    OBVIOUS
  <2>1. CASE y < x
    <3>1. Span(x, y - x + 1) = <<>>
      BY <2>1 DEF Span
    <3> QED
      BY <2>1, <3>1 DEF ElementsOf
  <2>2. CASE x <= y
    <3>1. Span(x, y - x + 1) = [k \in 1 .. y - x + 1 |-> x + k - 1]
      BY <2>2 DEF Span
    <3>2. ElementsOf(Span(x, y - x + 1)) = {x + k - 1 : k \in 1 .. y - x + 1}
      <4>1. Len(Span(x, y - x + 1)) = y - x + 1
        BY <2>2, <3>1
      <4> QED
        BY <3>1, <4>1 DEF ElementsOf
    <3>3. x <= s /\ s <= y => s - x + 1 \in 1 .. y - x + 1 /\ s = x + (s - x + 1) - 1
      OBVIOUS
    <3>4. \A k \in 1 .. y - x + 1 : x <= x + k - 1 /\ x + k - 1 <= y
      OBVIOUS
    <3> QED
      BY <3>2, <3>3, <3>4
  <2> QED
    BY <2>1, <2>2
<1>5. i.a <= r <=> a <= MapReg(H, r)
  BY <1>1, <1>2, MapStrict
<1>6. r <= i.d <=> MapReg(H, r) <= d
  BY <1>1, <1>2, MapStrict
<1> QED
  BY <1>1, <1>2, <1>3, <1>4, <1>5, <1>6

(* What OperandsFollow asks of one instruction.                            *)
LEMMA InsFollows ==
  ASSUME NEW H \in SUBSET Regs, NEW i \in Ins, NEW bc, NEW n,
         i.op \in OpensHole => i.a \in H,
         Valid(H, bc, n, ShiftedForCheck(H, i)), InPlace(H, i)
  PROVE  Follows(H, i, Shifted(H, i))
  BY ReadsFollow, WritesFollow, NilsFollow DEF Follows

(***************************************************************************)
(* The invariants of the rewrite.                                          *)
(***************************************************************************)
(* Every call base of the prototype has its hole.                          *)
Covered ==
  \A n \in 1 .. Len(prog.code) : prog.code[n].op \in OpensHole => prog.code[n].a \in holes

(* The inductive invariant: the part of the buffer already rewritten is    *)
(* the shifted prototype, the rest is the prototype, and the holes were    *)
(* collected from the whole of it before the first instruction changed.    *)
IInv ==
  /\ TypeOK
  /\ phase = "collect" => pc = 1
  /\ phase = "done" => pc = Len(code) + 1
  /\ phase \in {"rewrite", "done", "run", "left"} => Covered
  /\ \A n \in 1 .. Len(code) :
       IF Rewritten(n) THEN Covered /\ code[n] = Shifted(holes, prog.code[n])
                       ELSE code[n] = prog.code[n]
  /\ OperandsFollow

LEMMA CodeType ==
  ASSUME TypeOK
  PROVE  /\ Len(code) \in Nat
         /\ \A n \in 1 .. Len(code) : code[n] \in Ins /\ prog.code[n] \in Ins
         /\ Holes(code) \in SUBSET Regs
<1>1. code \in Seq(Ins) /\ prog.code \in Seq(Ins) /\ Len(code) = Len(prog.code)
  BY DEF TypeOK, IsProgram
<1>2. \A n \in 1 .. Len(code) : code[n] \in Ins /\ prog.code[n] \in Ins
  BY <1>1, ElementOfSeq
<1>3. Len(code) \in Nat
  BY <1>1, LenProperties
<1>4. Holes(code) \in SUBSET Regs
  BY <1>2 DEF Holes, Ins
<1> QED
  BY <1>2, <1>3, <1>4

(* A shifted instruction whose operands fit is an instruction.             *)
LEMMA ShiftedType ==
  ASSUME NEW H \in SUBSET Regs, NEW i \in Ins, Fits(H, i)
  PROVE  Shifted(H, i) \in Ins
<1>1. \A r \in Regs : CanMap(H, r) => MapReg(H, r) \in Regs
  <2> SUFFICES ASSUME NEW r \in Regs, CanMap(H, r)
               PROVE  MapReg(H, r) \in Regs
    OBVIOUS
  <2>1. r \in Int /\ r >= 0
    BY MaxRegAssumption DEF Regs
  <2>2. Prefix(H, r) \in Nat
    BY <2>1, PrefixType
  <2> QED
    BY <2>1, <2>2, MaxRegAssumption DEF MapReg, CanMap, Regs
<1> QED
  BY <1>1 DEF Shifted, Fits, FitsOperands, Ins

LEMMA InitInv == Init => IInv
<1> SUFFICES ASSUME Init PROVE IInv
  OBVIOUS
<1>1. IsProgram(prog)
  BY ProgramsAssumption DEF Init
<1>2. prog.code \in Seq(Ins) /\ prog.framesize \in 1 .. MaxReg
  BY <1>1 DEF IsProgram
<1>3. TypeOK
  <2>1. Len(prog.code) \in Nat
    BY <1>2, LenProperties
  <2> QED
    BY <1>1, <1>2, <2>1 DEF Init, TypeOK
<1>4. \A n : ~Rewritten(n)
  BY DEF Init, Rewritten
<1> QED
  BY <1>3, <1>4 DEF Init, IInv, OperandsFollow

LEMMA NextInv == IInv /\ [Next]_vars => IInv'
<1> SUFFICES ASSUME IInv, [Next]_vars PROVE IInv'
  OBVIOUS
<1>1. /\ Len(code) \in Nat
      /\ \A n \in 1 .. Len(code) : code[n] \in Ins /\ prog.code[n] \in Ins
      /\ Holes(code) \in SUBSET Regs
  BY CodeType DEF IInv
<1>2. CASE CollectHoles
  <2>1. \A n \in 1 .. Len(code) : code[n] = prog.code[n]
    BY <1>2 DEF CollectHoles, IInv, Rewritten
  <2>2. TypeOK'
    BY <1>1, <1>2 DEF CollectHoles, IInv, TypeOK
  <2>3. pc = 1 /\ pc' = 1 /\ code' = code /\ prog' = prog /\ phase' = "rewrite"
    BY <1>2 DEF CollectHoles, IInv
  <2>4. \A n \in 1 .. Len(code) : ~Rewritten(n)'
    BY <1>1, <2>3 DEF Rewritten
  <2>5. Covered'
    <3>1. Len(prog.code) = Len(code)
      BY DEF IInv, TypeOK
    <3> QED
      BY <1>2, <2>1, <2>3, <3>1 DEF CollectHoles, Covered, Holes
  <2> QED
    BY <2>1, <2>2, <2>3, <2>4, <2>5 DEF IInv, OperandsFollow
<1>3. CASE RefuseOpenResults \/ RefuseIns \/ RefuseFramesize
  <2>1. /\ phase \in {"collect", "rewrite"} /\ phase' = "failed"
        /\ UNCHANGED <<prog, code, holes, pc, framesize>>
    BY <1>3 DEF RefuseOpenResults, RefuseIns, RefuseFramesize, Refuse
  <2>2. TypeOK'
    BY <2>1 DEF IInv, TypeOK
  <2>3. \A n \in 1 .. Len(code) : Rewritten(n)' <=> Rewritten(n)
    BY <1>1, <2>1 DEF IInv, Rewritten
  <2>4. Covered' <=> Covered
    BY <2>1 DEF Covered
  <2> QED
    BY <2>1, <2>2, <2>3, <2>4 DEF IInv, OperandsFollow
<1>4. CASE RewriteIns
  <2> DEFINE i == code[pc]
  <2>1. /\ phase = "rewrite" /\ pc \in 1 .. Len(code) /\ pc' = pc + 1
        /\ Fits(holes, i) /\ Valid(holes, code, pc, ShiftedForCheck(holes, i))
        /\ code' = [code EXCEPT ![pc] = Shifted(holes, i)]
        /\ UNCHANGED <<prog, holes, framesize, phase>>
    BY <1>4 DEF RewriteIns, Accepts, IInv, TypeOK
  <2>2. ~Rewritten(pc) /\ i = prog.code[pc] /\ i \in Ins
    BY <1>1, <2>1 DEF IInv, Rewritten
  <2>3. holes \in SUBSET Regs /\ code \in Seq(Ins)
    BY DEF IInv, TypeOK
  <2>4. Shifted(holes, i) \in Ins
    BY <2>1, <2>2, <2>3, ShiftedType
  <2>5. /\ code' \in Seq(Ins) /\ Len(code') = Len(code)
        /\ \A n \in 1 .. Len(code) : code'[n] = IF n = pc THEN Shifted(holes, i) ELSE code[n]
    BY <2>1, <2>3, <2>4, ExceptSeq
  <2>6. TypeOK'
    BY <1>1, <2>1, <2>5 DEF IInv, TypeOK
  <2>7. \A n \in 1 .. Len(code) : Rewritten(n)' <=> Rewritten(n) \/ n = pc
    BY <1>1, <2>1, <2>5 DEF Rewritten
  <2>8. Covered /\ Covered'
    BY <2>1 DEF IInv, Covered
  <2>9. InPlace(holes, prog.code[pc]) => Follows(holes, prog.code[pc], code'[pc])
    <3>1. i.op \in OpensHole => i.a \in holes
      <4>1. Len(prog.code) = Len(code)
        BY DEF IInv, TypeOK
      <4> QED
        BY <2>1, <2>2, <2>8, <4>1 DEF Covered
    <3> QED
      BY <2>1, <2>2, <2>3, <2>5, <3>1, InsFollows
  <2>10. OperandsFollow'
    BY <2>1, <2>5, <2>7, <2>9 DEF IInv, OperandsFollow
  <2> QED
    BY <2>1, <2>2, <2>5, <2>6, <2>7, <2>8, <2>10 DEF IInv
<1>5. CASE FixFramesize
  <2>1. /\ phase = "rewrite" /\ phase' = "done" /\ pc > Len(code) /\ NewFramesize <= MaxReg
        /\ framesize' = NewFramesize
        /\ UNCHANGED <<prog, code, holes, pc>>
    BY <1>5 DEF FixFramesize
  <2>2. framesize \in Int /\ framesize >= 1 /\ pc \in Int /\ pc = Len(code) + 1
    BY <1>1, <2>1 DEF IInv, TypeOK
  <2>3. framesize - 1 \in Int
    BY <2>2
  <2>4. Prefix(Holes(code), framesize - 1) \in Nat
    BY <1>1, <2>3, PrefixType
  <2>5. NewFramesize \in 1 .. MaxReg
    BY <2>1, <2>2, <2>4, MaxRegAssumption DEF NewFramesize, MapReg
  <2>6. TypeOK'
    BY <2>1, <2>5 DEF IInv, TypeOK
  <2>7. \A n \in 1 .. Len(code) : Rewritten(n)' <=> Rewritten(n)
    BY <2>1 DEF Rewritten
  <2>8. Covered' <=> Covered
    BY <2>1 DEF Covered
  <2> QED
    BY <2>1, <2>2, <2>6, <2>7, <2>8 DEF IInv, OperandsFollow
<1>6. CASE Enter
  <2>1. /\ phase = "done" /\ phase' = "run" /\ pc' = 1
        /\ UNCHANGED <<prog, code, holes, framesize>>
    BY <1>6 DEF Enter
  <2>2. TypeOK'
    BY <1>1, <2>1 DEF IInv, TypeOK
  <2>3. \A n \in 1 .. Len(code) : Rewritten(n)' <=> Rewritten(n)
    BY <1>1, <2>1 DEF IInv, Rewritten
  <2>4. Covered' <=> Covered
    BY <2>1 DEF Covered
  <2> QED
    BY <2>1, <2>2, <2>3, <2>4 DEF IInv, OperandsFollow
<1>7. CASE Execute
  <2>1. /\ phase = "run" /\ phase' \in {"run", "left"} /\ pc <= Len(code) /\ pc' = pc + 1
        /\ UNCHANGED <<prog, code, holes, framesize>>
    BY <1>7 DEF Execute
  <2>2. TypeOK'
    BY <1>1, <2>1 DEF IInv, TypeOK
  <2>3. \A n \in 1 .. Len(code) : Rewritten(n)' <=> Rewritten(n)
    BY <1>1, <2>1 DEF IInv, Rewritten
  <2>4. Covered' <=> Covered
    BY <2>1 DEF Covered
  <2> QED
    BY <2>1, <2>2, <2>3, <2>4 DEF IInv, OperandsFollow
<1>8. CASE UNCHANGED vars
  <2>1. UNCHANGED <<prog, code, holes, pc, framesize, phase>>
    BY <1>8 DEF vars
  <2>2. TypeOK'
    BY <2>1 DEF IInv, TypeOK
  <2>3. \A n \in 1 .. Len(code) : Rewritten(n)' <=> Rewritten(n)
    BY <2>1 DEF Rewritten
  <2>4. Covered' <=> Covered
    BY <2>1 DEF Covered
  <2> QED
    BY <2>1, <2>2, <2>3, <2>4 DEF IInv, OperandsFollow
<1> QED
  BY <1>2, <1>3, <1>4, <1>5, <1>6, <1>7, <1>8 DEF Next

(* No slot of the caller is the second slot of an FR2 frame header, in any *)
(* state the inductive invariant admits.                                   *)
LEMMA InvFrameSlots == IInv => FrameSlotsFree
<1> SUFFICES ASSUME IInv, NEW n \in 1 .. Len(code), Rewritten(n), code[n].op \in OpensHole,
                    NEW r \in Regs
             PROVE  MapReg(holes, r) # code[n].a + 1
  BY DEF FrameSlotsFree
<1>1. Covered /\ code[n] = Shifted(holes, prog.code[n])
  BY DEF IInv
<1>2. prog.code[n].op \in OpensHole /\ code[n].a = MapReg(holes, prog.code[n].a)
  BY <1>1 DEF Shifted, AIsReg, OpensHole
<1>3. prog.code[n].a \in holes
  <2>1. Len(prog.code) = Len(code)
    BY DEF IInv, TypeOK
  <2> QED
    BY <1>1, <1>2, <2>1 DEF Covered
<1>4. holes \in SUBSET Regs /\ r \in Int
  BY MaxRegAssumption DEF IInv, TypeOK, Regs
<1> QED
  BY <1>2, <1>3, <1>4, HoleIsNobodysImage

LEMMA Inductive == Spec => []IInv
<1> QED
  BY InitInv, NextInv, PTL DEF Spec

(***************************************************************************)
(* The two executions.                                                     *)
(***************************************************************************)
(* A register is shifted by at most its own number, so the image of every  *)
(* register is a slot of the FR2 interpreter.                              *)
LEMMA MapInSlots ==
  ASSUME NEW H \in SUBSET Regs, NEW r \in Regs
  PROVE  r \in Slots /\ MapReg(H, r) \in Slots
<1>1. r \in Nat /\ r \in Int /\ r <= MaxReg /\ MaxReg \in Nat /\ \A h \in H : h \in Nat
  BY MaxRegAssumption DEF Regs
<1>2. Prefix(H, r) \in Nat
  BY <1>1, PrefixType
<1>3. Prefix(H, r) <= r
  <2>1. IsFiniteSet(0 .. r - 1) /\ Cardinality(0 .. r - 1) = r
    <3>1. IsFiniteSet(0 .. r - 1) /\ Cardinality(0 .. r - 1) = IF 0 > r - 1 THEN 0 ELSE (r - 1) - 0 + 1
      BY <1>1, FS_Interval
    <3> QED
      BY <1>1, <3>1
  <2>2. \A h \in H : h < r => h \in 0 .. r - 1
    BY <1>1
  <2>3. {h \in H : h < r} \in SUBSET (0 .. r - 1)
    BY <2>2
  <2> QED
    BY <2>1, <2>3, FS_Subset DEF Prefix
<1> QED
  BY <1>1, <1>2, <1>3 DEF MapReg, Slots

(* Registers with no hole below them stay where they are.                  *)
LEMMA MapBelowHoles ==
  ASSUME NEW H \in SUBSET Regs, NEW n \in Int, \A h \in H : h >= n, NEW r \in Int, r < n
  PROVE  MapReg(H, r) = r
<1>1. {h \in H : h < r} = {}
  <2>1. \A h \in H : h \in Int
    BY MaxRegAssumption DEF Regs
  <2>2. \A h \in H : ~(h < r)
    BY <2>1
  <2> QED
    BY <2>2
<1> QED
  BY <1>1, FS_EmptySet DEF MapReg, Prefix

(* What an instruction reads and writes is a list of slots; it writes none *)
(* twice.                                                                  *)
LEMMA SpanType ==
  ASSUME NEW a \in Int, NEW n \in Int
  PROVE  /\ Span(a, n) \in Seq(Int)
         /\ \A k, l \in 1 .. Len(Span(a, n)) : Span(a, n)[k] = Span(a, n)[l] => k = l
<1>1. CASE n < 1
  BY <1>1 DEF Span
<1>2. CASE n >= 1
  <2>1. Span(a, n) = [k \in 1 .. n |-> a + k - 1]
    BY <1>2 DEF Span
  <2>2. Span(a, n) \in Seq(Int) /\ Len(Span(a, n)) = n
    BY <1>2, <2>1
  <2>3. ASSUME NEW k \in 1 .. n, NEW l \in 1 .. n, Span(a, n)[k] = Span(a, n)[l] PROVE k = l
    <3>1. a + k - 1 = a + l - 1 /\ k \in Int /\ l \in Int
      BY <2>1, <2>3
    <3> QED
      BY <3>1
  <2> QED
    BY <2>2, <2>3
<1> QED
  BY <1>1, <1>2

LEMMA CallSpanType ==
  ASSUME NEW a \in Int, NEW n \in Int, NEW g \in Int
  PROVE  CallSpan(a, n, g) \in Seq(Int)
<1>1. CASE n < 1
  BY <1>1 DEF CallSpan
<1>2. CASE n >= 1
  <2>1. CallSpan(a, n, g) = [k \in 1 .. n |-> IF k = 1 THEN a ELSE a + k - 1 + g]
    BY <1>2 DEF CallSpan
  <2> QED
    BY <1>2, <2>1
<1> QED
  BY <1>1, <1>2

LEMMA OperandTypes ==
  ASSUME NEW i \in Ins
  PROVE  /\ Reads(i, 0) \in Seq(Int)
         /\ Writes(i) \in Seq(Int)
         /\ \A k, l \in 1 .. Len(Writes(i)) : Writes(i)[k] = Writes(i)[l] => k = l
<1>1. i.op \in Ops /\ i.a \in Int /\ i.b \in Int /\ i.c \in Int /\ i.d \in Int
  BY MaxRegAssumption DEF Ins, Regs
<1>2. /\ i.c - i.b + 1 \in Int /\ i.d - 1 \in Int /\ i.b - 1 \in Int /\ i.d - i.a + 1 \in Int
      /\ i.a - 3 \in Int /\ i.a - 1 \in Int /\ i.a + 3 \in Int /\ i.a # i.a + 3
  BY <1>1
<1>3. Reads(i, 0) \in Seq(Int)
  <2>1. CASE i.op \in {"CAT", "ITERC", "RET", "FORL"}
    <3>1. \/ Reads(i, 0) = Span(i.b, i.c - i.b + 1) \/ Reads(i, 0) = Span(i.a - 3, 3)
          \/ Reads(i, 0) = Span(i.a, i.d - 1) \/ Reads(i, 0) = Span(i.a, 3)
      BY <2>1 DEF Reads
    <3>2. /\ Span(i.b, i.c - i.b + 1) \in Seq(Int) /\ Span(i.a - 3, 3) \in Seq(Int)
          /\ Span(i.a, i.d - 1) \in Seq(Int) /\ Span(i.a, 3) \in Seq(Int)
      BY <1>1, <1>2, SpanType, 3 \in Int
    <3> QED
      BY <3>1, <3>2
  <2>2. CASE i.op \in {"CALL", "CALLT"}
    <3>1. Reads(i, 0) = CallSpan(i.a, i.c, 0) \/ Reads(i, 0) = CallSpan(i.a, i.d, 0)
      BY <2>2 DEF Reads
    <3>2. CallSpan(i.a, i.c, 0) \in Seq(Int) /\ CallSpan(i.a, i.d, 0) \in Seq(Int)
      BY <1>1, CallSpanType, 0 \in Int
    <3> QED
      BY <3>1, <3>2
  <2>3. CASE i.op \notin {"CAT", "ITERC", "RET", "FORL", "CALL", "CALLT"}
    BY <1>1, <1>2, <2>3 DEF Reads, Ops
  <2> QED
    BY <2>1, <2>2, <2>3
<1>4. CASE i.op \in {"CALL", "ITERC", "VARG"}
  <2>1. Writes(i) = Span(i.a, i.b - 1)
    BY <1>4 DEF Writes
  <2>2. /\ Span(i.a, i.b - 1) \in Seq(Int)
        /\ \A k, l \in 1 .. Len(Span(i.a, i.b - 1)) :
             Span(i.a, i.b - 1)[k] = Span(i.a, i.b - 1)[l] => k = l
    BY <1>1, <1>2, SpanType
  <2> QED
    BY <1>3, <2>1, <2>2, Zenon
<1>5. CASE i.op = "KNIL"
  <2>1. Writes(i) = Span(i.a, i.d - i.a + 1)
    BY <1>5 DEF Writes
  <2>2. /\ Span(i.a, i.d - i.a + 1) \in Seq(Int)
        /\ \A k, l \in 1 .. Len(Span(i.a, i.d - i.a + 1)) :
             Span(i.a, i.d - i.a + 1)[k] = Span(i.a, i.d - i.a + 1)[l] => k = l
    BY <1>1, <1>2, SpanType
  <2> QED
    BY <1>3, <2>1, <2>2, Zenon
<1>6. CASE i.op = "FORL"
  <2>1. Writes(i) = <<i.a, i.a + 3>>
    BY <1>6 DEF Writes
  <2>2. \A x \in Int, y \in Int : x # y =>
          /\ <<x, y>> \in Seq(Int)
          /\ \A k, l \in 1 .. Len(<<x, y>>) : <<x, y>>[k] = <<x, y>>[l] => k = l
    OBVIOUS
  <2>3. /\ Writes(i) \in Seq(Int)
        /\ \A k, l \in 1 .. Len(Writes(i)) : Writes(i)[k] = Writes(i)[l] => k = l
    BY <1>1, <1>2, <2>1, <2>2
  <2> QED
    BY <1>3, <2>3
<1>7. CASE i.op \notin {"CALL", "ITERC", "VARG", "KNIL", "FORL"}
  <2>1. Writes(i) = <<>> \/ Writes(i) = <<i.a>> \/ Writes(i) = <<i.a - 1>>
    BY <1>7 DEF Writes
  <2>2. \A x \in Int : /\ <<x>> \in Seq(Int)
                       /\ \A k, l \in 1 .. Len(<<x>>) : <<x>>[k] = <<x>>[l] => k = l
    OBVIOUS
  <2>3. <<>> \in Seq(Int) /\ \A k, l \in 1 .. Len(<<>>) : <<>>[k] = <<>>[l] => k = l
    OBVIOUS
  <2>4. /\ Writes(i) \in Seq(Int)
        /\ \A k, l \in 1 .. Len(Writes(i)) : Writes(i)[k] = Writes(i)[l] => k = l
    <3>1. CASE Writes(i) = <<>>
      BY <2>3, <3>1
    <3>2. CASE Writes(i) = <<i.a>>
      BY <1>1, <2>2, <3>2
    <3>3. CASE Writes(i) = <<i.a - 1>>
      BY <1>2, <2>2, <3>3
    <3> QED
      BY <2>1, <3>1, <3>2, <3>3
  <2> QED
    BY <1>3, <2>4
<1> QED
  BY <1>4, <1>5, <1>6, <1>7

(* The registers of the FR1 interpreter that are defined are in their FR2  *)
(* slots.                                                                  *)
Agree(one, two) == \A r \in 0 .. prog.framesize - 1 : one[r] # Junk => two[MapReg(holes, r)] = one[r]

(* What a list of registers that agree reads agrees.                       *)
LEMMA FetchedFollows ==
  ASSUME NEW i \in Ins, NEW j, holes \in SUBSET Regs, Follows(holes, i, j), Agree(r1, r2),
         \A k \in 1 .. Len(Reads(i, 0)) : Reads(i, 0)[k] \in 0 .. prog.framesize - 1
  PROVE  /\ Len(Fetched(r1, i, 0)) = Len(Fetched(r2, j, 1))
         /\ \A k \in 1 .. Len(Fetched(r1, i, 0)) :
              Fetched(r1, i, 0)[k] # Junk => Fetched(r2, j, 1)[k] = Fetched(r1, i, 0)[k]
<1> DEFINE s == Reads(i, 0)
           t == Reads(j, 1)
<1>1. s \in Seq(Int) /\ Len(s) \in Nat
  BY OperandTypes
<1>2. t = [k \in 1 .. Len(s) |-> MapReg(holes, s[k])]
  BY DEF Follows, MappedSeq
<1>3. Len(t) = Len(s)
  BY <1>1, <1>2
<1>4. Fetched(r1, i, 0) = [k \in 1 .. Len(s) |-> r1[s[k]]] /\ Fetched(r2, j, 1) = [k \in 1 .. Len(s) |-> r2[t[k]]]
  BY <1>3 DEF Fetched
<1> HIDE DEF s, t
<1>5. Len(Fetched(r1, i, 0)) = Len(s) /\ Len(Fetched(r2, j, 1)) = Len(s)
  BY <1>1, <1>4
<1>6. ASSUME NEW k \in 1 .. Len(s), r1[s[k]] # Junk PROVE r2[t[k]] = r1[s[k]]
  BY <1>2, <1>6 DEF Agree, s
<1> QED
  BY <1>4, <1>5, <1>6

(* What both write agrees again: a result goes to the image of its         *)
(* register, and a call loses only what lies above its base in both.       *)
LEMMA StoredFollows ==
  ASSUME NEW i \in Ins, holes \in SUBSET Regs, Follows(holes, i, Shifted(holes, i)), Agree(r1, r2),
         prog.framesize \in 1 .. MaxReg,
         \A k \in 1 .. Len(Reads(i, 0)) : Reads(i, 0)[k] \in 0 .. prog.framesize - 1
  PROVE  Agree(Stored(r1, i, 0), Stored(r2, Shifted(holes, i), 1))
<1> DEFINE j == Shifted(holes, i)
           w == Writes(i)
           v == Writes(j)
<1> SUFFICES ASSUME NEW r \in 0 .. prog.framesize - 1, Stored(r1, i, 0)[r] # Junk
             PROVE  Stored(r2, j, 1)[MapReg(holes, r)] = Stored(r1, i, 0)[r]
  BY DEF Agree
<1>1. r \in Regs /\ r \in Int /\ r \in Slots /\ MapReg(holes, r) \in Slots /\ MapReg(holes, r) \in Int
  <2>1. r \in Regs /\ r \in Int
    BY MaxRegAssumption DEF Regs
  <2> QED
    BY <2>1, MapInSlots, PrefixType
<1>2. /\ w \in Seq(Int) /\ Len(w) \in Nat /\ \A k \in 1 .. Len(w) : w[k] \in Int
      /\ \A k, l \in 1 .. Len(w) : w[k] = w[l] => k = l
  BY OperandTypes
<1>3. j.op = i.op /\ (i.op \in Calls => j.a = MapReg(holes, i.a)) /\ (i.op = "MOV" => j.d = MapReg(holes, i.d))
  BY DEF Shifted, AIsReg, DIsReg, Calls
<1>4. i.a \in Int /\ MapReg(holes, i.a) \in Int
  <2>1. i.a \in Int
    BY MaxRegAssumption DEF Ins, Regs
  <2> QED
    BY <2>1, PrefixType
<1>5. /\ Stored(r1, i, 0)[r] =
           IF \E k \in 1 .. Len(w) : w[k] = r
           THEN Produced(r1, i, 0, CHOOSE k \in 1 .. Len(w) : w[k] = r)
           ELSE IF i.op \in Calls /\ r >= i.a THEN Junk ELSE r1[r]
      /\ Stored(r2, j, 1)[MapReg(holes, r)] =
           IF \E k \in 1 .. Len(v) : v[k] = MapReg(holes, r)
           THEN Produced(r2, j, 1, CHOOSE k \in 1 .. Len(v) : v[k] = MapReg(holes, r))
           ELSE IF j.op \in Calls /\ MapReg(holes, r) >= j.a THEN Junk ELSE r2[MapReg(holes, r)]
  BY <1>1 DEF Stored
<1>6. (\E k \in 1 .. Len(w) : w[k] = r) <=> (\E k \in 1 .. Len(v) : v[k] = MapReg(holes, r))
  <2>1. CASE i.op = "KNIL"
    BY <1>1, <2>1 DEF Follows, ElementsOf
  <2>2. CASE i.op # "KNIL"
    <3>1. v = [k \in 1 .. Len(w) |-> MapReg(holes, w[k])]
      BY <2>2 DEF Follows, MappedSeq
    <3>2. Len(v) = Len(w)
      BY <1>2, <3>1
    <3>3. \A k \in 1 .. Len(w) : v[k] = MapReg(holes, r) <=> w[k] = r
      <4> SUFFICES ASSUME NEW k \in 1 .. Len(w) PROVE MapReg(holes, w[k]) = MapReg(holes, r) <=> w[k] = r
        BY <3>1
      <4>1. w[k] \in Int /\ MapReg(holes, w[k]) \in Int
        BY <1>2, PrefixType
      <4> QED
        BY <1>1, <4>1, MapStrict
    <3> QED
      BY <3>2, <3>3
  <2> QED
    BY <2>1, <2>2
<1>7. CASE \E k \in 1 .. Len(w) : w[k] = r
  <2> DEFINE m == CHOOSE k \in 1 .. Len(w) : w[k] = r
             n == CHOOSE k \in 1 .. Len(v) : v[k] = MapReg(holes, r)
  <2>1. m \in 1 .. Len(w) /\ w[m] = r /\ n \in 1 .. Len(v) /\ v[n] = MapReg(holes, r)
    BY <1>6, <1>7
  <2>2. Stored(r1, i, 0)[r] = Produced(r1, i, 0, m) /\ Stored(r2, j, 1)[MapReg(holes, r)] = Produced(r2, j, 1, n)
    BY <1>5, <1>6, <1>7
  <2> HIDE DEF m, n
  <2>3. CASE i.op = "KNIL"
    BY <1>3, <2>2, <2>3 DEF Produced
  <2>4. CASE i.op = "MOV"
    <3>1. Produced(r1, i, 0, m) = r1[i.d] /\ Produced(r2, j, 1, n) = r2[MapReg(holes, i.d)]
      BY <1>3, <2>4 DEF Produced
    <3>2. Reads(i, 0) = <<i.d>>
      BY <2>4 DEF Reads
    <3>3. i.d \in 0 .. prog.framesize - 1
      <4>1. Len(Reads(i, 0)) = 1 /\ Reads(i, 0)[1] = i.d
        BY <3>2
      <4>2. 1 \in 1 .. Len(Reads(i, 0))
        BY <4>1
      <4> QED
        BY <4>1, <4>2
    <3> QED
      BY <2>2, <3>1, <3>3 DEF Agree
  <2>5. CASE i.op \notin {"KNIL", "MOV"}
    <3>1. v = [k \in 1 .. Len(w) |-> MapReg(holes, w[k])]
      BY <2>5 DEF Follows, MappedSeq
    <3>2. n \in 1 .. Len(w)
      BY <1>2, <2>1, <3>1
    <3>3. MapReg(holes, w[n]) = MapReg(holes, r) /\ w[n] \in Int
      BY <1>2, <2>1, <3>1, <3>2
    <3>4. w[n] = r
      <4>1. MapReg(holes, w[n]) \in Int
        BY <3>3, PrefixType
      <4> QED
        BY <1>1, <3>3, <4>1, MapStrict
    <3>5. n = m
      BY <1>2, <2>1, <3>2, <3>4
    <3> QED
      BY <1>3, <2>2, <2>5, <3>5 DEF Produced
  <2> QED
    BY <2>3, <2>4, <2>5
<1>8. CASE ~\E k \in 1 .. Len(w) : w[k] = r
  <2>1. ~(i.op \in Calls /\ r >= i.a) /\ Stored(r1, i, 0)[r] = r1[r]
    BY <1>5, <1>8
  <2>2. r2[MapReg(holes, r)] = r1[r]
    BY <2>1 DEF Agree
  <2>3. ~(j.op \in Calls /\ MapReg(holes, r) >= j.a)
    <3>1. i.op \in Calls => r < i.a
      BY <1>1, <1>4, <2>1
    <3>2. i.op \in Calls => MapReg(holes, r) < MapReg(holes, i.a)
      BY <1>1, <1>4, <3>1, MapStrict
    <3> QED
      BY <1>1, <1>3, <1>4, <3>2
  <2> QED
    BY <1>5, <1>6, <1>8, <2>1, <2>2, <2>3
<1> QED
  BY <1>7, <1>8

(* The invariant of the executions: no hole is opened below a parameter,   *)
(* nothing has been read before the program is entered, and they agree.    *)
MachineInv ==
  /\ phase \in {"rewrite", "done", "run", "left"} => \A h \in holes : h >= prog.params
  /\ phase \notin {"run", "left", "failed"} => seen = <<<<>>, <<>>>>
  /\ SameExecution

LEMMA MachineInit == Init => MachineInv
BY DEF Init, MachineInv, SameExecution

LEMMA MachineNext == IInv /\ MachineInv /\ [Next]_vars => MachineInv'
<1> SUFFICES ASSUME IInv, MachineInv, [Next]_vars PROVE MachineInv'
  OBVIOUS
<1>0. IsProgram(prog) /\ holes \in SUBSET Regs /\ Len(prog.code) = Len(code) /\ Len(code) \in Nat
  BY CodeType DEF IInv, TypeOK
<1>1. CASE CollectHoles
  <2>1. \A n \in 1 .. Len(code) : code[n] = prog.code[n]
    BY <1>1 DEF CollectHoles, IInv, Rewritten
  <2>2. \A h \in Holes(code) : h >= prog.params
    BY <1>0, <2>1 DEF Holes, OpensHole, Calls, IsProgram
  <2> QED
    BY <1>1, <2>2 DEF CollectHoles, MachineUnchanged, MachineInv, SameExecution
<1>2. CASE RefuseOpenResults \/ RefuseIns \/ RefuseFramesize
  BY <1>2 DEF RefuseOpenResults, RefuseIns, RefuseFramesize, Refuse, MachineInv, SameExecution
<1>3. CASE RewriteIns
  BY <1>3 DEF RewriteIns, MachineUnchanged, MachineInv, SameExecution
<1>4. CASE FixFramesize
  BY <1>4 DEF FixFramesize, MachineUnchanged, MachineInv, SameExecution
<1>5. CASE Enter
  <2>1. /\ phase = "done" /\ phase' = "run" /\ UNCHANGED <<prog, holes, seen>>
        /\ r1' = [s \in Slots |-> IF s < prog.params THEN Param(s) ELSE Junk]
        /\ r2' = [s \in Slots |-> IF s < prog.params THEN Param(s) ELSE Junk]
    BY <1>5 DEF Enter
  <2>2. seen' = <<<<>>, <<>>>> /\ \A h \in holes : h >= prog.params
    BY <2>1 DEF MachineInv
  <2>3. ASSUME NEW r \in 0 .. prog.framesize - 1, r1'[r] # Junk
        PROVE  r2'[MapReg(holes, r)] = r1'[r]
    <3>1. r \in Regs /\ r \in Int /\ prog.params \in Int
      BY <1>0, MaxRegAssumption DEF IsProgram, Regs
    <3>2. r \in Slots
      BY <1>0, <3>1, MapInSlots
    <3>3. r < prog.params
      BY <2>1, <2>3, <3>2
    <3>4. MapReg(holes, r) = r
      BY <1>0, <2>2, <3>1, <3>3, MapBelowHoles
    <3> QED
      BY <2>1, <3>2, <3>4
  <2> QED
    BY <2>1, <2>2, <2>3 DEF MachineInv, SameExecution
<1>6. CASE Execute
  <2> DEFINE i == prog.code[pc]
             j == code[pc]
  <2>1. /\ phase = "run" /\ pc <= Len(code) /\ UNCHANGED <<prog, code, holes>>
        /\ seen' = <<Fetched(r1, i, 0), Fetched(r2, j, 1)>>
        /\ r1' = Stored(r1, i, 0) /\ r2' = Stored(r2, j, 1)
        /\ phase' \in {"run", "left"}
    BY <1>6 DEF Execute
  <2>2. pc \in 1 .. Len(code) /\ i \in Ins
    BY <1>0, <2>1, CodeType DEF IInv, TypeOK
  <2>3. SUFFICES ASSUME AllInPlace' PROVE SameExecution'
    BY <2>1 DEF MachineInv, SameExecution
  <2>4. AllInPlace /\ InPlace(holes, i)
    BY <1>0, <2>1, <2>2, <2>3 DEF AllInPlace
  <2>5. j = Shifted(holes, i) /\ Follows(holes, i, j)
    BY <2>1, <2>2, <2>4 DEF IInv, Rewritten, OperandsFollow
  <2>6. /\ prog.framesize \in 1 .. MaxReg
        /\ \A k \in 1 .. Len(Reads(i, 0)) : Reads(i, 0)[k] \in 0 .. prog.framesize - 1
    BY <1>0, <2>2 DEF IsProgram
  <2>7. Agree(r1, r2)
    BY <2>1, <2>4 DEF MachineInv, SameExecution, Agree
  <2> HIDE DEF i, j
  <2>8. Agree(r1', r2')
    BY <1>0, <2>1, <2>2, <2>5, <2>6, <2>7, StoredFollows
  <2>9. /\ Len(seen'[1]) = Len(seen'[2])
        /\ \A k \in 1 .. Len(seen'[1]) : seen'[1][k] # Junk => seen'[2][k] = seen'[1][k]
    BY <1>0, <2>1, <2>2, <2>5, <2>6, <2>7, FetchedFollows
  <2> QED
    BY <2>1, <2>8, <2>9 DEF SameExecution, Agree
<1>7. CASE UNCHANGED vars
  BY <1>7 DEF vars, MachineInv, SameExecution, AllInPlace
<1> QED
  BY <1>1, <1>2, <1>3, <1>4, <1>5, <1>6, <1>7 DEF Next

-----------------------------------------------------------------------------
(* The buffer stays a well-formed instruction sequence within the register *)
(* limit, and the frame size within a byte, through every conversion.      *)
THEOREM TypeCorrect == Spec => []TypeOK
<1>1. IInv => TypeOK
  BY DEF IInv
<1> QED
  BY <1>1, Inductive, PTL

(* tolua_validate_proto_ins with tolua_rewrite_proto_ins: every accepted   *)
(* instruction the validator can judge reads and writes the shifted images *)
(* of its FR1 slots, for every prototype and every register limit.         *)
THEOREM OperandsFollowAlways == Spec => []OperandsFollow
<1>1. IInv => OperandsFollow
  BY DEF IInv
<1> QED
  BY <1>1, Inductive, PTL

(* tolua_build_shift_map: the second slot of every converted call frame is *)
(* never a register of the caller.                                         *)
THEOREM FrameSlotsAlwaysFree == Spec => []FrameSlotsFree
<1> QED
  BY InvFrameSlots, Inductive, PTL

(* For every prototype whose instructions the validator can judge, the FR2 *)
(* interpreter computes from the converted program what the FR1            *)
(* interpreter computes from the source: every defined register has its    *)
(* value in its shifted slot, and every instruction reads the same         *)
(* operands (tolua_patch_proto_bytecode).                                  *)
THEOREM ExecutesTheSame == Spec => []SameExecution
<1>1. IInv /\ MachineInv /\ [Next]_vars => MachineInv'
  BY MachineNext
<1>2. MachineInv => SameExecution
  BY DEF MachineInv
<1> QED
  BY <1>1, <1>2, MachineInit, Inductive, PTL DEF Spec
=============================================================================
