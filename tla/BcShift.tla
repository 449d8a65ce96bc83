------------------------------ MODULE BcShift ------------------------------
(***************************************************************************)
(* The generic FR1 -> FR2 rewrite of one LuaJIT prototype                  *)
(* (tolua_fr1_to_fr2_shared.inc, from tolua_collect_proto_holes to the     *)
(* frame-size fix of tolua_convert_bytecode_inplace), followed by the      *)
(* execution of the two programs side by side.                             *)
(*                                                                         *)
(* FR1 keeps a call frame in one stack slot, FR2 in two: the arguments of  *)
(* a call with base A sit at A+1, A+2, ... in FR1 and at A+2, A+3, ... in  *)
(* FR2.  The converter therefore opens a "hole" above every call base and  *)
(* shifts every register by the number of holes below it.                  *)
(***************************************************************************)
EXTENDS Integers, Sequences, FiniteSets

CONSTANTS
  MaxReg,    \* BCMAX_A: the largest register an instruction can name (255)
  Programs   \* the prototypes to convert: [code, framesize, params]

Regs == 0 .. MaxReg

Ops == {"MOV", "USETV", "TGETV", "TSETV", "KNIL", "CAT", "CALL", "CALLM", "CALLT", "CALLMT", "RETM",
        "ITERC", "ITERL", "VARG", "TSETM", "RET", "FORL"}

(* An instruction.  Fields an opcode does not have are 0.                  *)
Ins == [op : Ops, a : Regs, b : Regs, c : Regs, d : Regs]

(***************************************************************************)
(* The stack slots an instruction reads and writes, in operand order.      *)
(* g is LJ_FR2: 0 for the FR1 interpreter, 1 for the FR2 one.  They are    *)
(* those of the handlers in vm_x64.dasc: MOV 3124, USETV 3426, CAT 3334,   *)
(* KNIL 3400, TGETV 3626, TSETV 3752, TSETM 3924, CALL and CALLT 3973,     *)
(* ITERC 4045, VARG 4139, RET 4225, FORL 4305, ITERL 4454.                 *)
(***************************************************************************)
Span(first, n) == IF n < 1 THEN <<>> ELSE [k \in 1 .. n |-> first + k - 1]

CallSpan(a, n, g) == IF n < 1 THEN <<>> ELSE [k \in 1 .. n |-> IF k = 1 THEN a ELSE a + k - 1 + g]

Reads(i, g) ==
  CASE i.op \in {"MOV", "USETV"} -> <<i.d>>
    [] i.op = "TGETV" -> <<i.b, i.c>>
    [] i.op = "TSETV" -> <<i.a, i.b, i.c>>
    [] i.op = "CAT"   -> Span(i.b, i.c - i.b + 1)
    [] i.op = "CALL"  -> CallSpan(i.a, i.c, g)
    [] i.op = "CALLT" -> CallSpan(i.a, i.d, g)
    [] i.op = "ITERC" -> Span(i.a - 3, 3)
    [] i.op = "ITERL" -> <<i.a>>
    [] i.op = "TSETM" -> <<i.a - 1>>
    [] i.op = "RET"   -> Span(i.a, i.d - 1)
    [] i.op = "FORL"  -> Span(i.a, 3)
    [] OTHER          -> <<>>

Writes(i) ==
  CASE i.op \in {"MOV", "TGETV", "CAT"}   -> <<i.a>>
    [] i.op \in {"CALL", "ITERC", "VARG"} -> Span(i.a, i.b - 1)
    [] i.op = "ITERL"                     -> <<i.a - 1>>
    [] i.op = "FORL"                      -> <<i.a, i.a + 3>>
    [] i.op = "KNIL"                      -> Span(i.a, i.d - i.a + 1)
    [] OTHER                              -> <<>>

(* The slots a call leaves undefined: its frame and everything above it.   *)
Calls == {"CALL", "ITERC"}
Leaves == {"CALLT", "RET"}

(***************************************************************************)
(* A prototype as the FR1 compiler emits it: every operand lies inside the *)
(* frame, and no call base overlays a parameter.                           *)
(***************************************************************************)
IsProgram(p) ==
  /\ p.code \in Seq(Ins)
  /\ p.framesize \in 1 .. MaxReg
  /\ p.params \in 0 .. p.framesize
  /\ \A n \in 1 .. Len(p.code) :
       LET i == p.code[n] IN
       /\ i.op \in Calls \cup {"CALLT"} => i.a >= p.params
       /\ \A k \in 1 .. Len(Reads(i, 0)) : Reads(i, 0)[k] \in 0 .. p.framesize - 1
       /\ \A k \in 1 .. Len(Writes(i)) : Writes(i)[k] \in 0 .. p.framesize - 1

ASSUME MaxRegAssumption == MaxReg \in Nat
ASSUME ProgramsAssumption == \A p \in Programs : IsProgram(p)

VARIABLES
  prog,       \* the prototype as it was read
  code,       \* its instruction buffer, rewritten in place
  holes,      \* tolua_bcshift_map: the registers with a hole above them
  pc,         \* the instruction being rewritten, later executed
  framesize,  \* the prototype's frame-size byte
  phase,      \* what the converter is doing
  r1, r2,     \* the stack slots of the FR1 and of the FR2 interpreter
  seen        \* the operand values the last instruction read, in each

vars == <<prog, code, holes, pc, framesize, phase, r1, r2, seen>>

(***************************************************************************)
(* The shift map: a set of holes, and the number of holes below a          *)
(* register.                                                               *)
(***************************************************************************)
PrefixInclusive(H, r) == Cardinality({h \in H : h <= r})

Prefix(H, r) == Cardinality({h \in H : h < r})

MapReg(H, r) == r + Prefix(H, r)

CanMap(H, r) == MapReg(H, r) <= MaxReg

(* A hole in the half-open range [first, last), in the closed one.         *)
RangeHole(H, first, last) == \E h \in H : first <= h /\ h < last

ClosedRangeHole(H, first, last) == RangeHole(H, first, last + 1)

OpensHole == {"CALL", "CALLT", "ITERC"}
OpenResultOps == {"CALLM", "CALLMT", "RETM"}

HolesWithoutTail(bc) ==
  {bc[i].a : i \in {j \in 1 .. Len(bc) : bc[j].op \in {"CALL", "ITERC"}}}

Holes(bc) ==
  {bc[i].a : i \in {j \in 1 .. Len(bc) : bc[j].op \in OpensHole}}

(***************************************************************************)
(* Which operands of an opcode are registers the rewriter shifts.          *)
(***************************************************************************)
AIsReg(op) == op # "USETV"
BIsReg(op) == op \in {"CAT", "TGETV", "TSETV"}
CIsReg(op) == op \in {"CAT", "TGETV", "TSETV"}
DIsRegOfResult(op) == op \in {"MOV", "KNIL"}
DIsReg(op) == op \in {"MOV", "USETV", "KNIL"}

(***************************************************************************)
(* tolua_validate_open_tsetm_pair: a CALL or VARG with open results must   *)
(* be followed at once by the TSETM that consumes them, on the same base.  *)
(***************************************************************************)
ProducerOK(bc, n, a) ==
  /\ n < Len(bc)
  /\ bc[n + 1].op = "TSETM"
  /\ bc[n + 1].a = a

ConsumerOK(bc, n, a) ==
  /\ n > 1
  /\ bc[n - 1].op \in {"CALL", "VARG"}
  /\ bc[n - 1].b = 0
  /\ bc[n - 1].a = a

(***************************************************************************)
(* tolua_validate_proto_ins.  Every instruction before n has already been *)
(* rewritten in the buffer, those from n on have not.                     *)
(***************************************************************************)
ValidCallNoArgs(H, bc, n, i) ==
  /\ i.c # 0
  /\ i.b = 0 => ProducerOK(bc, n, i.a)
  /\ i.b # 0 => ~ClosedRangeHole(H, i.a + 1, i.a + i.b - 2)

ValidCall(H, bc, n, i) ==
  /\ i.c # 0
  /\ i.b = 0 => ProducerOK(bc, n, i.a)
  /\ i.b # 0 => ~ClosedRangeHole(H, i.a + 1, i.a + i.b - 2)
  /\ ~RangeHole(H, i.a + 1, i.a + i.c - 1)

ValidCallTail(H, i) ==
  /\ i.d # 0
  /\ ~RangeHole(H, i.a + 1, i.a + i.d - 1)

ValidIterCall(H, i) ==
  /\ i.b # 0
  /\ i.c = 3
  /\ ~ClosedRangeHole(H, i.a + 1, i.a + i.b - 2)
  /\ ~RangeHole(H, i.a + 1, i.a + i.c - 1)

ValidVarg(H, bc, n, i) ==
  IF i.b = 0 THEN ProducerOK(bc, n, i.a)
             ELSE ~RangeHole(H, i.a, i.a + i.b - 2)

Valid(H, bc, n, i) ==
  CASE i.op = "CALL"  -> ValidCall(H, bc, n, i)
    [] i.op = "CALLT" -> ValidCallTail(H, i)
    [] i.op = "ITERC" -> ValidIterCall(H, i)
    [] i.op = "VARG"  -> ValidVarg(H, bc, n, i)
    [] i.op = "TSETM" -> ConsumerOK(bc, n, i.a)
    [] i.op = "RET"   -> ~RangeHole(H, i.a, i.a + i.d - 2)
    [] i.op = "CAT"   -> ~ClosedRangeHole(H, i.b, i.c)
    [] i.op = "FORL"  -> ~ClosedRangeHole(H, i.a, i.a + 3)
    [] OTHER          -> TRUE

(***************************************************************************)
(* tolua_rewrite_proto_ins: shift the register operands.  TSETM shifts A   *)
(* before it validates, the others after; only the pair check can tell.    *)
(***************************************************************************)
FitsOperands(H, i) ==
  /\ BIsReg(i.op) => CanMap(H, i.b)
  /\ CIsReg(i.op) => CanMap(H, i.c)
  /\ DIsReg(i.op) => CanMap(H, i.d)

Fits(H, i) ==
  /\ AIsReg(i.op) => CanMap(H, i.a)
  /\ FitsOperands(H, i)

Shifted(H, i) ==
  [op |-> i.op,
   a  |-> IF AIsReg(i.op) THEN MapReg(H, i.a) ELSE i.a,
   b  |-> IF BIsReg(i.op) THEN MapReg(H, i.b) ELSE i.b,
   c  |-> IF CIsReg(i.op) THEN MapReg(H, i.c) ELSE i.c,
   d  |-> IF DIsReg(i.op) THEN MapReg(H, i.d) ELSE i.d]

ShiftedForCheck(H, i) ==
  IF i.op = "TSETM" THEN [i EXCEPT !.a = MapReg(H, i.a)] ELSE i

Accepts(H, bc, n) ==
  /\ Fits(H, bc[n])
  /\ Valid(H, bc, n, ShiftedForCheck(H, bc[n]))

(***************************************************************************)
(* The converter.                                                          *)
(***************************************************************************)
(* Values: what parameter k came in with, nil, what instruction n put in   *)
(* its k-th destination, and the value of a slot nobody may rely on.       *)
Param(k) == <<0, k>>
Nil == <<0, -1>>
Result(n, k) == <<n, k>>
Junk == <<0, -2>>
Slots == 0 .. 2 * MaxReg + 2

Init ==
  /\ prog \in Programs
  /\ code = prog.code
  /\ framesize = prog.framesize
  /\ holes = {}
  /\ pc = 1
  /\ phase = "collect"
  /\ r1 = [s \in Slots |-> Junk]
  /\ r2 = [s \in Slots |-> Junk]
  /\ seen = <<<<>>, <<>>>>

MachineUnchanged == UNCHANGED <<r1, r2, seen>>

Refuse ==
  /\ phase' = "failed"
  /\ UNCHANGED <<prog, code, holes, pc, framesize>>
  /\ MachineUnchanged

(* tolua_collect_proto_holes before the rewrite.                           *)
CollectHoles ==
  /\ phase = "collect"
  /\ \A n \in 1 .. Len(code) : code[n].op \notin OpenResultOps
  /\ holes' = Holes(code)
  /\ phase' = "rewrite"
  /\ UNCHANGED <<prog, code, pc, framesize>>
  /\ MachineUnchanged

RefuseOpenResults ==
  /\ phase = "collect"
  /\ \E n \in 1 .. Len(code) : code[n].op \in OpenResultOps
  /\ Refuse

(* One turn of the loop of tolua_patch_proto_bytecode.                     *)
RewriteIns ==
  /\ phase = "rewrite"
  /\ pc <= Len(code)
  /\ Accepts(holes, code, pc)
  /\ code' = [code EXCEPT ![pc] = Shifted(holes, code[pc])]
  /\ pc' = pc + 1
  /\ UNCHANGED <<prog, holes, framesize, phase>>
  /\ MachineUnchanged

RefuseIns ==
  /\ phase = "rewrite"
  /\ pc <= Len(code)
  /\ ~Accepts(holes, code, pc)
  /\ Refuse

(***************************************************************************)
(* The frame-size fix: the driver collects the holes a second time, now    *)
(* from the rewritten instructions, and maps the last register with them.  *)
(***************************************************************************)
NewFramesize == MapReg(Holes(code), framesize - 1) + 1

FixFramesize ==
  /\ phase = "rewrite"
  /\ pc > Len(code)
  /\ NewFramesize <= MaxReg
  /\ framesize' = NewFramesize
  /\ phase' = "done"
  /\ UNCHANGED <<prog, code, holes, pc>>
  /\ MachineUnchanged

RefuseFramesize ==
  /\ phase = "rewrite"
  /\ pc > Len(code)
  /\ NewFramesize > MaxReg
  /\ Refuse

(***************************************************************************)
(* Both interpreters run the prototype in lock step.  A parameter starts   *)
(* in the slot of its own number in either.                                *)
(***************************************************************************)
Enter ==
  /\ phase = "done"
  /\ phase' = "run"
  /\ pc' = 1
  /\ r1' = [s \in Slots |-> IF s < prog.params THEN Param(s) ELSE Junk]
  /\ r2' = [s \in Slots |-> IF s < prog.params THEN Param(s) ELSE Junk]
  /\ UNCHANGED <<prog, code, holes, framesize, seen>>

Fetched(regs, i, g) == [k \in 1 .. Len(Reads(i, g)) |-> regs[Reads(i, g)[k]]]

Produced(regs, i, g, k) ==
  CASE i.op = "MOV"  -> regs[i.d]
    [] i.op = "KNIL" -> Nil
    [] OTHER         -> Result(pc, k)

Stored(regs, i, g) ==
  [s \in Slots |->
     IF \E k \in 1 .. Len(Writes(i)) : Writes(i)[k] = s
     THEN Produced(regs, i, g, CHOOSE k \in 1 .. Len(Writes(i)) : Writes(i)[k] = s)
     ELSE IF i.op \in Calls /\ s >= i.a THEN Junk ELSE regs[s]]

Execute ==
  /\ phase = "run"
  /\ pc <= Len(code)
  /\ LET i == prog.code[pc]
         j == code[pc]
     IN  /\ seen' = <<Fetched(r1, i, 0), Fetched(r2, j, 1)>>
         /\ r1' = Stored(r1, i, 0)
         /\ r2' = Stored(r2, j, 1)
         /\ phase' = IF i.op \in Leaves THEN "left" ELSE "run"
  /\ pc' = pc + 1
  /\ UNCHANGED <<prog, code, holes, framesize>>

Next ==
  \/ CollectHoles
  \/ RefuseOpenResults
  \/ RewriteIns
  \/ RefuseIns
  \/ FixFramesize
  \/ RefuseFramesize
  \/ Enter
  \/ Execute

Spec == Init /\ [][Next]_vars

-----------------------------------------------------------------------------
(* Every variable keeps its type: the buffer stays a sequence of           *)
(* instructions of the same length, the holes are registers, the frame     *)
(* size a register count.                                                  *)
TypeOK ==
  /\ IsProgram(prog)
  /\ code \in Seq(Ins)
  /\ Len(code) = Len(prog.code)
  /\ holes \in SUBSET Regs
  /\ pc \in 1 .. Len(code) + 1
  /\ framesize \in 1 .. MaxReg
  /\ phase \in {"collect", "rewrite", "done", "failed", "run", "left"}

ElementsOf(s) == {s[k] : k \in 1 .. Len(s)}

MappedSeq(H, s) == [k \in 1 .. Len(s) |-> MapReg(H, s[k])]

Follows(H, i, j) ==
  /\ Reads(j, 1) = MappedSeq(H, Reads(i, 0))
  /\ IF i.op = "KNIL"
     THEN \A r \in Regs : MapReg(H, r) \in ElementsOf(Writes(j)) <=> r \in ElementsOf(Writes(i))
     ELSE Writes(j) = MappedSeq(H, Writes(i))

(***************************************************************************)
(* What the validator leaves to the shape of the code: it never looks      *)
(* below A, and it forgets that the first result of a call sits below the  *)
(* hole the call itself opens.                                             *)
(***************************************************************************)
InPlace(H, i) ==
  CASE i.op = "CALL"  -> i.b <= 2
    [] i.op = "ITERC" -> i.b = 2 /\ ~RangeHole(H, i.a - 3, i.a)
    [] i.op = "ITERL" -> (i.a - 1) \notin H
    [] i.op = "TSETM" -> (i.a - 1) \notin H
    [] OTHER          -> TRUE

Rewritten(n) == phase # "collect" /\ n \in 1 .. Len(code) /\ (n < pc \/ phase \in {"run", "left"})

(* Every accepted instruction whose operands the validator can judge reads *)
(* and writes, in the FR2 interpreter, exactly the shifted images of the   *)
(* slots it read and wrote in FR1, operand by operand                      *)
(* (tolua_validate_proto_ins with tolua_rewrite_proto_ins).                *)
OperandsFollow ==
  \A n \in 1 .. Len(code) :
    Rewritten(n) /\ InPlace(holes, prog.code[n])
      => Follows(holes, prog.code[n], code[n])

(* The second slot of an FR2 call frame never holds a register of the      *)
(* function that calls: the hole above a call base is nobody's image       *)
(* (tolua_build_shift_map).                                                *)
FrameSlotsFree ==
  \A n \in 1 .. Len(code) :
    Rewritten(n) /\ code[n].op \in OpensHole
      => \A r \in Regs : MapReg(holes, r) # code[n].a + 1

AllInPlace == \A n \in 1 .. Len(prog.code) : InPlace(holes, prog.code[n])

(* Running both programs, every FR1 register that holds a defined value    *)
(* holds the same value in its shifted FR2 slot, and the last instruction  *)
(* read the same operands in both: the conversion preserves what the       *)
(* program computes, frames and clobbered slots included.                  *)
SameExecution ==
  phase \in {"run", "left"} /\ AllInPlace =>
    /\ \A r \in 0 .. prog.framesize - 1 :
         r1[r] # Junk => r2[MapReg(holes, r)] = r1[r]
    /\ Len(seen[1]) = Len(seen[2])
    /\ \A k \in 1 .. Len(seen[1]) : seen[1][k] # Junk => seen[2][k] = seen[1][k]

(* The frame size stored with the converted prototype covers the image of  *)
(* every register of the frame it was compiled with.                       *)
FrameCovers ==
  phase = "done" =>
    \A r \in 0 .. prog.framesize - 1 : MapReg(holes, r) < framesize
=============================================================================
