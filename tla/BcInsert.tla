----------------------------- MODULE BcInsert -----------------------------
(***************************************************************************)
(* The driver of the bytecode converter and its insert-and-retry protocol  *)
(* (tolua_fr1_to_fr2_shared.inc, tolua_convert_bytecode_inplace).  A chunk *)
(* is converted prototype by prototype.  When the repack heuristics of a   *)
(* prototype need register copies, they leave one request in a static      *)
(* variable and give up; the driver rebuilds the chunk with the copies     *)
(* inserted, drops the old buffer and patches the same prototype again.    *)
(*                                                                         *)
(* The heuristics choose freely here where they insert, how many copies,   *)
(* and when they give up; registers are left to module BcShift.            *)
(***************************************************************************)
EXTENDS Integers, Sequences, FiniteSets

CONSTANTS
  Chunks,     \* what the host passes in: sequences of prototypes
  MaxBatch,   \* bound: copies asked for at once (TOLUA_MAX_INSERT_COPIES is 255)
  MaxInserts, \* bound: requests in one conversion
  MaxConvs    \* bound: conversions

(***************************************************************************)
(* An instruction: its number in the prototype it was compiled in (0 for   *)
(* an inserted copy), what it is, its jump offset, and whether its opcode  *)
(* is numbered as in bytecode version 1 or 2 ("bad": mapped twice).        *)
(***************************************************************************)
Kinds == {"plain", "jump", "isnext", "itern", "iterc"}
Ins == [id : Nat, kind : Kinds, j : Int, enc : {"v1", "v2", "bad"}]

Copy == [id |-> 0, kind |-> "plain", j |-> 0, enc |-> "v2"]

(* The instruction a jump goes to, counting from 1.                        *)
Target(bc, p) == p + 1 + bc[p].j

Jumping == {"jump", "isnext"}

JumpsInside(bc) ==
  \A p \in DOMAIN bc : bc[p].kind \in Jumping => Target(bc, p) \in DOMAIN bc

Numbered(bc, enc) == \A p \in DOMAIN bc : bc[p].enc = enc

IsPrototype(bc, enc) ==
  /\ \A p \in DOMAIN bc : bc[p].id = p
  /\ Numbered(bc, enc)
  /\ JumpsInside(bc)

(* A chunk: its header and its prototypes.                                 *)
Chunk == [version : {1, 2}, fr2 : BOOLEAN, protos : Seq([code : Seq(Ins)])]

Numbering(c) == IF c.version = 1 THEN "v1" ELSE "v2"

IsChunk(c) ==
  /\ c \in Chunk
  /\ c.fr2 => c.version = 2
  /\ \A k \in 1 .. Len(c.protos) : IsPrototype(c.protos[k].code, Numbering(c))

ASSUME CopyAssumption == Copy \in Ins
ASSUME ChunksAssumption == \A c \in Chunks : IsChunk(c)
ASSUME BoundsAssumption == MaxBatch \in Nat /\ MaxInserts \in Nat /\ MaxConvs \in Nat

VARIABLES
  orig,      \* the chunk as it was compiled
  held,      \* the chunk the caller holds
  buf,       \* the converter's buffer
  toFr2,     \* target_fr2
  proto,     \* proto_index, counting from 1
  retry,     \* retry_proto_index with retry_proto_prepared; 0 for none
  pending,   \* tolua_pending_insert_copy
  status,    \* where the driver is
  convs,     \* conversions begun
  inserts    \* requests granted in this conversion

vars == <<orig, held, buf, toFr2, proto, retry, pending, status, convs, inserts>>

NoRequest == [active |-> FALSE, conv |-> 0, proto |-> 0, pc |-> 0, count |-> 0, allow |-> FALSE]

ClearPendingNot(req) == req
ClearPending(req) == NoRequest

Init ==
  /\ orig \in Chunks
  /\ held = orig
  /\ buf = orig
  /\ toFr2 = FALSE
  /\ proto = 1
  /\ retry = 0
  /\ pending = NoRequest
  /\ status = "idle"
  /\ convs = 0
  /\ inserts = 0

(***************************************************************************)
(* tolua_convertbytecodeex and the head of the driver.  Only the generic   *)
(* path clears a request an earlier conversion left behind.                *)
(***************************************************************************)
V1Path(c, fr2) == c.version = 1 /\ fr2

Begin(c, first) ==
  /\ status = "idle"
  /\ convs < MaxConvs
  /\ convs' = convs + 1
  /\ orig' = first
  /\ held' = c
  /\ buf' = c
  /\ \E fr2 \in BOOLEAN :
       /\ toFr2' = fr2
       /\ IF c.fr2
          THEN UNCHANGED <<status, pending>>
          ELSE /\ status' = "patch"
               /\ pending' = IF V1Path(c, fr2) THEN pending ELSE ClearPending(pending)
  /\ proto' = 1
  /\ retry' = 0
  /\ inserts' = 0

BeginHeld == Begin(held, orig)
BeginFresh == \E c \in Chunks : Begin(c, c)

(***************************************************************************)
(* Preparing a prototype: the opcodes of a version 1 chunk are mapped to   *)
(* version 2, and the generic path towards FR2 turns ISNEXT and ITERN into *)
(* JMP and ITERC.  A prototype being retried has been prepared already.    *)
(***************************************************************************)
Mapped(enc) == IF enc = "v1" THEN "v2" ELSE "bad"

Despecialised(kind) ==
  CASE kind = "isnext" -> "jump"
    [] kind = "itern"  -> "iterc"
    [] OTHER           -> kind

AlwaysUnprepared == TRUE
Unprepared == retry # proto

Prepared(bc) ==
  IF ~Unprepared THEN bc
  ELSE [p \in DOMAIN bc |->
         [bc[p] EXCEPT
            !.enc  = IF buf.version = 1 THEN Mapped(@) ELSE @,
            !.kind = IF toFr2 /\ ~V1Path(buf, toFr2) THEN Despecialised(@) ELSE @]]

(* The generic path refuses an ISNEXT that does not lead to an ITERN.      *)
LoopsPaired(bc) ==
  \A p \in DOMAIN bc :
    bc[p].kind = "isnext" => bc[Target(bc, p)].kind \in {"itern", "iterc"}

CanPrepare(bc) == (toFr2 /\ ~V1Path(buf, toFr2) /\ Unprepared) => LoopsPaired(bc)

Code == buf.protos[proto].code

WithCode(bc) == [buf EXCEPT !.protos[proto].code = bc]

(* The prototype is converted; the driver goes on to the next.             *)
PatchProto ==
  /\ status = "patch"
  /\ proto <= Len(buf.protos)
  /\ CanPrepare(Code)
  /\ buf' = WithCode(Prepared(Code))
  /\ proto' = proto + 1
  /\ retry' = 0
  /\ UNCHANGED <<orig, held, toFr2, pending, status, convs, inserts>>

(* A heuristic asks for copies (tolua_schedule_insert_copies), which works *)
(* only while no request is pending.                                       *)
ScheduleCopies ==
  /\ status = "patch"
  /\ toFr2
  /\ proto <= Len(buf.protos)
  /\ CanPrepare(Code)
  /\ ~pending.active
  /\ inserts < MaxInserts
  /\ buf' = WithCode(Prepared(Code))
  /\ \E pc \in 1 .. Len(Code) + 1, n \in 1 .. MaxBatch, allow \in BOOLEAN :
       pending' = [active |-> TRUE, conv |-> convs, proto |-> proto,
                   pc |-> pc, count |-> n, allow |-> allow]
  /\ inserts' = inserts + 1
  /\ status' = "rebuild"
  /\ UNCHANGED <<orig, held, toFr2, proto, retry, convs>>

(* Any failure drops the buffer: the caller gets no chunk back.            *)
Abort ==
  /\ status' = "idle"
  /\ buf' = held
  /\ UNCHANGED <<orig, held, toFr2, proto, retry, pending, convs, inserts>>

PatchFails ==
  /\ status = "patch"
  /\ proto <= Len(buf.protos)
  /\ Abort

(***************************************************************************)
(* tolua_rebuild_chunk_with_insert_copy.                                   *)
(***************************************************************************)
Adjusted(kind) == kind = "jump"

Moved(req, p) == IF p >= req.pc THEN p + req.count ELSE p

RetargetedAll(req, t) == IF t >= req.pc THEN t + req.count ELSE t
Retargeted(req, t) == IF t > req.pc THEN t + req.count ELSE t

RefusedEntry(req, bc) ==
  ~req.allow /\ \E p \in DOMAIN bc : Adjusted(bc[p].kind) /\ Target(bc, p) = req.pc

RelocatedFromOldPc(req, bc, p) ==
  IF Adjusted(bc[p].kind)
  THEN [bc[p] EXCEPT !.j = Retargeted(req, Target(bc, p)) - p - 1]
  ELSE bc[p]

Relocated(req, bc, p) ==
  IF Adjusted(bc[p].kind)
  THEN [bc[p] EXCEPT !.j = Retargeted(req, Target(bc, p)) - Moved(req, p) - 1]
  ELSE bc[p]

RebuiltShort(req, bc) ==
  [q \in 1 .. Len(bc) + req.count - 1 |->
     IF \E p \in DOMAIN bc : Moved(req, p) = q
     THEN Relocated(req, bc, CHOOSE p \in DOMAIN bc : Moved(req, p) = q)
     ELSE Copy]

Rebuilt(req, bc) ==
  [q \in 1 .. Len(bc) + req.count |->
     IF \E p \in DOMAIN bc : Moved(req, p) = q
     THEN Relocated(req, bc, CHOOSE p \in DOMAIN bc : Moved(req, p) = q)
     ELSE Copy]

(* The code grows, the line table is copied as it is.                      *)
Rebuild ==
  /\ status = "rebuild"
  /\ ~RefusedEntry(pending, Code)
  /\ buf' = WithCode(Rebuilt(pending, Code))
  /\ pending' = ClearPending(pending)
  /\ retry' = proto
  /\ status' = "patch"
  /\ UNCHANGED <<orig, held, toFr2, proto, convs, inserts>>

(* A jump enters where the copies would go: the driver returns at once,    *)
(* and the request stays behind.                                           *)
RebuildRefused ==
  /\ status = "rebuild"
  /\ RefusedEntry(pending, Code)
  /\ Abort

(* Only a chunk converted to its end gets the new header.                  *)
Finish ==
  /\ status = "patch"
  /\ proto > Len(buf.protos)
  /\ buf' = [buf EXCEPT !.version = 2, !.fr2 = toFr2]
  /\ held' = buf'
  /\ status' = "idle"
  /\ UNCHANGED <<orig, toFr2, proto, retry, pending, convs, inserts>>

Next ==
  \/ BeginHeld
  \/ BeginFresh
  \/ PatchProto
  \/ ScheduleCopies
  \/ PatchFails
  \/ Rebuild
  \/ RebuildRefused
  \/ Finish

Spec == Init /\ [][Next]_vars

-----------------------------------------------------------------------------
(* The buffer and the caller's chunk stay chunks of the same prototypes,   *)
(* no jump leaves its prototype, and a request asks for few enough copies. *)
TypeOK ==
  /\ orig \in Chunks
  /\ \A c \in {held, buf} :
       /\ c \in Chunk
       /\ Len(c.protos) = Len(orig.protos)
       /\ \A k \in 1 .. Len(c.protos) : JumpsInside(c.protos[k].code)
  /\ toFr2 \in BOOLEAN
  /\ proto \in 1 .. Len(buf.protos) + 1
  /\ retry \in 0 .. Len(buf.protos)
  /\ pending \in [active : BOOLEAN, conv : 0 .. MaxConvs, proto : Nat, pc : Nat,
                  count : 0 .. MaxBatch, allow : BOOLEAN]
  /\ status \in {"idle", "patch", "rebuild"}
  /\ convs \in 0 .. MaxConvs
  /\ inserts \in 0 .. MaxInserts

Codes == {buf.protos[k].code : k \in 1 .. Len(buf.protos)}

(* The first compiled instruction at or after position p.                  *)
Landing(bc, p) ==
  LET rest == {q \in p .. Len(bc) : bc[q].id # 0}
  IN  IF rest = {} THEN 0 ELSE bc[CHOOSE q \in rest : \A s \in rest : q <= s].id

FollowsIn(k, kinds) ==
  LET bc == buf.protos[k].code
      was == orig.protos[k].code
  IN  \A p \in DOMAIN bc :
        bc[p].id # 0 /\ bc[p].kind \in kinds
          => Landing(bc, Target(bc, p)) = Target(was, bc[p].id)

(* However many times a prototype is rebuilt, every jump leads where it    *)
(* led in the compiled code, through the copies inserted there at most     *)
(* (setbc_j in tolua_rebuild_chunk_with_insert_copy).                      *)
JumpsFollow == \A k \in 1 .. Len(buf.protos) : FollowsIn(k, {"jump"})

(* No jump lands right behind a copy: whoever reaches an instruction with  *)
(* copies in front of it has executed them.                                *)
NoSkippedCopy ==
  \A bc \in Codes : \A p \in DOMAIN bc :
    bc[p].kind = "jump" /\ Target(bc, p) > 1 => bc[Target(bc, p) - 1].id # 0

(* Rebuilding keeps every compiled instruction, in order.                  *)
OrderKept ==
  \A k \in 1 .. Len(buf.protos) :
    LET bc == buf.protos[k].code
        was == orig.protos[k].code
    IN  /\ {bc[p].id : p \in DOMAIN bc} \ {0} = DOMAIN was
        /\ \A p, q \in DOMAIN bc :
             p < q /\ bc[p].id # 0 /\ bc[q].id # 0 => bc[p].id < bc[q].id

(* The opcodes of a version 1 chunk are mapped exactly once, over retries  *)
(* and over conversions one after another: what the caller holds is        *)
(* numbered as its header says.                                            *)
RemapOnce ==
  /\ \A bc \in Codes : \A p \in DOMAIN bc : bc[p].enc # "bad"
  /\ \A k \in 1 .. Len(held.protos) : Numbered(held.protos[k].code, Numbering(held))

(* A request made in this conversion is for the prototype in hand and is   *)
(* gone before that prototype is patched again.                            *)
PendingOwned ==
  pending.active /\ pending.conv = convs /\ status # "idle"
    => pending.proto = proto /\ status = "rebuild"
=============================================================================
