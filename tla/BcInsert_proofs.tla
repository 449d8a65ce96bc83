-------------------------- MODULE BcInsert_proofs --------------------------
(***************************************************************************)
(* What BcInsert promises, for every chunk, every choice of insertions and *)
(* any number of conversions.                                              *)
(*                                                                         *)
(* A prototype is as it was compiled, but for the numbering of its         *)
(* opcodes, until it is prepared; from then on its jumps keep leading to   *)
(* the instruction they were compiled for, because inserting copies moves  *)
(* a jump, its target and all that lies between them consistently.         *)
(***************************************************************************)
EXTENDS BcInsert, TLAPS

(* The first compiled instruction at or after position t is number i.      *)
Lands(bc, t, i) ==
  \E q \in DOMAIN bc :
    /\ t <= q
    /\ bc[q].id = i /\ i # 0
    /\ \A s \in DOMAIN bc : t <= s /\ bc[s].id # 0 => q <= s

JumpsLand(bc, was) ==
  \A p \in DOMAIN bc :
    bc[p].id # 0 /\ bc[p].kind = "jump" => Lands(bc, Target(bc, p), Target(was, bc[p].id))

NothingSkipped(bc) ==
  \A p \in DOMAIN bc :
    bc[p].kind = "jump" /\ Target(bc, p) > 1 => bc[Target(bc, p) - 1].id # 0

(* Every compiled instruction is there once, and before those that come    *)
(* after it.                                                               *)
InOrder(bc, was) ==
  /\ {bc[p].id : p \in DOMAIN bc} \ {0} = DOMAIN was
  /\ \A p, q \in DOMAIN bc :
       p < q /\ bc[p].id # 0 /\ bc[q].id # 0 => bc[p].id < bc[q].id

Good(bc, was) == JumpsInside(bc) /\ JumpsLand(bc, was) /\ NothingSkipped(bc) /\ InOrder(bc, was)

(* No copy has been inserted and no jump moved.                            *)
Intact(bc, was) ==
  /\ DOMAIN bc = DOMAIN was
  /\ \A p \in DOMAIN bc : bc[p].id = p /\ bc[p].j = was[p].j

-----------------------------------------------------------------------------
(* Code.                                                                   *)
LEMMA TargetType ==
  ASSUME NEW bc \in Seq(Ins), NEW p \in DOMAIN bc
  PROVE  p \in Nat \ {0} /\ bc[p] \in Ins /\ bc[p].j \in Int /\ Target(bc, p) \in Int
<1>1. p \in Nat \ {0} /\ bc[p] \in Ins
  OBVIOUS
<1>2. bc[p].j \in Int
  BY <1>1 DEF Ins
<1> QED
  BY <1>1, <1>2 DEF Target

(* The definition of Landing picks what Lands describes.                   *)
LEMMA LandingIs ==
  ASSUME NEW bc \in Seq(Ins), NEW t \in Nat \ {0}, NEW i, Lands(bc, t, i)
  PROVE  Landing(bc, t) = i
<1> DEFINE rest == {q \in t .. Len(bc) : bc[q].id # 0}
           first(q) == \A s \in rest : q <= s
<1>1. DOMAIN bc = 1 .. Len(bc) /\ Len(bc) \in Nat
  OBVIOUS
<1>2. PICK q \in DOMAIN bc :
        /\ t <= q
        /\ bc[q].id = i /\ i # 0
        /\ \A s \in DOMAIN bc : t <= s /\ bc[s].id # 0 => q <= s
  BY DEF Lands
<1>3. q \in rest /\ first(q)
  BY <1>1, <1>2
<1>4. (CHOOSE r \in rest : first(r)) \in rest /\ first(CHOOSE r \in rest : first(r))
  BY <1>3
<1>5. (CHOOSE r \in rest : first(r)) = q
  <2> DEFINE r == CHOOSE r \in rest : first(r)
  <2>1. r \in rest /\ r <= q /\ q <= r
    BY <1>3, <1>4
  <2>2. r \in Int /\ q \in Int
    BY <2>1, <1>1
  <2> HIDE DEF r
  <2>3. r = q
    BY <2>1, <2>2
  <2> QED
    BY <2>3 DEF r
<1>6. rest # {}
  BY <1>3
<1> QED
  BY <1>2, <1>5, <1>6 DEF Landing

(* Code that is as it was compiled is good.                                *)
LEMMA IntactGood ==
  ASSUME NEW bc \in Seq(Ins), NEW was \in Seq(Ins), Intact(bc, was), JumpsInside(bc)
  PROVE  Good(bc, was)
<1>1. \A p \in DOMAIN bc : p \in Nat \ {0} /\ bc[p].id = p /\ bc[p].j \in Int /\ Target(bc, p) = Target(was, p)
  BY TargetType DEF Intact, Target
<1>2. ASSUME NEW p \in DOMAIN bc, bc[p].kind = "jump"
      PROVE  /\ Lands(bc, Target(bc, p), Target(was, bc[p].id))
             /\ Target(bc, p) > 1 => bc[Target(bc, p) - 1].id # 0
  <2>1. Target(bc, p) \in DOMAIN bc
    BY <1>2 DEF JumpsInside, Jumping
  <2>2. Target(bc, p) = Target(was, bc[p].id)
    BY <1>1
  <2>3. bc[Target(bc, p)].id = Target(bc, p) /\ Target(bc, p) \in Nat \ {0}
    BY <1>1, <2>1
  <2>4. Lands(bc, Target(bc, p), Target(was, bc[p].id))
    BY <1>1, <2>1, <2>2, <2>3 DEF Lands
  <2>5. Target(bc, p) > 1 => Target(bc, p) - 1 \in DOMAIN bc
    BY <2>1
  <2> QED
    BY <1>1, <2>4, <2>5
<1>3. InOrder(bc, was)
  <2>1. \A p \in DOMAIN bc : bc[p].id = p /\ p # 0 /\ p \in DOMAIN was
    BY <1>1 DEF Intact
  <2>2. \A p \in DOMAIN was : p \in DOMAIN bc
    BY DEF Intact
  <2> HIDE DEF Intact, Target
  <2>3. {bc[p].id : p \in DOMAIN bc} \ {0} = DOMAIN was
    BY <2>1, <2>2, Zenon
  <2>4. \A p, q \in DOMAIN bc :
          p < q /\ bc[p].id # 0 /\ bc[q].id # 0 => bc[p].id < bc[q].id
    BY <2>1, Zenon
  <2> QED
    BY <2>3, <2>4 DEF InOrder
<1> QED
  BY <1>2, <1>3 DEF Good, JumpsLand, NothingSkipped

(* Preparing code that is as it was compiled leaves it so, and numbers it  *)
(* as version 2.                                                           *)
LEMMA PreparedIntact ==
  ASSUME NEW bc \in Seq(Ins), NEW was \in Seq(Ins), Intact(bc, was), JumpsInside(bc),
         Unprepared, buf.version \in {1, 2}, Numbered(bc, Numbering(buf))
  PROVE  /\ Prepared(bc) \in Seq(Ins) /\ Len(Prepared(bc)) = Len(bc)
         /\ Intact(Prepared(bc), was) /\ JumpsInside(Prepared(bc))
         /\ Numbered(Prepared(bc), "v2")
<1> DEFINE new == Prepared(bc)
           changed(p) == [bc[p] EXCEPT
                            !.enc  = IF buf.version = 1 THEN Mapped(@) ELSE @,
                            !.kind = IF toFr2 /\ ~V1Path(buf, toFr2) THEN Despecialised(@) ELSE @]
<1>1. new = [p \in DOMAIN bc |-> changed(p)]
  BY DEF Prepared
<1>2. DOMAIN bc = 1 .. Len(bc) /\ Len(bc) \in Nat
  OBVIOUS
<1>3. ASSUME NEW p \in DOMAIN bc
      PROVE  /\ changed(p) \in Ins
             /\ changed(p).id = bc[p].id /\ changed(p).j = bc[p].j
             /\ changed(p).enc = "v2"
             /\ changed(p).kind \in Jumping => bc[p].kind \in Jumping
  <2>1. bc[p] \in Ins
    OBVIOUS
  <2>2. Despecialised(bc[p].kind) \in Kinds
        /\ (Despecialised(bc[p].kind) \in Jumping => bc[p].kind \in Jumping)
    BY <2>1 DEF Despecialised, Kinds, Jumping, Ins
  <2>3. bc[p].enc = IF buf.version = 1 THEN "v1" ELSE "v2"
    BY DEF Numbered, Numbering
  <2>4. (IF buf.version = 1 THEN Mapped(bc[p].enc) ELSE bc[p].enc) = "v2"
    BY <2>3 DEF Mapped
  <2> QED
    BY <2>1, <2>2, <2>4 DEF Ins
<1> HIDE DEF new, changed
<1>4. new \in Seq(Ins) /\ Len(new) = Len(bc) /\ DOMAIN new = DOMAIN bc
  <2>1. new = [p \in 1 .. Len(bc) |-> changed(p)]
    BY <1>1, <1>2
  <2>2. \A p \in 1 .. Len(bc) : changed(p) \in Ins
    BY <1>2, <1>3
  <2> QED
    BY <1>2, <2>1, <2>2
<1>5. \A p \in DOMAIN bc : new[p] = changed(p)
  BY <1>1
<1>6. Intact(new, was) /\ Numbered(new, "v2")
  BY <1>3, <1>4, <1>5 DEF Intact, Numbered
<1>7. JumpsInside(new)
  BY <1>3, <1>4, <1>5 DEF JumpsInside, Target
<1> QED
  BY <1>4, <1>6, <1>7 DEF new

-----------------------------------------------------------------------------
(* Inserting copies.                                                       *)
LEMMA MovedStrict ==
  ASSUME NEW req, req.pc \in Nat, req.count \in Nat, NEW p \in Int, NEW q \in Int, p < q
  PROVE  Moved(req, p) < Moved(req, q)
BY DEF Moved

(* The rebuilt code is the relocated old code with copies between.         *)
LEMMA RebuiltShape ==
  ASSUME NEW bc \in Seq(Ins), NEW req, req.count \in Nat, req.pc \in 1 .. Len(bc) + 1
  PROVE  /\ Rebuilt(req, bc) \in Seq(Ins)
         /\ Len(Rebuilt(req, bc)) = Len(bc) + req.count
         /\ \A p \in DOMAIN bc :
              /\ Moved(req, p) \in DOMAIN Rebuilt(req, bc)
              /\ Rebuilt(req, bc)[Moved(req, p)] = Relocated(req, bc, p)
         /\ \A q \in DOMAIN Rebuilt(req, bc) :
              \/ Rebuilt(req, bc)[q] = Copy
              \/ \E p \in DOMAIN bc : q = Moved(req, p) /\ Rebuilt(req, bc)[q] = Relocated(req, bc, p)
<1> DEFINE new == Rebuilt(req, bc)
           from(q) == CHOOSE p \in DOMAIN bc : Moved(req, p) = q
<1>1. DOMAIN bc = 1 .. Len(bc) /\ Len(bc) \in Nat
  OBVIOUS
<1>2. \A p \in DOMAIN bc : Moved(req, p) \in 1 .. Len(bc) + req.count
  BY <1>1 DEF Moved
<1>3. ASSUME NEW p \in DOMAIN bc
      PROVE  from(Moved(req, p)) = p
  <2>1. from(Moved(req, p)) \in DOMAIN bc /\ Moved(req, from(Moved(req, p))) = Moved(req, p)
    OBVIOUS
  <2>2. from(Moved(req, p)) \in Int /\ p \in Int
    BY <1>1, <2>1
  <2> HIDE DEF from
  <2>3. Moved(req, p) \in Int
    BY <1>2
  <2>4. ~(from(Moved(req, p)) < p) /\ ~(p < from(Moved(req, p)))
    BY <2>1, <2>2, <2>3, MovedStrict
  <2> QED
    BY <2>2, <2>4
<1>4. \A p \in DOMAIN bc : Relocated(req, bc, p) \in Ins
  <2>1. ASSUME NEW p \in DOMAIN bc, Adjusted(bc[p].kind)
        PROVE  [bc[p] EXCEPT !.j = Retargeted(req, Target(bc, p)) - Moved(req, p) - 1] \in Ins
    <3>1. Retargeted(req, Target(bc, p)) - Moved(req, p) - 1 \in Int
      BY TargetType DEF Retargeted, Moved
    <3> QED
      BY <3>1, TargetType DEF Ins
  <2> QED
    BY <2>1, TargetType DEF Relocated
<1>5. new = [q \in 1 .. Len(bc) + req.count |->
               IF \E p \in DOMAIN bc : Moved(req, p) = q THEN Relocated(req, bc, from(q)) ELSE Copy]
  BY DEF Rebuilt
<1>6. \A q : (\E p \in DOMAIN bc : Moved(req, p) = q) => from(q) \in DOMAIN bc /\ Moved(req, from(q)) = q
  OBVIOUS
<1> HIDE DEF new, from
<1>7. \A q \in 1 .. Len(bc) + req.count : new[q] \in Ins
  BY <1>4, <1>5, <1>6, CopyAssumption
<1>8. new \in Seq(Ins) /\ Len(new) = Len(bc) + req.count /\ DOMAIN new = 1 .. Len(bc) + req.count
  BY <1>1, <1>5, <1>7
<1>9. \A p \in DOMAIN bc : Moved(req, p) \in DOMAIN new /\ new[Moved(req, p)] = Relocated(req, bc, p)
  BY <1>2, <1>3, <1>5, <1>8
<1>10. \A q \in DOMAIN new :
         new[q] = Copy \/ \E p \in DOMAIN bc : q = Moved(req, p) /\ new[q] = Relocated(req, bc, p)
  BY <1>5, <1>6, <1>8
<1> QED
  BY <1>8, <1>9, <1>10 DEF new

(* A relocated instruction keeps what it is, and leads to the place its    *)
(* target has moved to, or - if it is a jump nobody adjusts - just as far. *)
LEMMA RelocatedIs ==
  ASSUME NEW bc \in Seq(Ins), NEW req, req.count \in Nat, req.pc \in 1 .. Len(bc) + 1, NEW p \in DOMAIN bc
  PROVE  /\ Relocated(req, bc, p).id = bc[p].id
         /\ Relocated(req, bc, p).kind = bc[p].kind
         /\ Relocated(req, bc, p).enc = bc[p].enc
         /\ bc[p].kind = "jump" =>
              Target(Rebuilt(req, bc), Moved(req, p)) = Retargeted(req, Target(bc, p))
         /\ bc[p].kind # "jump" =>
              Target(Rebuilt(req, bc), Moved(req, p)) = Target(bc, p) + (Moved(req, p) - p)
<1>1. bc[p] \in Ins /\ p \in Int /\ Target(bc, p) \in Int
  BY TargetType
<1>2. Moved(req, p) \in Int /\ Retargeted(req, Target(bc, p)) \in Int
  BY <1>1 DEF Moved, Retargeted
<1>3. Rebuilt(req, bc)[Moved(req, p)] = Relocated(req, bc, p)
  BY RebuiltShape
<1>4. /\ Relocated(req, bc, p).id = bc[p].id
      /\ Relocated(req, bc, p).kind = bc[p].kind
      /\ Relocated(req, bc, p).enc = bc[p].enc
      /\ bc[p].kind = "jump" => Relocated(req, bc, p).j = Retargeted(req, Target(bc, p)) - Moved(req, p) - 1
      /\ bc[p].kind # "jump" => Relocated(req, bc, p).j = bc[p].j
  BY <1>1 DEF Relocated, Adjusted, Ins
<1>5. Target(bc, p) = p + 1 + bc[p].j /\ bc[p].j \in Int
  BY <1>1 DEF Target, Ins
<1>6. Target(Rebuilt(req, bc), Moved(req, p)) = Moved(req, p) + 1 + Relocated(req, bc, p).j
  BY <1>3 DEF Target
<1>7. bc[p].kind = "jump" =>
        Target(Rebuilt(req, bc), Moved(req, p)) = Retargeted(req, Target(bc, p))
  BY <1>2, <1>4, <1>6
<1>8. bc[p].kind # "jump" =>
        Target(Rebuilt(req, bc), Moved(req, p)) = Target(bc, p) + (Moved(req, p) - p)
  <2>1. ASSUME bc[p].kind # "jump"
        PROVE  Target(Rebuilt(req, bc), Moved(req, p)) = Moved(req, p) + 1 + bc[p].j
    BY <1>4, <1>6, <2>1
  <2>2. \A m, j, n \in Int : m + 1 + j = (n + 1 + j) + (m - n)
    OBVIOUS
  <2>3. Moved(req, p) + 1 + bc[p].j = (p + 1 + bc[p].j) + (Moved(req, p) - p)
    BY <1>1, <1>2, <1>5, <2>2, Zenon
  <2> QED
    BY <1>5, <2>1, <2>3
<1> QED
  BY <1>4, <1>7, <1>8

(* Where a jump that follows its target lands is where the target landed.  *)
LEMMA LandingMoves ==
  ASSUME NEW bc \in Seq(Ins), NEW req, req.count \in Nat, req.pc \in 1 .. Len(bc) + 1,
         NEW t \in Int, NEW i, Lands(bc, t, i)
  PROVE  Lands(Rebuilt(req, bc), Retargeted(req, t), i)
<1> DEFINE new == Rebuilt(req, bc)
<1>1. PICK q \in DOMAIN bc :
        /\ t <= q
        /\ bc[q].id = i /\ i # 0
        /\ \A s \in DOMAIN bc : t <= s /\ bc[s].id # 0 => q <= s
  BY DEF Lands
<1>2. q \in Int /\ req.pc \in Int
  OBVIOUS
<1>3. Moved(req, q) \in DOMAIN new /\ new[Moved(req, q)].id = i /\ Moved(req, q) \in Int
  BY <1>1, <1>2, RebuiltShape, RelocatedIs DEF Moved
<1>4. Retargeted(req, t) <= Moved(req, q)
  BY <1>1, <1>2 DEF Retargeted, Moved
<1>5. ASSUME NEW s \in DOMAIN new, Retargeted(req, t) <= s, new[s].id # 0
      PROVE  Moved(req, q) <= s
  <2>1. new[s] # Copy
    BY <1>5 DEF Copy
  <2>2. PICK p \in DOMAIN bc : s = Moved(req, p) /\ new[s] = Relocated(req, bc, p)
    BY <2>1, RebuiltShape
  <2>3. bc[p].id # 0 /\ p \in Int
    BY <1>5, <2>2, RelocatedIs
  <2>4. t <= p
    BY <1>2, <1>5, <2>2, <2>3 DEF Retargeted, Moved
  <2>5. q <= p
    BY <1>1, <2>3, <2>4
  <2> QED
    BY <1>2, <2>2, <2>3, <2>5 DEF Moved
<1> QED
  BY <1>1, <1>3, <1>4, <1>5 DEF Lands

(* Rebuilding keeps code good, and its opcodes numbered.                   *)
LEMMA RebuiltGood ==
  ASSUME NEW bc \in Seq(Ins), NEW was \in Seq(Ins), Good(bc, was), Numbered(bc, "v2"),
         NEW req, req.count \in Nat, req.pc \in 1 .. Len(bc) + 1
  PROVE  Good(Rebuilt(req, bc), was) /\ Numbered(Rebuilt(req, bc), "v2")
<1> DEFINE new == Rebuilt(req, bc)
<1>1. new \in Seq(Ins) /\ DOMAIN new = 1 .. Len(bc) + req.count /\ Len(bc) \in Nat /\ DOMAIN bc = 1 .. Len(bc)
  BY RebuiltShape
<1>2. ASSUME NEW q \in DOMAIN new
      PROVE  new[q] = Copy \/ \E p \in DOMAIN bc : q = Moved(req, p) /\ new[q] = Relocated(req, bc, p)
  BY RebuiltShape
<1>3. Copy.enc = "v2" /\ Copy.kind = "plain" /\ Copy.id = 0
  BY DEF Copy
<1> HIDE DEF new
<1>4. Numbered(new, "v2")
  BY <1>2, <1>3, RelocatedIs DEF Numbered
<1>5. ASSUME NEW q \in DOMAIN new, new[q].kind \in Jumping
      PROVE  Target(new, q) \in DOMAIN new
  <2>1. PICK p \in DOMAIN bc : q = Moved(req, p) /\ new[q] = Relocated(req, bc, p)
    BY <1>2, <1>3, <1>5 DEF Jumping
  <2>2. bc[p].kind \in Jumping /\ p \in Int
    BY <1>5, <2>1, RelocatedIs
  <2>3. Target(bc, p) \in 1 .. Len(bc)
    BY <1>1, <2>2 DEF Good, JumpsInside
  <2>4. CASE bc[p].kind = "jump"
    <3>1. Target(new, q) = Retargeted(req, Target(bc, p))
      BY <2>1, <2>4, RelocatedIs DEF new
    <3> QED
      BY <1>1, <2>3, <3>1 DEF Retargeted
  <2>5. CASE bc[p].kind # "jump"
    <3>1. Target(new, q) = Target(bc, p) + (Moved(req, p) - p)
      BY <2>1, <2>5, RelocatedIs DEF new
    <3> QED
      BY <1>1, <2>2, <2>3, <3>1 DEF Moved
  <2> QED
    BY <2>4, <2>5
<1>6. ASSUME NEW q \in DOMAIN new, new[q].kind = "jump"
      PROVE  /\ new[q].id # 0 => Lands(new, Target(new, q), Target(was, new[q].id))
             /\ Target(new, q) > 1 => new[Target(new, q) - 1].id # 0
  <2>1. PICK p \in DOMAIN bc : q = Moved(req, p) /\ new[q] = Relocated(req, bc, p)
    BY <1>2, <1>3, <1>6
  <2>2. bc[p].kind = "jump" /\ bc[p].id = new[q].id
    BY <1>6, <2>1, RelocatedIs
  <2>3. Target(bc, p) \in 1 .. Len(bc) /\ Target(bc, p) \in Int
    BY <1>1, <2>2 DEF Good, JumpsInside, Jumping
  <2>4. Target(new, q) = Retargeted(req, Target(bc, p))
    BY <2>1, <2>2, RelocatedIs DEF new
  <2>5. new[q].id # 0 => Lands(new, Target(new, q), Target(was, new[q].id))
    BY <2>2, <2>3, <2>4, LandingMoves DEF Good, JumpsLand, new
  <2>6. ASSUME Target(new, q) > 1
        PROVE  new[Target(new, q) - 1].id # 0
    <3> DEFINE t == Target(bc, p)
    <3>1. t > 1 /\ t - 1 \in DOMAIN bc
      BY <1>1, <2>3, <2>4, <2>6 DEF Retargeted
    <3>2. bc[t - 1].id # 0
      BY <2>2, <3>1 DEF Good, NothingSkipped
    <3>3. Moved(req, t - 1) = Target(new, q) - 1
      <4>1. t \in Int /\ req.pc \in Int
        BY <1>1, <2>3
      <4> HIDE DEF t
      <4>2. Moved(req, t - 1) = Retargeted(req, t) - 1
        BY <4>1 DEF Retargeted, Moved
      <4> QED
        BY <2>4, <4>2 DEF t
    <3>4. new[Moved(req, t - 1)] = Relocated(req, bc, t - 1)
      BY <3>1, RebuiltShape DEF new
    <3> QED
      BY <3>1, <3>2, <3>3, <3>4, RelocatedIs
  <2> QED
    BY <2>5, <2>6
<1>7. InOrder(new, was)
  <2>1. \A q \in DOMAIN new :
          new[q].id # 0 => \E p \in DOMAIN bc : q = Moved(req, p) /\ bc[p].id = new[q].id
    BY <1>2, <1>3, RelocatedIs
  <2>2. ASSUME NEW p \in DOMAIN bc
        PROVE  \E q \in DOMAIN new : new[q].id = bc[p].id
    <3>1. Moved(req, p) \in DOMAIN new /\ new[Moved(req, p)] = Relocated(req, bc, p)
      BY RebuiltShape DEF new
    <3>2. new[Moved(req, p)].id = bc[p].id
      BY <3>1, RelocatedIs
    <3> QED
      BY <3>1, <3>2
  <2>3. \A i : i # 0 =>
          ((\E q \in DOMAIN new : i = new[q].id) <=> (\E p \in DOMAIN bc : i = bc[p].id))
    BY <2>1, <2>2
  <2>4. {new[q].id : q \in DOMAIN new} \ {0} = {bc[p].id : p \in DOMAIN bc} \ {0}
    BY <2>3
  <2>5. ASSUME NEW q \in DOMAIN new, NEW s \in DOMAIN new, q < s, new[q].id # 0, new[s].id # 0
        PROVE  new[q].id < new[s].id
    <3>1. PICK p \in DOMAIN bc : q = Moved(req, p) /\ bc[p].id = new[q].id
      BY <2>1, <2>5
    <3>2. PICK r \in DOMAIN bc : s = Moved(req, r) /\ bc[r].id = new[s].id
      BY <2>1, <2>5
    <3>3. p \in Int /\ r \in Int /\ req.pc \in Int
      BY <1>1
    <3>4. p < r
      <4>1. Moved(req, p) < Moved(req, r)
        BY <2>5, <3>1, <3>2
      <4> QED
        BY <3>3, <4>1 DEF Moved
    <3> QED
      BY <2>5, <3>1, <3>2, <3>4 DEF Good, InOrder
  <2> QED
    BY <2>4, <2>5 DEF Good, InOrder
<1>8. Good(new, was)
  BY <1>5, <1>6, <1>7 DEF Good, JumpsInside, JumpsLand, NothingSkipped
<1> QED
  BY <1>4, <1>8 DEF new

-----------------------------------------------------------------------------
(* The inductive invariant.                                                *)
CodeOf(c, k) == c.protos[k].code

Done(k) == k < proto \/ (k = proto /\ (retry = proto \/ status = "rebuild"))

(* The prototypes the driver is done with, or has begun, are numbered as   *)
(* version 2, the others as the header says.                               *)
StageNumbered ==
  status # "idle" =>
    \A k \in 1 .. Len(buf.protos) :
      Numbered(CodeOf(buf, k), IF Done(k) THEN "v2" ELSE Numbering(buf))

(* What has not been converted to FR2 has had no copies inserted.          *)
StageIntact ==
  /\ status # "idle" =>
       \A k \in 1 .. Len(buf.protos) : ~Done(k) \/ ~toFr2 => Intact(CodeOf(buf, k), CodeOf(orig, k))
  /\ ~held.fr2 => \A k \in 1 .. Len(held.protos) : Intact(CodeOf(held, k), CodeOf(orig, k))

AllGood ==
  \A c \in {buf, held} : \A k \in 1 .. Len(c.protos) : Good(CodeOf(c, k), CodeOf(orig, k))

HeldNumbered == \A k \in 1 .. Len(held.protos) : Numbered(CodeOf(held, k), Numbering(held))

Protocol ==
  /\ status = "idle" => buf = held
  /\ status # "idle" => retry \in {0, proto} /\ ~held.fr2 /\ ~buf.fr2
  /\ status = "rebuild" =>
       /\ toFr2 /\ proto <= Len(buf.protos)
       /\ pending.active /\ pending.proto = proto
       /\ pending.pc \in 1 .. Len(CodeOf(buf, proto)) + 1
  /\ pending.conv <= convs
  /\ status = "patch" /\ pending.active => pending.conv < convs

IInv == TypeOK /\ StageNumbered /\ StageIntact /\ AllGood /\ HeldNumbered /\ Protocol

Protos == [code : Seq(Ins)]

LEMMA ProtosType ==
  ASSUME NEW c \in Chunk
  PROVE  c.protos \in Seq(Protos) /\ Len(c.protos) \in Nat /\ DOMAIN c.protos = 1 .. Len(c.protos)
<1>1. c.protos \in Seq(Protos)
  BY DEF Chunk, Protos
<1> QED
  BY <1>1

(* What a prototype of a chunk holds.                                      *)
LEMMA CodeType ==
  ASSUME NEW c \in Chunk, NEW k \in 1 .. Len(c.protos)
  PROVE  c.protos \in Seq(Protos) /\ c.protos[k] \in Protos /\ CodeOf(c, k) \in Seq(Ins)
<1>1. c.protos \in Seq(Protos)
  BY ProtosType
<1>2. c.protos[k] \in Protos
  BY <1>1
<1> QED
  BY <1>1, <1>2 DEF CodeOf, Protos

(* Replacing the code of one prototype.                                    *)
LEMMA WithCodeIs ==
  ASSUME buf \in Chunk, proto \in 1 .. Len(buf.protos), NEW bc \in Seq(Ins)
  PROVE  /\ WithCode(bc) \in Chunk
         /\ WithCode(bc).version = buf.version /\ WithCode(bc).fr2 = buf.fr2
         /\ Len(WithCode(bc).protos) = Len(buf.protos)
         /\ CodeOf(WithCode(bc), proto) = bc
         /\ \A k \in 1 .. Len(buf.protos) : k # proto => CodeOf(WithCode(bc), k) = CodeOf(buf, k)
<1> DEFINE new == [buf.protos EXCEPT ![proto].code = bc]
           changed == [buf.protos[proto] EXCEPT !.code = bc]
<1>1. buf.protos \in Seq(Protos) /\ buf.protos[proto] \in Protos
  BY CodeType
<1>2. changed \in Protos /\ changed.code = bc
  BY <1>1 DEF Protos
<1>3. /\ new \in Seq(Protos) /\ Len(new) = Len(buf.protos)
      /\ new[proto].code = bc
      /\ \A k \in 1 .. Len(buf.protos) : k # proto => new[k] = buf.protos[k]
  BY <1>1, <1>2
<1>4. WithCode(bc) = [buf EXCEPT !.protos = new]
  BY DEF WithCode
<1> HIDE DEF new
<1>5. WithCode(bc) \in Chunk /\ WithCode(bc).protos = new
      /\ WithCode(bc).version = buf.version /\ WithCode(bc).fr2 = buf.fr2
  BY <1>3, <1>4 DEF Chunk, Protos
<1> QED
  BY <1>3, <1>5 DEF CodeOf

(* A chunk as the host passes it in.                                       *)
LEMMA FreshChunk ==
  ASSUME NEW c \in Chunks
  PROVE  /\ c \in Chunk
         /\ \A k \in 1 .. Len(c.protos) :
              /\ CodeOf(c, k) \in Seq(Ins)
              /\ JumpsInside(CodeOf(c, k))
              /\ Numbered(CodeOf(c, k), Numbering(c))
              /\ Intact(CodeOf(c, k), CodeOf(c, k))
              /\ Good(CodeOf(c, k), CodeOf(c, k))
<1>1. IsChunk(c)
  BY ChunksAssumption
<1>2. c \in Chunk
  BY <1>1 DEF IsChunk
<1>3. ASSUME NEW k \in 1 .. Len(c.protos)
      PROVE  CodeOf(c, k) \in Seq(Ins) /\ IsPrototype(CodeOf(c, k), Numbering(c))
  BY <1>1, <1>2, CodeType DEF IsChunk, CodeOf
<1> QED
  BY <1>2, <1>3, IntactGood DEF IsPrototype, Intact

LEMMA InitInv == Init => IInv
<1> SUFFICES ASSUME Init PROVE IInv
  OBVIOUS
<1> USE DEF Init
<1>1. orig \in Chunks /\ held = orig /\ buf = orig /\ status = "idle"
  OBVIOUS
<1>2. TypeOK
  <2>1. orig \in Chunk /\ Len(orig.protos) \in Nat
    BY <1>1, FreshChunk, ProtosType
  <2>2. \A k \in 1 .. Len(orig.protos) : JumpsInside(orig.protos[k].code)
    BY <1>1, FreshChunk DEF CodeOf
  <2>3. pending \in [active : BOOLEAN, conv : 0 .. MaxConvs, proto : Nat, pc : Nat,
                     count : 0 .. MaxBatch, allow : BOOLEAN]
    BY BoundsAssumption DEF NoRequest
  <2>4. convs \in 0 .. MaxConvs /\ inserts \in 0 .. MaxInserts
    BY BoundsAssumption
  <2>5. \A c \in {held, buf} :
          /\ c \in Chunk
          /\ Len(c.protos) = Len(orig.protos)
          /\ \A k \in 1 .. Len(c.protos) : JumpsInside(c.protos[k].code)
    BY <1>1, <2>1, <2>2
  <2>6. proto \in 1 .. Len(buf.protos) + 1 /\ retry \in 0 .. Len(buf.protos)
    BY <1>1, <2>1
  <2>7. orig \in Chunks /\ toFr2 \in BOOLEAN /\ status \in {"idle", "patch", "rebuild"}
    OBVIOUS
  <2> HIDE DEF Init
  <2> QED
    BY <2>3, <2>4, <2>5, <2>6, <2>7 DEF TypeOK
<1>3. StageNumbered /\ StageIntact /\ AllGood /\ HeldNumbered
  BY <1>1, FreshChunk DEF StageNumbered, StageIntact, AllGood, HeldNumbered
<1>4. Protocol
  BY <1>1 DEF Protocol, NoRequest
<1> QED
  BY <1>2, <1>3, <1>4 DEF IInv

-----------------------------------------------------------------------------
(* The steps.                                                              *)

(* What the invariant says of prototype k of the buffer.                   *)
LEMMA BufferFacts ==
  ASSUME IInv, NEW k \in 1 .. Len(buf.protos)
  PROVE  /\ buf \in Chunk /\ orig \in Chunk /\ buf.version \in {1, 2}
         /\ Len(orig.protos) = Len(buf.protos)
         /\ CodeOf(buf, k) \in Seq(Ins) /\ CodeOf(orig, k) \in Seq(Ins)
         /\ Good(CodeOf(buf, k), CodeOf(orig, k)) /\ JumpsInside(CodeOf(buf, k))
         /\ status # "idle" =>
              /\ Numbered(CodeOf(buf, k), IF Done(k) THEN "v2" ELSE Numbering(buf))
              /\ ~Done(k) \/ ~toFr2 => Intact(CodeOf(buf, k), CodeOf(orig, k))
<1>1. buf \in Chunk /\ orig \in Chunk /\ Len(orig.protos) = Len(buf.protos)
  BY FreshChunk DEF IInv, TypeOK
<1>2. buf.version \in {1, 2}
  BY <1>1 DEF Chunk
<1>3. CodeOf(buf, k) \in Seq(Ins) /\ CodeOf(orig, k) \in Seq(Ins)
  BY <1>1, CodeType
<1>4. Good(CodeOf(buf, k), CodeOf(orig, k)) /\ JumpsInside(CodeOf(buf, k))
  BY DEF IInv, AllGood, Good
<1> QED
  BY <1>1, <1>2, <1>3, <1>4 DEF IInv, StageNumbered, StageIntact

(* Preparing the prototype in hand, for the first time or again.           *)
LEMMA PreparedGood ==
  ASSUME IInv, status = "patch", proto \in 1 .. Len(buf.protos)
  PROVE  /\ Prepared(Code) \in Seq(Ins) /\ Len(Prepared(Code)) = Len(Code)
         /\ Good(Prepared(Code), CodeOf(orig, proto))
         /\ Numbered(Prepared(Code), "v2")
         /\ ~toFr2 => Intact(Prepared(Code), CodeOf(orig, proto))
<1>1. Code = CodeOf(buf, proto)
  BY DEF Code, CodeOf
<1>2. CASE Unprepared
  <2>1. ~Done(proto)
    <3>1. proto \in Int
      OBVIOUS
    <3> QED
      BY <1>2, <3>1 DEF Unprepared, Done
  <2>2. Numbered(Code, Numbering(buf)) /\ Intact(Code, CodeOf(orig, proto))
    BY <1>1, <2>1, BufferFacts
  <2> QED
    BY <1>1, <1>2, <2>2, BufferFacts, PreparedIntact, IntactGood
<1>3. CASE ~Unprepared
  <2>1. Prepared(Code) = Code /\ Done(proto)
    BY <1>3 DEF Prepared, Unprepared, Done
  <2> QED
    BY <1>1, <2>1, BufferFacts
<1> QED
  BY <1>2, <1>3

(* A step that gives the prototype in hand good code.                      *)
LEMMA Replaced ==
  ASSUME IInv, status # "idle", proto \in 1 .. Len(buf.protos),
         NEW bc \in Seq(Ins), Good(bc, CodeOf(orig, proto)), Numbered(bc, "v2"),
         ~toFr2 => Intact(bc, CodeOf(orig, proto)),
         buf' = WithCode(bc), UNCHANGED <<orig, held, toFr2>>, status' # "idle",
         \A k \in 1 .. Len(buf.protos) : Done(k)' <=> Done(k) \/ k = proto
  PROVE  /\ StageNumbered' /\ StageIntact' /\ AllGood' /\ HeldNumbered'
         /\ Len(buf'.protos) = Len(buf.protos)
         /\ buf'.fr2 = buf.fr2
         /\ CodeOf(buf', proto) = bc
         /\ orig' \in Chunks
         /\ \A c \in {held', buf'} :
              /\ c \in Chunk
              /\ Len(c.protos) = Len(orig'.protos)
              /\ \A k \in 1 .. Len(c.protos) : JumpsInside(c.protos[k].code)
<1>1. buf \in Chunk /\ Len(orig.protos) = Len(buf.protos)
  BY BufferFacts
<1>2. /\ buf' \in Chunk
      /\ buf'.version = buf.version /\ buf'.fr2 = buf.fr2
      /\ Len(buf'.protos) = Len(buf.protos)
      /\ CodeOf(buf', proto) = bc
      /\ \A k \in 1 .. Len(buf.protos) : k # proto => CodeOf(buf', k) = CodeOf(buf, k)
  BY <1>1, WithCodeIs
<1>3. Numbering(buf') = Numbering(buf)
  BY <1>2 DEF Numbering
<1>4. ASSUME NEW k \in 1 .. Len(buf.protos)
      PROVE  /\ Numbered(CodeOf(buf', k), IF Done(k)' THEN "v2" ELSE Numbering(buf'))
             /\ ~Done(k)' \/ ~toFr2 => Intact(CodeOf(buf', k), CodeOf(orig, k))
             /\ Good(CodeOf(buf', k), CodeOf(orig, k))
  <2>1. CASE k = proto
    BY <1>2, <2>1
  <2>2. CASE k # proto
    <3>1. CodeOf(buf', k) = CodeOf(buf, k) /\ (Done(k)' <=> Done(k))
      BY <1>2, <2>2
    <3> QED
      BY <1>3, <3>1, BufferFacts
  <2> QED
    BY <2>1, <2>2
<1>5. StageNumbered'
  BY <1>2, <1>4 DEF StageNumbered
<1>6. StageIntact'
  <2>1. held' = held /\ orig' = orig /\ toFr2' = toFr2
    OBVIOUS
  <2>2. ~held.fr2 => \A k \in 1 .. Len(held.protos) : Intact(CodeOf(held, k), CodeOf(orig, k))
    BY DEF IInv, StageIntact
  <2> QED
    BY <1>2, <1>4, <2>1, <2>2 DEF StageIntact
<1>7. AllGood'
  BY <1>2, <1>4 DEF AllGood, IInv
<1>8. HeldNumbered'
  <2>1. HeldNumbered /\ held' = held
    BY DEF IInv
  <2> QED
    BY <2>1 DEF HeldNumbered
<1>9. \A k \in 1 .. Len(buf'.protos) : JumpsInside(buf'.protos[k].code)
  BY <1>2, <1>4 DEF Good, CodeOf
<1>10. orig' \in Chunks /\ Len(held'.protos) = Len(orig'.protos) /\ held' \in Chunk
       /\ \A k \in 1 .. Len(held'.protos) : JumpsInside(held'.protos[k].code)
  BY DEF IInv, TypeOK
<1>11. Len(buf'.protos) = Len(orig'.protos)
  BY <1>1, <1>2
<1> QED
  BY <1>2, <1>5, <1>6, <1>7, <1>8, <1>9, <1>10, <1>11

(* The parts of the type invariant that no step disturbs by replacing code.*)
Scalars ==
  /\ toFr2 \in BOOLEAN
  /\ pending \in [active : BOOLEAN, conv : 0 .. MaxConvs, proto : Nat, pc : Nat,
                  count : 0 .. MaxBatch, allow : BOOLEAN]
  /\ status \in {"idle", "patch", "rebuild"}
  /\ convs \in 0 .. MaxConvs
  /\ inserts \in 0 .. MaxInserts

LEMMA ScalarFacts ==
  ASSUME IInv
  PROVE  /\ Scalars
         /\ proto \in 1 .. Len(buf.protos) + 1 /\ retry \in 0 .. Len(buf.protos)
         /\ Len(buf.protos) \in Nat /\ Len(held.protos) = Len(buf.protos)
         /\ pending.conv \in Nat /\ pending.pc \in Nat /\ pending.count \in Nat
         /\ convs \in Nat
<1>1. buf \in Chunk /\ Len(buf.protos) = Len(orig.protos) /\ Len(held.protos) = Len(orig.protos)
  BY DEF IInv, TypeOK
<1>2. Len(buf.protos) \in Nat
  BY <1>1, ProtosType
<1>3. Scalars
  BY DEF IInv, TypeOK, Scalars
<1>4. pending.conv \in 0 .. MaxConvs /\ pending.pc \in Nat /\ pending.count \in 0 .. MaxBatch
  BY <1>3 DEF Scalars
<1>5. pending.conv \in Nat /\ pending.pc \in Nat /\ pending.count \in Nat /\ convs \in Nat
  BY <1>3, <1>4, BoundsAssumption DEF Scalars
<1>6. proto \in 1 .. Len(buf.protos) + 1 /\ retry \in 0 .. Len(buf.protos)
  BY DEF IInv, TypeOK
<1> QED
  BY <1>1, <1>2, <1>3, <1>5, <1>6

LEMMA NoRequestType ==
  /\ NoRequest \in [active : BOOLEAN, conv : 0 .. MaxConvs, proto : Nat, pc : Nat,
                    count : 0 .. MaxBatch, allow : BOOLEAN]
  /\ NoRequest.conv = 0 /\ ~NoRequest.active
BY BoundsAssumption DEF NoRequest

(* The prototype is patched.                                               *)
LEMMA PatchProtoInv == IInv /\ PatchProto => IInv'
<1> SUFFICES ASSUME IInv, PatchProto PROVE IInv'
  OBVIOUS
<1>1. /\ status = "patch" /\ status' = "patch"
      /\ proto' = proto + 1 /\ retry' = 0
      /\ buf' = WithCode(Prepared(Code))
      /\ UNCHANGED <<orig, held, toFr2, pending, convs, inserts>>
  BY DEF PatchProto
<1>2. proto \in 1 .. Len(buf.protos) /\ Len(buf.protos) \in Nat
  BY ScalarFacts DEF PatchProto
<1>3. \A k \in 1 .. Len(buf.protos) : Done(k)' <=> Done(k) \/ k = proto
  BY <1>1, <1>2 DEF Done
<1>4. /\ StageNumbered' /\ StageIntact' /\ AllGood' /\ HeldNumbered'
      /\ Len(buf'.protos) = Len(buf.protos) /\ buf'.fr2 = buf.fr2
      /\ orig' \in Chunks
      /\ \A c \in {held', buf'} :
           /\ c \in Chunk
           /\ Len(c.protos) = Len(orig'.protos)
           /\ \A k \in 1 .. Len(c.protos) : JumpsInside(c.protos[k].code)
  <2>1. status # "idle" /\ status' # "idle" /\ UNCHANGED <<orig, held, toFr2>>
    BY <1>1
  <2> QED
    BY <1>1, <1>2, <1>3, <2>1, PreparedGood, Replaced
<1>5. Scalars'
  BY <1>1, ScalarFacts DEF Scalars
<1>6. proto' \in 1 .. Len(buf'.protos) + 1 /\ retry' \in 0 .. Len(buf'.protos)
  BY <1>1, <1>2, <1>4
<1>7. TypeOK'
  BY <1>4, <1>5, <1>6 DEF TypeOK, Scalars
<1>8. Protocol'
  BY <1>1, <1>4 DEF IInv, Protocol
<1> QED
  BY <1>4, <1>7, <1>8 DEF IInv

(* Copies are asked for.                                                   *)
LEMMA ScheduleCopiesInv == IInv /\ ScheduleCopies => IInv'
<1> SUFFICES ASSUME IInv, ScheduleCopies PROVE IInv'
  OBVIOUS
<1>1. /\ status = "patch" /\ status' = "rebuild" /\ toFr2
      /\ buf' = WithCode(Prepared(Code))
      /\ inserts < MaxInserts /\ inserts' = inserts + 1
      /\ UNCHANGED <<orig, held, toFr2, proto, retry, convs>>
  BY DEF ScheduleCopies
<1>2. proto \in 1 .. Len(buf.protos) /\ Len(buf.protos) \in Nat
  BY ScalarFacts DEF ScheduleCopies
<1>3. \A k \in 1 .. Len(buf.protos) : Done(k)' <=> Done(k) \/ k = proto
  BY <1>1, <1>2 DEF Done
<1>4. /\ StageNumbered' /\ StageIntact' /\ AllGood' /\ HeldNumbered'
      /\ Len(buf'.protos) = Len(buf.protos) /\ buf'.fr2 = buf.fr2
      /\ CodeOf(buf', proto) = Prepared(Code)
      /\ orig' \in Chunks
      /\ \A c \in {held', buf'} :
           /\ c \in Chunk
           /\ Len(c.protos) = Len(orig'.protos)
           /\ \A k \in 1 .. Len(c.protos) : JumpsInside(c.protos[k].code)
  <2>1. status # "idle" /\ status' # "idle" /\ UNCHANGED <<orig, held, toFr2>>
    BY <1>1
  <2> QED
    BY <1>1, <1>2, <1>3, <2>1, PreparedGood, Replaced
<1>5. PICK pc \in 1 .. Len(Code) + 1, n \in 1 .. MaxBatch, allow \in BOOLEAN :
        pending' = [active |-> TRUE, conv |-> convs, proto |-> proto,
                    pc |-> pc, count |-> n, allow |-> allow]
  BY DEF ScheduleCopies
<1>6. Code \in Seq(Ins) /\ Len(Prepared(Code)) = Len(Code) /\ Len(Code) \in Nat
  <2>1. Code \in Seq(Ins)
    BY <1>2, BufferFacts DEF Code, CodeOf
  <2> QED
    BY <1>1, <1>2, <2>1, PreparedGood
<1>7. pc \in Nat /\ n \in 0 .. MaxBatch /\ proto \in Nat /\ convs \in 0 .. MaxConvs
  BY <1>2, <1>6, ScalarFacts, BoundsAssumption DEF Scalars
<1>8. pending' \in [active : BOOLEAN, conv : 0 .. MaxConvs, proto : Nat, pc : Nat,
                    count : 0 .. MaxBatch, allow : BOOLEAN]
  BY <1>5, <1>7
<1>9. Scalars'
  <2>1. inserts' \in 0 .. MaxInserts
    <3>1. MaxInserts \in Nat
      BY BoundsAssumption
    <3>2. inserts \in 0 .. MaxInserts
      BY ScalarFacts DEF Scalars
    <3>3. inserts < MaxInserts /\ inserts' = inserts + 1
      BY <1>1
    <3> QED
      BY ONLY <3>1, <3>2, <3>3
  <2> QED
    BY <1>1, <1>8, <2>1, ScalarFacts DEF Scalars
<1>10. proto' \in 1 .. Len(buf'.protos) + 1 /\ retry' \in 0 .. Len(buf'.protos)
  BY <1>1, <1>2, <1>4, ScalarFacts
<1>11. TypeOK'
  BY <1>4, <1>9, <1>10 DEF TypeOK, Scalars
<1>12. Protocol'
  <2>1. /\ pending'.active /\ pending'.conv = convs /\ pending'.proto = proto
        /\ pending'.pc \in 1 .. Len(CodeOf(buf', proto)) + 1
    BY <1>4, <1>5, <1>6
  <2>2. convs \in Nat
    BY ScalarFacts
  <2> QED
    BY <1>1, <1>2, <1>4, <2>1, <2>2 DEF IInv, Protocol
<1> QED
  BY <1>4, <1>11, <1>12 DEF IInv

(* The chunk is rebuilt with the copies.                                   *)
LEMMA RebuildInv == IInv /\ Rebuild => IInv'
<1> SUFFICES ASSUME IInv, Rebuild PROVE IInv'
  OBVIOUS
<1>1. /\ status = "rebuild" /\ status' = "patch"
      /\ buf' = WithCode(Rebuilt(pending, Code))
      /\ pending' = NoRequest /\ retry' = proto
      /\ UNCHANGED <<orig, held, toFr2, proto, convs, inserts>>
  BY DEF Rebuild, ClearPending
<1>2. /\ toFr2 /\ proto \in 1 .. Len(buf.protos) /\ Len(buf.protos) \in Nat
      /\ pending.count \in Nat /\ pending.pc \in 1 .. Len(Code) + 1
  BY <1>1, ScalarFacts DEF IInv, Protocol, Code, CodeOf
<1>3. \A k \in 1 .. Len(buf.protos) : Done(k)' <=> Done(k) \/ k = proto
  BY <1>1, <1>2 DEF Done
<1>4. /\ Rebuilt(pending, Code) \in Seq(Ins)
      /\ Good(Rebuilt(pending, Code), CodeOf(orig, proto))
      /\ Numbered(Rebuilt(pending, Code), "v2")
  <2>1. Code = CodeOf(buf, proto) /\ Done(proto)
    BY <1>1 DEF Code, CodeOf, Done
  <2>2. /\ Code \in Seq(Ins) /\ CodeOf(orig, proto) \in Seq(Ins)
        /\ Good(Code, CodeOf(orig, proto)) /\ Numbered(Code, "v2")
    BY <1>1, <1>2, <2>1, BufferFacts
  <2> QED
    BY <1>2, <2>2, RebuiltShape, RebuiltGood
<1>5. /\ StageNumbered' /\ StageIntact' /\ AllGood' /\ HeldNumbered'
      /\ Len(buf'.protos) = Len(buf.protos) /\ buf'.fr2 = buf.fr2
      /\ orig' \in Chunks
      /\ \A c \in {held', buf'} :
           /\ c \in Chunk
           /\ Len(c.protos) = Len(orig'.protos)
           /\ \A k \in 1 .. Len(c.protos) : JumpsInside(c.protos[k].code)
  <2>1. status # "idle" /\ status' # "idle" /\ UNCHANGED <<orig, held, toFr2>>
    BY <1>1
  <2> QED
    BY <1>1, <1>2, <1>3, <1>4, <2>1, Replaced
<1>6. Scalars'
  BY <1>1, ScalarFacts, NoRequestType DEF Scalars
<1>7. proto' \in 1 .. Len(buf'.protos) + 1 /\ retry' \in 0 .. Len(buf'.protos)
  BY <1>1, <1>2, <1>5
<1>8. TypeOK'
  BY <1>5, <1>6, <1>7 DEF TypeOK, Scalars
<1>9. Protocol'
  BY <1>1, <1>5, ScalarFacts, NoRequestType DEF IInv, Protocol
<1> QED
  BY <1>5, <1>8, <1>9 DEF IInv

(* What holds of the chunk the caller holds.                               *)
Fit(c, first) ==
  /\ first \in Chunks
  /\ c \in Chunk
  /\ Len(c.protos) = Len(first.protos)
  /\ \A k \in 1 .. Len(c.protos) :
       /\ JumpsInside(CodeOf(c, k))
       /\ Good(CodeOf(c, k), CodeOf(first, k))
       /\ Numbered(CodeOf(c, k), Numbering(c))
       /\ ~c.fr2 => Intact(CodeOf(c, k), CodeOf(first, k))

LEMMA HeldFits == ASSUME IInv PROVE Fit(held, orig)
BY DEF Fit, IInv, TypeOK, AllGood, HeldNumbered, StageIntact, CodeOf

LEMMA FreshFits == ASSUME NEW c \in Chunks PROVE Fit(c, c)
BY FreshChunk DEF Fit

(* A step that leaves the caller's chunk in the buffer and no conversion   *)
(* running.                                                                *)
LEMMA IdleInv ==
  ASSUME Fit(held', orig'), buf' = held', status' = "idle", Scalars', pending'.conv <= convs',
         proto' \in 1 .. Len(buf'.protos) + 1, retry' \in 0 .. Len(buf'.protos)
  PROVE  IInv'
<1>1. TypeOK'
  BY DEF Fit, TypeOK, Scalars, CodeOf
<1>2. StageNumbered' /\ StageIntact' /\ AllGood' /\ HeldNumbered'
  BY DEF Fit, StageNumbered, StageIntact, AllGood, HeldNumbered
<1>3. Protocol'
  BY DEF Protocol
<1> QED
  BY <1>1, <1>2, <1>3 DEF IInv

(* A conversion begins, of any chunk that fits.                            *)
LEMMA BeginInv ==
  ASSUME IInv, NEW c, NEW first, Fit(c, first), Begin(c, first)
  PROVE  IInv'
<1>1. /\ status = "idle" /\ convs < MaxConvs /\ convs' = convs + 1
      /\ orig' = first /\ held' = c /\ buf' = c
      /\ proto' = 1 /\ retry' = 0 /\ inserts' = 0
      /\ toFr2' \in BOOLEAN
      /\ pending' \in {pending, NoRequest}
      /\ IF c.fr2 THEN status' = "idle" ELSE status' = "patch"
  BY DEF Begin, ClearPending
<1>2. Fit(held', orig')
  BY <1>1
<1>3. convs' \in 0 .. MaxConvs /\ convs \in Nat /\ pending.conv <= convs
  BY <1>1, ScalarFacts, BoundsAssumption DEF Scalars, IInv, Protocol
<1>4. Scalars'
  <2>1. inserts' \in 0 .. MaxInserts
    BY <1>1, BoundsAssumption
  <2>2. pending' \in [active : BOOLEAN, conv : 0 .. MaxConvs, proto : Nat, pc : Nat,
                      count : 0 .. MaxBatch, allow : BOOLEAN]
    BY <1>1, ScalarFacts, NoRequestType DEF Scalars
  <2> QED
    BY <1>1, <1>3, <2>1, <2>2 DEF Scalars
<1>5. pending'.conv < convs'
  BY <1>1, <1>3, ScalarFacts, NoRequestType
<1>6. pending'.conv <= convs'
  BY <1>1, <1>3, ScalarFacts, NoRequestType
<1>7. Len(buf'.protos) \in Nat
  BY <1>1, ProtosType DEF Fit
<1>8. proto' \in 1 .. Len(buf'.protos) + 1 /\ retry' \in 0 .. Len(buf'.protos)
  BY <1>1, <1>7
<1>9. CASE c.fr2
  BY <1>1, <1>2, <1>4, <1>6, <1>8, <1>9, IdleInv
<1>10. CASE ~c.fr2
  <2>1. status' = "patch" /\ ~held'.fr2 /\ ~buf'.fr2 /\ buf' = held'
    BY <1>1, <1>10
  <2>2. \A k \in 1 .. Len(buf'.protos) : ~Done(k)'
    BY <1>1, <1>7, <2>1 DEF Done
  <2>3. TypeOK'
    BY <1>2, <1>4, <1>8, <2>1 DEF Fit, TypeOK, Scalars, CodeOf
  <2>4. StageNumbered' /\ StageIntact' /\ AllGood' /\ HeldNumbered'
    BY <1>2, <2>1, <2>2 DEF Fit, StageNumbered, StageIntact, AllGood, HeldNumbered
  <2>5. Protocol'
    BY <1>1, <1>5, <1>6, <2>1 DEF Protocol
  <2> QED
    BY <2>3, <2>4, <2>5 DEF IInv
<1> QED
  BY <1>9, <1>10

(* A conversion fails.                                                     *)
LEMMA AbortInv == IInv /\ Abort => IInv'
<1> SUFFICES ASSUME IInv, Abort PROVE IInv'
  OBVIOUS
<1>1. /\ status' = "idle" /\ buf' = held
      /\ UNCHANGED <<orig, held, toFr2, proto, retry, pending, convs, inserts>>
  BY DEF Abort
<1>2. Fit(held', orig')
  BY <1>1, HeldFits
<1>3. Scalars' /\ pending'.conv <= convs'
  BY <1>1, ScalarFacts DEF Scalars, IInv, Protocol
<1>4. proto' \in 1 .. Len(buf'.protos) + 1 /\ retry' \in 0 .. Len(buf'.protos)
  BY <1>1, ScalarFacts
<1> QED
  BY <1>1, <1>2, <1>3, <1>4, IdleInv

(* A conversion ends.                                                      *)
LEMMA FinishInv == IInv /\ Finish => IInv'
<1> SUFFICES ASSUME IInv, Finish PROVE IInv'
  OBVIOUS
<1> DEFINE new == [buf EXCEPT !.version = 2, !.fr2 = toFr2]
<1>1. /\ status = "patch" /\ status' = "idle" /\ proto > Len(buf.protos)
      /\ buf' = new /\ held' = new
      /\ UNCHANGED <<orig, toFr2, proto, retry, pending, convs, inserts>>
  BY DEF Finish
<1>2. buf \in Chunk /\ orig \in Chunks /\ Len(buf.protos) = Len(orig.protos) /\ toFr2 \in BOOLEAN
  BY DEF IInv, TypeOK
<1>3. new \in Chunk /\ new.protos = buf.protos /\ new.version = 2 /\ new.fr2 = toFr2
  BY <1>2 DEF Chunk
<1> HIDE DEF new
<1>4. ASSUME NEW k \in 1 .. Len(new.protos)
      PROVE  /\ JumpsInside(CodeOf(new, k))
             /\ Good(CodeOf(new, k), CodeOf(orig, k))
             /\ Numbered(CodeOf(new, k), Numbering(new))
             /\ ~new.fr2 => Intact(CodeOf(new, k), CodeOf(orig, k))
  <2>1. CodeOf(new, k) = CodeOf(buf, k) /\ k \in 1 .. Len(buf.protos) /\ Numbering(new) = "v2"
    BY <1>3 DEF CodeOf, Numbering
  <2>2. Done(k)
    BY <1>1, <2>1, ScalarFacts DEF Done
  <2> QED
    BY <1>1, <1>3, <2>1, <2>2, BufferFacts
<1>5. Fit(held', orig')
  BY <1>1, <1>2, <1>3, <1>4 DEF Fit
<1>6. Scalars' /\ pending'.conv <= convs'
  BY <1>1, ScalarFacts DEF Scalars, IInv, Protocol
<1>7. proto' \in 1 .. Len(buf'.protos) + 1 /\ retry' \in 0 .. Len(buf'.protos)
  BY <1>1, <1>3, ScalarFacts
<1> QED
  BY <1>1, <1>5, <1>6, <1>7, IdleInv

LEMMA NextInv == IInv /\ [Next]_vars => IInv'
<1> SUFFICES ASSUME IInv, [Next]_vars PROVE IInv'
  OBVIOUS
<1>1. CASE BeginHeld
  BY <1>1, BeginInv, HeldFits DEF BeginHeld
<1>2. CASE BeginFresh
  BY <1>2, BeginInv, FreshFits DEF BeginFresh
<1>3. CASE PatchProto
  BY <1>3, PatchProtoInv
<1>4. CASE ScheduleCopies
  BY <1>4, ScheduleCopiesInv
<1>5. CASE PatchFails
  BY <1>5, AbortInv DEF PatchFails
<1>6. CASE Rebuild
  BY <1>6, RebuildInv
<1>7. CASE RebuildRefused
  BY <1>7, AbortInv DEF RebuildRefused
<1>8. CASE Finish
  BY <1>8, FinishInv
<1>9. CASE UNCHANGED vars
  BY <1>9 DEF vars, IInv, TypeOK, StageNumbered, StageIntact, AllGood, HeldNumbered, Protocol, Done
<1> QED
  BY <1>1, <1>2, <1>3, <1>4, <1>5, <1>6, <1>7, <1>8, <1>9 DEF Next

LEMMA Invariant == Spec => []IInv
BY InitInv, NextInv, PTL DEF Spec

-----------------------------------------------------------------------------
(* The chunk in the converter's hands and the one the caller holds stay    *)
(* well-formed chunks of the same prototypes, and no jump ever leaves its  *)
(* prototype, however many copies are inserted.                            *)
THEOREM TypeCorrect == Spec => []TypeOK
<1>1. IInv => TypeOK
  BY DEF IInv
<1> QED
  BY <1>1, Invariant, PTL

(* However often a prototype is rebuilt, every jump leads to the           *)
(* instruction it was compiled for, through the copies before it at most.  *)
THEOREM JumpsAlwaysFollow == Spec => []JumpsFollow
<1>1. IInv => JumpsFollow
  <2> SUFFICES ASSUME IInv, NEW k \in 1 .. Len(buf.protos) PROVE FollowsIn(k, {"jump"})
    BY DEF JumpsFollow
  <2> DEFINE bc == CodeOf(buf, k)
             was == CodeOf(orig, k)
  <2>1. ASSUME NEW p \in DOMAIN bc, bc[p].id # 0, bc[p].kind = "jump"
        PROVE  Landing(bc, Target(bc, p)) = Target(was, bc[p].id)
    <3>1. bc \in Seq(Ins) /\ Good(bc, was)
      BY BufferFacts
    <3> HIDE DEF bc, was
    <3>2. Lands(bc, Target(bc, p), Target(was, bc[p].id)) /\ Target(bc, p) \in DOMAIN bc
      BY <2>1, <3>1 DEF Good, JumpsLand, JumpsInside, Jumping
    <3>3. Target(bc, p) \in Nat \ {0}
      BY <3>1, <3>2
    <3> QED
      BY <3>1, <3>2, <3>3, LandingIs
  <2> QED
    BY <2>1 DEF FollowsIn, CodeOf
<1> QED
  BY <1>1, Invariant, PTL

(* No jump lands right behind an inserted copy, so the copies in front of  *)
(* an instruction have been executed whenever it is reached.               *)
THEOREM NothingEverSkipped == Spec => []NoSkippedCopy
<1>1. IInv => NoSkippedCopy
  <2> SUFFICES ASSUME IInv, NEW k \in 1 .. Len(buf.protos) PROVE NothingSkipped(CodeOf(buf, k))
    BY DEF NoSkippedCopy, Codes, CodeOf, NothingSkipped
  <2> QED
    BY BufferFacts DEF Good
<1> QED
  BY <1>1, Invariant, PTL

(* However often a prototype is rebuilt, every compiled instruction is in  *)
(* it once and in its place among the others: copies are all that is       *)
(* added.                                                                  *)
THEOREM OrderAlwaysKept == Spec => []OrderKept
<1>1. IInv => OrderKept
  <2> SUFFICES ASSUME IInv, NEW k \in 1 .. Len(buf.protos) PROVE InOrder(CodeOf(buf, k), CodeOf(orig, k))
    BY DEF OrderKept, InOrder, CodeOf
  <2> QED
    BY BufferFacts DEF Good
<1> QED
  BY <1>1, Invariant, PTL

(* Over retries, failures and conversions one after another, the opcodes   *)
(* of a version 1 chunk are mapped once: no opcode is mapped twice, and    *)
(* what the caller holds is numbered as its header says.                   *)
THEOREM RemappedOnce == Spec => []RemapOnce
<1>1. IInv => RemapOnce
  <2> SUFFICES ASSUME IInv PROVE RemapOnce
    OBVIOUS
  <2>1. \A c \in {buf, held} : Numbering(c) # "bad"
    BY DEF Numbering
  <2>2. \A k \in 1 .. Len(held.protos) : Numbered(held.protos[k].code, Numbering(held))
    BY DEF IInv, HeldNumbered, CodeOf
  <2>3. ASSUME NEW k \in 1 .. Len(buf.protos), NEW p \in DOMAIN buf.protos[k].code
        PROVE  buf.protos[k].code[p].enc # "bad"
    <3>1. CASE status = "idle"
      BY <2>1, <2>2, <3>1 DEF IInv, Protocol, Numbered
    <3>2. CASE status # "idle"
      BY <2>1, <3>2, BufferFacts DEF Numbered, CodeOf
    <3> QED
      BY <3>1, <3>2
  <2> QED
    BY <2>2, <2>3 DEF RemapOnce, Codes
<1> QED
  BY <1>1, Invariant, PTL

(* While a conversion runs, a request it made is for the prototype in      *)
(* hand, and is consumed before that prototype is patched again.           *)
THEOREM RequestAlwaysOwned == Spec => []PendingOwned
<1>1. IInv => PendingOwned
  BY ScalarFacts DEF IInv, Protocol, PendingOwned, Scalars
<1> QED
  BY <1>1, Invariant, PTL
=============================================================================
