---------------------------- MODULE MCBcInsert ----------------------------
(* Instances of BcInsert for TLC: a forward and a backward jump, a pairs   *)
(* loop and a loop whose ISNEXT is not paired, alone and together.         *)
EXTENDS BcInsert

I(id, kind, j, enc) == [id |-> id, kind |-> kind, j |-> j, enc |-> enc]

Branch(enc) == <<I(1, "jump", 1, enc), I(2, "plain", 0, enc), I(3, "jump", -3, enc)>>
Loop(enc) == <<I(1, "isnext", 1, enc), I(2, "plain", 0, enc), I(3, "itern", 0, enc), I(4, "jump", -3, enc)>>
Unpaired(enc) == <<I(1, "isnext", 0, enc), I(2, "plain", 0, enc)>>

Compiled(bc) == [code |-> bc]

Dumped(bcs, version) ==
  [version |-> version, fr2 |-> FALSE, protos |-> [k \in DOMAIN bcs |-> Compiled(bcs[k])]]

MCChunks ==
  UNION {LET enc == IF version = 1 THEN "v1" ELSE "v2"
         IN  {Dumped(<<Branch(enc), Loop(enc)>>, version), Dumped(<<Loop(enc)>>, version),
              Dumped(<<Unpaired(enc), Branch(enc)>>, version)} : version \in {1, 2}}
===========================================================================
