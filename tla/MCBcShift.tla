---------------------------- MODULE MCBcShift ----------------------------
(* Instances of BcShift for TLC: every prototype of up to three            *)
(* instructions from a menu over a frame of Frame slots.                   *)
EXTENDS BcShift

CONSTANTS Frame, Params, MaxLen, OpsUsed

I(o, a, b, c, d) == [op |-> o, a |-> a, b |-> b, c |-> c, d |-> d]

S == 0 .. Frame - 1

Menu ==
  {I("MOV", 3, 0, 0, 0), I("MOV", 1, 0, 0, 2), I("MOV", 2, 0, 0, 0)}
  \cup {I("USETV", 0, 0, 0, 3), I("TGETV", 0, 2, 3, 0), I("TSETV", 3, 0, 2, 0), I("KNIL", 1, 0, 0, 3), I("CAT", 1, 2, 3, 0)}
  \cup {I("CALL", 1, b, c, 0) : b \in 0 .. 3, c \in {1, 3}}
  \cup {I("CALL", 2, 1, 2, 0), I("CALL", 2, 2, 1, 0), I("CALL", 1, 1, 0, 0)}
  \cup {I("CALLM", 1, 0, 1, 0), I("CALLT", 1, 0, 0, 0), I("CALLT", 1, 0, 0, 3), I("CALLT", 2, 0, 0, 1)}
  \cup {I("ITERC", 3, b, 3, 0) : b \in {0, 2}} \cup {I("ITERL", 3, 0, 0, 0)}
  \cup {I("VARG", 1, b, 0, 0) : b \in {0, 3, 4}}
  \cup {I("TSETM", a, 0, 0, 0) : a \in {1, 2}}
  \cup {I("RET", 1, 0, 0, 3), I("RET", 1, 0, 0, 4), I("FORL", 0, 0, 0, 0)}

(* Names the last register of the larger frame.                            *)
Last == I("MOV", Frame, 0, 0, 0)

Listing(n) == [1 .. n -> {i \in Menu : i.op \in OpsUsed}]

Prototypes(codes, size) == [code : codes, framesize : {size}, params : {Params}]

MCPrograms ==
  {p \in Prototypes(UNION {Listing(n) : n \in 1 .. MaxLen}, Frame)
         \cup Prototypes(UNION {Listing(n) : n \in 1 .. MaxLen - 1}, Frame + 1)
         \cup Prototypes({Append(c, Last) : c \in Listing(MaxLen - 1)}, Frame + 1) : IsProgram(p)}
===========================================================================
