---------------------------- MODULE LuaGC_proofs ----------------------------
(***************************************************************************)
(* What LuaGC promises, for all sets of cells: every action of the         *)
(* collector and of the program keeps the invariant IInv, and the          *)
(* properties follow.                                                      *)
(*                                                                         *)
(* SweepSafe and NoDangling are one statement, AliveClosed with            *)
(* RootsAlive: what is not dead leads only to what is not dead. For the    *)
(* atomic step to establish it, the marking must have lost nothing         *)
(* (NoneLost, ListsSound, Coloured); for the next marking to begin with    *)
(* nothing black, the sweep must come to everything that is left marked    *)
(* (SweepInv).                                                             *)
(***************************************************************************)
EXTENDS LuaGC, TLAPS

(* What the sweep will not free: everything but the dead white.            *)
Alive == Obj \ (Free \cup Dead)

(* An open upvalue is of a slot, a closure has an upvalue.                 *)
KindsSound ==
  /\ \A v \in Upvals : Open(v) => uv[v].slot \in Slots
  /\ \A c \in Closures \ Free : up[c] \in Upvals

Types == TypeOK /\ KindsSound

(* A free cell refers to nothing.                                          *)
FreeEmpty == \A o \in Free : AllRefs(o) = {} /\ (o \in Upvals => ~Open(o))
(* What is alive leads only to what is alive.                              *)
AliveClosed == \A o \in Alive : AllRefs(o) \subseteq Alive
(* The roots and the userdata to be finalized are alive.                   *)
RootsAlive == Roots \cup tmudata \subseteq Alive
(* Finalizers run on threads that are roots.                               *)
ArgsHeld == \A th \in Threads : args[th] # {} => th \in {Main, running}
HeapInv == FreeEmpty /\ AliveClosed /\ RootsAlive /\ ArgsHeld /\ OpenUpvalsSound

(* Userdata and closed upvalues are marked at once: never gray.            *)
Coloured ==
  /\ Udata \cap Gray = {}
  /\ \A v \in Upvals : ~Open(v) => v \notin Gray

(* What has been traversed leads to nothing white, be it through weak      *)
(* tables; nor is the key white that an empty entry of a black table has   *)
(* kept, which luaH_set finds without a barrier.                           *)
NoneLost ==
  /\ \A o \in Black \ tmudata : AllRefs(o) \cap White = {}
  /\ \A t \in Tables \cap Black : tab[t].key \notin White \cup Free

(* While marking nothing is dead; outside, there is nothing to say of      *)
(* colours but that.                                                       *)
MarkInv ==
  /\ Coloured
  /\ ListsSound
  /\ gcstate = "propagate" => Dead = {} /\ Main \notin White /\ NoneLost

(* The sweep will come to o, with its thread if it is an open upvalue.     *)
Pending(o) == o \in tosweep \/ (o \in Upvals /\ uv[o].th \in tosweep)

(* Outside the marking every cell is free, of the current white, still to  *)
(* be swept, or a userdata that waits for its finalizer; and the sweep has *)
(* nothing on its list that is free or waits for a finalizer.              *)
SweepInv ==
  /\ gcstate # "propagate" =>
       \A o \in Obj : mark[o] \in {"free", cw} \/ Pending(o) \/ (o \in tmudata /\ o \in Black)
  /\ gcstate \notin {"sweepstring", "sweep"} => tosweep = {}
  /\ gcstate = "sweep" => tosweep \cap Strings = {}
  /\ tosweep \cap (Free \cup tmudata) = {}
  /\ \A v \in tosweep \cap Upvals : ~Open(v)

(* Whose finalizer is due or was called has FINALIZEDBIT, and none is due  *)
(* that was called.                                                        *)
FinInv == tmudata \subseteq finalized /\ called \subseteq finalized /\ called \cap tmudata = {}

(* The invariant.                                                          *)
IInv == Types /\ HeapInv /\ MarkInv /\ SweepInv /\ FinInv

-----------------------------------------------------------------------------
(* Facts about the heap and the colours.                                   *)

(* What each kind of cell refers to, from AllRefs.                         *)
LEMMA RefsAre ==
  /\ \A t \in Tables : AllRefs(t) = IF tab[t].val = Nil THEN {} ELSE Obj \cap {tab[t].key, tab[t].val}
  /\ \A u \in Udata : AllRefs(u) = Obj \cap {env[u]}
  /\ \A c \in Closures : AllRefs(c) = Obj \cap {up[c]}
  /\ \A v \in Upvals : AllRefs(v) = Obj \cap {Contents(v)}
  /\ \A th \in Threads : AllRefs(th) = Obj \cap OnStack(th)
  /\ \A s \in Strings : AllRefs(s) = {}
  /\ \A o : AllRefs(o) \subseteq Obj
<1>1. \A t \in Tables : AllRefs(t) = IF tab[t].val = Nil THEN {} ELSE Obj \cap {tab[t].key, tab[t].val}
  <2> SUFFICES ASSUME NEW t \in Tables
               PROVE  AllRefs(t) = IF tab[t].val = Nil THEN {} ELSE Obj \cap {tab[t].key, tab[t].val}
    OBVIOUS
  <2>1. AllRefs(t) = Obj \cap (IF tab[t].val = Nil THEN {} ELSE {tab[t].key, tab[t].val})
    BY KindsAssumption DEF AllRefs
  <2> QED BY <2>1
<1>2. \A u \in Udata : AllRefs(u) = Obj \cap {env[u]}
  BY KindsAssumption DEF AllRefs
<1>3. \A c \in Closures : AllRefs(c) = Obj \cap {up[c]}
  BY KindsAssumption DEF AllRefs
<1>4. \A v \in Upvals : AllRefs(v) = Obj \cap {Contents(v)}
  BY KindsAssumption DEF AllRefs
<1>5. \A th \in Threads : AllRefs(th) = Obj \cap OnStack(th)
  BY KindsAssumption DEF AllRefs
<1>6. \A s \in Strings : AllRefs(s) = {}
  BY KindsAssumption DEF AllRefs
<1>7. \A o : AllRefs(o) \subseteq Obj
  BY DEF AllRefs
<1> QED BY <1>1, <1>2, <1>3, <1>4, <1>5, <1>6, <1>7

(* The same of the next state.                                             *)
LEMMA RefsAreNext ==
 (/\ \A t \in Tables : AllRefs(t) = IF tab[t].val = Nil THEN {} ELSE Obj \cap {tab[t].key, tab[t].val}
  /\ \A u \in Udata : AllRefs(u) = Obj \cap {env[u]}
  /\ \A c \in Closures : AllRefs(c) = Obj \cap {up[c]}
  /\ \A v \in Upvals : AllRefs(v) = Obj \cap {Contents(v)}
  /\ \A th \in Threads : AllRefs(th) = Obj \cap OnStack(th)
  /\ \A s \in Strings : AllRefs(s) = {}
  /\ \A o : AllRefs(o) \subseteq Obj)'
BY RefsAre, PTL

(* Where the sets of the model lie in one another.                         *)
LEMMA ValuesIn ==
  /\ Value \subseteq Obj \cup {Nil} /\ Nil \notin Obj /\ Num \notin Obj /\ Num # Nil
  /\ \A v \in Value : v \notin Upvals
  /\ Keys \subseteq Value \cup {Num} /\ Nil \notin Keys
  /\ Tables \subseteq Value /\ Udata \subseteq Value /\ Strings \subseteq Value
  /\ Closures \subseteq Value /\ Threads \subseteq Value
  /\ Tables \subseteq Obj /\ Udata \subseteq Obj /\ Strings \subseteq Obj
  /\ Closures \subseteq Obj /\ Threads \subseteq Obj /\ Upvals \subseteq Obj
  /\ BaseMts \subseteq Tables /\ Main \in Threads
BY ValuesAssumption, KindsAssumption, KeysAssumption, BaseMtsAssumption, MainAssumption DEF Obj, Value

(* An upvalue holds a value, open or closed.                               *)
LEMMA ContentsIn == Types => \A v \in Upvals : Contents(v) \in Value
BY DEF Types, TypeOK, KindsSound, Contents, Open

(* What the program can take in its hands is not dead.                     *)
LEMMA HeldAlive == Types /\ HeapInv => Held \subseteq Alive
<1> SUFFICES ASSUME Types, HeapInv PROVE Held \subseteq Alive
  OBVIOUS
<1>1. Held \subseteq Obj \cap OnStack(running)
  BY ValuesIn DEF Held, OnStack, Types, TypeOK
<1>2. running \in Alive
  BY DEF HeapInv, RootsAlive, Roots
<1>3. running \in Threads
  BY DEF Types, TypeOK
<1> QED
  BY <1>1, <1>2, <1>3, RefsAre DEF HeapInv, AliveClosed

(* The five colours, and what they say of a cell.                          *)
LEMMA Colours ==
  Types => /\ \A o \in Obj : mark[o] \in {"white0", "white1", "free", "gray", "black"}
           /\ cw \in {"white0", "white1"} /\ Other(cw) \in {"white0", "white1"} /\ Other(cw) # cw
           /\ Other(Other(cw)) = cw
           /\ \A o \in Obj : o \in White <=> mark[o] \in {cw, Other(cw)}
           /\ \A o \in Obj : o \in Alive <=> mark[o] \in {cw, "gray", "black"}
           /\ \A o \in Alive : o \in Obj
BY DEF Types, TypeOK, Whites, White, Free, Dead, Other, Alive

(* The collector marks no more than there is to follow, and marks all of   *)
(* it but for weak tables.                                                 *)
LEMMA StrongAre ==
  /\ \A o : StrongRefs(o) \subseteq AllRefs(o)
  /\ \A o : o \notin Tables => StrongRefs(o) = AllRefs(o)
  /\ \A t \in Tables : mode[t] = "" => StrongRefs(t) = AllRefs(t)
<1>1. \A o : o \notin Tables => StrongRefs(o) = AllRefs(o)
  BY DEF StrongRefs
<1>2. ASSUME NEW t \in Tables PROVE StrongRefs(t) \subseteq AllRefs(t) /\ (mode[t] = "" => StrongRefs(t) = AllRefs(t))
  BY RefsAre DEF StrongRefs, WeakKey, WeakValue
<1> QED BY <1>1, <1>2

(* What reallymarkobject touches: only white cells, and of the userdata    *)
(* and upvalues it goes through everything they lead to; an upvalue only   *)
(* when it was asked for.                                                  *)
LEMMA TouchedIs ==
  ASSUME Types, NEW S
  PROVE  /\ S \cap White \subseteq Touched(S) /\ Touched(S) \subseteq White
         /\ \A o \in Touched(S) \cap (Udata \cup Upvals) : AllRefs(o) \cap White \subseteq Touched(S)
         /\ Touched(S) \cap Upvals \subseteq S
<1> DEFINE A == S \cap White
           B == Onward(A)
           C == Onward(B)
<1>1. Touched(S) = C
  BY DEF Touched
<1>2. A \subseteq B /\ B \subseteq C /\ C \subseteq White
  BY DEF Onward
<1>3. \A X : \A o \in X \cap (Udata \cup Upvals) : AllRefs(o) \cap White \subseteq Onward(X)
  BY StrongAre, KindsAssumption DEF Onward
<1>4. \A X : \A y \in Onward(X) \ X : \E o \in X \cap (Udata \cup Upvals) : y \in AllRefs(o)
  BY StrongAre DEF Onward
<1>5. \A u \in Udata : AllRefs(u) \cap (Udata \cup Upvals) = {}
  BY RefsAre, ValuesIn, KindsAssumption DEF Types, TypeOK
<1>6. \A v \in Upvals : AllRefs(v) \cap Upvals = {}
  BY RefsAre, ValuesIn, ContentsIn
<1> HIDE DEF A, B, C
<1>7. ASSUME NEW o \in C \cap (Udata \cup Upvals) PROVE AllRefs(o) \cap White \subseteq C
  <2>1. CASE o \in B
    BY <2>1, <1>3 DEF C
  <2>2. CASE o \notin B
    <3>1. PICK p \in B \cap (Udata \cup Upvals) : o \in AllRefs(p)
      BY <2>2, <1>4 DEF C
    <3>2. p \in Upvals
      BY <3>1, <1>5
    <3>3. p \notin A
      BY <3>1, <2>2, <1>3, <1>7, <1>2 DEF B
    <3>4. PICK q \in A \cap (Udata \cup Upvals) : p \in AllRefs(q)
      BY <3>1, <3>3, <1>4 DEF B
    <3> QED
      BY <3>2, <3>4, <1>5, <1>6
  <2> QED BY <2>1, <2>2
<1>8. C \cap Upvals \subseteq A
  <2>1. \A X : Onward(X) \cap Upvals \subseteq X
    BY <1>4, <1>5, <1>6
  <2> QED BY <2>1 DEF B, C
<1> QED BY <1>1, <1>2, <1>7, <1>8 DEF A

(* The colours after it.                                                   *)
LEMMA MarkedIs ==
  ASSUME Types, NEW S
  PROVE  /\ Marked(S) \in [Obj -> Whites \cup {"free", "gray", "black"}]
         /\ \A o \in Obj : o \notin Touched(S) => Marked(S)[o] = mark[o]
         /\ \A o \in Touched(S) : Marked(S)[o] \in {"gray", "black"}
         /\ \A o \in Touched(S) : Marked(S)[o] = "black" <=> o \in Udata \/ (o \in Upvals /\ ~Open(o))
         /\ Touched(S) \subseteq Obj
  BY TouchedIs DEF Marked, Colour, Types, TypeOK, White

(* What marking makes black at once.                                       *)
Blackened(o) == o \in Udata \/ (o \in Upvals /\ ~Open(o))

(* The sets of cells after it.                                             *)
LEMMA Marking ==
  ASSUME Types, NEW S, mark' = Marked(S), cw' = cw
  PROVE  /\ Free' = Free /\ Dead' = Dead \ Touched(S) /\ Alive' = Alive \cup Touched(S)
         /\ White' = White \ Touched(S)
         /\ Black' = Black \cup {o \in Touched(S) : Blackened(o)}
         /\ Gray' = Gray \cup {o \in Touched(S) : ~Blackened(o)}
<1> DEFINE T == Touched(S)
<1>1. T \subseteq White
  BY TouchedIs
<1>2. \A o \in Obj : mark'[o] = IF o \in T THEN IF Blackened(o) THEN "black" ELSE "gray" ELSE mark[o]
  BY MarkedIs, TouchedIs DEF Blackened
<1> HIDE DEF T
<1>3. Free' = Free /\ White' = White \ T
  BY <1>1, <1>2 DEF Free, White, Whites
<1>4. Dead' = Dead \ T /\ Alive' = Alive \cup T
  BY <1>1, <1>2, Colours DEF Dead, Alive, Free, White
<1>5. Black' = Black \cup {o \in T : Blackened(o)} /\ Gray' = Gray \cup {o \in T : ~Blackened(o)}
  BY <1>1, <1>2 DEF Black, Gray, White, Whites
<1> QED BY <1>3, <1>4, <1>5 DEF T

-----------------------------------------------------------------------------
(* Stores in a stack.                                                      *)

(* A step that changes no colour changes no set of cells.                  *)
LEMMA SameColours ==
  ASSUME UNCHANGED <<mark, cw>>
  PROVE  /\ Free' = Free /\ Dead' = Dead /\ Alive' = Alive
         /\ White' = White /\ Black' = Black /\ Gray' = Gray
BY DEF Free, Dead, Alive, White, Black, Gray

SameLinks(o) == (o \in Closures => up'[o] = up[o]) /\ (o \in Upvals => uv'[o] = uv[o])

(* After a store in a stack slot, only the thread and the open upvalues of *)
(* its slots refer to the new value.                                       *)
LEMMA PutRefs ==
  ASSUME Types, NEW th \in Threads, NEW s \in Slots, NEW v \in Value,
         stack' = [stack EXCEPT ![th][s] = v], UNCHANGED <<tab, env, args>>
  PROVE  /\ \A o \in Obj : SameLinks(o) => AllRefs(o)' \subseteq AllRefs(o) \cup (Obj \cap {v})
         /\ \A o \in Obj : SameLinks(o) /\ o # th /\ (o \in Upvals => uv[o].th # th)
                           => AllRefs(o)' = AllRefs(o)
<1>1. \A t \in Threads, x \in Slots : stack[t][x]' = IF t = th /\ x = s THEN v ELSE stack[t][x]
  BY DEF Types, TypeOK
<1>2. \A w \in Upvals : uv'[w] = uv[w] => Contents(w)' = Contents(w) \/ (Contents(w)' = v /\ uv[w].th = th)
  BY <1>1 DEF Contents, Open, Types, TypeOK, KindsSound
<1>3. \A t \in Threads : OnStack(t)' \subseteq OnStack(t) \cup {v} /\ (t # th => OnStack(t)' = OnStack(t))
  BY <1>1 DEF OnStack
<1>4. ASSUME NEW o \in Obj, SameLinks(o)
      PROVE  /\ AllRefs(o)' \subseteq AllRefs(o) \cup (Obj \cap {v})
             /\ o # th /\ (o \in Upvals => uv[o].th # th) => AllRefs(o)' = AllRefs(o)
  <2>1. CASE o \in Tables \cup Udata \cup Closures \cup Strings
    <3>1. CASE o \in Tables
      BY <2>1, <3>1, RefsAre, RefsAreNext
    <3>2. CASE o \in Udata
      BY <3>2, RefsAre, RefsAreNext
    <3>3. CASE o \in Closures
      BY <1>4, <3>3, RefsAre, RefsAreNext DEF SameLinks
    <3>4. CASE o \in Strings
      BY <3>4, RefsAre, RefsAreNext
    <3> QED BY <2>1, <3>1, <3>2, <3>3, <3>4
  <2>2. CASE o \in Upvals
    <3>1. AllRefs(o) = Obj \cap {Contents(o)} /\ AllRefs(o)' = Obj \cap {Contents(o)'}
      BY <2>2, RefsAre, RefsAreNext, Zenon
    <3>2. Contents(o)' = Contents(o) \/ (Contents(o)' = v /\ uv[o].th = th)
      BY <1>4, <2>2, <1>2 DEF SameLinks
    <3> QED BY <2>2, <3>1, <3>2
  <2>3. CASE o \in Threads
    <3>1. AllRefs(o) = Obj \cap OnStack(o) /\ AllRefs(o)' = Obj \cap OnStack(o)'
      BY <2>3, RefsAre, RefsAreNext, Zenon
    <3> QED BY <2>3, <3>1, <1>3, KindsAssumption
  <2> QED BY <2>1, <2>2, <2>3 DEF Obj
<1> QED BY <1>4

(* A store of something alive in a stack slot keeps the invariant: threads *)
(* and open upvalues, which have no barrier, are never black.              *)
LEMMA StackOnly ==
  ASSUME IInv, NEW th \in Threads \ Free, NEW s \in Slots, NEW v \in Value,
         v \in Alive \cup {Nil},
         stack' = [stack EXCEPT ![th][s] = v],
         UNCHANGED <<mark, collector, called, heap, args, basemt>>,
         running' \in Threads \cap Alive,
         \A t \in Threads : args[t] # {} => t \in {Main, running'}
  PROVE  IInv'
<1>1. /\ Free' = Free /\ Dead' = Dead /\ Alive' = Alive
      /\ White' = White /\ Black' = Black /\ Gray' = Gray
  BY SameColours DEF collector
<1>2. /\ \A o \in Obj : AllRefs(o)' \subseteq AllRefs(o) \cup (Obj \cap {v})
      /\ \A o \in Obj : o # th /\ (o \in Upvals => uv[o].th # th) => AllRefs(o)' = AllRefs(o)
  BY PutRefs DEF heap, IInv, SameLinks
<1>u. UNCHANGED <<uv, up, cw, gcstate, tosweep, tmudata, finalized, called, gray, grayagain, weak>>
  BY DEF heap, collector
<1>3. Types'
  <2>1. TypeOK'
    BY DEF IInv, Types, TypeOK, collector, heap, roots
  <2> QED BY <2>1, <1>1, <1>u DEF IInv, Types, KindsSound, Open
<1>4. HeapInv'
  <2>1. FreeEmpty'
    <3> SUFFICES ASSUME NEW o \in Free PROVE AllRefs(o)' = {} /\ (o \in Upvals => ~Open(o)')
      BY <1>1 DEF FreeEmpty
    <3>1. o # th /\ o \in Obj
      BY DEF Free
    <3>2. AllRefs(o) = {} /\ (o \in Upvals => uv[o].th = Nil)
      BY DEF IInv, HeapInv, FreeEmpty, Open
    <3>3. th # Nil
      BY ValuesIn
    <3> QED BY <1>2, <3>1, <3>2, <3>3, <1>u DEF Open
  <2>2. AliveClosed'
    BY <1>1, <1>2, ValuesIn DEF IInv, HeapInv, AliveClosed, Alive
  <2>3. RootsAlive'
    BY <1>1, <1>u DEF IInv, HeapInv, RootsAlive, Roots
  <2>4. ArgsHeld'
    BY DEF ArgsHeld
  <2>5. OpenUpvalsSound'
    BY <1>1, <1>u DEF IInv, HeapInv, OpenUpvalsSound, Open
  <2> QED BY <2>1, <2>2, <2>3, <2>4, <2>5 DEF HeapInv
<1>5. MarkInv'
  <2>1. Coloured' /\ ListsSound'
    BY <1>1, <1>u DEF IInv, MarkInv, Coloured, ListsSound, Open
  <2>2. gcstate = "propagate" => NoneLost'
    <3> SUFFICES ASSUME gcstate = "propagate", NEW o \in Black \ tmudata
                 PROVE  AllRefs(o)' \cap White = {}
      BY <1>1, <1>u DEF NoneLost, IInv, MarkInv, heap
    <3>1. o \in Obj /\ o \notin Threads /\ (o \in Upvals => uv[o].th = Nil)
      BY DEF IInv, MarkInv, ListsSound, HeapInv, OpenUpvalsSound, Open, Black
    <3>2. AllRefs(o)' = AllRefs(o)
      BY <3>1, <1>2, ValuesIn
    <3> QED BY <3>2 DEF IInv, MarkInv, NoneLost
  <2> QED BY <1>1, <1>u, <2>1, <2>2 DEF IInv, MarkInv
<1>6. SweepInv'
  BY <1>1, <1>u DEF IInv, SweepInv, Pending, Open
<1>7. FinInv'
  BY <1>u DEF IInv, FinInv
<1> QED BY <1>3, <1>4, <1>5, <1>6, <1>7 DEF IInv

(* The running thread, the main thread and what the program holds are      *)
(* alive.                                                                  *)
LEMMA RunningAlive ==
  IInv => running \in Threads \ Free /\ running \in Alive /\ running \in Threads
          /\ Main \in Threads \cap Alive /\ Held \subseteq Alive /\ running # Nil
<1> SUFFICES ASSUME IInv
    PROVE running \in Threads \ Free /\ running \in Alive /\ running \in Threads
          /\ Main \in Threads \cap Alive /\ Held \subseteq Alive /\ running # Nil
  OBVIOUS
<1>1. running \in Threads /\ Main \in Threads /\ {Main, running} \subseteq Alive
  BY ValuesIn DEF IInv, Types, TypeOK, HeapInv, RootsAlive, Roots
<1>2. Held \subseteq Alive
  BY HeldAlive DEF IInv
<1> QED BY <1>1, <1>2, ValuesIn DEF Alive

(* The same on the stack of the running thread.                            *)
LEMMA Puts ==
  ASSUME IInv, NEW s \in Slots, NEW v \in Value, v \in Alive \cup {Nil}, Put(s, v),
         UNCHANGED <<mark, collector, called, heap, roots>>
  PROVE  IInv'
<1>1. /\ running \in Threads \ Free /\ stack' = [stack EXCEPT ![running][s] = v]
      /\ UNCHANGED <<mark, collector, called, heap, args, basemt>>
      /\ running' = running /\ running' \in Threads \cap Alive
  BY RunningAlive DEF Put, roots
<1>2. \A t \in Threads : args[t] # {} => t \in {Main, running'}
  BY <1>1 DEF IInv, HeapInv, ArgsHeld
<1> QED BY <1>1, <1>2, StackOnly

(* Steps that only put something in a slot.                                *)
LEMMA MoveKeeps ==
  ASSUME IInv, NEW s \in Slots, NEW v \in Value, Move(s, v) PROVE IInv'
<1>1. v \in Alive \cup {Nil}
  BY RunningAlive DEF Move
<1> QED BY <1>1, Puts DEF Move

LEMMA TableGetKeeps ==
  ASSUME IInv, NEW t \in Tables, NEW s \in Slots, NEW v \in Obj, TableGet(t, s, v) PROVE IInv'
<1>1. v \in Alive
  BY RunningAlive DEF TableGet, IInv, HeapInv, AliveClosed
<1>2. v \in Value
  <2>1. v \in {tab[t].key, tab[t].val} /\ tab[t].key \in Keys \cup {Nil} /\ tab[t].val \in Value
    BY RefsAre, ValuesIn DEF TableGet, IInv, Types, TypeOK
  <2> QED BY <2>1, ValuesIn
<1> QED BY <1>1, <1>2, Puts DEF TableGet

LEMMA GetEnvKeeps ==
  ASSUME IInv, NEW u \in Udata, NEW s \in Slots, GetEnv(u, s) PROVE IInv'
<1>1. env[u] \in Tables /\ env[u] \in Value
  BY ValuesIn DEF GetEnv, IInv, Types, TypeOK
<1>2. env[u] \in AllRefs(u)
  BY <1>1, RefsAre, ValuesIn
<1>3. env[u] \in Alive
  BY <1>2, RunningAlive DEF GetEnv, IInv, HeapInv, AliveClosed
<1> QED BY <1>1, <1>3, Puts DEF GetEnv

LEMMA GetBaseMtKeeps ==
  ASSUME IInv, NEW s \in Slots, GetBaseMt(s) PROVE IInv'
<1>1. basemt \in Tables /\ basemt \in Value /\ basemt \in Obj
  BY ValuesIn DEF GetBaseMt, IInv, Types, TypeOK
<1>3. basemt \in Alive
  BY <1>1 DEF IInv, HeapInv, RootsAlive, Roots
<1> QED BY <1>1, <1>3, Puts DEF GetBaseMt

(* The upvalue of a closure that is not free, and what it holds, is alive. *)
LEMMA UpAlive ==
  ASSUME IInv, NEW c \in Closures, c \in Alive
  PROVE  /\ up[c] \in Upvals /\ up[c] \in Alive
         /\ Contents(up[c]) \in Value /\ Contents(up[c]) \in Alive \cup {Nil}
<1>1. up[c] \in Upvals
  BY DEF IInv, Types, KindsSound, Alive
<1>2. up[c] \in Alive
  BY <1>1, RefsAre, ValuesIn DEF IInv, HeapInv, AliveClosed
<1>3. Contents(up[c]) \in Value
  BY <1>1, ContentsIn DEF IInv
<1>4. Contents(up[c]) \in Alive \cup {Nil}
  BY <1>1, <1>2, <1>3, RefsAre, ValuesIn DEF IInv, HeapInv, AliveClosed
<1> QED BY <1>1, <1>2, <1>3, <1>4

LEMMA GetUpvalKeeps ==
  ASSUME IInv, NEW c \in Closures, NEW s \in Slots, GetUpval(c, s) PROVE IInv'
<1>1. c \in Alive
  BY RunningAlive DEF GetUpval
<1> QED BY <1>1, UpAlive, Puts DEF GetUpval

(* lua_resume and lua_yield.                                               *)
LEMMA ResumeKeeps ==
  ASSUME IInv, NEW th \in Threads, NEW s \in Slots, NEW v \in Value, Resume(th, s, v) PROVE IInv'
<1>1. v \in Alive \cup {Nil} /\ th \in Alive /\ th \in Threads \ Free
  BY RunningAlive DEF Resume, Alive
<1>2. \A t \in Threads : args[t] # {} => t \in {Main, running'}
  BY DEF IInv, HeapInv, ArgsHeld, Resume
<1> QED BY <1>1, <1>2, StackOnly DEF Resume

LEMMA YieldKeeps ==
  ASSUME IInv, NEW s \in Slots, NEW v \in Value, Yield(s, v) PROVE IInv'
<1>1. v \in Alive \cup {Nil} /\ Main \in Alive /\ Main \in Threads \ Free
  BY RunningAlive DEF Yield, Alive
<1>2. \A t \in Threads : args[t] # {} => t \in {Main, running'}
  BY DEF IInv, HeapInv, ArgsHeld, Yield
<1> QED BY <1>1, <1>2, StackOnly DEF Yield

-----------------------------------------------------------------------------
(* Steps that leave colours and upvalues as they are, and add no reference. *)
LEMMA NoNewRefs ==
  ASSUME IInv, Types', RootsAlive', ArgsHeld', \A o \in Obj : AllRefs(o)' \subseteq AllRefs(o),
         UNCHANGED <<mark, collector, called, tab, uv>>
  PROVE  IInv'
<1>1. /\ Free' = Free /\ Dead' = Dead /\ Alive' = Alive
      /\ White' = White /\ Black' = Black /\ Gray' = Gray
  BY SameColours DEF collector
<1>u. UNCHANGED <<uv, cw, gcstate, tosweep, tmudata, finalized, called, gray, grayagain, weak>>
  BY DEF collector
<1>4. FreeEmpty' /\ AliveClosed' /\ OpenUpvalsSound'
  BY <1>1, <1>u DEF IInv, HeapInv, FreeEmpty, AliveClosed, OpenUpvalsSound, Open, Alive, Free
<1>5. MarkInv'
  BY <1>1, <1>u DEF IInv, MarkInv, Coloured, ListsSound, NoneLost, Open, Black
<1>6. SweepInv'
  BY <1>1, <1>u DEF IInv, SweepInv, Pending, Open
<1>7. FinInv'
  BY <1>u DEF IInv, FinInv
<1> QED BY <1>4, <1>5, <1>6, <1>7 DEF IInv, HeapInv

(* References are a function of tables, environments, upvalues, stacks.    *)
LEMMA SameRefs ==
  ASSUME UNCHANGED <<tab, env, up, uv, stack, args>>
  PROVE  \A o : AllRefs(o)' = AllRefs(o)
BY DEF AllRefs, Contents, Open, OnStack

(* Kinds stay sound when closures, upvalues and free cells stay.           *)
LEMMA KindsStay ==
  ASSUME Types, TypeOK', UNCHANGED <<up, uv>>, Free \cap Closures \subseteq Free'
  PROVE  Types'
BY DEF Types, KindsSound, Open

(* The setters without a barrier, and the end of a finalizer and of a      *)
(* cycle.                                                                  *)
LEMMA SetModeKeeps ==
  ASSUME IInv, NEW t \in Tables, NEW m \in Modes, SetMode(t, m) PROVE IInv'
<1>1. TypeOK'
  BY DEF IInv, Types, TypeOK, SetMode, collector, roots
<1>2. Types'
  BY <1>1, KindsStay, SameColours DEF SetMode, collector, IInv
<1>3. \A o : AllRefs(o)' = AllRefs(o)
  BY SameRefs DEF SetMode, roots
<1>4. RootsAlive' /\ ArgsHeld'
  BY SameColours DEF SetMode, collector, roots, IInv, HeapInv, RootsAlive, Roots, ArgsHeld
<1> QED BY <1>2, <1>3, <1>4, NoNewRefs DEF SetMode

LEMMA SetGCKeeps ==
  ASSUME IInv, NEW u \in Udata, NEW b \in BOOLEAN, SetGC(u, b) PROVE IInv'
<1>1. TypeOK'
  BY DEF IInv, Types, TypeOK, SetGC, collector, roots
<1>2. Types'
  BY <1>1, KindsStay, SameColours DEF SetGC, collector, IInv
<1>3. \A o : AllRefs(o)' = AllRefs(o)
  BY SameRefs DEF SetGC, roots
<1>4. RootsAlive' /\ ArgsHeld'
  BY SameColours DEF SetGC, collector, roots, IInv, HeapInv, RootsAlive, Roots, ArgsHeld
<1> QED BY <1>2, <1>3, <1>4, NoNewRefs DEF SetGC

LEMMA SetBaseMtKeeps ==
  ASSUME IInv, NEW t \in BaseMts \cup {Nil}, SetBaseMt(t) PROVE IInv'
<1>1. TypeOK'
  BY DEF IInv, Types, TypeOK, SetBaseMt, collector, heap
<1>2. Types'
  BY <1>1, KindsStay, SameColours DEF SetBaseMt, collector, heap, IInv
<1>3. \A o : AllRefs(o)' = AllRefs(o)
  BY SameRefs DEF SetBaseMt, heap
<1>5. t \in Alive \cup {Nil}
  BY RunningAlive DEF SetBaseMt
<1>4. RootsAlive' /\ ArgsHeld'
  BY <1>5, SameColours, ValuesIn DEF SetBaseMt, collector, heap, IInv, HeapInv, RootsAlive, Roots, ArgsHeld
<1> QED BY <1>2, <1>3, <1>4, NoNewRefs DEF SetBaseMt, heap

LEMMA FinalizerReturnsKeeps ==
  ASSUME IInv, NEW u \in Udata, FinalizerReturns(u) PROVE IInv'
<1>1. TypeOK'
  BY DEF IInv, Types, TypeOK, FinalizerReturns, collector, heap
<1>2. Types'
  BY <1>1, KindsStay, SameColours DEF FinalizerReturns, collector, heap, IInv
<1>5. \A th \in Threads : args'[th] \subseteq args[th]
  BY DEF FinalizerReturns, IInv, Types, TypeOK
<1>3. \A o \in Obj : AllRefs(o)' \subseteq AllRefs(o)
  <2>1. \A th \in Threads : OnStack(th)' \subseteq OnStack(th)
    BY <1>5 DEF OnStack, FinalizerReturns
  <2>2. \A o \in Obj \ Threads : AllRefs(o)' = AllRefs(o)
    BY DEF AllRefs, Contents, Open, FinalizerReturns, heap
  <2> QED BY <2>1, <2>2, RefsAre, RefsAreNext
<1>4. RootsAlive' /\ ArgsHeld'
  BY <1>5, SameColours DEF FinalizerReturns, collector, IInv, HeapInv, RootsAlive, Roots, ArgsHeld
<1> QED BY <1>2, <1>3, <1>4, NoNewRefs DEF FinalizerReturns, heap

LEMMA EndCycleKeeps ==
  ASSUME IInv, EndCycle PROVE IInv'
<1>1. /\ Free' = Free /\ Dead' = Dead /\ Alive' = Alive
      /\ White' = White /\ Black' = Black /\ Gray' = Gray
  BY SameColours DEF EndCycle
<1>2. \A o : AllRefs(o)' = AllRefs(o)
  BY SameRefs DEF EndCycle, heap, roots
<1>u. UNCHANGED <<uv, up, cw, tosweep, tmudata, finalized, called, gray, grayagain, weak, args, running, basemt>>
  BY DEF EndCycle, heap, roots
<1>3. TypeOK'
  BY DEF IInv, Types, TypeOK, EndCycle, heap, roots
<1>4. Types'
  BY <1>1, <1>u, <1>3, KindsStay DEF IInv
<1>5. HeapInv'
  BY <1>1, <1>2, <1>u DEF IInv, HeapInv, FreeEmpty, AliveClosed, RootsAlive, Roots, ArgsHeld, OpenUpvalsSound, Open
<1>6. MarkInv'
  BY <1>1, <1>u DEF IInv, MarkInv, Coloured, ListsSound, Open, EndCycle
<1>7. SweepInv'
  BY <1>1, <1>u DEF IInv, SweepInv, Pending, Open, EndCycle
<1>8. FinInv'
  BY <1>u DEF IInv, FinInv
<1> QED BY <1>4, <1>5, <1>6, <1>7, <1>8 DEF IInv

-----------------------------------------------------------------------------
(* New objects.                                                            *)

(* The colours after cells are made, or dead ones revived, as white.       *)
LEMMA Whitened ==
  ASSUME Types, NEW N \in SUBSET (Free \cup Dead),
         mark' = [o \in Obj |-> IF o \in N THEN cw ELSE mark[o]], cw' = cw
  PROVE  /\ Free' = Free \ N /\ Dead' = Dead \ N /\ Alive' = Alive \cup N
         /\ White' = White \cup N /\ Black' = Black /\ Gray' = Gray
         /\ N \subseteq Obj /\ N \cap Alive = {}
BY Colours DEF Free, Dead, Alive, White, Black, Gray, Whites, Types, TypeOK

(* Making the cells N, or reviving them, keeps the invariant if they refer *)
(* to what is alive and nothing black refers to them.                      *)
LEMMA Allocates ==
  ASSUME IInv, Types', OpenUpvalsSound', NEW N \in SUBSET (Free \cup Dead),
         mark' = [o \in Obj |-> IF o \in N THEN cw ELSE mark[o]],
         UNCHANGED <<collector, called, roots, tab>>,
         \A v \in Upvals \ (N \cap Free) : uv'[v] = uv[v],
         \A o \in Alive : AllRefs(o)' \subseteq AllRefs(o) \cup Alive \cup N,
         \A o \in N : AllRefs(o)' \subseteq Alive \cup N,
         \A o \in Obj \ N : o \in Free \/ (gcstate = "propagate" /\ o \in Black) => AllRefs(o)' = AllRefs(o)
  PROVE  IInv'
<1>u. UNCHANGED <<cw, gcstate, tosweep, tmudata, finalized, called, gray, grayagain, weak, args, running, basemt>>
  BY DEF collector, roots
<1>1. /\ Free' = Free \ N /\ Dead' = Dead \ N /\ Alive' = Alive \cup N
      /\ White' = White \cup N /\ Black' = Black /\ Gray' = Gray
      /\ N \subseteq Obj /\ N \cap Alive = {}
  BY Whitened, <1>u DEF IInv
<1>2. HeapInv'
  <2>1. FreeEmpty'
    BY <1>1 DEF IInv, HeapInv, FreeEmpty, Open, Free
  <2>2. AliveClosed'
    BY <1>1 DEF IInv, HeapInv, AliveClosed
  <2>3. RootsAlive' /\ ArgsHeld'
    BY <1>1, <1>u DEF IInv, HeapInv, RootsAlive, Roots, ArgsHeld
  <2> QED BY <2>1, <2>2, <2>3 DEF HeapInv
<1>3. MarkInv'
  <2>1. Coloured'
    BY <1>1, Colours DEF IInv, MarkInv, Coloured, Open, Gray, Free
  <2>2. ListsSound'
    BY <1>1, <1>u DEF IInv, MarkInv, ListsSound
  <2>3. gcstate = "propagate" => Dead' = {} /\ Main \notin White'
    BY <1>1, RunningAlive DEF IInv, MarkInv
  <2>4. gcstate = "propagate" => NoneLost'
    <3>k. gcstate = "propagate" => \A t \in Tables \cap Black : tab[t].key \notin White' \cup Free'
      BY <1>1 DEF IInv, MarkInv, NoneLost
    <3> SUFFICES ASSUME gcstate = "propagate", NEW o \in Black \ tmudata
                 PROVE  AllRefs(o)' \cap (White \cup N) = {}
      BY <1>1, <1>u, <3>k DEF NoneLost
    <3>1. o \in Obj /\ o \in Alive
      BY Colours DEF Black, IInv
    <3>2. AllRefs(o)' = AllRefs(o)
      BY <3>1, <1>1
    <3> QED BY <3>1, <3>2, <1>1 DEF IInv, MarkInv, NoneLost, HeapInv, AliveClosed
  <2> QED BY <2>1, <2>2, <2>3, <2>4, <1>u DEF MarkInv
<1>4. SweepInv'
  <2>1. \A o \in Obj : mark'[o] = IF o \in N THEN cw ELSE mark[o]
    OBVIOUS
  <2>2. \A v \in Upvals : v \in N \/ uv'[v] = uv[v]
    OBVIOUS
  <2>3. \A v \in tosweep \cap Upvals : uv'[v] = uv[v]
    BY DEF IInv, SweepInv
  <2> QED BY <1>1, <1>u, <2>1, <2>2, <2>3 DEF IInv, SweepInv, Pending, Open
<1>5. FinInv'
  BY <1>u DEF IInv, FinInv
<1> QED BY <1>2, <1>3, <1>4, <1>5 DEF IInv

(* luaC_link, luaS_newlstr, OP_CLOSURE.                                    *)
LEMMA CreateKeeps ==
  ASSUME IInv, NEW o \in Obj, NEW s \in Slots, Create(o, s) PROVE IInv'
<1> DEFINE N == {o}
<1>1. o \in Free /\ o \in Value /\ N \in SUBSET (Free \cup Dead)
  BY ValuesIn DEF Create
<1>2. mark' = [x \in Obj |-> IF x \in N THEN cw ELSE mark[x]]
  BY DEF Create, IInv, Types, TypeOK
<1>u. UNCHANGED <<collector, called, roots, tab, mode, env, hasgc, up, uv, args, running, basemt, cw>>
  BY DEF Create, collector, heap, roots
<1>3. Types'
  <2>1. mark' \in [Obj -> Whites \cup {"free", "gray", "black"}]
    BY <1>2 DEF IInv, Types, TypeOK
  <2>2. stack' \in [Threads -> [Slots -> Value]]
    BY <1>1 DEF Create, Put, IInv, Types, TypeOK
  <2>3. TypeOK'
    BY <2>1, <2>2, <1>u DEF IInv, Types, TypeOK, collector
  <2>4. Free \cap Closures \subseteq Free'
    BY <1>2, KindsAssumption DEF Free, Create
  <2> QED BY <2>3, <2>4, <1>u, KindsStay DEF IInv
<1>4. running \in Threads \ Free /\ stack' = [stack EXCEPT ![running][s] = o]
  BY RunningAlive DEF Create, Put
<1>5. /\ \A x \in Obj : AllRefs(x)' \subseteq AllRefs(x) \cup (Obj \cap {o})
      /\ \A x \in Obj : x # running /\ (x \in Upvals => uv[x].th # running) => AllRefs(x)' = AllRefs(x)
  BY <1>1, <1>4, <1>u, PutRefs DEF SameLinks, IInv
<1>6. OpenUpvalsSound'
  <2>1. Free' = Free \ N /\ Black' = Black
    BY <1>1, <1>2, <1>u, Whitened DEF IInv
  <2> QED BY <2>1, <1>u DEF IInv, HeapInv, OpenUpvalsSound, Open
<1>7. \A x \in Obj \ N : x \in Free \/ (gcstate = "propagate" /\ x \in Black) => AllRefs(x)' = AllRefs(x)
  BY <1>4, <1>5, ValuesIn DEF IInv, HeapInv, FreeEmpty, OpenUpvalsSound, MarkInv, ListsSound, Open
<1>8. \A x \in Alive : AllRefs(x)' \subseteq AllRefs(x) \cup Alive \cup N
  BY <1>5 DEF Alive
<1>9. \A x \in N : AllRefs(x)' \subseteq Alive \cup N
  BY <1>1, <1>5 DEF IInv, HeapInv, FreeEmpty
<1> QED BY <1>1, <1>2, <1>3, <1>u, <1>6, <1>7, <1>8, <1>9, Allocates

LEMMA InternKeeps ==
  ASSUME IInv, NEW o \in Strings, NEW s \in Slots, Intern(o, s) PROVE IInv'
<1> DEFINE N == {o} \cap Dead
<1>1. o \in Obj \ Free /\ o \in Value /\ N \in SUBSET (Free \cup Dead)
  BY ValuesIn DEF Intern
<1>2. mark' = [x \in Obj |-> IF x \in N THEN cw ELSE mark[x]]
  BY <1>1, Colours DEF Intern, IInv, Types, TypeOK, Dead
<1>u. UNCHANGED <<collector, called, roots, tab, mode, env, hasgc, up, uv, args, running, basemt, cw>>
  BY DEF Intern, collector, heap, roots
<1>w. Free' = Free \ N /\ Black' = Black /\ Free' = Free
  <2>1. Free' = Free \ N /\ Black' = Black
    BY <1>1, <1>2, <1>u, Whitened DEF IInv
  <2> QED BY <2>1, <1>1
<1>3. Types'
  <2>1. mark' \in [Obj -> Whites \cup {"free", "gray", "black"}]
    BY <1>2 DEF IInv, Types, TypeOK
  <2>2. stack' \in [Threads -> [Slots -> Value]]
    BY <1>1 DEF Intern, Put, IInv, Types, TypeOK
  <2>3. TypeOK'
    BY <2>1, <2>2, <1>u DEF IInv, Types, TypeOK, collector
  <2> QED BY <2>3, <1>u, <1>w, KindsStay DEF IInv
<1>4. running \in Threads \ Free /\ stack' = [stack EXCEPT ![running][s] = o]
  BY RunningAlive DEF Intern, Put
<1>5. /\ \A x \in Obj : AllRefs(x)' \subseteq AllRefs(x) \cup (Obj \cap {o})
      /\ \A x \in Obj : x # running /\ (x \in Upvals => uv[x].th # running) => AllRefs(x)' = AllRefs(x)
  BY <1>1, <1>4, <1>u, PutRefs DEF SameLinks, IInv
<1>6. OpenUpvalsSound'
  BY <1>u, <1>w DEF IInv, HeapInv, OpenUpvalsSound, Open
<1>7. \A x \in Obj \ N : x \in Free \/ (gcstate = "propagate" /\ x \in Black) => AllRefs(x)' = AllRefs(x)
  BY <1>4, <1>5, ValuesIn DEF IInv, HeapInv, FreeEmpty, OpenUpvalsSound, MarkInv, ListsSound, Open
<1>8. \A x \in Alive : AllRefs(x)' \subseteq AllRefs(x) \cup Alive \cup N
  BY <1>1, <1>5 DEF Alive
<1>9. \A x \in N : AllRefs(x)' \subseteq Alive \cup N
  BY <1>1, RefsAreNext
<1> QED BY <1>1, <1>2, <1>3, <1>u, <1>6, <1>7, <1>8, <1>9, Allocates

LEMMA ShareUpvalKeeps ==
  ASSUME IInv, NEW c \in Closures, NEW d \in Slots, NEW outer \in Closures, ShareUpval(c, d, outer)
  PROVE  IInv'
<1> DEFINE N == {c}
<1>1. c \in Free /\ c \in Value /\ N \in SUBSET (Free \cup Dead) /\ c \in Obj
  BY ValuesIn DEF ShareUpval
<1>2. mark' = [x \in Obj |-> IF x \in N THEN cw ELSE mark[x]]
  BY DEF ShareUpval, IInv, Types, TypeOK
<1>u. UNCHANGED <<collector, called, roots, tab, mode, env, hasgc, uv, args, running, basemt, cw>>
  BY DEF ShareUpval, collector, roots
<1>v. up[outer] \in Upvals /\ up[outer] \in Alive
  BY RunningAlive, UpAlive DEF ShareUpval
<1>w. Free' = Free \ N /\ Black' = Black
  BY <1>1, <1>2, <1>u, Whitened DEF IInv
<1>p. \A x \in Closures : up'[x] = IF x = c THEN up[outer] ELSE up[x]
  BY DEF ShareUpval, IInv, Types, TypeOK
<1>3. Types'
  <2>1. mark' \in [Obj -> Whites \cup {"free", "gray", "black"}]
    BY <1>2 DEF IInv, Types, TypeOK
  <2>2. stack' \in [Threads -> [Slots -> Value]] /\ up' \in [Closures -> Upvals \cup {Nil}]
    BY <1>1, <1>v DEF ShareUpval, Put, IInv, Types, TypeOK
  <2>3. TypeOK'
    BY <2>1, <2>2, <1>u DEF IInv, Types, TypeOK, collector
  <2>4. KindsSound'
    BY <1>u, <1>v, <1>w, <1>p DEF IInv, Types, KindsSound, Open
  <2> QED BY <2>3, <2>4 DEF Types
<1>4. running \in Threads \ Free /\ stack' = [stack EXCEPT ![running][d] = c]
  BY RunningAlive DEF ShareUpval, Put
<1>5. /\ \A x \in Obj \ {c} : AllRefs(x)' \subseteq AllRefs(x) \cup (Obj \cap {c})
      /\ \A x \in Obj \ {c} : x # running /\ (x \in Upvals => uv[x].th # running) => AllRefs(x)' = AllRefs(x)
  BY <1>1, <1>4, <1>u, <1>p, PutRefs DEF SameLinks, IInv
<1>6. OpenUpvalsSound'
  BY <1>u, <1>w DEF IInv, HeapInv, OpenUpvalsSound, Open
<1>7. \A x \in Obj \ N : x \in Free \/ (gcstate = "propagate" /\ x \in Black) => AllRefs(x)' = AllRefs(x)
  BY <1>4, <1>5, ValuesIn DEF IInv, HeapInv, FreeEmpty, OpenUpvalsSound, MarkInv, ListsSound, Open
<1>8. \A x \in Alive : AllRefs(x)' \subseteq AllRefs(x) \cup Alive \cup N
  BY <1>1, <1>5 DEF Alive
<1>9. \A x \in N : AllRefs(x)' \subseteq Alive \cup N
  BY <1>p, <1>v, RefsAreNext
<1> QED BY <1>1, <1>2, <1>3, <1>u, <1>6, <1>7, <1>8, <1>9, Allocates

LEMMA NewClosureKeeps ==
  ASSUME IInv, NEW c \in Closures, NEW d \in Slots, NEW v \in Upvals, NEW s \in Slots,
         NewClosure(c, d, v, s)
  PROVE  IInv'
<1> DEFINE N == {c} \cup ({v} \cap (Free \cup Dead))
<1>1. c \in Free /\ c \in Value /\ N \in SUBSET (Free \cup Dead) /\ c \in Obj /\ v \in Obj /\ c # v
  BY ValuesIn, KindsAssumption DEF NewClosure
<1>2. mark' = [x \in Obj |-> IF x \in N THEN cw ELSE mark[x]]
  BY <1>1 DEF NewClosure, Revived, IInv, Types, TypeOK
<1>u. UNCHANGED <<collector, called, roots, tab, mode, env, hasgc, args, running, basemt, cw>>
  BY DEF NewClosure, collector, roots
<1>w. Free' = Free \ N /\ Black' = Black
  BY <1>1, <1>2, <1>u, Whitened DEF IInv
<1>p. \A x \in Closures : up'[x] = IF x = c THEN v ELSE up[x]
  BY DEF NewClosure, IInv, Types, TypeOK
<1>4. running \in Threads \ Free /\ stack' = [stack EXCEPT ![running][d] = c] /\ running \in Alive /\ running # Nil
  BY RunningAlive DEF NewClosure, Put
<1>q. /\ \A x \in Upvals \ {v} : uv'[x] = uv[x]
      /\ v \notin Free => uv'[v] = uv[v]
      /\ uv'[v].th = running /\ uv'[v].slot = s /\ uv'[v] \in [th : Threads \cup {Nil}, slot : Slots \cup {Nil}, val : Value]
      /\ uv' \in [Upvals -> [th : Threads \cup {Nil}, slot : Slots \cup {Nil}, val : Value]]
  <2>1. CASE \E w \in Upvals : Found(w, s)
    BY <2>1 DEF NewClosure, FindUpval, Found, IInv, Types, TypeOK
  <2>2. CASE ~\E w \in Upvals : Found(w, s)
    <3>1. v \in Free /\ uv' = [uv EXCEPT ![v] = [th |-> running, slot |-> s, val |-> Nil]]
      BY <2>2 DEF NewClosure, FindUpval
    <3>2. [th |-> running, slot |-> s, val |-> Nil] \in [th : Threads \cup {Nil}, slot : Slots \cup {Nil}, val : Value]
      BY <1>4 DEF Value
    <3> QED BY <3>1, <3>2 DEF IInv, Types, TypeOK
  <2> QED BY <2>1, <2>2
<1>r. \A w \in Upvals \ {v} : uv[w].th = running => uv[w].slot # s
  <2>1. CASE \E w \in Upvals : Found(w, s)
    BY <2>1, <1>4 DEF NewClosure, FindUpval, Found, IInv, HeapInv, OpenUpvalsSound, Open
  <2>2. CASE ~\E w \in Upvals : Found(w, s)
    BY <2>2, <1>4 DEF Found, IInv, HeapInv, FreeEmpty, Open
  <2> QED BY <2>1, <2>2
<1>3. Types'
  <2>1. mark' \in [Obj -> Whites \cup {"free", "gray", "black"}]
    BY <1>2 DEF IInv, Types, TypeOK
  <2>2. stack' \in [Threads -> [Slots -> Value]] /\ up' \in [Closures -> Upvals \cup {Nil}]
    BY <1>1 DEF NewClosure, Put, IInv, Types, TypeOK
  <2>3. TypeOK'
    BY <2>1, <2>2, <1>u, <1>q DEF IInv, Types, TypeOK, collector
  <2>4. KindsSound'
    <3>1. \A w \in Upvals : Open(w)' => uv'[w].slot \in Slots
      BY <1>q DEF IInv, Types, KindsSound, Open
    <3>2. \A x \in Closures \ Free' : up'[x] \in Upvals
      BY <1>w, <1>p, KindsAssumption DEF IInv, Types, KindsSound
    <3> QED BY <3>1, <3>2 DEF KindsSound
  <2> QED BY <2>3, <2>4 DEF Types
<1>5. /\ \A x \in Obj \ {c} : x # v \/ v \notin Free => AllRefs(x)' \subseteq AllRefs(x) \cup (Obj \cap {c})
      /\ \A x \in Obj \ {c, v} : x # running /\ (x \in Upvals => uv[x].th # running) => AllRefs(x)' = AllRefs(x)
  <2>1. /\ \A x \in Obj : SameLinks(x) => AllRefs(x)' \subseteq AllRefs(x) \cup (Obj \cap {c})
        /\ \A x \in Obj : SameLinks(x) /\ x # running /\ (x \in Upvals => uv[x].th # running)
                           => AllRefs(x)' = AllRefs(x)
    BY <1>1, <1>4, <1>u, PutRefs DEF IInv
  <2>2. \A x \in Obj \ {c} : x # v \/ v \notin Free => SameLinks(x)
    BY <1>p, <1>q DEF SameLinks
  <2> QED BY <2>1, <2>2
<1>6. OpenUpvalsSound'
  <2>1. \A w \in Upvals \ {v} : Open(w)' <=> Open(w)
    BY <1>q DEF Open
  <2>2. v \notin Black
    BY <1>q, <1>4 DEF Black, Free, IInv, HeapInv, OpenUpvalsSound, Open
  <2> QED BY <1>q, <1>r, <1>w, <1>4, <2>1, <2>2 DEF IInv, HeapInv, OpenUpvalsSound, Open
<1>7. \A x \in Obj \ N : x \in Free \/ (gcstate = "propagate" /\ x \in Black) => AllRefs(x)' = AllRefs(x)
  <2> SUFFICES ASSUME NEW x \in Obj \ N, x \in Free \/ (gcstate = "propagate" /\ x \in Black)
               PROVE  AllRefs(x)' = AllRefs(x)
    OBVIOUS
  <2>1. x # c /\ x # running /\ (x \in Upvals => uv[x].th = Nil)
    BY <1>4 DEF IInv, HeapInv, FreeEmpty, OpenUpvalsSound, MarkInv, ListsSound, Open
  <2>2. x # v
    BY <2>1, <1>q, <1>4
  <2> QED BY <2>1, <2>2, <1>4, <1>5
<1>8. \A x \in Alive : AllRefs(x)' \subseteq AllRefs(x) \cup Alive \cup N
  BY <1>1, <1>5 DEF Alive
<1>9. \A x \in N : AllRefs(x)' \subseteq Alive \cup N
  <2>1. AllRefs(c)' \subseteq Alive \cup N
    BY <1>p, RefsAreNext, <1>1 DEF Alive
  <2>2. Contents(v)' = stack'[running][s] /\ stack'[running][s] \in {c, stack[running][s]}
    BY <1>q, <1>4 DEF Contents, Open, IInv, Types, TypeOK
  <2>3. stack[running][s] \in Alive \cup {Nil}
    BY RunningAlive DEF Held, OnStack
  <2>4. AllRefs(v)' \subseteq Alive \cup N
    BY <2>2, <2>3, RefsAreNext, ValuesIn
  <2> QED BY <2>1, <2>4
<1>s. \A x \in Upvals \ (N \cap Free) : uv'[x] = uv[x]
  BY <1>q
<1> QED BY <1>1, <1>2, <1>3, <1>u, <1>s, <1>6, <1>7, <1>8, <1>9, Allocates

-----------------------------------------------------------------------------
(* Stores with a barrier.                                                  *)

(* luaH_set with luaC_barriert: a black table that gets something white is *)
(* gray again. No barrier is needed for the key that an empty entry kept:  *)
(* of a black table it is not white.                                       *)
LEMMA TableSetKeeps ==
  ASSUME IInv, NEW t \in Tables, NEW k \in Keys, NEW v \in Value, TableSet(t, k, v) PROVE IInv'
<1>u. UNCHANGED <<cw, gcstate, gray, weak, tosweep, tmudata, finalized, drain, called, mode, env, hasgc, up, uv, stack,
                  args, running, basemt>>
  BY DEF TableSet, roots
<1>1. t \in Alive /\ t \in Obj /\ k \in Alive \cup {Num} /\ v \in Alive \cup {Nil}
  BY RunningAlive, ValuesIn DEF TableSet
<1>2. /\ \A x \in Tables \ {t} : tab'[x] = tab[x]
      /\ tab'[t] = [key |-> k, val |-> v] /\ tab' \in [Tables -> [key : Keys \cup {Nil}, val : Value]]
  BY DEF TableSet, IInv, Types, TypeOK
<1>3. /\ \A o \in Obj \ {t} : AllRefs(o)' = AllRefs(o)
      /\ AllRefs(t)' \subseteq Obj \cap {k, v}
  <2>1. AllRefs(t)' \subseteq Obj \cap {k, v}
    BY <1>2, RefsAreNext
  <2>2. \A o \in Obj \ {t} : AllRefs(o)' = AllRefs(o)
    BY <1>2, <1>u DEF AllRefs, Contents, Open, OnStack
  <2> QED BY <2>1, <2>2
<1>4. /\ Free' = Free /\ White' = White /\ Dead' = Dead /\ Alive' = Alive
      /\ mark' \in [Obj -> Whites \cup {"free", "gray", "black"}]
      /\ \A o \in Obj \ {t} : mark'[o] = mark[o]
      /\ \/ /\ Black' = Black /\ Gray' = Gray /\ grayagain' = grayagain /\ mark' = mark
            /\ t \in Black => v \notin White /\ (tab[t].key = k \/ k \notin White)
         \/ /\ t \in Black /\ Black' = Black \ {t} /\ Gray' = Gray \cup {t}
            /\ grayagain' = grayagain \cup {t}
  <2> DEFINE V == {v} \cup (IF tab[t].key = k THEN {} ELSE {k})
  <2>0. BarrierBack(t, V)
    BY DEF TableSet
  <2>1. CASE \E y \in V : NeedsBarrier(t, y)
    <3>1. mark' = [mark EXCEPT ![t] = "gray"] /\ grayagain' = grayagain \cup {t} /\ t \in Black
      BY <2>0, <2>1 DEF BarrierBack, NeedsBarrier
    <3>2. /\ mark' \in [Obj -> Whites \cup {"free", "gray", "black"}]
          /\ mark'[t] = "gray" /\ mark[t] = "black" /\ \A o \in Obj \ {t} : mark'[o] = mark[o]
      BY <3>1, <1>1 DEF IInv, Types, TypeOK, Black
    <3>3. Free' = Free /\ White' = White /\ Black' = Black \ {t} /\ Gray' = Gray \cup {t}
      BY <3>2, <1>1 DEF Free, White, Whites, Black, Gray
    <3>4. Dead' = Dead
      BY <3>2, <1>1, <1>u, Colours DEF Dead, IInv, Other
    <3> QED BY <3>1, <3>2, <3>3, <3>4 DEF Alive
  <2>2. CASE ~\E y \in V : NeedsBarrier(t, y)
    <3>1. UNCHANGED <<mark, grayagain>>
      BY <2>0, <2>2 DEF BarrierBack
    <3>2. t \in Black => v \notin White /\ (tab[t].key = k \/ k \notin White)
      BY <2>2 DEF NeedsBarrier
    <3> QED BY <3>1, <3>2, <1>u, SameColours DEF IInv, Types, TypeOK
  <2> QED BY <2>1, <2>2
<1>5. Types'
  <2>1. grayagain' \subseteq Tables \cup Closures \cup Threads
    BY <1>4 DEF IInv, Types, TypeOK
  <2>2. TypeOK'
    BY <1>2, <1>4, <1>u, <2>1 DEF IInv, Types, TypeOK
  <2> QED BY <2>2, <1>u, <1>4, KindsStay DEF IInv
<1>6. HeapInv'
  <2>1. FreeEmpty'
    BY <1>1, <1>3, <1>4, <1>u DEF IInv, HeapInv, FreeEmpty, Open, Alive, Free
  <2>2. AliveClosed'
    <3>1. AllRefs(t)' \subseteq Alive
      BY <1>1, <1>3, ValuesIn
    <3> QED BY <3>1, <1>3, <1>4 DEF IInv, HeapInv, AliveClosed, Alive
  <2>3. RootsAlive' /\ ArgsHeld'
    BY <1>4, <1>u DEF IInv, HeapInv, RootsAlive, Roots, ArgsHeld
  <2>4. OpenUpvalsSound'
    BY <1>4, <1>u DEF IInv, HeapInv, OpenUpvalsSound, Open
  <2> QED BY <2>1, <2>2, <2>3, <2>4 DEF HeapInv
<1>7. MarkInv'
  <2>1. Coloured'
    BY <1>4, <1>u, KindsAssumption DEF IInv, MarkInv, Coloured, Open
  <2>2. ListsSound'
    <3> SUFFICES ASSUME gcstate = "propagate" PROVE ListsSound'
      BY <1>u DEF ListsSound
    <3>1. t \in Black => t \notin gray \cup grayagain \cup weak
      BY DEF IInv, MarkInv, ListsSound, Black, Gray
    <3>2. t \in Listed
      BY DEF Listed
    <3> QED BY <1>4, <1>u, <3>1, <3>2 DEF IInv, MarkInv, ListsSound
  <2>3. gcstate = "propagate" => NoneLost'
    <3> SUFFICES ASSUME gcstate = "propagate" PROVE NoneLost'
      OBVIOUS
    <3>1. ASSUME NEW o \in Black' \ tmudata PROVE AllRefs(o)' \cap White = {}
      <4>1. CASE o # t
        BY <4>1, <3>1, <1>3, <1>4 DEF IInv, MarkInv, NoneLost, Black
      <4>2. CASE o = t
        <5>1. t \in Black /\ v \notin White /\ (tab[t].key = k \/ k \notin White)
          BY <4>2, <3>1, <1>4
        <5>2. k \notin White
          BY <5>1 DEF IInv, MarkInv, NoneLost
        <5> QED BY <4>2, <5>1, <5>2, <1>3
      <4> QED BY <4>1, <4>2
    <3>2. ASSUME NEW x \in Tables, x \in Black' PROVE tab'[x].key \notin White \cup Free
      <4>1. CASE x # t
        BY <4>1, <3>2, <1>2, <1>4 DEF IInv, MarkInv, NoneLost
      <4>2. CASE x = t
        <5>1. t \in Black /\ v \notin White /\ (tab[t].key = k \/ k \notin White)
          BY <4>2, <3>2, <1>4
        <5>2. k \notin White \cup Free
          BY <5>1, <1>1, ValuesIn DEF IInv, MarkInv, NoneLost, Alive, Free
        <5> QED BY <4>2, <5>2, <1>2
      <4> QED BY <4>1, <4>2
    <3> QED BY <3>1, <3>2, <1>4, <1>u DEF NoneLost
  <2>4. gcstate = "propagate" => Dead' = {} /\ Main \notin White'
    BY <1>4 DEF IInv, MarkInv
  <2> QED BY <1>u, <2>1, <2>2, <2>3, <2>4 DEF MarkInv
<1>8. SweepInv'
  <2>1. Pending(t)' <=> Pending(t)
    BY <1>u DEF Pending
  <2>2. ASSUME gcstate # "propagate", NEW o \in Obj
        PROVE  mark'[o] \in {"free", cw} \/ Pending(o)' \/ (o \in tmudata /\ o \in Black')
    <3>1. CASE o # t
      BY <2>2, <3>1, <1>4, <1>u DEF IInv, SweepInv, Pending, Black
    <3>2. CASE o = t /\ t \in Black
      <4>1. t \notin tmudata
        BY KindsAssumption DEF IInv, Types, TypeOK
      <4>2. mark[t] = "black"
        BY <3>2 DEF Black
      <4> QED BY <2>1, <2>2, <3>2, <4>1, <4>2, Colours DEF IInv, SweepInv
    <3>3. CASE o = t /\ mark' = mark
      BY <2>2, <3>3, <1>4, <1>u DEF IInv, SweepInv, Pending, Black
    <3> QED BY <3>1, <3>2, <3>3, <1>4
  <2> QED BY <2>2, <1>4, <1>u DEF IInv, SweepInv, Open
<1>9. FinInv'
  BY <1>u DEF IInv, FinInv
<1> QED BY <1>5, <1>6, <1>7, <1>8, <1>9 DEF IInv

(* luaC_barrier and luaC_objbarrier after a store of v, alive, in o.       *)
LEMMA Forward ==
  ASSUME IInv, NEW o \in Udata \cup {u \in Upvals : ~Open(u)}, o \in Alive, NEW v \in Alive \cup {Nil},
         BarrierForward(o, v),
         UNCHANGED <<cw, gcstate, grayagain, weak, tosweep, tmudata, finalized, drain, called, tab, mode, hasgc, up, stack, args,
                     running, basemt>>,
         env' \in [Udata -> Tables \cup {Nil}],
         uv' \in [Upvals -> [th : Threads \cup {Nil}, slot : Slots \cup {Nil}, val : Value]],
         \A w \in Upvals : uv'[w].th = uv[w].th /\ uv'[w].slot = uv[w].slot,
         \A x \in Obj \ {o} : AllRefs(x)' = AllRefs(x),
         AllRefs(o)' \subseteq Obj \cap {v}
  PROVE  IInv'
<1>o. o \in Obj /\ o \notin Tables /\ o \notin Threads /\ Blackened(o)
  BY ValuesIn, KindsAssumption DEF Blackened
<1>p. \A w \in Upvals : Open(w)' <=> Open(w)
  BY DEF Open
(* What the three outcomes of the barrier have in common.                  *)
<1>a. ASSUME mark' \in [Obj -> Whites \cup {"free", "gray", "black"}],
             gray' \subseteq Tables \cup Closures \cup Threads,
             Free' = Free, Alive' = Alive, Black' \subseteq Black \cup {x \in Obj : Blackened(x)},
             MarkInv', SweepInv'
      PROVE  IInv'
  <2>1. Types'
    <3>1. TypeOK'
      BY <1>a DEF IInv, Types, TypeOK
    <3>2. KindsSound'
      BY <1>a, <1>p DEF IInv, Types, KindsSound
    <3> QED BY <3>1, <3>2 DEF Types
  <2>2. FreeEmpty'
    BY <1>a, <1>p DEF IInv, HeapInv, FreeEmpty, Alive, Free
  <2>3. AliveClosed'
    <3>1. AllRefs(o)' \subseteq Alive
      BY ValuesIn
    <3> QED BY <3>1, <1>a DEF IInv, HeapInv, AliveClosed, Alive
  <2>4. RootsAlive' /\ ArgsHeld'
    BY <1>a DEF IInv, HeapInv, RootsAlive, Roots, ArgsHeld
  <2>5. OpenUpvalsSound'
    <3>1. \A w \in Upvals : Open(w) => w \notin Black'
      BY <1>a, KindsAssumption DEF IInv, HeapInv, OpenUpvalsSound, Blackened
    <3> QED BY <3>1, <1>a, <1>p DEF IInv, HeapInv, OpenUpvalsSound
  <2>6. FinInv'
    BY DEF IInv, FinInv
  <2> QED BY <1>a, <2>1, <2>2, <2>3, <2>4, <2>5, <2>6 DEF IInv, HeapInv
<1>1. CASE ~NeedsBarrier(o, v)
  <2>1. mark' = mark /\ gray' = gray
    BY <1>1 DEF BarrierForward
  <2>2. /\ Free' = Free /\ Dead' = Dead /\ Alive' = Alive
        /\ White' = White /\ Black' = Black /\ Gray' = Gray
    BY <2>1, SameColours
  <2>3. MarkInv'
    <3>1. gcstate = "propagate" => NoneLost'
      BY <1>1, <2>2 DEF IInv, MarkInv, NoneLost, NeedsBarrier, Black
    <3>2. Coloured' /\ ListsSound'
      BY <2>1, <2>2, <1>p DEF IInv, MarkInv, Coloured, ListsSound
    <3> QED BY <2>2, <3>1, <3>2 DEF IInv, MarkInv
  <2>4. SweepInv'
    BY <2>1, <2>2, <1>p DEF IInv, SweepInv, Pending
  <2> QED BY <1>a, <2>1, <2>2, <2>3, <2>4 DEF IInv, Types, TypeOK
<1>2. CASE NeedsBarrier(o, v) /\ gcstate = "propagate"
  <2> DEFINE T == Touched({v})
  <2>1. mark' = Marked({v}) /\ gray' = gray \cup (T \cap Listed) /\ o \in Black /\ v \in White
    BY <1>2 DEF BarrierForward, NeedsBarrier
  <2>2. /\ v \in T /\ T \subseteq White /\ T \subseteq Obj
        /\ \A x \in T \cap (Udata \cup Upvals) : AllRefs(x) \cap White \subseteq T
    BY <2>1, TouchedIs DEF IInv, White
  <2>3. /\ Free' = Free /\ Dead' = Dead \ T /\ Alive' = Alive \cup T
        /\ White' = White \ T
        /\ Black' = Black \cup {x \in T : Blackened(x)}
        /\ Gray' = Gray \cup {x \in T : ~Blackened(x)}
    BY <2>1, Marking DEF IInv
  <2> HIDE DEF T
  <2>4. White \cap Black = {} /\ White \cap Free = {} /\ White \cap Gray = {}
    BY DEF White, Black, Free, Gray, Whites
  <2>5. Alive' = Alive /\ Dead' = {}
    BY <1>2, <2>2, <2>3, <2>4 DEF IInv, MarkInv, Alive
  <2>6. NoneLost'
    <3>1. ASSUME NEW x \in Black' \ tmudata PROVE AllRefs(x)' \cap White' = {}
      <4>1. CASE x = o
        BY <4>1, <2>2, <2>3
      <4>2. CASE x # o /\ x \in Black
        BY <3>1, <4>2, <1>2, <2>3 DEF IInv, MarkInv, NoneLost, Black
      <4>3. CASE x # o /\ x \in T /\ Blackened(x)
        BY <4>3, <2>2, <2>3 DEF Blackened
      <4> QED BY <3>1, <4>1, <4>2, <4>3, <2>3
    <3>2. \A t \in Tables \cap Black' : t \in Black
      BY <2>3, KindsAssumption DEF Blackened
    <3>3. \A t \in Tables \cap Black' : tab[t].key \notin White' \cup Free'
      BY <3>2, <2>3, <1>2 DEF IInv, MarkInv, NoneLost
    <3> QED BY <3>1, <3>3 DEF NoneLost
  <2>7. Coloured'
    BY <2>3, <1>p DEF IInv, MarkInv, Coloured, Blackened
  <2>8. ListsSound'
    <3>1. {x \in T : ~Blackened(x)} \cap Listed = T \cap Listed
      BY KindsAssumption DEF Blackened, Listed
    <3>2. T \cap Gray = {} /\ Threads \cap {x \in T : Blackened(x)} = {}
      BY <2>2, <2>4, KindsAssumption DEF Blackened
    <3> QED BY <2>1, <2>3, <3>1, <3>2, <1>2 DEF IInv, MarkInv, ListsSound
  <2>9. MarkInv'
    BY <2>3, <2>5, <2>6, <2>7, <2>8 DEF IInv, MarkInv
  <2>10. SweepInv'
    BY <1>2, <2>3, <1>p DEF IInv, SweepInv
  <2>11. gray' \subseteq Tables \cup Closures \cup Threads
    BY <2>1 DEF IInv, Types, TypeOK, Listed
  <2>12. mark' \in [Obj -> Whites \cup {"free", "gray", "black"}]
    BY <2>1, MarkedIs DEF IInv
  <2> QED BY <1>a, <2>2, <2>3, <2>5, <2>9, <2>10, <2>11, <2>12
<1>3. CASE NeedsBarrier(o, v) /\ gcstate # "propagate"
  <2>1. mark' = [mark EXCEPT ![o] = cw] /\ gray' = gray /\ mark[o] = "black"
    BY <1>3 DEF BarrierForward, NeedsBarrier, Black
  <2>2. /\ mark' \in [Obj -> Whites \cup {"free", "gray", "black"}]
        /\ mark'[o] = cw /\ \A x \in Obj \ {o} : mark'[x] = mark[x]
    BY <2>1, <1>o, Colours DEF IInv, Types, TypeOK
  <2>3. Free' = Free /\ Black' = Black \ {o} /\ Gray' = Gray /\ Dead' = Dead
    BY <2>1, <2>2, <1>o, Colours DEF Free, Black, Gray, Dead, Other, IInv
  <2>4. MarkInv'
    BY <1>3, <2>3, <1>p DEF IInv, MarkInv, Coloured, ListsSound
  <2>5. SweepInv'
    BY <2>2, <2>3, <1>p DEF IInv, SweepInv, Pending, Black
  <2> QED BY <1>a, <2>1, <2>2, <2>3, <2>4, <2>5 DEF Alive, IInv, Types, TypeOK
<1> QED BY <1>1, <1>2, <1>3

(* lua_setfenv of a userdata, OP_SETUPVAL.                                 *)
LEMMA SetEnvKeeps ==
  ASSUME IInv, NEW u \in Udata, NEW t \in Tables, SetEnv(u, t) PROVE IInv'
<1>1. u \in Alive /\ t \in Alive \cup {Nil}
  BY RunningAlive DEF SetEnv
<1>2. env' \in [Udata -> Tables \cup {Nil}] /\ env'[u] = t /\ \A x \in Udata \ {u} : env'[x] = env[x]
  BY DEF SetEnv, IInv, Types, TypeOK
<1>3. \A x \in Obj \ {u} : AllRefs(x)' = AllRefs(x)
  BY <1>2 DEF AllRefs, Contents, Open, OnStack, SetEnv, roots
<1>4. AllRefs(u)' \subseteq Obj \cap {t}
  BY <1>2, RefsAreNext
<1>5. uv' \in [Upvals -> [th : Threads \cup {Nil}, slot : Slots \cup {Nil}, val : Value]] /\ uv' = uv
  BY DEF SetEnv, IInv, Types, TypeOK
<1> QED BY <1>1, <1>2, <1>3, <1>4, <1>5, Forward DEF SetEnv, roots

LEMMA SetUpvalKeeps ==
  ASSUME IInv, NEW c \in Closures, NEW v \in Value, SetUpval(c, v) PROVE IInv'
<1>1. c \in Alive /\ v \in Alive \cup {Nil}
  BY RunningAlive DEF SetUpval
<1>2. PICK u \in Upvals : u = up[c] /\ u \in Alive
  BY <1>1, UpAlive
<1>3. CASE Open(u)
  <2>1. stack' = [stack EXCEPT ![uv[u].th][uv[u].slot] = v] /\ uv' = uv /\ BarrierForward(u, v)
    BY <1>2, <1>3 DEF SetUpval
  <2>2. uv[u].th \in Threads \ Free /\ uv[u].slot \in Slots /\ u \notin Black
    BY <1>2, <1>3 DEF IInv, HeapInv, OpenUpvalsSound, Types, TypeOK, KindsSound, Open
  <2>3. UNCHANGED <<mark, gray>>
    BY <2>1, <2>2 DEF BarrierForward, NeedsBarrier
  <2>4. UNCHANGED <<mark, collector, called, heap, args, running, basemt>>
    BY <2>1, <2>3 DEF SetUpval, collector, heap, roots
  <2>5. running' \in Threads \cap Alive /\ \A t \in Threads : args[t] # {} => t \in {Main, running'}
    BY <2>4, RunningAlive DEF IInv, HeapInv, ArgsHeld
  <2> QED BY <1>1, <2>1, <2>2, <2>4, <2>5, StackOnly
<1>4. CASE ~Open(u)
  <2>1. uv' = [uv EXCEPT ![u].val = v] /\ stack' = stack /\ BarrierForward(u, v)
    BY <1>2, <1>4 DEF SetUpval
  <2>2. /\ uv' \in [Upvals -> [th : Threads \cup {Nil}, slot : Slots \cup {Nil}, val : Value]]
        /\ \A w \in Upvals : uv'[w].th = uv[w].th /\ uv'[w].slot = uv[w].slot
        /\ uv'[u].val = v /\ \A w \in Upvals \ {u} : uv'[w] = uv[w]
    <3>1. uv \in [Upvals -> [th : Threads \cup {Nil}, slot : Slots \cup {Nil}, val : Value]]
      BY DEF IInv, Types, TypeOK
    <3>2. uv'[u] = [uv[u] EXCEPT !.val = v] /\ \A w \in Upvals \ {u} : uv'[w] = uv[w]
      BY <1>2, <2>1, <3>1
    <3>3. uv'[u] \in [th : Threads \cup {Nil}, slot : Slots \cup {Nil}, val : Value]
      BY <1>2, <3>1, <3>2
    <3>4. uv'[u].val = v /\ uv'[u].th = uv[u].th /\ uv'[u].slot = uv[u].slot
      BY <1>2, <3>1, <3>2
    <3>5. uv' \in [Upvals -> [th : Threads \cup {Nil}, slot : Slots \cup {Nil}, val : Value]]
      BY <2>1, <3>1, <3>2, <3>3
    <3> QED BY <3>2, <3>4, <3>5
  <2>3. \A x \in Obj \ {u} : AllRefs(x)' = AllRefs(x)
    BY <2>1, <2>2 DEF AllRefs, Contents, Open, OnStack, SetUpval, roots
  <2>4. Contents(u)' = v
    BY <1>4, <1>2, <2>2 DEF Contents, Open
  <2>5. AllRefs(u)' \subseteq Obj \cap {v}
    BY <1>2, <2>4, RefsAreNext
  <2>6. env' \in [Udata -> Tables \cup {Nil}] /\ u \in Udata \cup {w \in Upvals : ~Open(w)}
    BY <1>2, <1>4 DEF SetUpval, IInv, Types, TypeOK
  <2> QED BY <1>1, <1>2, <2>1, <2>2, <2>3, <2>5, <2>6, Forward DEF SetUpval, roots
<1> QED BY <1>3, <1>4

(* Marking nothing touches nothing.                                        *)
LEMMA TouchedNothing == Touched({}) = {}
BY DEF Touched, Onward

(* luaF_close with luaC_linkupval: the upvalues leave the stack with what  *)
(* they hold; one that was gray becomes black, and what it holds is        *)
(* marked.                                                                 *)
LEMMA CloseUpvalsKeeps ==
  ASSUME IInv, NEW level \in Slots, CloseUpvals(level) PROVE IInv'
<1> DEFINE leaving == {v \in OpenOn(running) : uv[v].slot >= level}
           dead == leaving \cap Dead
           linked == leaving \cap Gray
           values == LinkBarrier(linked)
           colour == IF gcstate = "propagate" THEN "black" ELSE cw
           T == Touched(values)
           M == Marked(values)
<1>u. UNCHANGED <<cw, gcstate, grayagain, weak, tosweep, tmudata, finalized, drain, called, tab, mode, env, hasgc, up, stack,
                  args, running, basemt>>
  BY DEF CloseUpvals, roots
<1>d. /\ uv' = [v \in Upvals |-> CASE v \in dead -> NoUpval
                                   [] v \in leaving \ dead -> [NoUpval EXCEPT !.val = Contents(v)]
                                   [] OTHER -> uv[v]]
      /\ mark' = [o \in Obj |-> IF o \in dead THEN "free" ELSE IF o \in linked THEN colour ELSE M[o]]
      /\ gray' = gray \cup (T \cap Listed)
  BY Zenon DEF CloseUpvals
<1>1. /\ leaving \subseteq Upvals /\ leaving \cap Black = {} /\ leaving \cap Free = {}
      /\ \A v \in leaving : Open(v) /\ Contents(v) \in Value /\ v \in Obj
  <2>1. \A v \in leaving : v \in Upvals /\ Open(v)
    BY RunningAlive DEF OpenOn, Open
  <2> QED BY <2>1, ContentsIn, ValuesIn DEF IInv, HeapInv, OpenUpvalsSound, FreeEmpty
<1>2. /\ dead \subseteq Dead /\ dead \subseteq leaving /\ linked \subseteq leaving /\ linked = leaving \cap Gray
      /\ dead \cap linked = {}
      /\ gcstate = "propagate" => dead = {}
  <2>1. Dead \cap Gray = {}
    BY Colours DEF Dead, Gray, IInv
  <2> QED BY <2>1 DEF IInv, MarkInv
<1>3. /\ values \subseteq Value
      /\ gcstate # "propagate" => T = {}
      /\ gcstate = "propagate" => \A v \in linked : Contents(v) \in values
  <2>1. values \subseteq Value
    BY <1>1, <1>2 DEF LinkBarrier
  <2>2. gcstate # "propagate" => T = {}
    BY TouchedNothing DEF LinkBarrier
  <2> QED BY <2>1, <2>2 DEF LinkBarrier
<1>4. /\ T \subseteq White /\ T \subseteq Obj /\ T \cap Upvals = {} /\ values \cap White \subseteq T
      /\ \A x \in T \cap (Udata \cup Upvals) : AllRefs(x) \cap White \subseteq T
  <2>1. /\ values \cap White \subseteq T /\ T \subseteq White
        /\ \A x \in T \cap (Udata \cup Upvals) : AllRefs(x) \cap White \subseteq T
        /\ T \cap Upvals \subseteq values
    BY TouchedIs DEF IInv
  <2> HIDE DEF T, values
  <2>2. T \cap Upvals = {}
    BY <2>1, <1>3, ValuesIn
  <2> QED BY <2>1, <2>2 DEF White
<1>5. /\ M \in [Obj -> Whites \cup {"free", "gray", "black"}]
      /\ \A o \in Obj : o \notin T => M[o] = mark[o]
      /\ \A o \in T : M[o] = IF o \in Udata THEN "black" ELSE "gray"
  <2>1. /\ M \in [Obj -> Whites \cup {"free", "gray", "black"}]
        /\ \A o \in Obj : o \notin T => M[o] = mark[o]
        /\ \A o \in T : M[o] \in {"gray", "black"}
        /\ \A o \in T : M[o] = "black" <=> o \in Udata \/ (o \in Upvals /\ ~Open(o))
    BY MarkedIs DEF IInv
  <2> HIDE DEF M, T
  <2> QED BY <2>1, <1>4
<1>l. \A v \in leaving \ (dead \cup linked) : mark[v] = cw
  BY <1>1, Colours DEF IInv, Dead, Gray, Black, Free
<1> HIDE DEF leaving, dead, linked, values, T, M
<1>6. /\ \A o \in dead : mark'[o] = "free"
      /\ \A o \in linked : mark'[o] = colour
      /\ \A o \in T : mark'[o] = IF o \in Udata THEN "black" ELSE "gray"
      /\ \A o \in Obj \ (dead \cup linked \cup T) : mark'[o] = mark[o]
      /\ mark' \in [Obj -> Whites \cup {"free", "gray", "black"}]
  <2>1. \A o \in Obj : mark'[o] = IF o \in dead THEN "free" ELSE IF o \in linked THEN colour ELSE M[o]
    BY <1>d
  <2>2. colour \in Whites \cup {"free", "gray", "black"}
    BY Colours DEF IInv, Whites
  <2>3. mark' \in [Obj -> Whites \cup {"free", "gray", "black"}]
    BY <1>d, <1>5, <2>2
  <2>4. (dead \cup linked) \cap T = {} /\ dead \cup linked \subseteq Obj
    BY <1>1, <1>2, <1>4
  <2> HIDE DEF colour
  <2> QED BY <2>1, <2>3, <2>4, <1>2, <1>4, <1>5
<1>7. /\ Free' = Free \cup dead /\ Dead' = (Dead \ dead) \ T
      /\ Black' = Black \cup (T \cap Udata) \cup (IF gcstate = "propagate" THEN linked ELSE {})
      /\ Gray' = (Gray \ linked) \cup (T \ Udata)
      /\ gcstate = "propagate" => White' = White \ T
  <2>0. /\ \A o \in Obj : mark[o] \in {"white0", "white1", "free", "gray", "black"}
        /\ \A o \in T : mark[o] \in {"white0", "white1"} /\ o \in Obj
        /\ \A o \in linked : mark[o] = "gray" /\ o \in Obj
        /\ \A o \in dead : mark[o] = Other(cw) /\ o \in Obj
        /\ cw \in {"white0", "white1"} /\ Other(cw) \in {"white0", "white1"} /\ Other(cw) # cw
    BY Colours, <1>1, <1>2, <1>4 DEF IInv, White, Whites, Gray, Dead
  <2>1. colour \in {"black", "white0", "white1"} /\ (colour = "black" <=> gcstate = "propagate")
    BY <2>0
  <2>2. /\ \A o \in Obj : mark'[o] = "free" <=> mark[o] = "free" \/ o \in dead
        /\ \A o \in Obj : mark'[o] = "black" <=> \/ mark[o] = "black" \/ o \in T \cap Udata
                                                 \/ o \in linked /\ gcstate = "propagate"
        /\ \A o \in Obj : mark'[o] = "gray" <=> (mark[o] = "gray" /\ o \notin linked) \/ o \in T \ Udata
        /\ \A o \in Obj : mark'[o] = Other(cw) <=> mark[o] = Other(cw) /\ o \notin dead /\ o \notin T
        /\ gcstate = "propagate" => \A o \in Obj : mark'[o] \in Whites <=> mark[o] \in Whites /\ o \notin dead /\ o \notin T
    <3> HIDE DEF colour
    <3> SUFFICES ASSUME NEW o \in Obj
                 PROVE  /\ mark'[o] = "free" <=> mark[o] = "free" \/ o \in dead
                        /\ mark'[o] = "black" <=> \/ mark[o] = "black" \/ o \in T \cap Udata
                                                  \/ o \in linked /\ gcstate = "propagate"
                        /\ mark'[o] = "gray" <=> (mark[o] = "gray" /\ o \notin linked) \/ o \in T \ Udata
                        /\ mark'[o] = Other(cw) <=> mark[o] = Other(cw) /\ o \notin dead /\ o \notin T
                        /\ gcstate = "propagate" => (mark'[o] \in Whites <=> mark[o] \in Whites /\ o \notin dead /\ o \notin T)
      OBVIOUS
    <3>1. CASE o \in dead
      <4>1. mark'[o] = "free" /\ mark[o] = Other(cw) /\ o \notin T /\ o \notin linked
        BY <3>1, <1>2, <1>1, <1>4, <1>6, <2>0
      <4> QED BY <3>1, <4>1, <2>0 DEF Whites
    <3>2. CASE o \in linked
      <4>1. mark'[o] = colour /\ mark[o] = "gray" /\ o \notin T /\ o \notin dead
        BY <3>2, <1>2, <1>1, <1>4, <1>6, <2>0
      <4>2. colour # Other(cw)
        BY <2>0 DEF colour
      <4> QED BY <3>2, <4>1, <4>2, <2>0, <2>1 DEF Whites
    <3>3. CASE o \in T
      <4>1. mark'[o] \in {"black", "gray"} /\ (mark'[o] = "black" <=> o \in Udata) /\ o \notin linked /\ o \notin dead
        BY <3>3, <1>2, <1>1, <1>4, <1>6, <2>0
      <4>2. mark[o] \in {"white0", "white1"}
        BY <3>3, <2>0
      <4> QED BY <3>3, <4>1, <4>2, <2>0 DEF Whites
    <3>4. CASE o \notin dead \cup linked \cup T
      BY <3>4, <1>6, <2>0 DEF Whites
    <3> QED BY <3>1, <3>2, <3>3, <3>4
  <2>3. Other(cw)' = Other(cw)
    BY <1>u DEF Other
  <2>4. linked \subseteq Obj /\ dead \subseteq Obj /\ T \subseteq Obj
    BY <2>0
  <2>5. Free' = Free \cup dead
    BY <2>2, <2>4 DEF Free
  <2>6. Dead' = (Dead \ dead) \ T
    BY <2>2, <2>3, <1>u DEF Dead
  <2>7. Black' = Black \cup (T \cap Udata) \cup (IF gcstate = "propagate" THEN linked ELSE {})
    BY <2>2, <2>4 DEF Black
  <2>8. Gray' = (Gray \ linked) \cup (T \ Udata)
    BY <2>2, <2>4 DEF Gray
  <2>9. gcstate = "propagate" => White' = White \ T
    BY <2>2, <1>2 DEF White
  <2> QED BY <2>5, <2>6, <2>7, <2>8, <2>9
<1>8. Alive' = Alive
  <2>1. dead \subseteq Dead /\ Dead \cap Free = {} /\ T \cap Dead = {}
    <3>1. gcstate = "propagate" => Dead = {}
      BY DEF IInv, MarkInv
    <3>2. Dead \cap Free = {}
      BY Colours DEF IInv, Dead, Free
    <3> QED BY <3>1, <3>2, <1>2, <1>3
  <2>2. Dead' \cup Free' = Dead \cup Free
    BY <2>1, <1>7
  <2> QED BY <2>2 DEF Alive
<1>9. /\ \A v \in dead : uv'[v] = NoUpval
      /\ \A v \in leaving \ dead : uv'[v] = [th |-> Nil, slot |-> Nil, val |-> Contents(v)]
      /\ \A v \in Upvals \ leaving : uv'[v] = uv[v]
      /\ uv' \in [Upvals -> [th : Threads \cup {Nil}, slot : Slots \cup {Nil}, val : Value]]
  <2>1. /\ \A v \in dead : uv'[v] = NoUpval
        /\ \A v \in leaving \ dead : uv'[v] = [th |-> Nil, slot |-> Nil, val |-> Contents(v)]
        /\ \A v \in Upvals \ leaving : uv'[v] = uv[v]
    BY <1>d, <1>1, <1>2 DEF NoUpval
  <2>2. \A v \in Upvals : uv'[v] \in [th : Threads \cup {Nil}, slot : Slots \cup {Nil}, val : Value]
    <3>1. Nil \in Value
      BY DEF Value
    <3>2. \A v \in dead : uv'[v] \in [th : Threads \cup {Nil}, slot : Slots \cup {Nil}, val : Value]
      BY <2>1, <3>1 DEF NoUpval
    <3>3. \A v \in leaving \ dead : uv'[v] \in [th : Threads \cup {Nil}, slot : Slots \cup {Nil}, val : Value]
      <4> SUFFICES ASSUME NEW v \in leaving \ dead
                   PROVE  uv'[v] \in [th : Threads \cup {Nil}, slot : Slots \cup {Nil}, val : Value]
        OBVIOUS
      <4>1. uv'[v] = [th |-> Nil, slot |-> Nil, val |-> Contents(v)] /\ Contents(v) \in Value
        BY <2>1, <1>1
      <4> QED BY <4>1
    <3>4. \A v \in Upvals \ leaving : uv'[v] \in [th : Threads \cup {Nil}, slot : Slots \cup {Nil}, val : Value]
      BY <2>1 DEF IInv, Types, TypeOK
    <3> QED BY <3>2, <3>3, <3>4
  <2>3. uv' = [v \in Upvals |-> uv'[v]]
    BY <1>d
  <2> QED BY <2>1, <2>2, <2>3
<1>10. /\ \A v \in leaving : ~Open(v)' /\ uv'[v].th = Nil
       /\ \A v \in Upvals \ leaving : Open(v)' <=> Open(v)
  <2>1. ASSUME NEW v \in leaving PROVE uv'[v].th = Nil
    <3>1. CASE v \in dead
      BY <3>1, <1>9 DEF NoUpval
    <3>2. CASE v \in leaving \ dead
      <4>1. uv'[v] = [th |-> Nil, slot |-> Nil, val |-> Contents(v)]
        BY <3>2, <1>9, Zenon
      <4> QED BY <4>1
    <3> QED BY <3>1, <3>2
  <2> QED BY <2>1, <1>9 DEF Open
<1>11. /\ \A o \in Obj \ dead : AllRefs(o)' = AllRefs(o)
       /\ \A o \in dead : AllRefs(o)' = {}
  <2>1. \A v \in dead : Contents(v)' = Nil
    BY <1>9, <1>10, <1>2 DEF Contents, NoUpval
  <2>2. \A v \in Upvals \ dead : Contents(v)' = Contents(v)
    <3>1. \A v \in leaving \ dead : Contents(v)' = Contents(v)
      <4> SUFFICES ASSUME NEW v \in leaving \ dead PROVE Contents(v)' = Contents(v)
        OBVIOUS
      <4>1. ~Open(v)' /\ uv'[v].val = Contents(v)
        <5>1. uv'[v] = [th |-> Nil, slot |-> Nil, val |-> Contents(v)]
          BY <1>9, Zenon
        <5> QED BY <5>1, <1>10
      <4> QED BY <4>1 DEF Contents
    <3>2. \A v \in Upvals \ leaving : Contents(v)' = Contents(v)
      BY <1>9, <1>u DEF Contents, Open
    <3> QED BY <3>1, <3>2
  <2>3. \A o \in dead : AllRefs(o)' = {}
    BY <1>1, <1>2, <2>1, RefsAreNext, ValuesIn
  <2>4. \A o \in Obj \ Upvals : AllRefs(o)' = AllRefs(o)
    BY <1>u DEF AllRefs, OnStack
  <2>5. \A o \in Upvals \ dead : AllRefs(o)' = AllRefs(o)
    <3> SUFFICES ASSUME NEW o \in Upvals \ dead PROVE AllRefs(o)' = AllRefs(o)
      OBVIOUS
    <3>1. AllRefs(o) = Obj \cap {Contents(o)} /\ AllRefs(o)' = Obj \cap {Contents(o)'}
      BY RefsAre, RefsAreNext, Zenon
    <3> QED BY <2>2, <3>1
  <2> QED BY <2>3, <2>4, <2>5
<1>12. Types'
  <2>1. gray' \subseteq Tables \cup Closures \cup Threads
    BY <1>d DEF IInv, Types, TypeOK, Listed
  <2>2. TypeOK'
    BY <1>6, <1>9, <1>u, <2>1 DEF IInv, Types, TypeOK
  <2>3. KindsSound'
    <3>1. \A v \in Upvals : Open(v)' => uv'[v].slot \in Slots
      BY <1>9, <1>10 DEF IInv, Types, KindsSound
    <3> QED BY <3>1, <1>7, <1>u DEF IInv, Types, KindsSound
  <2> QED BY <2>2, <2>3 DEF Types
<1>13. HeapInv'
  <2>1. FreeEmpty'
    BY <1>7, <1>10, <1>11, <1>2 DEF IInv, HeapInv, FreeEmpty, Free
  <2>2. AliveClosed'
    <3>1. dead \cap Alive = {}
      BY <1>2 DEF Alive
    <3> QED BY <3>1, <1>8, <1>11 DEF IInv, HeapInv, AliveClosed, Alive
  <2>3. RootsAlive' /\ ArgsHeld'
    BY <1>8, <1>u DEF IInv, HeapInv, RootsAlive, Roots, ArgsHeld
  <2>4. OpenUpvalsSound'
    <3> SUFFICES ASSUME NEW v \in Upvals, Open(v)'
                 PROVE  /\ v \notin Black' /\ uv'[v].th \notin Free'
                        /\ \A w \in Upvals \ {v} : uv'[w].th = uv'[v].th => uv'[w].slot # uv'[v].slot
      BY DEF OpenUpvalsSound
    <3>1. v \notin leaving /\ Open(v) /\ uv'[v] = uv[v] /\ uv[v].th \in Threads
      BY <1>9, <1>10 DEF Open, IInv, Types, TypeOK
    <3>2. v \notin Black'
      BY <3>1, <1>7, <1>2, <1>4 DEF IInv, HeapInv, OpenUpvalsSound
    <3>3. uv'[v].th \notin Free'
      BY <3>1, <1>7, <1>1, <1>2, KindsAssumption DEF IInv, HeapInv, OpenUpvalsSound
    <3>4. ASSUME NEW w \in Upvals \ {v}, uv'[w].th = uv'[v].th PROVE uv'[w].slot # uv'[v].slot
      <4>1. w \notin leaving
        BY <3>1, <3>4, <1>10 DEF Open
      <4> QED BY <3>1, <3>4, <4>1, <1>9 DEF IInv, HeapInv, OpenUpvalsSound
    <3> QED BY <3>2, <3>3, <3>4
  <2> QED BY <2>1, <2>2, <2>3, <2>4 DEF HeapInv
<1>14. MarkInv'
  <2>1. Coloured'
    <3>1. Udata \cap Gray' = {}
      BY <1>7 DEF IInv, MarkInv, Coloured
    <3>2. ASSUME NEW v \in Upvals, ~Open(v)' PROVE v \notin Gray'
      <4>1. CASE v \in leaving
        BY <4>1, <1>7, <1>2, <1>4
      <4>2. CASE v \notin leaving
        BY <3>2, <4>2, <1>7, <1>10, <1>4 DEF IInv, MarkInv, Coloured
      <4> QED BY <4>1, <4>2
    <3> QED BY <3>1, <3>2 DEF Coloured
  <2>2. ListsSound'
    <3> SUFFICES ASSUME gcstate = "propagate" PROVE ListsSound'
      BY <1>u DEF ListsSound
    <3>1. T \cap Gray = {} /\ (T \ Udata) \cap Listed = T \cap Listed /\ linked \cap Listed = {}
          /\ Threads \cap (T \cap Udata) = {} /\ Threads \cap linked = {}
      <4>1. White \cap Gray = {}
        BY DEF White, Gray, Whites
      <4> QED BY <4>1, <1>4, <1>1, <1>2, KindsAssumption DEF Listed
    <3> QED BY <1>7, <1>d, <1>u, <3>1 DEF IInv, MarkInv, ListsSound
  <2>3. gcstate = "propagate" => NoneLost'
    <3> SUFFICES ASSUME gcstate = "propagate" PROVE NoneLost'
      OBVIOUS
    <3>0. NoneLost /\ dead = {} /\ White' = White \ T /\ Free' = Free
      BY <1>7, <1>2 DEF IInv, MarkInv
    <3>1. ASSUME NEW x \in Black' \ tmudata PROVE AllRefs(x)' \cap White' = {}
      <4>0. AllRefs(x)' = AllRefs(x)
        BY <3>0, <3>1, <1>11 DEF Black
      <4>1. CASE x \in Black
        BY <3>0, <3>1, <4>0, <4>1 DEF NoneLost
      <4>2. CASE x \in T \cap Udata
        BY <3>0, <4>0, <4>2, <1>4
      <4>3. CASE x \in linked
        BY <3>0, <4>0, <4>3, <1>1, <1>2, <1>3, <1>4, RefsAre
      <4> QED BY <3>1, <4>1, <4>2, <4>3, <1>7
    <3>2. \A t \in Tables \cap Black' : t \in Black
      BY <1>7, <1>1, <1>2, KindsAssumption
    <3> QED BY <3>0, <3>1, <3>2, <1>u DEF NoneLost
  <2>4. gcstate = "propagate" => Dead' = {} /\ Main \notin White'
    BY <1>7 DEF IInv, MarkInv
  <2> QED BY <1>u, <2>1, <2>2, <2>3, <2>4 DEF MarkInv
<1>15. SweepInv'
  <2>1. leaving \cap tosweep = {}
    BY <1>1 DEF IInv, SweepInv
  <2>2. ASSUME gcstate # "propagate", NEW o \in Obj
        PROVE  mark'[o] \in {"free", cw} \/ Pending(o)' \/ (o \in tmudata /\ o \in Black')
    <3>1. CASE o \in leaving
      <4>1. mark'[o] \in {"free", cw}
        <5>1. CASE o \in dead
          BY <5>1, <1>6
        <5>2. CASE o \in linked
          BY <2>2, <5>2, <1>6
        <5>3. CASE o \notin dead \cup linked
          <6>1. o \notin T
            BY <2>2, <1>3
          <6> QED BY <2>2, <3>1, <5>3, <6>1, <1>6, <1>l
        <5> QED BY <5>1, <5>2, <5>3
      <4> QED BY <4>1
    <3>2. CASE o \notin leaving
      <4>1. mark'[o] = mark[o] /\ (Pending(o)' <=> Pending(o)) /\ (o \in Black => o \in Black')
        BY <2>2, <3>2, <1>2, <1>3, <1>6, <1>7, <1>9, <1>u DEF Pending
      <4> QED BY <2>2, <4>1 DEF IInv, SweepInv
    <3> QED BY <3>1, <3>2
  <2>3. tosweep \cap Free' = {} /\ \A v \in tosweep \cap Upvals : ~Open(v)'
    BY <2>1, <1>2, <1>7, <1>10 DEF IInv, SweepInv
  <2> QED BY <2>2, <2>3, <1>u DEF IInv, SweepInv
<1>16. FinInv'
  BY <1>u DEF IInv, FinInv
<1> QED BY <1>12, <1>13, <1>14, <1>15, <1>16 DEF IInv

(* luaC_fullgc: what a marking has coloured is swept like the rest, and    *)
(* the sweep whitens it.                                                   *)
LEMMA FullGCKeeps ==
  ASSUME IInv, FullGC PROVE IInv'
<1>u. UNCHANGED <<mark, cw, tmudata, finalized, called, tab, mode, env, hasgc, up, uv, stack, args, running, basemt>>
  BY DEF FullGC, heap, roots
<1>1. /\ Free' = Free /\ Dead' = Dead /\ Alive' = Alive
      /\ White' = White /\ Black' = Black /\ Gray' = Gray
  BY <1>u, SameColours
<1>2. \A o : AllRefs(o)' = AllRefs(o)
  BY <1>u, SameRefs
<1>3. CASE gcstate \in {"pause", "propagate"}
  <2>1. /\ tosweep' = RootList \ tmudata /\ gray' = {} /\ grayagain' = {} /\ weak' = {}
        /\ gcstate' = "sweepstring" /\ drain' = TRUE
    BY <1>3 DEF FullGC
  <2>2. Types'
    <3>1. TypeOK'
      BY <1>u, <2>1 DEF IInv, Types, TypeOK, RootList
    <3> QED BY <3>1, <1>1, <1>u, KindsStay DEF IInv
  <2>3. HeapInv'
    BY <1>1, <1>2, <1>u DEF IInv, HeapInv, FreeEmpty, AliveClosed, RootsAlive, Roots, ArgsHeld, OpenUpvalsSound, Open
  <2>4. MarkInv'
    BY <1>1, <1>u, <2>1 DEF IInv, MarkInv, Coloured, ListsSound, Open
  <2>5. SweepInv'
    <3>1. ASSUME NEW o \in Obj
          PROVE  mark[o] \in {"free", cw} \/ Pending(o)' \/ (o \in tmudata /\ o \in Black)
      <4>1. CASE o \in Free
        BY <4>1 DEF Free
      <4>2. CASE o \in Upvals /\ Open(o) /\ o \notin Free
        <5>1. uv[o].th \in Threads \ Free
          BY <4>2 DEF IInv, HeapInv, OpenUpvalsSound, Open, Types, TypeOK
        <5>2. uv[o].th \in RootList \ tmudata
          BY <5>1, KindsAssumption, ValuesIn DEF RootList, IInv, Types, TypeOK
        <5> QED BY <4>2, <5>2, <2>1, <1>u DEF Pending
      <4>3. CASE o \in RootList /\ o \notin tmudata
        BY <4>3, <2>1 DEF Pending
      <4>4. CASE o \in tmudata /\ o \in RootList
        <5>1. mark[o] \in {cw, "gray", "black"}
          BY <4>4, Colours DEF IInv, HeapInv, RootsAlive
        <5>2. o \notin Gray
          BY <4>4 DEF IInv, MarkInv, Coloured, Types, TypeOK
        <5> QED BY <4>4, <5>1, <5>2 DEF Gray, Black
      <4> QED BY <4>1, <4>2, <4>3, <4>4 DEF RootList
    <3>2. \A o \in RootList : o \notin Free /\ ~(o \in Upvals /\ Open(o))
      BY DEF RootList
    <3>3. Free' = Free /\ tmudata' = tmudata /\ \A v : Open(v)' <=> Open(v)
      BY <1>1, <1>u DEF Open
    <3> QED BY <3>1, <3>2, <3>3, <2>1, <1>1, <1>u DEF SweepInv
  <2>6. FinInv'
    BY <1>u DEF IInv, FinInv
  <2> QED BY <2>2, <2>3, <2>4, <2>5, <2>6 DEF IInv
<1>4. CASE gcstate \notin {"pause", "propagate"}
  <2>1. UNCHANGED <<tosweep, gray, grayagain, weak, gcstate>> /\ drain' = TRUE
    BY <1>4 DEF FullGC
  <2>2. TypeOK'
    BY <1>u, <2>1 DEF IInv, Types, TypeOK
  <2>3. Types'
    BY <2>2, <1>1, <1>u, KindsStay DEF IInv
  <2>4. HeapInv'
    BY <1>1, <1>2, <1>u DEF IInv, HeapInv, FreeEmpty, AliveClosed, RootsAlive, Roots, ArgsHeld, OpenUpvalsSound, Open
  <2>5. MarkInv'
    BY <1>1, <1>4, <1>u, <2>1 DEF IInv, MarkInv, Coloured, ListsSound, Open
  <2>6. SweepInv'
    BY <1>1, <1>u, <2>1 DEF IInv, SweepInv, Pending, Open
  <2>7. FinInv'
    BY <1>u DEF IInv, FinInv
  <2> QED BY <2>3, <2>4, <2>5, <2>6, <2>7 DEF IInv
<1> QED BY <1>3, <1>4

-----------------------------------------------------------------------------
(* The collector.                                                          *)

(* Between two cycles nothing is gray or dead, and only userdata that are  *)
(* to be finalized are black.                                              *)
LEMMA AfterSweep ==
  IInv /\ gcstate \in {"pause", "finalize"} => Dead = {} /\ Gray = {} /\ Black \subseteq tmudata
<1> SUFFICES ASSUME IInv, gcstate \in {"pause", "finalize"}
             PROVE Dead = {} /\ Gray = {} /\ Black \subseteq tmudata
  OBVIOUS
<1>1. \A o \in Obj : mark[o] \in {"free", cw} \/ (o \in tmudata /\ mark[o] = "black")
  BY DEF IInv, SweepInv, Pending, Black
<1> QED BY <1>1, Colours DEF IInv, Dead, Gray, Black

(* markroot.                                                               *)
LEMMA MarkRootKeeps ==
  ASSUME IInv, MarkRoot PROVE IInv'
<1> DEFINE S == {Main, basemt}
           T == Touched(S)
<1>u. UNCHANGED <<cw, tosweep, tmudata, finalized, called, tab, mode, env, hasgc, up, uv, stack, args, running, basemt>>
  BY DEF MarkRoot, heap, roots
<1>d. /\ mark' = Marked(S) /\ gray' = T \cap Listed /\ grayagain' = {} /\ weak' = {} /\ gcstate' = "propagate"
      /\ drain' = FALSE /\ gcstate \in {"pause", "finalize"}
  BY DEF MarkRoot
<1>0. Dead = {} /\ Gray = {} /\ Black \subseteq tmudata /\ tosweep = {}
  BY <1>d, AfterSweep DEF IInv, SweepInv
<1>1. /\ S \cap White \subseteq T /\ T \subseteq White /\ T \subseteq Obj
      /\ \A x \in T \cap (Udata \cup Upvals) : AllRefs(x) \cap White \subseteq T
  BY TouchedIs DEF IInv, White
<1>2. /\ Free' = Free /\ Dead' = Dead \ T /\ Alive' = Alive \cup T
      /\ White' = White \ T
      /\ Black' = Black \cup {x \in T : Blackened(x)}
      /\ Gray' = Gray \cup {x \in T : ~Blackened(x)}
  BY <1>d, <1>u, Marking DEF IInv
<1>4. mark' \in [Obj -> Whites \cup {"free", "gray", "black"}]
  BY <1>d, MarkedIs DEF IInv
<1> HIDE DEF T
<1>3. White \cap Free = {} /\ Alive' = Alive
  BY <1>0, <1>1, <1>2 DEF White, Free, Whites, Alive
<1>5. Types'
  <2>1. gray' \subseteq Tables \cup Closures \cup Threads
    BY <1>d DEF Listed
  <2>2. TypeOK'
    BY <1>4, <1>u, <1>d, <2>1 DEF IInv, Types, TypeOK
  <2> QED BY <2>2, <1>u, <1>2, KindsStay DEF IInv
<1>6. \A o : AllRefs(o)' = AllRefs(o)
  BY <1>u, SameRefs
<1>7. HeapInv'
  <2>1. \A v \in Upvals : Open(v) => v \notin Black'
    BY <1>2, KindsAssumption DEF Blackened, IInv, HeapInv, OpenUpvalsSound
  <2>2. OpenUpvalsSound'
    BY <2>1, <1>2, <1>u DEF IInv, HeapInv, OpenUpvalsSound, Open
  <2> QED BY <1>2, <1>3, <1>6, <1>u, <2>2 DEF IInv, HeapInv, FreeEmpty, AliveClosed, RootsAlive, Roots, ArgsHeld, Open
<1>8. MarkInv'
  <2>1. Coloured'
    BY <1>0, <1>2, <1>u DEF Coloured, Blackened, Open
  <2>2. ListsSound'
    <3>1. {x \in T : ~Blackened(x)} \cap Listed = T \cap Listed
      BY KindsAssumption DEF Blackened, Listed
    <3>2. Threads \cap Black' = {}
      BY <1>0, <1>2, KindsAssumption DEF Blackened, IInv, Types, TypeOK
    <3> QED BY <1>0, <1>2, <1>d, <3>1, <3>2 DEF ListsSound
  <2>3. NoneLost'
    <3>1. \A x \in Black' \ tmudata : AllRefs(x) \cap White' = {}
      BY <1>0, <1>1, <1>2 DEF Blackened
    <3>2. Tables \cap Black' = {}
      BY <1>0, <1>2, KindsAssumption DEF Blackened, IInv, Types, TypeOK
    <3> QED BY <3>1, <3>2, <1>6, <1>u DEF NoneLost
  <2>4. Dead' = {} /\ Main \notin White'
    BY <1>0, <1>1, <1>2
  <2> QED BY <2>1, <2>2, <2>3, <2>4 DEF MarkInv
<1>9. SweepInv'
  BY <1>0, <1>d, <1>u DEF SweepInv
<1>10. FinInv'
  BY <1>u DEF IInv, FinInv
<1> QED BY <1>5, <1>7, <1>8, <1>9, <1>10 DEF IInv

(* Clearing the keys of empty entries changes no reference.                *)
LEMMA PurgedIs ==
  ASSUME Types, NEW S
  PROVE  /\ Purged(S) \in [Tables -> [key : Keys \cup {Nil}, val : Value]]
         /\ \A t \in Tables : Purged(S)[t].val = tab[t].val
         /\ \A t \in Tables : tab[t].val # Nil => Purged(S)[t] = tab[t]
         /\ \A t \in Tables : Purged(S)[t] = tab[t] \/ Purged(S)[t].key \in {Num, Nil}
         /\ \A t \in S \cap Tables : mode[t] # "kv" /\ tab[t].val = Nil => Purged(S)[t].key \in {Num, Nil}
<1>1. tab \in [Tables -> [key : Keys \cup {Nil}, val : Value]]
  BY DEF Types, TypeOK
<1>2. ASSUME NEW t \in Tables
      PROVE  /\ Purged(S)[t] \in [key : Keys \cup {Nil}, val : Value]
             /\ Purged(S)[t].val = tab[t].val
             /\ tab[t].val # Nil => Purged(S)[t] = tab[t]
             /\ Purged(S)[t] = tab[t] \/ Purged(S)[t].key \in {Num, Nil}
             /\ t \in S /\ mode[t] # "kv" /\ tab[t].val = Nil => Purged(S)[t].key \in {Num, Nil}
  <2>1. CASE t \in S /\ mode[t] # "kv" /\ tab[t].val = Nil
    <3>1. Purged(S)[t] = [tab[t] EXCEPT !.key = Removed(tab[t].key)]
      BY <2>1 DEF Purged
    <3>2. Removed(tab[t].key) \in {Num, Nil} /\ Removed(tab[t].key) \in Keys \cup {Nil}
      BY <1>1 DEF Removed
    <3> QED BY <2>1, <3>1, <3>2, <1>1
  <2>2. CASE ~(t \in S /\ mode[t] # "kv" /\ tab[t].val = Nil)
    BY <2>2, <1>1 DEF Purged
  <2> QED BY <2>1, <2>2
<1>3. Purged(S) = [t \in Tables |-> Purged(S)[t]]
  BY DEF Purged
<1> QED BY <1>2, <1>3

(* propagatemark: what becomes black leads to nothing white.               *)
LEMMA PropagateKeeps ==
  ASSUME IInv, NEW o \in Obj, Propagate(o) PROVE IInv'
<1> DEFINE S == StrongRefs(o)
           T == Touched(S)
           M == Marked(S)
<1>u. UNCHANGED <<cw, gcstate, tosweep, tmudata, finalized, drain, called, mode, env, hasgc, up, uv, stack, args, running, basemt>>
  BY DEF Propagate, roots
<1>d. /\ gcstate = "propagate" /\ o \in gray
      /\ mark' = [M EXCEPT ![o] = Traversed(o)]
      /\ gray' = (gray \ {o}) \cup (T \cap Listed)
      /\ grayagain' = grayagain \cup ({o} \cap Threads)
      /\ weak' = weak \cup WeakTables({o})
      /\ tab' = Purged({o})
  BY DEF Propagate
<1>0. o \in Gray /\ o \in Listed /\ o \in Alive /\ o \notin Upvals /\ o \notin Udata
  BY <1>d, Colours, KindsAssumption DEF IInv, MarkInv, ListsSound, Gray, Listed
<1>1. /\ S \cap White \subseteq T /\ T \subseteq White /\ T \subseteq Obj
      /\ \A x \in T \cap (Udata \cup Upvals) : AllRefs(x) \cap White \subseteq T
  BY TouchedIs DEF IInv, White
<1>2. /\ M \in [Obj -> Whites \cup {"free", "gray", "black"}]
      /\ \A x \in Obj : x \notin T => M[x] = mark[x]
      /\ \A x \in T : M[x] \in {"gray", "black"}
      /\ \A x \in T : M[x] = "black" <=> Blackened(x)
  BY MarkedIs DEF IInv, Blackened
<1>3. S \subseteq AllRefs(o) /\ (Traversed(o) = "black" => S = AllRefs(o))
  BY StrongAre DEF Traversed
<1> HIDE DEF S, T, M
<1>4. o \notin T /\ Traversed(o) \in {"gray", "black"}
  BY <1>0, <1>1 DEF White, Gray, Whites, Traversed
<1>5. /\ mark' \in [Obj -> Whites \cup {"free", "gray", "black"}]
      /\ mark'[o] = Traversed(o)
      /\ \A x \in T : mark'[x] = IF Blackened(x) THEN "black" ELSE "gray"
      /\ \A x \in Obj \ (T \cup {o}) : mark'[x] = mark[x]
  BY <1>2, <1>d, <1>4, <1>1
<1>6. /\ Free' = Free /\ White' = White \ T /\ Dead' = {}
      /\ Black' = Black \cup {x \in T : Blackened(x)} \cup (IF Traversed(o) = "black" THEN {o} ELSE {})
      /\ Gray' = (Gray \cup {x \in T : ~Blackened(x)}) \ (IF Traversed(o) = "black" THEN {o} ELSE {})
  <2>0. /\ \A x \in T : mark[x] \in {"white0", "white1"} /\ x \in Obj
        /\ mark[o] = "gray"
    BY <1>0, <1>1 DEF White, Whites, Gray
  <2>1. Free' = Free
    BY <2>0, <1>4, <1>5 DEF Free
  <2>2. White' = White \ T
    BY <2>0, <1>4, <1>5 DEF White, Whites
  <2>3. Dead' = {}
    <3>1. \A x \in Obj : mark[x] # Other(cw)
      BY <1>d DEF IInv, MarkInv, Dead
    <3>2. Other(cw) \in {"white0", "white1"} /\ Other(cw)' = Other(cw)
      BY Colours, <1>u DEF IInv, Other
    <3>3. \A x \in Obj : mark'[x] # Other(cw)
      <4> SUFFICES ASSUME NEW x \in Obj PROVE mark'[x] # Other(cw)
        OBVIOUS
      <4>1. mark'[x] \in {"gray", "black"} \/ mark'[x] = mark[x]
        BY <1>4, <1>5
      <4> QED BY <4>1, <3>1, <3>2
    <3> QED BY <3>2, <3>3 DEF Dead
  <2>4. Black' = Black \cup {x \in T : Blackened(x)} \cup (IF Traversed(o) = "black" THEN {o} ELSE {})
    BY <2>0, <1>4, <1>5 DEF Black
  <2>5. Gray' = (Gray \cup {x \in T : ~Blackened(x)}) \ (IF Traversed(o) = "black" THEN {o} ELSE {})
    BY <2>0, <1>4, <1>5 DEF Gray
  <2> QED BY <2>1, <2>2, <2>3, <2>4, <2>5
<1>7. Alive' = Alive
  BY <1>6, <1>d DEF Alive, IInv, MarkInv
<1>8. /\ tab' \in [Tables -> [key : Keys \cup {Nil}, val : Value]]
      /\ \A t \in Tables : tab'[t].val = tab[t].val
      /\ \A t \in Tables : tab[t].val # Nil => tab'[t] = tab[t]
      /\ \A t \in Tables : tab'[t] = tab[t] \/ tab'[t].key \in {Num, Nil}
      /\ \A t \in {o} \cap Tables : mode[t] # "kv" /\ tab[t].val = Nil => tab'[t].key \in {Num, Nil}
  BY <1>d, PurgedIs DEF IInv
<1>9. \A x \in Obj : AllRefs(x)' = AllRefs(x)
  <2>1. \A t \in Tables : AllRefs(t)' = AllRefs(t)
    <3> SUFFICES ASSUME NEW t \in Tables PROVE AllRefs(t)' = AllRefs(t)
      OBVIOUS
    <3>1. /\ AllRefs(t) = IF tab[t].val = Nil THEN {} ELSE Obj \cap {tab[t].key, tab[t].val}
          /\ AllRefs(t)' = IF tab'[t].val = Nil THEN {} ELSE Obj \cap {tab'[t].key, tab'[t].val}
      BY RefsAre, RefsAreNext, Zenon
    <3> QED BY <3>1, <1>8
  <2>2. \A x \in Obj \ Tables : AllRefs(x)' = AllRefs(x)
    BY <1>u DEF AllRefs, Contents, Open, OnStack
  <2> QED BY <2>1, <2>2
<1>10. Types'
  <2>1. /\ gray' \cup grayagain' \subseteq Tables \cup Closures \cup Threads
        /\ weak' \subseteq Tables
    BY <1>d DEF Listed, WeakTables, IInv, Types, TypeOK
  <2>2. TypeOK'
    BY <1>5, <1>8, <1>u, <2>1 DEF IInv, Types, TypeOK
  <2> QED BY <2>2, <1>u, <1>6, KindsStay DEF IInv
<1>11. HeapInv'
  <2>1. \A v \in Upvals : Open(v) => v \notin Black'
    BY <1>0, <1>6, KindsAssumption DEF Blackened, IInv, HeapInv, OpenUpvalsSound
  <2>2. OpenUpvalsSound'
    BY <2>1, <1>6, <1>u DEF IInv, HeapInv, OpenUpvalsSound, Open
  <2>3. FreeEmpty' /\ AliveClosed'
    BY <1>6, <1>7, <1>9, <1>u DEF IInv, HeapInv, FreeEmpty, AliveClosed, Open, Free, Alive
  <2> QED BY <1>7, <1>u, <2>2, <2>3 DEF IInv, HeapInv, RootsAlive, Roots, ArgsHeld
<1>12. MarkInv'
  <2>1. Coloured'
    BY <1>6, <1>u DEF IInv, MarkInv, Coloured, Blackened, Open
  <2>2. ListsSound'
    <3>1. {x \in T : ~Blackened(x)} \cap Listed = T \cap Listed /\ Threads \cap {x \in T : Blackened(x)} = {}
      BY KindsAssumption DEF Blackened, Listed
    <3>2. T \cap Gray = {}
      BY <1>1 DEF White, Gray, Whites
    <3>3. CASE Traversed(o) = "black"
      <4>1. {o} \cap Threads = {} /\ WeakTables({o}) = {}
        BY <3>3 DEF Traversed, WeakTables
      <4> QED BY <1>0, <1>4, <1>6, <1>d, <3>1, <3>2, <3>3, <4>1 DEF IInv, MarkInv, ListsSound
    <3>4. CASE Traversed(o) = "gray"
      <4>1. \/ {o} \cap Threads = {o} /\ WeakTables({o}) = {}
            \/ {o} \cap Threads = {} /\ WeakTables({o}) = {o}
        BY <3>4, KindsAssumption DEF Traversed, WeakTables
      <4> QED BY <1>0, <1>4, <1>6, <1>d, <3>1, <3>2, <3>4, <4>1 DEF IInv, MarkInv, ListsSound
    <3> QED BY <1>4, <3>3, <3>4
  <2>3. NoneLost'
    <3>0. NoneLost
      BY <1>d DEF IInv, MarkInv
    <3>1. \A x \in Black' \ tmudata : AllRefs(x) \cap White' = {}
      BY <3>0, <1>1, <1>3, <1>6 DEF NoneLost, Blackened
    <3>2. ASSUME NEW t \in Tables \cap Black' PROVE tab'[t].key \notin White' \cup Free'
      <4>1. CASE t \in Black
        BY <3>0, <4>1, <1>6, <1>8, ValuesIn DEF NoneLost, White, Free
      <4>2. CASE t = o /\ Traversed(o) = "black"
        <5>1. mode[t] = "" /\ S = AllRefs(t)
          BY <4>2, <1>3 DEF Traversed
        <5>2. CASE tab[t].val = Nil
          <6>1. tab'[t].key \in {Num, Nil}
            BY <4>2, <5>1, <5>2, <1>8
          <6> QED BY <6>1, ValuesIn DEF White, Free
        <5>3. CASE tab[t].val # Nil
          <6>1. tab'[t].key \in S \/ tab'[t].key \notin Obj
            BY <5>1, <5>3, <1>8, RefsAre
          <6>2. S \cap Free = {}
            BY <5>1, <4>2, <1>0 DEF IInv, HeapInv, AliveClosed, Alive
          <6> QED BY <6>1, <6>2, <1>1, <1>6 DEF White, Free
        <5> QED BY <5>2, <5>3
      <4> QED BY <3>2, <4>1, <4>2, <1>6, KindsAssumption DEF Blackened
    <3> QED BY <3>1, <3>2, <1>9, <1>u, <1>6 DEF NoneLost, Black
  <2>4. Dead' = {} /\ Main \notin White'
    BY <1>6, <1>d DEF IInv, MarkInv
  <2> QED BY <2>1, <2>2, <2>3, <2>4 DEF MarkInv
<1>13. SweepInv'
  BY <1>d, <1>6, <1>u DEF IInv, SweepInv, Open
<1>14. FinInv'
  BY <1>u DEF IInv, FinInv
<1> QED BY <1>10, <1>11, <1>12, <1>13, <1>14 DEF IInv

(* The colours after cells were swept.                                     *)
LEMMA SweptIs ==
  ASSUME Types, NEW S \in SUBSET (Obj \ Free), mark' = Swept(S), cw' = cw
  PROVE  /\ Free' = Free \cup (S \cap Dead) /\ Dead' = Dead \ S /\ Alive' = Alive
         /\ Black' = Black \ S /\ Gray' = Gray \ S
         /\ \A o \in S : mark'[o] \in {"free", cw}
         /\ \A o \in Obj \ S : mark'[o] = mark[o]
         /\ mark' \in [Obj -> Whites \cup {"free", "gray", "black"}]
<1>1. \A o \in Obj : mark'[o] = IF o \notin S THEN mark[o] ELSE IF o \in Dead THEN "free" ELSE cw
  BY DEF Swept
<1>2. mark' = [o \in Obj |-> mark'[o]]
  BY DEF Swept
<1>3. \A o \in Obj : o \in Dead <=> mark[o] = Other(cw)
  BY DEF Dead
<1>4. Free' = Free \cup (S \cap Dead)
  BY <1>1, <1>3, Colours DEF Free
<1>5. Dead' = Dead \ S
  BY <1>1, <1>3, Colours DEF Dead, Other
<1>6. Dead' \cup Free' = Dead \cup Free
  BY <1>4, <1>5
<1>7. Black' = Black \ S /\ Gray' = Gray \ S
  BY <1>1, Colours DEF Black, Gray
<1>8. mark' \in [Obj -> Whites \cup {"free", "gray", "black"}]
  BY <1>1, <1>2, Colours DEF Whites
<1>9. /\ \A o \in S : mark'[o] \in {"free", cw}
      /\ \A o \in Obj \ S : mark'[o] = mark[o]
  BY <1>1
<1> QED BY <1>4, <1>5, <1>6, <1>7, <1>8, <1>9 DEF Alive

(* One bucket of the string table.                                         *)
LEMMA SweepStringsKeeps ==
  ASSUME IInv, NEW bucket \in SUBSET Strings, SweepStrings(bucket) PROVE IInv'
<1>u. UNCHANGED <<cw, gray, grayagain, weak, tmudata, finalized, drain, called, tab, mode, env, hasgc, up, uv, stack, args,
                  running, basemt>>
  BY DEF SweepStrings, heap, roots
<1>d. /\ gcstate = "sweepstring" /\ bucket \subseteq tosweep \cap Strings
      /\ gcstate' = "sweepstring" \/ (gcstate' = "sweep" /\ bucket = tosweep \cap Strings)
      /\ mark' = Swept(bucket) /\ tosweep' = tosweep \ bucket
  BY DEF SweepStrings
<1>0. bucket \in SUBSET (Obj \ Free)
  BY <1>d, ValuesIn DEF IInv, SweepInv
<1>1. /\ Free' = Free \cup (bucket \cap Dead) /\ Dead' = Dead \ bucket /\ Alive' = Alive
      /\ Black' = Black \ bucket /\ Gray' = Gray \ bucket
      /\ \A o \in bucket : mark'[o] \in {"free", cw}
      /\ \A o \in Obj \ bucket : mark'[o] = mark[o]
      /\ mark' \in [Obj -> Whites \cup {"free", "gray", "black"}]
  BY <1>0, <1>d, <1>u, SweptIs DEF IInv
<1>2. \A o : AllRefs(o)' = AllRefs(o)
  BY <1>u, SameRefs
<1>k. bucket \cap (Tables \cup Udata \cup Closures \cup Upvals \cup Threads) = {}
  BY <1>d, KindsAssumption
<1>3. Types'
  <2>1. TypeOK'
    BY <1>1, <1>u, <1>d DEF IInv, Types, TypeOK
  <2> QED BY <2>1, <1>u, <1>1, KindsStay DEF IInv
<1>4. HeapInv'
  <2>1. FreeEmpty'
    BY <1>1, <1>2, <1>u, <1>k, <1>d, RefsAre DEF IInv, HeapInv, FreeEmpty, Open
  <2>2. OpenUpvalsSound'
    <3>1. \A v \in Upvals : Open(v) => uv[v].th \in Threads
      BY DEF Open, IInv, Types, TypeOK
    <3> QED BY <3>1, <1>1, <1>u, <1>k DEF IInv, HeapInv, OpenUpvalsSound, Open
  <2> QED BY <2>1, <2>2, <1>1, <1>2, <1>u DEF IInv, HeapInv, AliveClosed, RootsAlive, Roots, ArgsHeld
<1>5. MarkInv'
  BY <1>1, <1>u, <1>d DEF IInv, MarkInv, Coloured, ListsSound, Open
<1>6. SweepInv'
  <2>1. ASSUME NEW o \in Obj
        PROVE  mark'[o] \in {"free", cw} \/ Pending(o)' \/ (o \in tmudata /\ o \in Black')
    <3>1. CASE o \in bucket
      BY <3>1, <1>1
    <3>2. CASE o \notin bucket
      <4>1. Pending(o) => Pending(o)'
        <5>1. o \in Upvals => uv[o].th \notin bucket
          BY <1>k, <1>d, ValuesIn DEF IInv, Types, TypeOK
        <5> QED BY <3>2, <5>1, <1>d, <1>u DEF Pending
      <4> QED BY <3>2, <4>1, <1>1, <1>d DEF IInv, SweepInv
    <3> QED BY <3>1, <3>2
  <2>2. tosweep' \cap (Free' \cup tmudata) = {} /\ \A v \in tosweep' \cap Upvals : ~Open(v)'
    BY <1>1, <1>d, <1>u DEF IInv, SweepInv, Open
  <2>3. gcstate' = "sweep" => tosweep' \cap Strings = {}
    BY <1>d
  <2> QED BY <2>1, <2>2, <2>3, <1>d, <1>u DEF SweepInv
<1>7. FinInv'
  BY <1>u DEF IInv, FinInv
<1> QED BY <1>3, <1>4, <1>5, <1>6, <1>7 DEF IInv

(* GCTM.                                                                   *)
LEMMA FinalizeKeeps ==
  ASSUME IInv, NEW u \in Udata, Finalize(u) PROVE IInv'
<1>u. UNCHANGED <<cw, gcstate, gray, grayagain, weak, tosweep, finalized, drain, tab, mode, env, hasgc, up, uv, stack,
                  running, basemt>>
  BY DEF Finalize, heap
<1>d. /\ gcstate = "finalize" /\ u \in tmudata /\ tmudata' = tmudata \ {u}
      /\ mark' = [mark EXCEPT ![u] = cw]
  BY DEF Finalize
<1>0. u \in Alive /\ u \in Obj /\ mark[u] \in {cw, "gray", "black"} /\ running \in Threads /\ running \in Alive
  BY <1>d, Colours, RunningAlive DEF IInv, HeapInv, RootsAlive
<1>1. /\ mark' \in [Obj -> Whites \cup {"free", "gray", "black"}]
      /\ mark'[u] = cw
      /\ \A o \in Obj \ {u} : mark'[o] = mark[o]
  BY <1>d, <1>0 DEF IInv, Types, TypeOK
<1>2. Free' = Free /\ Dead' = Dead /\ Alive' = Alive /\ Black' = Black \ {u} /\ Gray' = Gray \ {u}
  <2>1. Free' = Free /\ Black' = Black \ {u} /\ Gray' = Gray \ {u}
    BY <1>0, <1>1, Colours DEF IInv, Free, Black, Gray
  <2>2. Dead' = Dead
    BY <1>0, <1>1, <1>u, Colours DEF IInv, Dead, Other
  <2> QED BY <2>1, <2>2 DEF Alive
<1>3. /\ args' \in [Threads -> SUBSET Udata]
      /\ \A th \in Threads : args[th] \subseteq args'[th] /\ args'[th] \subseteq args[th] \cup {u}
      /\ \A th \in Threads \ {running} : args'[th] = args[th]
      /\ called' \in {called, called \cup {u}}
  <2>1. CASE hasgc[u]
    <3>1. args' = [args EXCEPT ![running] = @ \cup {u}] /\ called' = called \cup {u}
      BY <2>1 DEF Finalize
    <3> QED BY <3>1, <1>0 DEF IInv, Types, TypeOK
  <2>2. CASE ~hasgc[u]
    BY <2>2 DEF Finalize, IInv, Types, TypeOK
  <2> QED BY <2>1, <2>2
<1>4. /\ \A o \in Obj \ {running} : AllRefs(o)' = AllRefs(o)
      /\ AllRefs(running)' \subseteq AllRefs(running) \cup {u}
  <2>1. \A th \in Threads : OnStack(th)' \subseteq OnStack(th) \cup {u} /\ (th # running => OnStack(th)' = OnStack(th))
    BY <1>3, <1>u DEF OnStack
  <2>2. \A o \in Obj \ Threads : AllRefs(o)' = AllRefs(o)
    BY <1>u DEF AllRefs, Contents, Open
  <2>3. \A th \in Threads : AllRefs(th) = Obj \cap OnStack(th) /\ AllRefs(th)' = Obj \cap OnStack(th)'
    BY RefsAre, RefsAreNext, Zenon
  <2>4. \A th \in Threads \ {running} : AllRefs(th)' = AllRefs(th)
    BY <2>1, <2>3
  <2>5. AllRefs(running)' \subseteq AllRefs(running) \cup {u}
    <3>1. PICK r \in Threads : r = running /\ r = running'
      BY <1>0, <1>u
    <3>2. AllRefs(r)' \subseteq AllRefs(r) \cup {u}
      BY <2>1, <2>3, <1>0
    <3> QED BY <3>1, <3>2
  <2> QED BY <2>2, <2>4, <2>5
<1>5. Types'
  <2>1. TypeOK'
    BY <1>1, <1>3, <1>u, <1>d DEF IInv, Types, TypeOK
  <2> QED BY <2>1, <1>u, <1>2, KindsStay DEF IInv
<1>6. HeapInv'
  <2>1. FreeEmpty' /\ AliveClosed'
    BY <1>0, <1>2, <1>4, <1>u DEF IInv, HeapInv, FreeEmpty, AliveClosed, Open, Alive, Free
  <2>2. RootsAlive' /\ ArgsHeld'
    BY <1>0, <1>2, <1>3, <1>u, <1>d DEF IInv, HeapInv, RootsAlive, Roots, ArgsHeld
  <2>3. OpenUpvalsSound'
    BY <1>2, <1>u DEF IInv, HeapInv, OpenUpvalsSound, Open
  <2> QED BY <2>1, <2>2, <2>3 DEF HeapInv
<1>7. MarkInv'
  BY <1>2, <1>u, <1>d DEF IInv, MarkInv, Coloured, ListsSound, Open
<1>8. SweepInv'
  BY <1>0, <1>1, <1>2, <1>u, <1>d DEF IInv, SweepInv, Pending, Open, Black
<1>9. FinInv'
  BY <1>3, <1>d, <1>u DEF IInv, FinInv
<1> QED BY <1>5, <1>6, <1>7, <1>8, <1>9 DEF IInv

(* sweeplist on one object: an upvalue whose thread is freed keeps what it *)
(* holds; a freed thread holds no finalizer's argument.                    *)
LEMMA SweepObjectKeeps ==
  ASSUME IInv, NEW o \in Obj, SweepObject(o) PROVE IInv'
<1> DEFINE S == {o} \cup OpenOn(o)
           freed == S \cap Dead
<1>u. UNCHANGED <<cw, gray, grayagain, weak, tmudata, drain, args, running, basemt>>
  BY DEF SweepObject, roots
<1>d. /\ gcstate = "sweep" /\ o \in tosweep /\ tosweep' = tosweep \ {o}
      /\ gcstate' = IF tosweep = {o} THEN "finalize" ELSE "sweep"
      /\ mark' = Swept(S)
      /\ tab' = Emptied(tab, freed, NoEntry)
      /\ mode' = Emptied(mode, freed, "")
      /\ env' = Emptied(env, freed, Nil)
      /\ hasgc' = Emptied(hasgc, freed, FALSE)
      /\ up' = Emptied(up, freed, Nil)
      /\ uv' = [v \in Upvals |->
                  IF v \in freed THEN NoUpval
                  ELSE IF o \in freed /\ uv[v].th = o THEN [NoUpval EXCEPT !.val = Contents(v)]
                  ELSE uv[v]]
      /\ stack' = Emptied(stack, freed, [s \in Slots |-> Nil])
      /\ finalized' = finalized \ freed
      /\ called' = called \ freed
  BY Zenon DEF SweepObject
<1>0. /\ o # Nil /\ o \notin Free
      /\ \A v \in OpenOn(o) : v \in Upvals /\ uv[v].th = o /\ Open(v) /\ v \notin Free /\ v \in Obj /\ o \in Threads
  <2>1. o # Nil /\ o \notin Free
    BY <1>d, ValuesIn DEF IInv, SweepInv
  <2> QED BY <2>1, ValuesIn DEF OpenOn, Open, IInv, HeapInv, FreeEmpty, Types, TypeOK
<1>1. /\ S \in SUBSET (Obj \ Free) /\ o \in S
      /\ \A x \in S : x = o \/ (x \in Upvals /\ Open(x) /\ uv[x].th = o)
      /\ \A v \in Upvals : uv[v].th = o => v \in S
  BY <1>0 DEF OpenOn
<1>2. /\ freed \subseteq S /\ freed \subseteq Dead /\ freed \cap Alive = {}
  BY DEF Alive
<1>3. /\ Free' = Free \cup freed /\ Dead' = Dead \ S /\ Alive' = Alive
      /\ Black' = Black \ S /\ Gray' = Gray \ S
      /\ \A x \in S : mark'[x] \in {"free", cw}
      /\ \A x \in Obj \ S : mark'[x] = mark[x]
      /\ mark' \in [Obj -> Whites \cup {"free", "gray", "black"}]
  BY <1>1, <1>d, <1>u, SweptIs DEF IInv
<1> HIDE DEF S, freed
<1>4. \A v \in Upvals : Contents(v) \in Value
  BY ContentsIn DEF IInv
<1>5. /\ \A v \in Upvals : v \in freed => uv'[v] = NoUpval
      /\ \A v \in Upvals \ freed : o \in freed /\ uv[v].th = o => uv'[v] = [th |-> Nil, slot |-> Nil, val |-> Contents(v)]
      /\ \A v \in Upvals \ freed : ~(o \in freed /\ uv[v].th = o) => uv'[v] = uv[v]
  BY <1>d, Zenon DEF NoUpval
<1>6. uv' \in [Upvals -> [th : Threads \cup {Nil}, slot : Slots \cup {Nil}, val : Value]]
  <2>0. Nil \in Value
    BY DEF Value
  <2>1. ASSUME NEW v \in Upvals
        PROVE  uv'[v] \in [th : Threads \cup {Nil}, slot : Slots \cup {Nil}, val : Value]
    <3>1. CASE v \in freed
      BY <3>1, <1>5, <2>0 DEF NoUpval
    <3>2. CASE v \notin freed /\ o \in freed /\ uv[v].th = o
      <4>1. uv'[v] = [th |-> Nil, slot |-> Nil, val |-> Contents(v)]
        BY <3>2, <1>5, Zenon
      <4> QED BY <4>1, <1>4
    <3>3. CASE v \notin freed /\ ~(o \in freed /\ uv[v].th = o)
      <4>1. uv'[v] = uv[v]
        BY <3>3, <1>5, Zenon
      <4> QED BY <4>1 DEF IInv, Types, TypeOK
    <3> QED BY <3>1, <3>2, <3>3
  <2>2. uv' = [v \in Upvals |-> uv'[v]]
    BY <1>d
  <2> QED BY <2>1, <2>2
<1>7. \A v \in Upvals : Open(v)' => /\ v \notin freed /\ uv'[v] = uv[v] /\ Open(v)
                                    /\ ~(o \in freed /\ uv[v].th = o)
  <2> SUFFICES ASSUME NEW v \in Upvals, Open(v)'
               PROVE  v \notin freed /\ uv'[v] = uv[v] /\ Open(v) /\ ~(o \in freed /\ uv[v].th = o)
    OBVIOUS
  <2>1. v \notin freed
    BY <1>5 DEF Open, NoUpval
  <2>2. ~(o \in freed /\ uv[v].th = o)
    <3> SUFFICES ASSUME o \in freed /\ uv[v].th = o PROVE FALSE
      OBVIOUS
    <3>1. uv'[v] = [th |-> Nil, slot |-> Nil, val |-> Contents(v)]
      BY <2>1, <1>5, Zenon
    <3> QED BY <3>1 DEF Open
  <2> QED BY <2>1, <2>2, <1>5 DEF Open
<1>t. /\ \A x \in Tables : tab'[x] = IF x \in freed THEN NoEntry ELSE tab[x]
      /\ \A x \in Udata : env'[x] = IF x \in freed THEN Nil ELSE env[x]
      /\ \A x \in Closures : up'[x] = IF x \in freed THEN Nil ELSE up[x]
      /\ \A x \in Threads : stack'[x] = IF x \in freed THEN [s \in Slots |-> Nil] ELSE stack[x]
  <2>1. DOMAIN tab = Tables /\ DOMAIN env = Udata /\ DOMAIN up = Closures /\ DOMAIN stack = Threads
    BY DEF IInv, Types, TypeOK
  <2> QED BY <2>1, <1>d DEF Emptied
<1>8. Types'
  <2>1. tab' \in [Tables -> [key : Keys \cup {Nil}, val : Value]]
    BY <1>d DEF Emptied, NoEntry, Value, IInv, Types, TypeOK
  <2>2. mode' \in [Tables -> Modes] /\ hasgc' \in [Udata -> BOOLEAN]
    BY <1>d, ModesAssumption DEF Emptied, IInv, Types, TypeOK
  <2>3. env' \in [Udata -> Tables \cup {Nil}] /\ up' \in [Closures -> Upvals \cup {Nil}]
    BY <1>d DEF Emptied, IInv, Types, TypeOK
  <2>4. stack' \in [Threads -> [Slots -> Value]]
    BY <1>d DEF Emptied, Value, IInv, Types, TypeOK
  <2>5. TypeOK'
    BY <1>3, <1>6, <2>1, <2>2, <2>3, <2>4, <1>u, <1>d DEF IInv, Types, TypeOK
  <2>6. KindsSound'
    <3>1. \A c \in Closures \ Free' : up'[c] \in Upvals
      BY <1>3, <1>t DEF IInv, Types, KindsSound
    <3> QED BY <3>1, <1>7 DEF IInv, Types, KindsSound
  <2> QED BY <2>5, <2>6 DEF Types
<1>9. /\ \A x \in freed : AllRefs(x)' = {}
      /\ \A x \in Obj \ freed : AllRefs(x)' = AllRefs(x)
  <2>1. ASSUME NEW x \in Tables
        PROVE  AllRefs(x)' = IF x \in freed THEN {} ELSE AllRefs(x)
    <3>1. AllRefs(x)' = IF tab'[x].val = Nil THEN {} ELSE Obj \cap {tab'[x].key, tab'[x].val}
      BY RefsAreNext, Zenon
    <3>2. CASE x \in freed
      BY <3>1, <3>2, <1>t DEF NoEntry
    <3>3. CASE x \notin freed
      BY <3>1, <3>3, <1>t, RefsAre
    <3> QED BY <3>2, <3>3
  <2>2. ASSUME NEW x \in Udata
        PROVE  AllRefs(x)' = IF x \in freed THEN {} ELSE AllRefs(x)
    <3>1. AllRefs(x) = Obj \cap {env[x]} /\ AllRefs(x)' = Obj \cap {env'[x]}
      BY RefsAre, RefsAreNext, Zenon
    <3> QED BY <3>1, <1>t, ValuesIn
  <2>3. ASSUME NEW x \in Closures
        PROVE  AllRefs(x)' = IF x \in freed THEN {} ELSE AllRefs(x)
    <3>1. AllRefs(x) = Obj \cap {up[x]} /\ AllRefs(x)' = Obj \cap {up'[x]}
      BY RefsAre, RefsAreNext, Zenon
    <3> QED BY <3>1, <1>t, ValuesIn
  <2>4. ASSUME NEW x \in Threads
        PROVE  AllRefs(x)' = IF x \in freed THEN {} ELSE AllRefs(x)
    <3>1. AllRefs(x) = Obj \cap OnStack(x) /\ AllRefs(x)' = Obj \cap OnStack(x)'
      BY RefsAre, RefsAreNext, Zenon
    <3>2. CASE x \in freed
      <4>1. args[x] = {}
        BY <3>2, <1>2 DEF IInv, HeapInv, ArgsHeld, RootsAlive, Roots
      <4>2. OnStack(x)' \subseteq {Nil}
        BY <3>2, <4>1, <1>t, <1>u DEF OnStack
      <4> QED BY <3>1, <3>2, <4>2, ValuesIn
    <3>3. CASE x \notin freed
      <4>1. OnStack(x)' = OnStack(x)
        BY <3>3, <1>t, <1>u DEF OnStack
      <4> QED BY <3>1, <3>3, <4>1
    <3> QED BY <3>2, <3>3
  <2>5. ASSUME NEW x \in Upvals
        PROVE  AllRefs(x)' = IF x \in freed THEN {} ELSE AllRefs(x)
    <3>1. AllRefs(x) = Obj \cap {Contents(x)} /\ AllRefs(x)' = Obj \cap {Contents(x)'}
      BY RefsAre, RefsAreNext, Zenon
    <3>2. CASE x \in freed
      <4>1. Contents(x)' = Nil
        BY <3>2, <1>5 DEF Contents, Open, NoUpval
      <4> QED BY <3>1, <3>2, <4>1, ValuesIn
    <3>3. CASE x \notin freed /\ o \in freed /\ uv[x].th = o
      <4>1. uv'[x] = [th |-> Nil, slot |-> Nil, val |-> Contents(x)]
        BY <3>3, <1>5, Zenon
      <4>2. Contents(x)' = Contents(x)
        BY <4>1 DEF Contents, Open
      <4> QED BY <3>1, <3>3, <4>2
    <3>4. CASE x \notin freed /\ ~(o \in freed /\ uv[x].th = o)
      <4>1. uv'[x] = uv[x]
        BY <3>4, <1>5, Zenon
      <4>2. Open(x) => uv[x].th \in Threads /\ uv[x].th \notin freed
        <5>1. Open(x) => uv[x].th \in Threads
          BY DEF Open, IInv, Types, TypeOK
        <5> QED BY <5>1, <3>4, <1>1, <1>2, KindsAssumption
      <4>3. Contents(x)' = Contents(x)
        BY <4>1, <4>2, <1>t DEF Contents, Open
      <4> QED BY <3>1, <3>4, <4>3
    <3> QED BY <3>2, <3>3, <3>4
  <2>6. ASSUME NEW x \in Strings
        PROVE  AllRefs(x)' = IF x \in freed THEN {} ELSE AllRefs(x)
    BY RefsAre, RefsAreNext
  <2>7. freed \subseteq Obj
    BY <1>1, <1>2
  <2> QED BY <2>1, <2>2, <2>3, <2>4, <2>5, <2>6, <2>7 DEF Obj
<1>10. HeapInv'
  <2>1. FreeEmpty'
    BY <1>3, <1>7, <1>9 DEF IInv, HeapInv, FreeEmpty, Free
  <2>2. AliveClosed'
    BY <1>2, <1>3, <1>9 DEF IInv, HeapInv, AliveClosed, Alive
  <2>3. RootsAlive' /\ ArgsHeld'
    BY <1>3, <1>u DEF IInv, HeapInv, RootsAlive, Roots, ArgsHeld
  <2>4. OpenUpvalsSound'
    <3> SUFFICES ASSUME NEW v \in Upvals, Open(v)'
                 PROVE  /\ v \notin Black' /\ uv'[v].th \notin Free'
                        /\ \A w \in Upvals \ {v} : uv'[w].th = uv'[v].th => uv'[w].slot # uv'[v].slot
      BY DEF OpenUpvalsSound
    <3>1. v \notin freed /\ uv'[v] = uv[v] /\ Open(v) /\ ~(o \in freed /\ uv[v].th = o)
      BY <1>7
    <3>2. v \notin Black' /\ uv[v].th \notin Free
      BY <3>1, <1>3 DEF IInv, HeapInv, OpenUpvalsSound
    <3>3. uv[v].th \in Threads
      BY <3>1 DEF Open, IInv, Types, TypeOK
    <3>4. uv'[v].th \notin Free'
      BY <3>1, <3>2, <3>3, <1>1, <1>2, <1>3, KindsAssumption
    <3>5. ASSUME NEW w \in Upvals \ {v}, uv'[w].th = uv'[v].th PROVE uv'[w].slot # uv'[v].slot
      <4>1. uv'[w] = uv[w]
        BY <3>1, <3>5, <1>7 DEF Open
      <4> QED BY <3>1, <3>5, <4>1 DEF IInv, HeapInv, OpenUpvalsSound
    <3> QED BY <3>2, <3>4, <3>5
  <2> QED BY <2>1, <2>2, <2>3, <2>4 DEF HeapInv
<1>s. \A v \in Upvals \ S : uv'[v] = uv[v]
  BY <1>1, <1>2, <1>5
<1>11. MarkInv'
  <2>1. Coloured'
    <3>1. ASSUME NEW v \in Upvals, ~Open(v)' PROVE v \notin Gray'
      <4>1. CASE v \in S
        BY <4>1, <1>3
      <4>2. CASE v \notin S
        BY <3>1, <4>2, <1>s, <1>3 DEF IInv, MarkInv, Coloured, Open
      <4> QED BY <4>1, <4>2
    <3> QED BY <3>1, <1>3 DEF IInv, MarkInv, Coloured
  <2> QED BY <2>1, <1>d DEF MarkInv, ListsSound
<1>12. SweepInv'
  <2>1. ASSUME NEW x \in Obj
        PROVE  mark'[x] \in {"free", cw} \/ Pending(x)' \/ (x \in tmudata /\ x \in Black')
    <3>1. CASE x \in S
      BY <3>1, <1>3
    <3>2. CASE x \notin S
      <4>1. Pending(x) => Pending(x)'
        BY <3>2, <1>1, <1>s, <1>d DEF Pending
      <4> QED BY <3>2, <4>1, <1>3, <1>d DEF IInv, SweepInv
    <3> QED BY <3>1, <3>2
  <2>2. tosweep' \cap (Free' \cup tmudata) = {}
    <3>1. tosweep' \cap S = {}
      BY <1>1, <1>d DEF IInv, SweepInv
    <3> QED BY <3>1, <1>2, <1>3, <1>d DEF IInv, SweepInv
  <2>3. \A v \in tosweep' \cap Upvals : ~Open(v)'
    BY <1>7, <1>d DEF IInv, SweepInv
  <2>4. gcstate' \in {"sweep", "finalize"} /\ (gcstate' = "finalize" => tosweep' = {})
        /\ (gcstate' = "sweep" => tosweep' \cap Strings = {})
    BY <1>d DEF IInv, SweepInv
  <2> QED BY <2>1, <2>2, <2>3, <2>4, <1>u DEF SweepInv
<1>13. FinInv'
  <2>1. tmudata \cap freed = {}
    BY <1>2 DEF IInv, HeapInv, RootsAlive
  <2> QED BY <2>1, <1>d, <1>u DEF IInv, FinInv
<1> QED BY <1>8, <1>10, <1>11, <1>12, <1>13 DEF IInv

(* Three facts about Reached over Unmarked: it is the least set, it is     *)
(* closed, and it holds what it starts from.                               *)
LEMMA UnmarkedIn ==
  ASSUME NEW S, NEW P \in SUBSET Obj, S \subseteq P, \A x \in P : Unmarked(x) \subseteq P
  PROVE  Reached(S, Unmarked) \subseteq P
<1>1. P = S \cup (P \ S) /\ P \ S \in SUBSET (Obj \ S)
  OBVIOUS
<1>2. P \in {X \in {S \cup Y : Y \in SUBSET (Obj \ S)} : \A x \in X : Unmarked(x) \subseteq X}
  BY <1>1
<1> QED BY <1>2, Zenon DEF Reached

LEMMA UnmarkedClosed ==
  ASSUME NEW S, NEW x \in Reached(S, Unmarked)
  PROVE  Unmarked(x) \subseteq Reached(S, Unmarked)
<1> SUFFICES ASSUME NEW y \in Unmarked(x) PROVE y \in Reached(S, Unmarked)
  OBVIOUS
<1>1. y \in Obj
  BY DEF Unmarked, White
<1>2. ASSUME NEW X \in {Z \in {S \cup Y : Y \in SUBSET (Obj \ S)} : \A z \in Z : Unmarked(z) \subseteq Z}
      PROVE  y \in X
  <2>1. x \in X
    BY Zenon DEF Reached
  <2> QED BY <1>2, <2>1
<1> QED BY <1>1, <1>2, Zenon DEF Reached

LEMMA UnmarkedHas ==
  ASSUME NEW S, S \subseteq Obj
  PROVE  S \subseteq Reached(S, Unmarked) /\ Reached(S, Unmarked) \subseteq Obj
BY Zenon DEF Reached

(* What the atomic step starts from.                                       *)
AtomicRoots == gray \cup weak \cup grayagain \cup (White \cap (RemarkUpvals \cup {running, basemt}))

(* What the first part of the atomic step marks.                           *)
LEMMA RemarkedIs ==
  ASSUME IInv, gcstate = "propagate", gray = {}
  PROVE  /\ AtomicRoots \subseteq Remarked /\ Remarked \subseteq Alive
         /\ \A x \in Remarked : StrongRefs(x) \cap White \subseteq Remarked
         /\ Gray \cap Listed \subseteq Remarked
         /\ \A v \in Upvals \cap Gray : AllRefs(v) \cap White \subseteq Remarked
         /\ Roots \cap White \subseteq Remarked
<1>1. /\ Dead = {} /\ Gray \cap Listed = grayagain \cup weak /\ Main \notin White /\ Coloured
      /\ White \subseteq Alive /\ Gray \subseteq Alive
  <2>1. Dead = {} /\ Gray \cap Listed = grayagain \cup weak /\ Main \notin White /\ Coloured
    BY DEF IInv, MarkInv, ListsSound
  <2>2. White \subseteq Obj \ Free /\ Gray \subseteq Obj \ Free
    BY DEF White, Gray, Free, Whites
  <2> QED BY <2>1, <2>2 DEF Alive
<1>2. Remarked = Reached(AtomicRoots, Unmarked)
  BY DEF Remarked, AtomicRoots
<1>3. AtomicRoots \subseteq Alive /\ Alive \subseteq Obj
  BY <1>1 DEF AtomicRoots, Alive
<1>4. AtomicRoots \subseteq Remarked
  BY <1>2, <1>3, UnmarkedHas
<1>5. Remarked \subseteq Alive
  <2>1. \A x \in Alive : Unmarked(x) \subseteq Alive
    BY <1>1 DEF Unmarked
  <2> QED BY <1>2, <1>3, <2>1, UnmarkedIn
<1>6. \A x \in Remarked : StrongRefs(x) \cap White \subseteq Remarked
  BY <1>2, UnmarkedClosed DEF Unmarked
<1>7. ASSUME NEW v \in Upvals \cap Gray PROVE AllRefs(v) \cap White \subseteq Remarked
  <2>1. Open(v)
    BY <1>1 DEF Coloured
  <2>2. Contents(v) \in RemarkUpvals
    BY <2>1 DEF RemarkUpvals
  <2>3. AllRefs(v) = Obj \cap {Contents(v)}
    BY RefsAre, Zenon
  <2> QED BY <1>4, <2>2, <2>3 DEF AtomicRoots
<1>8. Gray \cap Listed \subseteq Remarked /\ Roots \cap White \subseteq Remarked
  BY <1>1, <1>4 DEF AtomicRoots, Roots
<1> QED BY <1>4, <1>5, <1>6, <1>7, <1>8

(* What the atomic step keeps: all that, and what the userdata to be       *)
(* finalized lead to.                                                      *)
LEMMA PreservedIs ==
  ASSUME IInv, gcstate = "propagate", gray = {}
  PROVE  /\ Remarked \subseteq Preserved(Remarked) /\ ToFinalize(Remarked) \subseteq Preserved(Remarked)
         /\ Preserved(Remarked) \subseteq Alive /\ ToFinalize(Remarked) \subseteq Udata
         /\ \A x \in Preserved(Remarked) : StrongRefs(x) \cap White \subseteq Preserved(Remarked)
<1> DEFINE rem == Remarked
           S == rem \cup ToFinalize(rem)
<1>1. White \subseteq Alive
  <2>1. White \subseteq Obj \ Free
    BY DEF White, Free, Whites
  <2> QED BY <2>1 DEF Alive, IInv, MarkInv
<1>2. ToFinalize(rem) \subseteq Udata /\ ToFinalize(rem) \subseteq Alive
  BY <1>1 DEF ToFinalize, Separated, IInv, Types, TypeOK, HeapInv, RootsAlive
<1>3. S \subseteq Alive /\ Alive \subseteq Obj
  BY <1>2, RemarkedIs DEF Alive
<1>4. Preserved(rem) = Reached(S, Unmarked)
  BY DEF Preserved
<1> HIDE DEF S, rem
<1>5. S \subseteq Preserved(rem)
  BY <1>3, <1>4, UnmarkedHas
<1>6. Preserved(rem) \subseteq Alive
  <2>1. \A x \in Alive : Unmarked(x) \subseteq Alive
    BY <1>1 DEF Unmarked
  <2>2. Alive \in SUBSET Obj
    BY <1>3
  <2>3. Reached(S, Unmarked) \subseteq Alive
    BY <1>3, <2>1, <2>2, UnmarkedIn, Zenon
  <2> QED BY <1>4, <2>3
<1>7. \A x \in Preserved(rem) : StrongRefs(x) \cap White \subseteq Preserved(rem)
  BY <1>4, UnmarkedClosed DEF Unmarked
<1> QED BY <1>2, <1>5, <1>6, <1>7 DEF S, rem

(* atomic: what the new white does not colour is kept, and leads only to   *)
(* what is kept: through its references, to strings that iscleared has     *)
(* marked, or, from a black cell, by the tri-colour invariant.             *)
LEMMA AtomicKeeps ==
  ASSUME IInv, Atomic PROVE IInv'
<1> DEFINE rem == Remarked
           kept == Preserved(rem)
           fin == finalized \cup Separated(rem)
           strs == KeptStrings(kept, fin)
           saved == (strs \cap White) \ kept
<1>u. UNCHANGED <<drain, called, mode, env, hasgc, up, uv, stack, args, running, basemt, gray>>
  BY DEF Atomic, roots
<1>d. /\ gcstate = "propagate" /\ gray = {}
      /\ tmudata' = ToFinalize(rem) /\ finalized' = fin
      /\ mark' = [o \in Obj |-> CASE o \in kept \cap Listed        -> Traversed(o)
                                  [] o \in kept \ Listed          -> Colour(o)
                                  [] o \in saved -> "gray"
                                  [] OTHER                        -> mark[o]]
      /\ grayagain' = kept \cap Threads
      /\ weak' = WeakTables(kept)
      /\ tab' = ClearTable(Purged(kept), kept, fin)
      /\ cw' = Other(cw) /\ tosweep' = RootList \ tmudata' /\ gcstate' = "sweepstring"
  BY Zenon DEF Atomic
<1>0. /\ Dead = {} /\ Main \notin White /\ Coloured /\ NoneLost /\ Threads \cap Black = {}
  BY <1>d DEF IInv, MarkInv, ListsSound
<1>1. /\ rem \subseteq kept /\ tmudata' \subseteq kept /\ kept \subseteq Alive /\ tmudata' \subseteq Udata
      /\ tmudata \subseteq kept
      /\ \A x \in kept : StrongRefs(x) \cap White \subseteq kept
      /\ Gray \cap Listed \subseteq kept
      /\ \A v \in Upvals \cap Gray : AllRefs(v) \cap White \subseteq kept
      /\ Roots \cap White \subseteq kept
  <2>1. tmudata \subseteq ToFinalize(rem)
    BY DEF ToFinalize
  <2> QED BY <1>d, <2>1, RemarkedIs, PreservedIs
<1>2. fin \subseteq Udata /\ tmudata' \subseteq fin /\ finalized \subseteq fin /\ called \cap tmudata' = {}
  BY <1>d DEF Separated, ToFinalize, IInv, Types, TypeOK, FinInv
<1>3. saved \subseteq Strings /\ saved \cap kept = {} /\ saved \subseteq strs /\ strs \cap White \subseteq kept \cup saved
      /\ saved \subseteq White
  BY DEF KeptStrings
<1>s. /\ \A t \in WeakTables(kept) : tab[t].val # Nil /\ tab[t].key \in Strings => tab[t].key \in strs
      /\ \A t \in WeakTables(kept) :
           tab[t].val # Nil /\ tab[t].val \in Strings /\ ~Cleared(tab[t].key, TRUE, kept, fin)
             => tab[t].val \in strs
  <2> DEFINE filled == {t \in WeakTables(kept) : tab[t].val # Nil}
             byval == {t \in filled : ~Cleared(tab[t].key, TRUE, kept, fin)}
  <2>1. strs = Strings \cap ({tab[t].key : t \in filled} \cup {tab[t].val : t \in byval})
    BY Zenon DEF KeptStrings
  <2> HIDE DEF kept, fin, strs
  <2> QED BY <2>1
<1> HIDE DEF kept, strs, fin, rem, saved
(* The colours after the step.                                             *)
<1>4. /\ \A o \in kept : mark'[o] = IF o \in Listed THEN Traversed(o) ELSE Colour(o)
      /\ \A o \in saved : mark'[o] = "gray"
      /\ \A o \in Obj \ (kept \cup saved) : mark'[o] = mark[o]
      /\ mark' \in [Obj -> Whites \cup {"free", "gray", "black"}]
  <2>1. \A o : Traversed(o) \in {"gray", "black"} /\ Colour(o) \in {"gray", "black"}
    BY DEF Traversed, Colour
  <2>2. kept \subseteq Obj /\ saved \subseteq Obj
    BY <1>1, <1>3 DEF Alive, White
  <2>3. /\ \A o \in kept : mark'[o] = IF o \in Listed THEN Traversed(o) ELSE Colour(o)
        /\ \A o \in saved : mark'[o] = "gray"
        /\ \A o \in Obj \ (kept \cup saved) : mark'[o] = mark[o]
    BY <1>d, <2>2, <1>3
  <2>4. \A o \in Obj : mark'[o] \in Whites \cup {"free", "gray", "black"}
    BY <2>1, <2>3 DEF IInv, Types, TypeOK
  <2>5. mark' = [o \in Obj |-> mark'[o]]
    BY <1>d
  <2> QED BY <2>3, <2>4, <2>5
<1>5. /\ \A o \in kept : mark'[o] \in {"gray", "black"}
      /\ \A o \in kept \cap Udata : mark'[o] = "black"
      /\ \A o \in kept \cap Upvals : mark'[o] = IF Open(o) THEN "gray" ELSE "black"
  BY <1>4, KindsAssumption DEF Traversed, Colour, Listed
<1>c. /\ \A o \in Obj : mark[o] \in {cw, "free", "gray", "black"}
      /\ \A o \in Obj : o \in White <=> mark[o] = cw
      /\ \A o \in Obj : o \in Alive <=> mark[o] # "free"
      /\ cw \in {"white0", "white1"} /\ Other(cw) \in {"white0", "white1"} /\ Other(cw) # cw /\ Other(Other(cw)) = cw
  <2>1. \A o \in Obj : mark[o] # Other(cw)
    BY <1>0 DEF Dead
  <2> QED BY <2>1, Colours DEF IInv
<1>6. /\ Free' = Free /\ Dead' = White \ (kept \cup saved) /\ Alive' = Alive \ (White \ (kept \cup saved))
      /\ Black' \subseteq Black \cup kept /\ Gray' \subseteq Gray \cup kept \cup saved
  <2>0. kept \subseteq Alive /\ kept \subseteq Obj /\ saved \subseteq White /\ saved \subseteq Obj
    BY <1>1, <1>3 DEF Alive, White
  <2>1. Free' = Free
    BY <1>4, <1>5, <1>c, <2>0 DEF Free
  <2>2. Dead' = White \ (kept \cup saved)
    <3>1. Other(cw)' = cw
      BY <1>d, <1>c DEF Other
    <3> QED BY <3>1, <1>4, <1>5, <1>c, <2>0 DEF Dead, White
  <2>3. Black' \subseteq Black \cup kept /\ Gray' \subseteq Gray \cup kept \cup saved
    BY <1>4, <2>0 DEF Black, Gray
  <2>4. Alive' = Alive \ (White \ (kept \cup saved))
    BY <2>1, <2>2, <1>0 DEF Alive
  <2> QED BY <2>1, <2>2, <2>3, <2>4
(* The tables after the step.                                              *)
<1>7. /\ tab' \in [Tables -> [key : Keys \cup {Nil}, val : Value]]
      /\ \A t \in Tables : ClearedEntry(t, kept, fin) => tab'[t].val = Nil
      /\ \A t \in Tables : tab[t].val = Nil => tab'[t].val = Nil
      /\ \A t \in Tables : tab[t].val # Nil /\ ~ClearedEntry(t, kept, fin) => tab'[t] = tab[t]
  <2> DEFINE P == Purged(kept)
  <2>1. /\ P \in [Tables -> [key : Keys \cup {Nil}, val : Value]]
        /\ \A t \in Tables : P[t].val = tab[t].val
        /\ \A t \in Tables : tab[t].val # Nil => P[t] = tab[t]
    BY PurgedIs DEF IInv
  <2> HIDE DEF P
  <2>2. tab' = [t \in Tables |-> IF ClearedEntry(t, kept, fin)
                                 THEN [key |-> Removed(tab[t].key), val |-> Nil] ELSE P[t]]
    BY <1>d, Zenon DEF ClearTable, P
  <2>3. ASSUME NEW t \in Tables
        PROVE  [key |-> Removed(tab[t].key), val |-> Nil] \in [key : Keys \cup {Nil}, val : Value]
    <3>1. tab[t].key \in Keys \cup {Nil} /\ Nil \in Value
      BY DEF IInv, Types, TypeOK, Value
    <3> QED BY <3>1 DEF Removed
  <2>4. tab' \in [Tables -> [key : Keys \cup {Nil}, val : Value]]
    BY <2>1, <2>2, <2>3
  <2>5. ASSUME NEW t \in Tables, ClearedEntry(t, kept, fin) PROVE tab'[t].val = Nil
    BY <2>2, <2>5
  <2>6. ASSUME NEW t \in Tables, ~ClearedEntry(t, kept, fin) PROVE tab'[t] = P[t]
    BY <2>2, <2>6
  <2> QED BY <2>1, <2>4, <2>5, <2>6
<1>8. /\ \A x \in Obj : AllRefs(x)' \subseteq AllRefs(x)
      /\ \A t \in Tables : ClearedEntry(t, kept, fin) => AllRefs(t)' = {}
  <2>1. ASSUME NEW t \in Tables
        PROVE  AllRefs(t)' \subseteq AllRefs(t) /\ (ClearedEntry(t, kept, fin) => AllRefs(t)' = {})
    <3>1. /\ AllRefs(t) = IF tab[t].val = Nil THEN {} ELSE Obj \cap {tab[t].key, tab[t].val}
          /\ AllRefs(t)' = IF tab'[t].val = Nil THEN {} ELSE Obj \cap {tab'[t].key, tab'[t].val}
      BY RefsAre, RefsAreNext, Zenon
    <3> QED BY <3>1, <1>7
  <2>2. \A x \in Obj \ Tables : AllRefs(x)' = AllRefs(x)
    BY <1>u DEF AllRefs, Contents, Open, OnStack
  <2> QED BY <2>1, <2>2
(* What is alive after the step leads to no white cell that is not kept.   *)
<1>9. ASSUME NEW x \in Alive' PROVE AllRefs(x)' \cap White \subseteq kept \cup saved
  <2>0. x \in Obj /\ x \in Alive
    BY <1>6 DEF Alive
  <2>1. CASE x \in kept /\ ~(x \in Tables /\ mode[x] # "")
    <3>1. StrongRefs(x) = AllRefs(x)
      BY <2>1, StrongAre
    <3> QED BY <2>0, <2>1, <3>1, <1>1, <1>8
  <2>2. CASE x \in kept /\ x \in Tables /\ mode[x] # ""
    <3>1. x \in WeakTables(kept)
      BY <2>2 DEF WeakTables
    <3>2. CASE ClearedEntry(x, kept, fin)
      BY <2>2, <3>2, <1>8
    <3>3. CASE ~ClearedEntry(x, kept, fin)
      <4>1. CASE tab[x].val = Nil
        <5>1. AllRefs(x) = {}
          BY <2>2, <4>1, RefsAre
        <5> QED BY <2>0, <5>1, <1>8
      <4>2. CASE tab[x].val # Nil
        <5>1. AllRefs(x) = Obj \cap {tab[x].key, tab[x].val}
          BY <2>2, <4>2, RefsAre
        <5>2. ~Cleared(tab[x].key, TRUE, kept, fin) /\ ~Cleared(tab[x].val, FALSE, kept, fin)
          BY <3>1, <3>3, <4>2 DEF ClearedEntry
        <5>3. /\ tab[x].key \in (White \ kept) \ Strings => FALSE
              /\ tab[x].val \in (White \ kept) \ Strings => FALSE
          BY <5>2 DEF Cleared, White
        <5>4. /\ tab[x].key \in Strings => tab[x].key \in strs
              /\ tab[x].val \in Strings => tab[x].val \in strs
          BY <3>1, <4>2, <5>2, <1>s
        <5> QED BY <2>0, <5>1, <5>3, <5>4, <1>3, <1>8
      <4> QED BY <4>1, <4>2
    <3> QED BY <3>2, <3>3
  <2>3. CASE x \in Strings
    BY <2>0, <2>3, <1>8, RefsAre
  <2>4. CASE x \notin kept /\ x \in Black
    <3>1. x \notin tmudata
      BY <2>4, <1>1
    <3> QED BY <2>0, <2>4, <3>1, <1>0, <1>8 DEF NoneLost
  <2>5. CASE x \notin kept /\ x \in Gray
    <3>1. x \notin Listed /\ x \notin Udata
      BY <2>5, <1>0, <1>1 DEF Coloured
    <3>2. x \in Upvals \/ x \in Strings
      BY <2>0, <3>1 DEF Obj, Listed
    <3> QED BY <2>0, <2>3, <2>5, <3>2, <1>1, <1>8
  <2>6. CASE x \notin kept /\ x \in White
    <3>1. x \in saved
      BY <2>6, <1>6
    <3> QED BY <2>3, <3>1, <1>3
  <2>7. x \in White \/ x \in Black \/ x \in Gray
    BY <2>0, <1>c DEF White, Black, Gray
  <2> QED BY <2>1, <2>2, <2>4, <2>5, <2>6, <2>7
<1>10. Types'
  <2>1. /\ gray' \cup grayagain' \subseteq Tables \cup Closures \cup Threads /\ weak' \subseteq Tables
        /\ tosweep' \subseteq Obj /\ cw' \in Whites
    <3>1. gray' = {} /\ grayagain' \subseteq Threads
      BY <1>d, <1>u
    <3>2. weak' \subseteq Tables
      BY <1>d DEF WeakTables
    <3>3. tosweep' \subseteq Obj
      BY <1>d DEF RootList
    <3>4. cw' \in Whites
      BY <1>d, <1>c DEF Whites
    <3> QED BY <3>1, <3>2, <3>3, <3>4
  <2>2. TypeOK'
    BY <1>1, <1>2, <1>4, <1>7, <1>d, <1>u, <2>1 DEF IInv, Types, TypeOK
  <2> QED BY <2>2, <1>u, <1>6, KindsStay DEF IInv
<1>11. HeapInv'
  <2>1. FreeEmpty'
    BY <1>6, <1>8, <1>u DEF IInv, HeapInv, FreeEmpty, Open, Free
  <2>2. AliveClosed'
    <3> SUFFICES ASSUME NEW x \in Alive' PROVE AllRefs(x)' \subseteq Alive'
      BY DEF AliveClosed
    <3>1. x \in Alive /\ x \in Obj
      BY <1>6 DEF Alive
    <3>2. AllRefs(x)' \subseteq Alive
      BY <3>1, <1>8 DEF IInv, HeapInv, AliveClosed
    <3> QED BY <3>2, <1>6, <1>9
  <2>3. RootsAlive' /\ ArgsHeld'
    <3>1. Roots' = Roots
      BY <1>u DEF Roots
    <3>2. Roots \subseteq Alive'
      BY <1>1, <1>6 DEF IInv, HeapInv, RootsAlive
    <3>3. tmudata' \subseteq Alive'
      BY <1>1, <1>6
    <3> QED BY <3>1, <3>2, <3>3, <1>u DEF IInv, HeapInv, RootsAlive, ArgsHeld
  <2>4. OpenUpvalsSound'
    <3>1. \A v \in Upvals : Open(v) => v \notin Black'
      BY <1>5, <1>6 DEF IInv, HeapInv, OpenUpvalsSound, Black
    <3> QED BY <3>1, <1>6, <1>u DEF IInv, HeapInv, OpenUpvalsSound, Open
  <2> QED BY <2>1, <2>2, <2>3, <2>4 DEF HeapInv
<1>12. MarkInv'
  <2>1. Udata \cap Gray' = {}
    BY <1>0, <1>3, <1>5, <1>6, KindsAssumption DEF Coloured, Gray
  <2>2. ASSUME NEW v \in Upvals, ~Open(v) PROVE v \notin Gray'
    BY <2>2, <1>0, <1>3, <1>5, <1>6, KindsAssumption DEF Coloured, Gray
  <2> QED BY <2>1, <2>2, <1>d, <1>u DEF MarkInv, ListsSound, Coloured, Open
<1>13. SweepInv'
  <2>1. ASSUME NEW o \in Obj
        PROVE  mark'[o] \in {"free", cw'} \/ Pending(o)' \/ (o \in tmudata' /\ o \in Black')
    <3>1. CASE o \in Free
      BY <3>1, <1>6 DEF Free
    <3>2. CASE o \in Upvals /\ Open(o) /\ o \notin Free
      <4>1. uv[o].th \in Threads \ Free
        BY <3>2 DEF IInv, HeapInv, OpenUpvalsSound, Open, Types, TypeOK
      <4>2. uv[o].th \in RootList \ tmudata'
        BY <4>1, <1>1, KindsAssumption, ValuesIn DEF RootList
      <4> QED BY <3>2, <4>2, <1>d, <1>u DEF Pending
    <3>3. CASE o \in RootList /\ o \notin tmudata'
      BY <3>3, <1>d DEF Pending
    <3>4. CASE o \in tmudata'
      BY <3>4, <1>1, <1>5 DEF Black
    <3> QED BY <3>1, <3>2, <3>3, <3>4 DEF RootList
  <2>2. \A o \in RootList : o \notin Free /\ ~(o \in Upvals /\ Open(o))
    BY DEF RootList
  <2>3. \A v : Open(v)' <=> Open(v)
    BY <1>u DEF Open
  <2> QED BY <2>1, <2>2, <2>3, <1>6, <1>d DEF SweepInv
<1>14. FinInv'
  BY <1>2, <1>d, <1>u DEF IInv, FinInv
<1> QED BY <1>10, <1>11, <1>12, <1>13, <1>14 DEF IInv

-----------------------------------------------------------------------------
(* The theorems.                                                           *)

(* A new state has the main thread and nothing else.                       *)
LEMMA InitHolds == Init => IInv
<1> SUFFICES ASSUME Init PROVE IInv
  OBVIOUS
<1>k. Main \in Obj /\ Main \in Threads /\ Main # Nil
  BY MainAssumption, ValuesIn
<1>1. /\ Free = Obj \ {Main} /\ Alive = {Main} /\ White = {Main} /\ Black = {} /\ Gray = {} /\ Dead = {}
  <2>1. \A o \in Obj : mark[o] = IF o = Main THEN "white0" ELSE "free"
    BY DEF Init
  <2>2. Other(cw) = "white1"
    BY DEF Init, Other
  <2>3. Free = Obj \ {Main} /\ White = {Main} /\ Black = {} /\ Gray = {} /\ Dead = {}
    BY <1>k, <2>1, <2>2 DEF Free, White, Whites, Black, Gray, Dead
  <2> QED BY <1>k, <2>3 DEF Alive
<1>2. \A v \in Upvals : ~Open(v) /\ Contents(v) = Nil
  BY DEF Init, NoUpval, Open, Contents
<1>3. Types
  <2>1. TypeOK
    BY <1>k, ModesAssumption DEF Init, TypeOK, NoEntry, NoUpval, Value, Whites
  <2> QED BY <2>1, <1>1, <1>2, <1>k, KindsAssumption DEF Types, KindsSound, Obj
<1>4. \A o \in Obj : AllRefs(o) = {}
  <2>1. \A t \in Tables : AllRefs(t) = {}
    BY RefsAre DEF Init, NoEntry
  <2>2. \A u \in Udata : AllRefs(u) = {}
    <3>1. \A u \in Udata : AllRefs(u) = Obj \cap {env[u]} /\ env[u] = Nil
      BY RefsAre DEF Init
    <3> QED BY <3>1, ValuesIn
  <2>3. \A c \in Closures : AllRefs(c) = {}
    <3>1. \A c \in Closures : AllRefs(c) = Obj \cap {up[c]} /\ up[c] = Nil
      BY RefsAre DEF Init
    <3> QED BY <3>1, ValuesIn
  <2>4. \A v \in Upvals : AllRefs(v) = {}
    BY <1>2, RefsAre, ValuesIn
  <2>5. \A th \in Threads : AllRefs(th) = {}
    <3>1. \A th \in Threads : OnStack(th) \subseteq {Nil}
      BY DEF Init, OnStack
    <3> QED BY <3>1, RefsAre, ValuesIn
  <2> QED BY <2>1, <2>2, <2>3, <2>4, <2>5, RefsAre DEF Obj
<1>5. HeapInv
  <2>1. Roots = {Main}
    BY ValuesIn DEF Init, Roots
  <2>2. RootsAlive /\ ArgsHeld
    BY <1>1, <2>1 DEF RootsAlive, ArgsHeld, Init
  <2>3. FreeEmpty /\ AliveClosed
    BY <1>k, <1>1, <1>2, <1>4 DEF FreeEmpty, AliveClosed
  <2> QED BY <1>2, <2>2, <2>3 DEF HeapInv, OpenUpvalsSound
<1>6. MarkInv
  BY <1>1 DEF MarkInv, Coloured, ListsSound, Init
<1>7. SweepInv
  BY <1>1 DEF SweepInv, Init, Pending
<1>8. FinInv
  BY DEF FinInv, Init
<1> QED BY <1>3, <1>5, <1>6, <1>7, <1>8 DEF IInv

(* Stuttering, the collector, and the program keep the invariant.          *)
LEMMA StutterKeeps == ASSUME IInv, UNCHANGED vars PROVE IInv'
<1>u. UNCHANGED <<mark, cw, gcstate, gray, grayagain, weak, tosweep, tmudata, finalized, drain, called, tab, mode, env, hasgc,
                  up, uv, stack, args, running, basemt>>
  BY DEF vars, collector, heap, roots
<1>1. /\ Free' = Free /\ Dead' = Dead /\ Alive' = Alive
      /\ White' = White /\ Black' = Black /\ Gray' = Gray
  BY <1>u, SameColours
<1>2. \A o : AllRefs(o)' = AllRefs(o)
  BY <1>u, SameRefs
<1>3. Types'
  BY <1>u, <1>1 DEF IInv, Types, TypeOK, KindsSound, Open
<1>4. HeapInv'
  BY <1>u, <1>1, <1>2 DEF IInv, HeapInv, FreeEmpty, AliveClosed, RootsAlive, Roots, ArgsHeld, OpenUpvalsSound, Open
<1>5. MarkInv'
  BY <1>u, <1>1, <1>2 DEF IInv, MarkInv, Coloured, ListsSound, NoneLost, Open
<1>6. SweepInv' /\ FinInv'
  BY <1>u, <1>1 DEF IInv, SweepInv, Pending, Open, FinInv
<1> QED BY <1>3, <1>4, <1>5, <1>6 DEF IInv

LEMMA CollectorKeeps == ASSUME IInv, GCStep PROVE IInv'
<1>1. CASE MarkRoot
  BY <1>1, MarkRootKeeps
<1>2. CASE \E o \in Listed : Propagate(o)
  BY <1>2, PropagateKeeps, ValuesIn DEF Listed
<1>3. CASE Atomic
  BY <1>3, AtomicKeeps
<1>4. CASE \E bucket \in SUBSET Strings : SweepStrings(bucket)
  BY <1>4, SweepStringsKeeps
<1>5. CASE \E o \in Obj \ Strings : SweepObject(o)
  BY <1>5, SweepObjectKeeps
<1>6. CASE \E u \in Udata : Finalize(u)
  BY <1>6, FinalizeKeeps
<1>7. CASE EndCycle
  BY <1>7, EndCycleKeeps
<1> QED BY <1>1, <1>2, <1>3, <1>4, <1>5, <1>6, <1>7 DEF GCStep

LEMMA ProgramKeeps == ASSUME IInv, Program PROVE IInv'
<1>1. CASE \E o \in Obj, s \in Slots : Create(o, s)
  BY <1>1, CreateKeeps
<1>2. CASE \E o \in Strings, s \in Slots : Intern(o, s)
  BY <1>2, InternKeeps
<1>3. CASE \E s \in Slots, v \in Value : Move(s, v)
  BY <1>3, MoveKeeps
<1>4. CASE \E t \in Tables, k \in Keys, v \in Value : TableSet(t, k, v)
  BY <1>4, TableSetKeeps
<1>5. CASE \E t \in Tables, s \in Slots, v \in Obj : TableGet(t, s, v)
  BY <1>5, TableGetKeeps
<1>6. CASE \E t \in Tables, m \in Modes : SetMode(t, m)
  BY <1>6, SetModeKeeps
<1>7. CASE \E u \in Udata, b \in BOOLEAN : SetGC(u, b)
  BY <1>7, SetGCKeeps
<1>8. CASE \E u \in Udata, t \in Tables : SetEnv(u, t)
  BY <1>8, SetEnvKeeps
<1>9. CASE \E u \in Udata, s \in Slots : GetEnv(u, s)
  BY <1>9, GetEnvKeeps
<1>10. CASE \E t \in BaseMts \cup {Nil} : SetBaseMt(t)
  BY <1>10, SetBaseMtKeeps
<1>11. CASE \E s \in Slots : GetBaseMt(s)
  BY <1>11, GetBaseMtKeeps
<1>12. CASE \E u \in Udata : FinalizerReturns(u)
  BY <1>12, FinalizerReturnsKeeps
<1>13. CASE \E c \in Closures, d \in Slots, v \in Upvals, s \in Slots : NewClosure(c, d, v, s)
  BY <1>13, NewClosureKeeps
<1>14. CASE \E c \in Closures, d \in Slots, outer \in Closures : ShareUpval(c, d, outer)
  BY <1>14, ShareUpvalKeeps
<1>15. CASE \E c \in Closures, s \in Slots : GetUpval(c, s)
  BY <1>15, GetUpvalKeeps
<1>16. CASE \E c \in Closures, v \in Value : SetUpval(c, v)
  BY <1>16, SetUpvalKeeps
<1>17. CASE \E level \in Slots : CloseUpvals(level)
  BY <1>17, CloseUpvalsKeeps
<1>18. CASE \E th \in Threads, s \in Slots, v \in Value : Resume(th, s, v)
  BY <1>18, ResumeKeeps
<1>19. CASE \E s \in Slots, v \in Value : Yield(s, v)
  BY <1>19, YieldKeeps
<1>20. CASE FullGC
  BY <1>20, FullGCKeeps
<1> QED
  BY <1>1, <1>2, <1>3, <1>4, <1>5, <1>6, <1>7, <1>8, <1>9, <1>10,
     <1>11, <1>12, <1>13, <1>14, <1>15, <1>16, <1>17, <1>18, <1>19, <1>20 DEF Program

(* The invariant holds of every execution of the collector and the program *)
(* (lgc.c with the barriers of lapi.c, lvm.c, ltable.c, lfunc.c).          *)
THEOREM Invariance == Spec => []IInv
<1>1. IInv /\ [Next]_vars => IInv'
  BY CollectorKeeps, ProgramKeeps, StutterKeeps DEF Next
<1> QED BY InitHolds, <1>1, PTL DEF Spec

(* Every variable has its type: the lists hold cells with a gclist,        *)
(* environments are tables, closures have upvalues (lobject.h).            *)
THEOREM TypeCorrect == Spec => []TypeOK
<1>1. IInv => TypeOK
  BY DEF IInv, Types
<1> QED BY Invariance, <1>1, PTL

(* Reached over AllRefs is the least closed set.                           *)
LEMMA ReachableIn ==
  ASSUME NEW S, NEW P \in SUBSET Obj, S \subseteq P, \A x \in P : AllRefs(x) \subseteq P
  PROVE  Reached(S, AllRefs) \subseteq P
<1>1. P = S \cup (P \ S) /\ P \ S \in SUBSET (Obj \ S)
  OBVIOUS
<1>2. P \in {X \in {S \cup Y : Y \in SUBSET (Obj \ S)} : \A x \in X : AllRefs(x) \subseteq X}
  BY <1>1
<1> QED BY <1>2, Zenon DEF Reached

(* Nothing the program can follow, through weak tables and pending         *)
(* userdata too, has been freed (sweeplist, atomic).                       *)
THEOREM NothingDangles == Spec => []NoDangling
<1>1. IInv => NoDangling
  <2> SUFFICES ASSUME IInv PROVE NoDangling
    OBVIOUS
  <2>1. Roots \cup tmudata \subseteq Alive /\ \A x \in Alive : AllRefs(x) \subseteq Alive
    BY DEF IInv, HeapInv, RootsAlive, AliveClosed
  <2>2. Alive \in SUBSET Obj /\ Alive \cap Free = {}
    BY DEF Alive
  <2>3. Reached(Roots \cup tmudata, AllRefs) \subseteq Alive
    BY <2>1, <2>2, ReachableIn
  <2> QED BY <2>2, <2>3, Zenon DEF NoDangling
<1> QED BY Invariance, <1>1, PTL

(* Outside the marking, what the sweep will keep refers only to what it    *)
(* will keep (atomic, sweeplist).                                          *)
THEOREM SweepIsSafe == Spec => []SweepSafe
<1>1. IInv => SweepSafe
  BY DEF IInv, HeapInv, AliveClosed, Alive, SweepSafe
<1> QED BY Invariance, <1>1, PTL

(* While marking, a traversed object leads to no white one, whatever the   *)
(* program has stored since (luaC_barrierf, luaC_barrierback).             *)
THEOREM BarriersHold == Spec => []TriColour
<1>1. IInv => TriColour
  BY StrongAre DEF IInv, MarkInv, NoneLost, TriColour
<1> QED BY Invariance, <1>1, PTL

(* While marking, every gray object is on exactly one list, nothing else   *)
(* is on any, and threads are never black (propagatemark,                  *)
(* luaC_barrierback, luaC_linkupval).                                      *)
THEOREM ListsAreSound == Spec => []ListsSound
<1>1. IInv => ListsSound
  BY DEF IInv, MarkInv
<1> QED BY Invariance, <1>1, PTL

(* A slot has at most one open upvalue; an open upvalue is never black,    *)
(* and its thread is never freed before it (luaF_findupval,                *)
(* luaE_freethread).                                                       *)
THEOREM UpvaluesAreSound == Spec => []OpenUpvalsSound
<1>1. IInv => OpenUpvalsSound
  BY DEF IInv, HeapInv
<1> QED BY Invariance, <1>1, PTL

(* Only GCTM adds to what the finalizers hold.                             *)
LEMMA OnlyFinalizeGivesArgs ==
  ASSUME IInv, [Next]_vars, NEW th \in Threads, NEW u \in args'[th] \ args[th]
  PROVE  Finalize(u)
<1>1. CASE \E x \in Udata : Finalize(x)
  <2>1. PICK x \in Udata : Finalize(x)
    BY <1>1
  <2>2. hasgc[x] /\ args' = [args EXCEPT ![running] = @ \cup {x}]
    BY <2>1 DEF Finalize
  <2>3. u = x
    BY <2>2 DEF IInv, Types, TypeOK
  <2> QED BY <2>1, <2>3
<1>2. CASE \E x \in Udata : FinalizerReturns(x)
  BY <1>2 DEF FinalizerReturns, IInv, Types, TypeOK
<1>3. ASSUME args' = args PROVE FALSE
  BY <1>3
<1>4. CASE UNCHANGED vars
  BY <1>4, <1>3 DEF vars, roots
<1>5. CASE GCStep /\ ~\E x \in Udata : Finalize(x)
  <2>1. args' = args
    BY <1>5 DEF GCStep, MarkRoot, Propagate, Atomic, SweepStrings, SweepObject, EndCycle, roots
  <2> QED BY <2>1, <1>3
<1>6. CASE Program /\ ~\E x \in Udata : FinalizerReturns(x)
  <2>1. args' = args
    BY <1>6 DEF Program, Create, Intern, Move, TableSet, TableGet, SetMode, SetGC, SetEnv, GetEnv, SetBaseMt, GetBaseMt,
                NewClosure, ShareUpval, GetUpval, SetUpval, CloseUpvals, Resume, Yield, FullGC, roots
  <2> QED BY <2>1, <1>3
<1> QED BY <1>1, <1>2, <1>4, <1>5, <1>6 DEF Next

(* The finalizer of a userdata is called at most once (luaC_separateudata, *)
(* GCTM).                                                                  *)
THEOREM FinalizedOnce == Spec => FinalizeOnce
<1>1. IInv /\ [Next]_vars => \A th \in Threads : \A u \in args'[th] \ args[th] : u \notin called
  <2> SUFFICES ASSUME IInv, [Next]_vars, NEW th \in Threads, NEW u \in args'[th] \ args[th] PROVE u \notin called
    OBVIOUS
  <2>1. u \in tmudata
    BY OnlyFinalizeGivesArgs DEF Finalize
  <2> QED BY <2>1 DEF IInv, FinInv
<1>2. IInv /\ [Next]_vars => [\A th \in Threads : \A u \in args'[th] \ args[th] : u \notin called]_vars
  BY <1>1
<1> QED BY Invariance, <1>2, PTL DEF Spec, FinalizeOnce

(* Reached over Strongly is the least closed set.                          *)
LEMMA StronglyIn ==
  ASSUME NEW S, NEW P \in SUBSET Obj, S \subseteq P, \A x \in P : Strongly(x) \subseteq P
  PROVE  Reached(S, Strongly) \subseteq P
<1>1. P = S \cup (P \ S) /\ P \ S \in SUBSET (Obj \ S)
  OBVIOUS
<1>2. P \in {X \in {S \cup Y : Y \in SUBSET (Obj \ S)} : \A x \in X : Strongly(x) \subseteq X}
  BY <1>1
<1> QED BY <1>2, Zenon DEF Reached

(* Only the atomic step sets userdata apart.                               *)
LEMMA OnlyAtomicSeparates ==
  ASSUME [Next]_vars, NEW u \in tmudata' \ tmudata
  PROVE  Atomic
<1>1. CASE UNCHANGED vars
  BY <1>1 DEF vars, collector
<1>2. CASE GCStep
  BY <1>2 DEF GCStep, MarkRoot, Propagate, SweepStrings, SweepObject, Finalize, EndCycle
<1>3. CASE Program
  <2>1. tmudata' = tmudata
    BY <1>3 DEF Program, Create, Intern, Move, TableSet, TableGet, SetMode, SetGC, SetEnv, GetEnv, SetBaseMt, GetBaseMt,
                FinalizerReturns, NewClosure, ShareUpval, GetUpval, SetUpval, CloseUpvals, Resume, Yield, FullGC, collector
  <2> QED BY <2>1
<1> QED BY <1>1, <1>2, <1>3 DEF Next

(* What is set apart is white and was not reached: the cells that are      *)
(* marked, with what the atomic step reaches, hold the roots and are       *)
(* closed.                                                                 *)
LEMMA SeparatedAreGarbage ==
  ASSUME IInv, Atomic, NEW u \in tmudata' \ tmudata
  PROVE  u \notin Reached(Roots, Strongly)
<1> DEFINE P == (Alive \ White) \cup Remarked
<1>1. gcstate = "propagate" /\ gray = {} /\ tmudata' = ToFinalize(Remarked)
  BY Zenon DEF Atomic
<1>2. /\ Remarked \subseteq Alive
      /\ \A x \in Remarked : StrongRefs(x) \cap White \subseteq Remarked
      /\ Gray \cap Listed \subseteq Remarked
      /\ \A v \in Upvals \cap Gray : AllRefs(v) \cap White \subseteq Remarked
      /\ Roots \cap White \subseteq Remarked
  BY <1>1, RemarkedIs
<1>3. u \in White \ Remarked
  BY <1>1 DEF ToFinalize, Separated
<1>4. P \in SUBSET Obj /\ u \notin P /\ P \subseteq Alive /\ Roots \subseteq P
  <2>1. Roots \subseteq Alive /\ Alive \subseteq Obj
    BY DEF IInv, HeapInv, RootsAlive, Alive
  <2> QED BY <2>1, <1>2, <1>3
<1>5. ASSUME NEW x \in P, x \notin tmudata PROVE StrongRefs(x) \cap White \subseteq Remarked
  <2>1. CASE x \in Remarked
    BY <2>1, <1>2
  <2>2. CASE x \in Black
    BY <2>2, <1>1, <1>5, StrongAre DEF IInv, MarkInv, NoneLost
  <2>3. CASE x \in Gray
    <3>1. x \notin Udata
      BY <2>3 DEF IInv, MarkInv, Coloured
    <3>2. CASE x \in Strings
      BY <3>2, StrongAre, RefsAre
    <3> QED BY <2>1, <2>3, <3>1, <3>2, <1>2, <1>4, StrongAre DEF Obj, Listed
  <2>4. x \in Remarked \/ x \in Black \/ x \in Gray
    <3>1. \A o \in Alive \ White : mark[o] \in {"gray", "black"} /\ o \in Obj
      BY Colours DEF IInv
    <3> QED BY <3>1 DEF Black, Gray
  <2> QED BY <2>1, <2>2, <2>3, <2>4
<1>6. \A x \in P : Strongly(x) \subseteq P
  <2> SUFFICES ASSUME NEW x \in P, x \notin tmudata PROVE StrongRefs(x) \subseteq P
    BY DEF Strongly
  <2>1. StrongRefs(x) \subseteq Alive
    BY <1>4, StrongAre DEF IInv, HeapInv, AliveClosed
  <2> QED BY <2>1, <1>5
<1> HIDE DEF P
<1>7. Reached(Roots, Strongly) \subseteq P
  BY <1>4, <1>6, StronglyIn
<1> QED BY <1>4, <1>7, Zenon

(* Userdata are set apart for finalization only when nothing but weak      *)
(* tables and other such userdata lead to them (atomic,                    *)
(* luaC_separateudata).                                                    *)
THEOREM OnlyGarbageIsFinalized == Spec => FinalizeOnlyGarbage
<1>1. IInv /\ [Next]_vars => [\A u \in tmudata' \ tmudata : u \notin Reached(Roots, Strongly)]_vars
  <2> SUFFICES ASSUME IInv, [Next]_vars, NEW u \in tmudata' \ tmudata
               PROVE  u \notin Reached(Roots, Strongly)
    BY Zenon
  <2> QED BY OnlyAtomicSeparates, SeparatedAreGarbage, Zenon
<1> QED BY Invariance, <1>1, PTL DEF Spec, FinalizeOnlyGarbage
=============================================================================
