--------------------------- MODULE LuaCallStacks ---------------------------
(***************************************************************************)
(* The inductive invariant of LuaCalls, and what pushes, pops and cuts do  *)
(* to it, for any number of coroutines and all limits.                     *)
(*                                                                         *)
(* The C stack is well formed when every activation lies on those that can *)
(* have called it, and what it saved is what its thread had there (Lies).  *)
(* Cutting such a stack anywhere leaves one, which is what an error does;  *)
(* so it is enough that every push adds an activation that lies well, and  *)
(* that the fields of the thread follow from the stack (Fine).             *)
(***************************************************************************)
EXTENDS LuaCalls, WellFoundedInduction, TLAPS

(* The activation f lies well on the first m of s.                         *)
Lies(f, s, m) ==
  /\ m = 0 <=> f.kind = "host"
  /\ m = 0 => f.th = Main
  /\ m > 0 => DepthUpTo(s)[m] < MaxCCalls + ErrRoom
  /\ m > 0 /\ f.kind # "resume" => s[m].th = f.th
  /\ f.kind = "resume" =>
       /\ s[m].kind = "cfn" /\ f.th \in Coros /\ f.previous = 0
       /\ \A j \in 1 .. m : s[j].th # f.th
  /\ f.kind = "exec" => s[m].kind \in {"call", "resume"} /\ f.n > 0
  /\ f.kind = "cfn" => s[m].kind \in {"call", "exec", "resume"}
  /\ f.kind = "call" => s[m].kind \in Calling \cup {"pcall", "hook", "gctm", "handler"}
  /\ f.kind = "pcall" =>
       /\ s[m].kind \in {"host", "cfn"}
       /\ f.nC = DepthUpTo(s)[m] /\ f.ci = Len(RunUpTo(s, f.th)[m])
       /\ JumpIs(s, m, f.th, f.previous)
       /\ HandlerIs(s, m, f.th, f.errfunc)
       /\ HooksAre(s, m, f.th, f.allowhook)
  /\ f.kind = "parser" => s[m].kind = "pcall"
  /\ f.kind = "hook" => s[m].kind = "exec" /\ HooksAre(s, m, f.th, TRUE)
  /\ f.kind = "gctm" => s[m].kind \in Calling /\ HooksAre(s, m, f.th, f.allowhook)

WellFormed(s) == \A i \in 1 .. Len(s) : Lies(s[i], s, i - 1)

On(s, t) == \E i \in 1 .. Len(s) : s[i].th = t

(* The CallInfos r.ci of thread t are those that belong to the C stack s.  *)
FramesFine(s, t, r) ==
  IF r.status = "yield"
  THEN /\ Own(s, Len(s), t, Code) = {}
       /\ r.ci # <<>> /\ Last(r.ci) = "C"
       /\ Len(r.ci) > 1 \/ r.entry = "result"
       /\ \A i \in 1 .. Len(r.ci) - 1 : r.ci[i] = "L"
  ELSE On(s, t) => r.ci = RunUpTo(s, t)[Len(s)]

SavedFine(s, t, r) ==
  /\ JumpIs(s, Len(s), t, r.errorJmp)
  /\ HandlerIs(s, Len(s), t, r.errfunc)
  /\ HooksAre(s, Len(s), t, r.allowhook)

(* A C function that lua_resume itself has entered is a result that the    *)
(* coroutine had left.                                                     *)
EntryFits(f, below, r) == f.kind = "cfn" /\ below.kind = "resume" => r.entry = "result"

(* The call depths of thread t at the i-th activation, if it is t's, and   *)
(* how it was entered                                                      *)
DepthFine(s, i, t, r) ==
  s[i].th = t =>
    /\ i = Len(s) \/ s[i + 1].kind = "resume" => r.nC = DepthUpTo(s)[i]
    /\ s[i].kind = "resume" => r.baseC = DepthUpTo(s)[i]
    /\ i > 1 => EntryFits(s[i], s[i - 1], r)

StatusFine(s, t, r) ==
  /\ t = Main => r.baseC = 0 /\ r.status # "yield"
  /\ t # Main /\ On(s, t) => ~r.filled /\ r.status # "error"

SizeFine(r) == Len(r.ci) + 1 <= r.size /\ r.size <= 2 * MaxCalls

Fine(s, t, r) ==
  /\ FramesFine(s, t, r)
  /\ SavedFine(s, t, r)
  /\ \A i \in 1 .. Len(s) : DepthFine(s, i, t, r)
  /\ StatusFine(s, t, r)
  /\ SizeFine(r)

(* The C stack s and the threads all of T fit together.                    *)
Fits(s, all) ==
  /\ s \in Seq(Activations) /\ s # <<>>
  /\ all \in [Threads -> States]
  /\ WellFormed(s)
  /\ \A t \in Threads : Fine(s, t, all[t])

(* What the deepest activation can be, and how deep.                       *)
ModeFits(s, m) ==
  /\ m \in {"run", "return", "error", "throw"}
  /\ m = "run" => s[Len(s)].kind \in Calling
  /\ m = "return" =>
       s[Len(s)].kind \in {"call", "pcall", "hook", "gctm", "handler", "resume"}
  /\ DepthUpTo(s)[Len(s)] <= MaxCCalls + ErrRoom
  /\ m # "throw" => DepthUpTo(s)[Len(s)] < MaxCCalls + ErrRoom

(* A thread on the C stack has yielded only while its lua_resume returns.  *)
YieldFits(s, m, all) ==
  \A t \in Threads : On(s, t) /\ all[t].status = "yield" =>
    m = "return" /\ s[Len(s)].th = t /\ s[Len(s)].kind = "resume"

IInv == Fits(cstack, th) /\ ModeFits(cstack, mode) /\ YieldFits(cstack, mode, th)

-----------------------------------------------------------------------------
LEMMA Limits ==
  /\ MaxCCalls \in Nat /\ ErrRoom \in Nat /\ MaxCalls \in Nat /\ BasicCI \in Nat
  /\ MaxCCalls > 0 /\ ErrRoom > 0 /\ BasicCI > 0 /\ BasicCI <= MaxCalls
  /\ Main \in Threads /\ Coros \subseteq Threads /\ Main \notin Coros
  /\ Handlers \subseteq Result
  /\ \A t \in Threads : t # Main => t \in Coros
BY CallsAssumption DEF Threads, Result

LEMMA SmallestIs ==
  ASSUME NEW S \in SUBSET Nat, S # {}
  PROVE  \E k \in S : \A m \in S : k <= m
<1> DEFINE R == OpToRel(<, Nat)
<1>1. IsWellFoundedOn(R, Nat)
  BY NatLessThanWellFounded, Zenon
<1>2. \A m, k \in Nat : m < k => <<m, k>> \in R
  BY Zenon DEF OpToRel
<1> HIDE DEF R
<1>3. PICK k \in S : \A m \in S : ~ (<<m, k>> \in R)
  BY <1>1, WFMin
<1>4. \A m \in S : ~ (m < k) /\ m \in Nat /\ k \in Nat
  BY <1>2, <1>3
<1>5. \A m \in S : k <= m
  BY <1>4
<1> QED
  BY <1>5

(* Induction over the set of the numbers for which something holds         *)
LEMMA Upwards ==
  ASSUME NEW m \in Nat, NEW n \in Nat, NEW P,
         m \in P, \A i \in m + 1 .. n : i - 1 \in P => i \in P
  PROVE  \A i \in m .. n : i \in P
<1> DEFINE S == {i \in m .. n : i \notin P}
<1> SUFFICES ASSUME S # {} PROVE FALSE
  OBVIOUS
<1>1. PICK k \in S : \A i \in S : k <= i
  <2>1. S \in SUBSET Nat
    OBVIOUS
  <2> HIDE DEF S
  <2> QED
    BY <2>1, SmallestIs
<1>2. k \in m + 1 .. n /\ k - 1 \in m .. n /\ ~ (k <= k - 1)
  BY <1>1
<1>3. k - 1 \in P
  BY <1>1, <1>2
<1> QED
  BY <1>1, <1>2, <1>3

(* Functions defined step by step exist and have their type.               *)
Steps(d, b, g, n) == d[0] = b /\ \A i \in 1 .. n : d[i] = g[<<i, d[i - 1]>>]
StepsIn(S, d, b, g, n) ==
  d[0] = b /\ \A i \in 1 .. n : d[i - 1] \in S => d[i] = g[<<i, d[i - 1]>>]

LEMMA Iterated ==
  ASSUME NEW n \in Nat, NEW S, NEW b \in S, NEW g \in [(1 .. n) \X S -> S]
  PROVE  \E d \in [0 .. n -> S] : Steps(d, b, g, n)
<1> DEFINE P == {k \in Nat : \E d \in [0 .. k -> S] : Steps(d, b, g, k)}
<1>1. 0 \in P
  <2>1. [i \in 0 .. 0 |-> b] \in [0 .. 0 -> S] /\ Steps([i \in 0 .. 0 |-> b], b, g, 0)
    BY DEF Steps
  <2> QED
    BY <2>1
<1>2. ASSUME NEW k \in 0 + 1 .. n, k - 1 \in P PROVE k \in P
  <2>1. PICK d \in [0 .. k - 1 -> S] : Steps(d, b, g, k - 1)
    BY <1>2
  <2>2. d[k - 1] \in S /\ g[<<k, d[k - 1]>>] \in S
    OBVIOUS
  <2> DEFINE e == [i \in 0 .. k |-> IF i < k THEN d[i] ELSE g[<<k, d[k - 1]>>]]
  <2>3. e \in [0 .. k -> S]
    BY <2>2
  <2>4. e[0] = b
    BY <2>1 DEF Steps
  <2>5. ASSUME NEW i \in 1 .. k PROVE e[i] = g[<<i, e[i - 1]>>]
    <3>1. CASE i < k
      <4>1. e[i] = d[i] /\ e[i - 1] = d[i - 1] /\ i \in 1 .. k - 1
        BY <3>1
      <4> QED
        BY <2>1, <4>1 DEF Steps
    <3>2. CASE i = k
      <4>1. e[i] = g[<<k, d[k - 1]>>] /\ e[i - 1] = d[k - 1]
        BY <3>2
      <4> QED
        BY <3>2, <4>1
    <3> QED
      BY <3>1, <3>2
  <2> HIDE DEF e
  <2> QED
    BY <2>3, <2>4, <2>5 DEF Steps
<1> HIDE DEF P
<1>3. \A i \in 0 .. n : i \in P
  BY <1>1, <1>2, Upwards
<1>4. n \in P
  BY <1>3
<1> QED
  BY <1>4 DEF P

LEMMA IteratedType ==
  ASSUME NEW n \in Nat, NEW S, NEW b \in S, NEW g \in [(1 .. n) \X S -> S],
         NEW e, StepsIn(S, e, b, g, n)
  PROVE  \A i \in 0 .. n : e[i] \in S
<1> DEFINE Q == {i \in Nat : e[i] \in S}
<1>1. 0 \in Q
  BY DEF StepsIn
<1>2. ASSUME NEW i \in 0 + 1 .. n, i - 1 \in Q PROVE i \in Q
  <2>1. i \in 1 .. n /\ e[i - 1] \in S
    BY <1>2
  <2>2. g[<<i, e[i - 1]>>] \in S
    BY <2>1
  <2> QED
    BY <2>1, <2>2 DEF StepsIn
<1>3. \A i \in 0 .. n : i \in Q
  <2> HIDE DEF Q
  <2> QED
    BY <1>1, <1>2, Upwards
<1> QED
  BY <1>3

LEMMA AddsType ==
  ASSUME NEW f \in Activations
  PROVE  Adds(f) \in Nat
BY DEF Adds, Activations

LEMMA ShownType ==
  ASSUME NEW f \in Activations, NEW t
  PROVE  Shown(f, t) \in Seq({"L", "C"})
<1>1. CASE f.th = t /\ f.kind = "exec"
  <2>1. f.n \in Nat
    BY <1>1 DEF Activations
  <2>2. [k \in 1 .. f.n |-> "L"] \in Seq({"L", "C"})
    BY <2>1
  <2> QED
    BY <1>1, <2>2 DEF Shown
<1> QED
  BY <1>1 DEF Shown

(* The functions that define depth and run exist.                          *)
LEMMA DepthRec ==
  ASSUME NEW s \in Seq(Activations)
  PROVE  /\ DepthUpTo(s) \in [0 .. Len(s) -> Nat]
         /\ DepthUpTo(s)[0] = 0
         /\ \A i \in 1 .. Len(s) : DepthUpTo(s)[i] = DepthUpTo(s)[i - 1] + Adds(s[i])
<1> DEFINE n == Len(s)
           D == DepthUpTo(s)
           g == [p \in (1 .. n) \X Nat |-> p[2] + Adds(s[p[1]])]
<1>1. n \in Nat /\ \A i \in 1 .. n : Adds(s[i]) \in Nat
  BY AddsType
<1>2. g \in [(1 .. n) \X Nat -> Nat]
  BY <1>1
<1>3. \A i \in 1 .. n, x \in Nat : g[<<i, x>>] = x + Adds(s[i])
  OBVIOUS
<1> HIDE DEF n, g
<1>4. PICK d \in [0 .. n -> Nat] : Steps(d, 0, g, n)
  <2>1. 0 \in Nat
    OBVIOUS
  <2> QED
    BY <1>1, <1>2, <2>1, Iterated, Zenon
<1>5. ASSUME NEW i \in 1 .. n PROVE d[i] = d[i - 1] + Adds(s[i])
  <2>1. d[i - 1] \in Nat
    BY <1>1
  <2> QED
    BY <1>3, <1>4, <2>1 DEF Steps
<1>6. d = [i \in 0 .. n |-> IF i = 0 THEN 0 ELSE d[i - 1] + Adds(s[i])]
  BY <1>1, <1>4, <1>5 DEF Steps
<1>7. D = [i \in 0 .. n |-> IF i = 0 THEN 0 ELSE D[i - 1] + Adds(s[i])]
  BY <1>6 DEF DepthUpTo, n
<1> HIDE DEF D
<1>8. D[0] = 0 /\ \A i \in 1 .. n : D[i] = D[i - 1] + Adds(s[i])
  BY <1>1, <1>7
<1>9. StepsIn(Nat, D, 0, g, n)
  BY <1>3, <1>8 DEF StepsIn
<1>10. \A i \in 0 .. n : D[i] \in Nat
  BY <1>1, <1>2, <1>9, IteratedType
<1>11. D \in [0 .. n -> Nat]
  <2>1. D = [i \in 0 .. n |-> D[i]]
    BY <1>7
  <2> QED
    BY <1>10, <2>1
<1> QED
  BY <1>8, <1>11 DEF D, n

LEMMA RunRec ==
  ASSUME NEW s \in Seq(Activations), NEW t
  PROVE  /\ RunUpTo(s, t) \in [0 .. Len(s) -> Seq({"L", "C"})]
         /\ RunUpTo(s, t)[0] = <<>>
         /\ \A i \in 1 .. Len(s) : RunUpTo(s, t)[i] = RunUpTo(s, t)[i - 1] \o Shown(s[i], t)
<1> DEFINE n == Len(s)
           D == RunUpTo(s, t)
           Fns == Seq({"L", "C"})
           g == [p \in (1 .. n) \X Fns |-> p[2] \o Shown(s[p[1]], t)]
<1>1. n \in Nat /\ \A i \in 1 .. n : Shown(s[i], t) \in Fns
  BY ShownType
<1>j. <<>> \in Fns /\ \A u, v \in Fns : u \o v \in Fns
  OBVIOUS
<1> HIDE DEF Fns
<1>2. g \in [(1 .. n) \X Fns -> Fns]
  BY <1>1, <1>j
<1>3. \A i \in 1 .. n, x \in Fns : g[<<i, x>>] = x \o Shown(s[i], t)
  OBVIOUS
<1> HIDE DEF n, g
<1>4. PICK d \in [0 .. n -> Fns] : Steps(d, <<>>, g, n)
  BY <1>1, <1>2, <1>j, Iterated, Zenon
<1>5. ASSUME NEW i \in 1 .. n PROVE d[i] = d[i - 1] \o Shown(s[i], t)
  <2>1. d[i - 1] \in Fns
    BY <1>1
  <2> QED
    BY <1>3, <1>4, <2>1 DEF Steps
<1>6. d = [i \in 0 .. n |-> IF i = 0 THEN <<>> ELSE d[i - 1] \o Shown(s[i], t)]
  <2>1. \A i \in 0 .. n : d[i] = IF i = 0 THEN <<>> ELSE d[i - 1] \o Shown(s[i], t)
    BY <1>1, <1>4, <1>5 DEF Steps
  <2>2. d = [i \in 0 .. n |-> d[i]]
    OBVIOUS
  <2> QED
    BY <2>1, <2>2
<1>7. D = [i \in 0 .. n |-> IF i = 0 THEN <<>> ELSE D[i - 1] \o Shown(s[i], t)]
  BY <1>6 DEF RunUpTo, n
<1> HIDE DEF D
<1>8. D[0] = <<>> /\ \A i \in 1 .. n : D[i] = D[i - 1] \o Shown(s[i], t)
  BY <1>1, <1>7
<1>9. StepsIn(Fns, D, <<>>, g, n)
  BY <1>3, <1>8 DEF StepsIn
<1>10. \A i \in 0 .. n : D[i] \in Fns
  BY <1>1, <1>2, <1>9, <1>j, IteratedType
<1>11. D \in [0 .. n -> Fns]
  <2>1. D = [i \in 0 .. n |-> D[i]]
    BY <1>7
  <2> QED
    BY <1>10, <2>1
<1> QED
  BY <1>8, <1>11 DEF D, n, Fns

-----------------------------------------------------------------------------
(* C stacks: how what is read off a stack changes along it                 *)
LEMMA DepthGrows ==
  ASSUME NEW s \in Seq(Activations), NEW i \in 0 .. Len(s), NEW j \in i .. Len(s)
  PROVE  DepthUpTo(s)[i] <= DepthUpTo(s)[j]
<1> DEFINE D == DepthUpTo(s)
           P == {k \in i .. Len(s) : D[i] <= D[k]}
<1>1. D \in [0 .. Len(s) -> Nat] /\ \A k \in 1 .. Len(s) : D[k] = D[k - 1] + Adds(s[k])
  BY DepthRec
<1> HIDE DEF D
<1>2. i \in P
  BY <1>1
<1>3. ASSUME NEW k \in i + 1 .. Len(s), k - 1 \in P PROVE k \in P
  <2>0. k \in 1 .. Len(s) /\ k - 1 \in 0 .. Len(s) /\ s[k] \in Activations
    OBVIOUS
  <2>1. D[k] = D[k - 1] + Adds(s[k]) /\ D[k - 1] \in Nat /\ D[i] \in Nat /\ Adds(s[k]) \in Nat
    BY <1>1, <2>0, AddsType
  <2> QED
    BY <1>3, <2>1
<1>4. \A k \in i .. Len(s) : k \in P
  <2> HIDE DEF P
  <2>1. i \in Nat /\ Len(s) \in Nat
    OBVIOUS
  <2> QED
    BY <1>2, <1>3, <2>1, Upwards
<1> QED
  BY <1>4 DEF D

LEMMA CutConcat ==
  ASSUME NEW u \in Seq({"L", "C"}), NEW v \in Seq({"L", "C"}), NEW m \in 0 .. Len(u)
  PROVE  Len(u \o v) = Len(u) + Len(v) /\ SubSeq(u \o v, 1, m) = SubSeq(u, 1, m)
OBVIOUS

LEMMA RunGrows ==
  ASSUME NEW s \in Seq(Activations), NEW t, NEW i \in 0 .. Len(s), NEW j \in i .. Len(s)
  PROVE  /\ Len(RunUpTo(s, t)[i]) <= Len(RunUpTo(s, t)[j])
         /\ SubSeq(RunUpTo(s, t)[j], 1, Len(RunUpTo(s, t)[i])) = RunUpTo(s, t)[i]
<1> DEFINE D == RunUpTo(s, t)
           Fns == Seq({"L", "C"})
           P == {k \in i .. Len(s) :
                   Len(D[i]) <= Len(D[k]) /\ SubSeq(D[k], 1, Len(D[i])) = D[i]}
<1>0. \A k \in 1 .. Len(s) : Shown(s[k], t) \in Fns
  BY ShownType
<1>1. /\ D \in [0 .. Len(s) -> Fns]
      /\ \A k \in 1 .. Len(s) : D[k] = D[k - 1] \o Shown(s[k], t)
  BY RunRec
<1> HIDE DEF D
<1>2. i \in P
  BY <1>1
<1>3. ASSUME NEW k \in i + 1 .. Len(s), k - 1 \in P PROVE k \in P
  <2>1. /\ D[k] = D[k - 1] \o Shown(s[k], t) /\ D[k - 1] \in Fns /\ D[i] \in Fns
        /\ Shown(s[k], t) \in Fns
    <3>1. k \in 1 .. Len(s) /\ k - 1 \in 0 .. Len(s)
      OBVIOUS
    <3> QED
      BY <1>0, <1>1, <3>1
  <2>2. Len(D[i]) <= Len(D[k - 1]) /\ SubSeq(D[k - 1], 1, Len(D[i])) = D[i]
    BY <1>3
  <2>3. Len(D[i]) \in 0 .. Len(D[k - 1]) /\ Len(Shown(s[k], t)) \in Nat /\ Len(D[k - 1]) \in Nat
    BY <2>1, <2>2
  <2> DEFINE v == Shown(s[k], t)
             m == Len(D[i])
  <2> HIDE DEF v, m
  <2>4. /\ Len(D[k - 1] \o v) = Len(D[k - 1]) + Len(v)
        /\ SubSeq(D[k - 1] \o v, 1, m) = SubSeq(D[k - 1], 1, m)
    BY <2>1, <2>3, CutConcat DEF v, m
  <2>5. D[k] = D[k - 1] \o v
    BY <2>1 DEF v
  <2>6. Len(D[k]) = Len(D[k - 1]) + Len(v) /\ SubSeq(D[k], 1, m) = SubSeq(D[k - 1], 1, m)
    BY <2>4, <2>5, Zenon
  <2>7. m \in 0 .. Len(D[k - 1]) /\ Len(v) \in Nat /\ Len(D[k - 1]) \in Nat
    BY <2>3 DEF v, m
  <2>8. m <= Len(D[k])
    <3> DEFINE x == Len(D[k])
               y == Len(D[k - 1])
               z == Len(v)
    <3>1. x = y + z /\ m \in 0 .. y /\ y \in Nat /\ z \in Nat
      BY <2>6, <2>7
    <3> HIDE DEF x, y, z
    <3>2. m <= x
      BY <3>1
    <3> QED
      BY <3>2 DEF x
  <2>9. SubSeq(D[k], 1, m) = D[i]
    BY <2>2, <2>6 DEF m
  <2> QED
    BY <2>8, <2>9 DEF m
<1>4. \A k \in i .. Len(s) : k \in P
  <2> HIDE DEF P
  <2>1. i \in Nat /\ Len(s) \in Nat
    OBVIOUS
  <2> QED
    BY <1>2, <1>3, <2>1, Upwards
<1> QED
  BY <1>4 DEF D

(* Activations that run no functions of t leave its frames alone.          *)
LEMMA RunSkips ==
  ASSUME NEW s \in Seq(Activations), NEW t, NEW i \in 0 .. Len(s), NEW j \in i .. Len(s),
         \A k \in i + 1 .. j : s[k].th = t => s[k].kind \notin Code
  PROVE  RunUpTo(s, t)[j] = RunUpTo(s, t)[i]
<1> DEFINE D == RunUpTo(s, t)
           P == {k \in i .. j : D[k] = D[i]}
<1>1. /\ D \in [0 .. Len(s) -> Seq({"L", "C"})]
      /\ \A k \in 1 .. Len(s) : D[k] = D[k - 1] \o Shown(s[k], t)
  BY RunRec
<1> HIDE DEF D
<1>2. i \in P
  OBVIOUS
<1>3. ASSUME NEW k \in i + 1 .. j, k - 1 \in P PROVE k \in P
  <2>1. Shown(s[k], t) = <<>>
    BY DEF Shown, Code
  <2>0. k \in 1 .. Len(s) /\ k - 1 \in 0 .. Len(s)
    OBVIOUS
  <2>2. D[k] = D[k - 1] \o <<>> /\ D[k - 1] \in Seq({"L", "C"})
    BY <1>1, <2>0, <2>1
  <2>3. D[k] = D[k - 1]
    BY <2>2
  <2> QED
    BY <1>3, <2>3
<1>4. \A k \in i .. j : k \in P
  <2> HIDE DEF P
  <2>1. i \in Nat /\ j \in Nat
    OBVIOUS
  <2> QED
    BY <1>2, <1>3, <2>1, Upwards
<1> QED
  BY <1>4 DEF D

(* Two C stacks with the same k activations below                          *)
Same(s, u, k) == k <= Len(s) /\ k <= Len(u) /\ \A i \in 1 .. k : s[i] = u[i]

LEMMA Agree ==
  ASSUME NEW s \in Seq(Activations), NEW u \in Seq(Activations), NEW k \in Nat, Same(s, u, k)
  PROVE  \A i \in 0 .. k : /\ DepthUpTo(s)[i] = DepthUpTo(u)[i]
                           /\ \A t : RunUpTo(s, t)[i] = RunUpTo(u, t)[i]
                           /\ \A t, kinds : Own(s, i, t, kinds) = Own(u, i, t, kinds)
<1>1. ASSUME NEW i \in 0 .. k PROVE DepthUpTo(s)[i] = DepthUpTo(u)[i]
  <2> DEFINE A == DepthUpTo(s)
             B == DepthUpTo(u)
             P == {m \in 0 .. k : A[m] = B[m]}
  <2>1. /\ A[0] = 0 /\ \A m \in 1 .. Len(s) : A[m] = A[m - 1] + Adds(s[m])
        /\ B[0] = 0 /\ \A m \in 1 .. Len(u) : B[m] = B[m - 1] + Adds(u[m])
    BY DepthRec
  <2> HIDE DEF A, B
  <2>2. 0 \in P
    BY <2>1
  <2>3. ASSUME NEW m \in 0 + 1 .. k, m - 1 \in P PROVE m \in P
    <3>1. m \in 1 .. Len(s) /\ m \in 1 .. Len(u) /\ m \in 1 .. k /\ s[m] = u[m]
      BY DEF Same
    <3>2. A[m] = B[m]
      BY <2>1, <2>3, <3>1
    <3> QED
      BY <3>1, <3>2
  <2>4. \A m \in 0 .. k : m \in P
    <3> HIDE DEF P
    <3> QED
      BY <2>2, <2>3, Upwards
  <2> QED
    BY <2>4 DEF A, B
<1>2. ASSUME NEW i \in 0 .. k, NEW t PROVE RunUpTo(s, t)[i] = RunUpTo(u, t)[i]
  <2> DEFINE A == RunUpTo(s, t)
             B == RunUpTo(u, t)
             P == {m \in 0 .. k : A[m] = B[m]}
  <2>1. /\ A[0] = <<>> /\ \A m \in 1 .. Len(s) : A[m] = A[m - 1] \o Shown(s[m], t)
        /\ B[0] = <<>> /\ \A m \in 1 .. Len(u) : B[m] = B[m - 1] \o Shown(u[m], t)
    BY RunRec
  <2> HIDE DEF A, B
  <2>2. 0 \in P
    BY <2>1
  <2>3. ASSUME NEW m \in 0 + 1 .. k, m - 1 \in P PROVE m \in P
    <3>1. m \in 1 .. Len(s) /\ m \in 1 .. Len(u) /\ m \in 1 .. k /\ s[m] = u[m]
      BY DEF Same
    <3>2. A[m] = B[m]
      BY <2>1, <2>3, <3>1
    <3> QED
      BY <3>1, <3>2
  <2>4. \A m \in 0 .. k : m \in P
    <3> HIDE DEF P
    <3> QED
      BY <2>2, <2>3, Upwards
  <2> QED
    BY <2>4 DEF A, B
<1>3. ASSUME NEW i \in 0 .. k, NEW t, NEW kinds PROVE Own(s, i, t, kinds) = Own(u, i, t, kinds)
  BY DEF Own, Same
<1> QED
  BY <1>1, <1>2, <1>3

LEMMA SavedAgree ==
  ASSUME NEW s \in Seq(Activations), NEW u \in Seq(Activations), NEW k \in Nat, Same(s, u, k),
         NEW i \in 0 .. k, NEW t
  PROVE  /\ \A v : JumpIs(s, i, t, v) <=> JumpIs(u, i, t, v)
         /\ \A v : HandlerIs(s, i, t, v) <=> HandlerIs(u, i, t, v)
         /\ \A v : HooksAre(s, i, t, v) <=> HooksAre(u, i, t, v)
<1>1. \A kinds : Own(s, i, t, kinds) = Own(u, i, t, kinds)
  BY Agree
<1>2. \A v : JumpIs(s, i, t, v) <=> JumpIs(u, i, t, v)
  BY <1>1 DEF JumpIs
<1>3. \A v : HooksAre(s, i, t, v) <=> HooksAre(u, i, t, v)
  BY <1>1 DEF HooksAre
<1>4. ASSUME NEW v PROVE HandlerIs(s, i, t, v) <=> HandlerIs(u, i, t, v)
  <2>1. \A m \in Own(u, i, t, {"pcall"}) : s[m] = u[m]
    BY DEF Own, Same
  <2> QED
    BY <1>1, <2>1 DEF HandlerIs
<1> QED
  BY <1>2, <1>3, <1>4

LEMMA LiesAgree ==
  ASSUME NEW s \in Seq(Activations), NEW u \in Seq(Activations), NEW k \in Nat, Same(s, u, k),
         NEW m \in 0 .. k, NEW f, Lies(f, s, m)
  PROVE  Lies(f, u, m)
<1>1. /\ DepthUpTo(s)[m] = DepthUpTo(u)[m]
      /\ RunUpTo(s, f.th)[m] = RunUpTo(u, f.th)[m]
  BY Agree
<1>2. /\ \A v : JumpIs(s, m, f.th, v) <=> JumpIs(u, m, f.th, v)
      /\ \A v : HandlerIs(s, m, f.th, v) <=> HandlerIs(u, m, f.th, v)
      /\ \A v : HooksAre(s, m, f.th, v) <=> HooksAre(u, m, f.th, v)
  BY SavedAgree
<1>3. m = 0 \/ s[m] = u[m]
  BY DEF Same
<1>4. \A j \in 1 .. m : s[j] = u[j]
  BY DEF Same
<1>5. CASE m = 0
  <2>1. f.kind = "host" /\ f.th = Main
    BY <1>5 DEF Lies
  <2> QED
    BY <1>5, <2>1 DEF Lies
<1>6. CASE m # 0
  BY <1>1, <1>2, <1>3, <1>4, <1>6 DEF Lies
<1> QED
  BY <1>5, <1>6

LEMMA OwnStep ==
  ASSUME NEW s \in Seq(Activations), NEW i \in 1 .. Len(s), NEW t, NEW kinds
  PROVE  /\ s[i].th = t /\ s[i].kind \in kinds => Own(s, i, t, kinds) = Own(s, i - 1, t, kinds) \cup {i}
         /\ ~(s[i].th = t /\ s[i].kind \in kinds) => Own(s, i, t, kinds) = Own(s, i - 1, t, kinds)
BY DEF Own

LEMMA OwnSkips ==
  ASSUME NEW s \in Seq(Activations), NEW t, NEW i \in 0 .. Len(s), NEW j \in i .. Len(s),
         \A k \in i + 1 .. j : s[k].th # t
  PROVE  \A kinds : Own(s, j, t, kinds) = Own(s, i, t, kinds)
BY DEF Own

(* What an activation changes of the last protection, its handler, and     *)
(* whether hooks may be called                                             *)
LEMMA SavedStep ==
  ASSUME NEW s \in Seq(Activations), NEW i \in 1 .. Len(s), NEW t, s[i].th = t
  PROVE  /\ s[i].kind \in {"pcall", "resume"} => JumpIs(s, i, t, i)
         /\ s[i].kind \notin {"pcall", "resume"} => \A v : JumpIs(s, i, t, v) <=> JumpIs(s, i - 1, t, v)
         /\ s[i].kind = "pcall" => HandlerIs(s, i, t, s[i].ef)
         /\ s[i].kind # "pcall" => \A v : HandlerIs(s, i, t, v) <=> HandlerIs(s, i - 1, t, v)
         /\ s[i].kind \in {"hook", "gctm"} => HooksAre(s, i, t, FALSE)
         /\ s[i].kind \notin {"hook", "gctm"} => \A v : HooksAre(s, i, t, v) <=> HooksAre(s, i - 1, t, v)
<1> DEFINE J(k) == Own(s, k, t, {"pcall", "resume"})
           E(k) == Own(s, k, t, {"pcall"})
           H(k) == Own(s, k, t, {"hook", "gctm"})
<1>1. s[i].kind \in {"pcall", "resume"} => JumpIs(s, i, t, i)
  <2> SUFFICES ASSUME s[i].kind \in {"pcall", "resume"} PROVE JumpIs(s, i, t, i)
    OBVIOUS
  <2>1. i \in J(i) /\ \A k \in J(i) : k <= i
    BY DEF Own
  <2> QED
    BY <2>1 DEF JumpIs
<1>2. s[i].kind \notin {"pcall", "resume"} => \A v : JumpIs(s, i, t, v) <=> JumpIs(s, i - 1, t, v)
  <2> SUFFICES ASSUME s[i].kind \notin {"pcall", "resume"} PROVE \A v : JumpIs(s, i, t, v) <=> JumpIs(s, i - 1, t, v)
    OBVIOUS
  <2>1. J(i) = J(i - 1)
    BY OwnStep
  <2> QED
    BY <2>1 DEF JumpIs
<1>3. s[i].kind = "pcall" => HandlerIs(s, i, t, s[i].ef)
  <2> SUFFICES ASSUME s[i].kind = "pcall" PROVE HandlerIs(s, i, t, s[i].ef)
    OBVIOUS
  <2>1. i \in E(i) /\ \A k \in E(i) : k <= i
    BY DEF Own
  <2> QED
    BY <2>1 DEF HandlerIs
<1>4. s[i].kind # "pcall" => \A v : HandlerIs(s, i, t, v) <=> HandlerIs(s, i - 1, t, v)
  <2> SUFFICES ASSUME s[i].kind # "pcall" PROVE \A v : HandlerIs(s, i, t, v) <=> HandlerIs(s, i - 1, t, v)
    OBVIOUS
  <2>1. E(i) = E(i - 1)
    BY OwnStep
  <2> QED
    BY <2>1 DEF HandlerIs
<1>5. s[i].kind \in {"hook", "gctm"} => HooksAre(s, i, t, FALSE)
  <2> SUFFICES ASSUME s[i].kind \in {"hook", "gctm"} PROVE HooksAre(s, i, t, FALSE)
    OBVIOUS
  <2>1. i \in H(i)
    BY DEF Own
  <2> QED
    BY <2>1 DEF HooksAre
<1>6. s[i].kind \notin {"hook", "gctm"} => \A v : HooksAre(s, i, t, v) <=> HooksAre(s, i - 1, t, v)
  <2> SUFFICES ASSUME s[i].kind \notin {"hook", "gctm"} PROVE \A v : HooksAre(s, i, t, v) <=> HooksAre(s, i - 1, t, v)
    OBVIOUS
  <2>1. H(i) = H(i - 1)
    BY OwnStep
  <2> QED
    BY <2>1 DEF HooksAre
<1> QED
  BY <1>1, <1>2, <1>3, <1>4, <1>5, <1>6

-----------------------------------------------------------------------------
(* Well-formed C stacks                                                    *)
LEMMA HostFirst ==
  ASSUME NEW s \in Seq(Activations), s # <<>>, WellFormed(s)
  PROVE  s[1] = Frame("host", Main)
<1>1. 1 \in 1 .. Len(s) /\ s[1] \in Activations
  OBVIOUS
<1>2. Lies(s[1], s, 0)
  BY <1>1 DEF WellFormed
<1>3. s[1].kind = "host" /\ s[1].th = Main
  BY <1>2 DEF Lies
<1> QED
  BY <1>1, <1>3 DEF Activations, Frame

(* The activations of a thread are next to one another.                    *)
LEMMA Together ==
  ASSUME NEW s \in Seq(Activations), WellFormed(s),
         NEW j \in 1 .. Len(s), NEW i \in j .. Len(s), NEW m \in j .. i,
         s[j].th = s[i].th
  PROVE  s[m].th = s[j].th
<1> SUFFICES ASSUME s[m].th # s[j].th PROVE FALSE
  OBVIOUS
<1> DEFINE S == {k \in m .. i : s[k].th = s[j].th}
<1>1. PICK k \in S : \A l \in S : k <= l
  <2>1. S \in SUBSET Nat /\ i \in S
    OBVIOUS
  <2> HIDE DEF S
  <2> QED
    BY <2>1, SmallestIs
<1>2. k \in m .. i /\ k # m /\ k \in 1 .. Len(s) /\ k - 1 \in 1 .. Len(s) /\ k - 1 \in m .. i
  BY <1>1
<1>3. s[k - 1].th # s[k].th /\ s[k].th = s[j].th
  BY <1>1, <1>2
<1>4. Lies(s[k], s, k - 1) /\ k - 1 > 0
  BY <1>2 DEF WellFormed
<1>5. s[k].kind = "resume" /\ \A l \in 1 .. k - 1 : s[l].th # s[k].th
  BY <1>3, <1>4 DEF Lies
<1>6. j \in 1 .. k - 1
  BY <1>2
<1> QED
  BY <1>3, <1>5, <1>6

(* A coroutine is on the C stack from its lua_resume on.                   *)
LEMMA HasResume ==
  ASSUME NEW s \in Seq(Activations), WellFormed(s), NEW t, t # Main, On(s, t)
  PROVE  \E k \in 1 .. Len(s) : /\ s[k].th = t /\ s[k].kind = "resume"
                                /\ \A l \in 1 .. Len(s) : s[l].th = t => k <= l
<1> DEFINE S == {k \in 1 .. Len(s) : s[k].th = t}
<1>1. PICK k \in S : \A l \in S : k <= l
  <2>1. S \in SUBSET Nat /\ S # {}
    BY DEF On
  <2> HIDE DEF S
  <2> QED
    BY <2>1, SmallestIs
<1>2. k \in 1 .. Len(s) /\ s[k].th = t /\ Lies(s[k], s, k - 1)
  BY <1>1 DEF WellFormed
<1>3. k # 1
  BY <1>2 DEF Lies
<1>4. k - 1 \in 1 .. Len(s) /\ k - 1 > 0 /\ s[k - 1].th # t
  BY <1>1, <1>2, <1>3
<1>5. s[k].kind = "resume"
  BY <1>2, <1>4 DEF Lies
<1> QED
  BY <1>1, <1>2, <1>5

(* One that has resumed another is in a C function.                        *)
LEMMA ResumesFromC ==
  ASSUME NEW s \in Seq(Activations), WellFormed(s), NEW t, On(s, t), s[Len(s)].th # t
  PROVE  /\ \E k \in 1 .. Len(s) : s[k].th = t /\ s[k].kind = "cfn"
         /\ RunUpTo(s, t)[Len(s)] # <<>>
<1>1. PICK i \in 1 .. Len(s) : s[i].th = t
  BY DEF On
<1> DEFINE S == {k \in i .. Len(s) : s[k].th # t}
<1>2. PICK k \in S : \A l \in S : k <= l
  <2>1. S \in SUBSET Nat /\ S # {}
    BY <1>1
  <2> HIDE DEF S
  <2> QED
    BY <2>1, SmallestIs
<1>3. k \in 1 .. Len(s) /\ k # i /\ k - 1 \in i .. Len(s) /\ k - 1 \in 1 .. Len(s) /\ s[k].th # t
  BY <1>1, <1>2
<1>4. s[k - 1].th = t
  BY <1>2, <1>3
<1>5. Lies(s[k], s, k - 1) /\ k - 1 > 0
  BY <1>3 DEF WellFormed
<1>6. s[k].kind = "resume"
  BY <1>3, <1>4, <1>5 DEF Lies
<1>7. s[k - 1].kind = "cfn"
  BY <1>5, <1>6 DEF Lies
<1> DEFINE D == RunUpTo(s, t)
<1>8. Shown(s[k - 1], t) = <<"C">>
  BY <1>4, <1>7 DEF Shown
<1> DEFINE m == k - 1
<1>m. m \in 1 .. Len(s) /\ m - 1 \in 0 .. Len(s) /\ m \in 0 .. Len(s) /\ Len(s) \in m .. Len(s)
  BY <1>3
<1> HIDE DEF m
<1>9. D[m] = D[m - 1] \o <<"C">> /\ D[m - 1] \in Seq({"L", "C"})
  <2>1. D[m] = D[m - 1] \o Shown(s[m], t) /\ D[m - 1] \in Seq({"L", "C"})
    BY <1>m, RunRec
  <2> QED
    BY <1>8, <2>1 DEF m
<1>10. Len(D[m]) > 0
  BY <1>9
<1>11. Len(D[m]) <= Len(D[Len(s)])
  BY <1>m, RunGrows
<1>12. D[Len(s)] # <<>>
  BY <1>9, <1>10, <1>11
<1> QED
  BY <1>3, <1>4, <1>7, <1>12

-----------------------------------------------------------------------------
(* A change to the C stack above its k-th activation that concerns one     *)
(* thread only leaves the others as they are.                              *)
LEMMA OthersFine ==
  ASSUME NEW s \in Seq(Activations), NEW u \in Seq(Activations), WellFormed(s), WellFormed(u),
         NEW k \in Nat \ {0}, Same(s, u, k), NEW t \in Threads, NEW r \in States, Fine(s, t, r),
         \A i \in k + 1 .. Len(s) : s[i].th # t,
         \A i \in k + 1 .. Len(u) : u[i].th # t
  PROVE  Fine(u, t, r)
<1>1. k \in 0 .. Len(s) /\ k \in 0 .. Len(u) /\ \A i \in 1 .. k : s[i] = u[i]
  BY DEF Same
<1>2. \A kinds : Own(u, Len(u), t, kinds) = Own(s, Len(s), t, kinds)
  <2>1. \A kinds : Own(s, Len(s), t, kinds) = Own(s, k, t, kinds)
    BY <1>1, OwnSkips
  <2>2. \A kinds : Own(u, Len(u), t, kinds) = Own(u, k, t, kinds)
    BY <1>1, OwnSkips
  <2>3. \A kinds : Own(u, k, t, kinds) = Own(s, k, t, kinds)
    BY <1>1 DEF Own
  <2> QED
    BY <2>1, <2>2, <2>3
<1>3. RunUpTo(u, t)[Len(u)] = RunUpTo(s, t)[Len(s)]
  <2>1. RunUpTo(s, t)[Len(s)] = RunUpTo(s, t)[k]
    BY <1>1, RunSkips
  <2>2. RunUpTo(u, t)[Len(u)] = RunUpTo(u, t)[k]
    BY <1>1, RunSkips
  <2>3. RunUpTo(u, t)[k] = RunUpTo(s, t)[k]
    BY Agree
  <2> QED
    BY <2>1, <2>2, <2>3
<1>4. On(u, t) <=> On(s, t)
  BY <1>1 DEF On
<1>5. FramesFine(u, t, r)
  BY <1>2, <1>3, <1>4 DEF FramesFine, Fine
<1>6. SavedFine(u, t, r)
  <2>1. JumpIs(u, Len(u), t, r.errorJmp)
    BY <1>2 DEF Fine, SavedFine, JumpIs
  <2>2. HooksAre(u, Len(u), t, r.allowhook)
    BY <1>2 DEF Fine, SavedFine, HooksAre
  <2>3. \A m \in Own(u, Len(u), t, {"pcall"}) : s[m] = u[m]
    BY <1>1 DEF Own
  <2>4. HandlerIs(u, Len(u), t, r.errfunc)
    BY <1>2, <2>3 DEF Fine, SavedFine, HandlerIs
  <2> QED
    BY <2>1, <2>2, <2>4 DEF SavedFine
<1>7. ASSUME NEW i \in 1 .. Len(u) PROVE DepthFine(u, i, t, r)
  <2> SUFFICES ASSUME u[i].th = t PROVE DepthFine(u, i, t, r)
    BY DEF DepthFine
  <2>1. i \in 1 .. k /\ i \in 1 .. Len(s) /\ s[i] = u[i] /\ DepthUpTo(u)[i] = DepthUpTo(s)[i]
    <3>1. i \in 1 .. k
      OBVIOUS
    <3> QED
      BY <1>1, <3>1, Agree
  <2>2. DepthFine(s, i, t, r) /\ (i > 1 => s[i - 1] = u[i - 1])
    BY <1>1, <2>1 DEF Fine
  <2>3. i = Len(u) \/ u[i + 1].kind = "resume" => i = Len(s) \/ s[i + 1].kind = "resume"
    <3>1. CASE i < k
      BY <1>1, <2>1, <3>1
    <3>2. CASE i = k /\ k < Len(s)
      <4>1. k + 1 \in 1 .. Len(s) /\ s[k + 1].th # t /\ s[k].th = t
        BY <1>1, <2>1, <3>2
      <4>2. Lies(s[k + 1], s, k)
        BY <4>1 DEF WellFormed
      <4>3. s[k + 1].kind = "resume"
        BY <4>1, <4>2 DEF Lies
      <4> QED
        BY <3>2, <4>3
    <3>3. CASE i = k /\ k = Len(s)
      BY <3>3
    <3> QED
      BY <1>1, <2>1, <3>1, <3>2, <3>3
  <2> QED
    BY <2>1, <2>2, <2>3 DEF DepthFine
<1>8. StatusFine(u, t, r) /\ SizeFine(r)
  BY <1>4 DEF Fine, StatusFine
<1> QED
  BY <1>5, <1>6, <1>7, <1>8 DEF Fine

LEMMA Change ==
  ASSUME NEW s, NEW all, Fits(s, all), NEW u \in Seq(Activations), NEW k \in Nat \ {0}, Same(s, u, k),
         NEW t \in Threads, NEW r \in States, Fine(u, t, r),
         \A i \in k + 1 .. Len(s) : s[i].th = t,
         \A i \in k + 1 .. Len(u) : u[i].th = t /\ Lies(u[i], u, i - 1)
  PROVE  Fits(u, [all EXCEPT ![t] = r])
<1>1. /\ s \in Seq(Activations) /\ all \in [Threads -> States] /\ WellFormed(s)
      /\ \A t2 \in Threads : Fine(s, t2, all[t2])
  BY DEF Fits
<1>2. WellFormed(u)
  <2> SUFFICES ASSUME NEW i \in 1 .. Len(u) PROVE Lies(u[i], u, i - 1)
    BY DEF WellFormed
  <2>1. CASE i \in 1 .. k
    <3>1. i \in 1 .. Len(s) /\ s[i] = u[i] /\ i - 1 \in 0 .. k
      BY <2>1 DEF Same
    <3>2. Lies(s[i], s, i - 1)
      BY <1>1, <3>1 DEF WellFormed
    <3> QED
      BY <1>1, <3>1, <3>2, LiesAgree
  <2>2. CASE i \in k + 1 .. Len(u)
    BY <2>2
  <2> QED
    BY <2>1, <2>2
<1> DEFINE new == [all EXCEPT ![t] = r]
<1>3. new \in [Threads -> States] /\ new[t] = r /\ \A t2 \in Threads \ {t} : new[t2] = all[t2] /\ all[t2] \in States
  BY <1>1
<1>4. u # <<>>
  BY DEF Same
<1> HIDE DEF new
<1>5. ASSUME NEW t2 \in Threads PROVE Fine(u, t2, new[t2])
  <2>1. CASE t2 = t
    BY <1>3, <2>1
  <2>2. CASE t2 # t
    <3>1. new[t2] \in States /\ Fine(s, t2, new[t2])
      BY <1>1, <1>3, <2>2
    <3>2. /\ \A i \in k + 1 .. Len(s) : s[i].th # t2
          /\ \A i \in k + 1 .. Len(u) : u[i].th # t2
      BY <2>2
    <3> QED
      BY <1>1, <1>2, <3>1, <3>2, OthersFine
  <2> QED
    BY <2>1, <2>2
<1>6. Fits(u, new)
  BY <1>2, <1>3, <1>4, <1>5 DEF Fits
<1> QED
  BY <1>6 DEF new

-----------------------------------------------------------------------------
(* Pushes and pops within a thread, while no thread on the C stack yields  *)
Steady(s, all) == Fits(s, all) /\ \A t \in Threads : On(s, t) => all[t].status # "yield"

Pushed(f, o, r, m) ==
  /\ r.ci = o.ci \o Shown(f, f.th)
  /\ r.nC = o.nC + Adds(f)
  /\ r.baseC = o.baseC /\ r.status = o.status /\ r.filled = o.filled /\ r.entry = o.entry
  /\ r.errorJmp = IF f.kind = "pcall" THEN m ELSE o.errorJmp
  /\ r.errfunc = IF f.kind = "pcall" THEN f.ef ELSE o.errfunc
  /\ r.allowhook = IF f.kind \in {"hook", "gctm"} THEN FALSE ELSE o.allowhook
  /\ SizeFine(r)

Popped(f, o, r) ==
  /\ o.ci = r.ci \o Shown(f, f.th)
  /\ o.nC = r.nC + Adds(f)
  /\ r.baseC = o.baseC /\ r.status = o.status /\ r.filled = o.filled /\ r.entry = o.entry
  /\ r.errorJmp = IF f.kind = "pcall" THEN f.previous ELSE o.errorJmp
  /\ r.errfunc = IF f.kind = "pcall" THEN f.errfunc ELSE o.errfunc
  /\ r.allowhook = CASE f.kind = "hook" -> TRUE
                     [] f.kind = "gctm" -> f.allowhook
                     [] OTHER -> o.allowhook
  /\ SizeFine(r)

LEMMA NotResumed ==
  ASSUME NEW s \in Seq(Activations), WellFormed(s), NEW i \in 1 .. Len(s) - 1,
         s[i].th = s[Len(s)].th
  PROVE  s[i + 1].kind # "resume"
<1>1. i + 1 \in 1 .. Len(s) /\ i + 1 \in i .. Len(s) /\ i \in 1 .. Len(s) /\ Len(s) \in i .. Len(s)
  OBVIOUS
<1>2. s[i + 1].th = s[i].th
  BY <1>1, Together
<1>3. Lies(s[i + 1], s, i)
  BY <1>1 DEF WellFormed
<1>4. i \in 1 .. i
  OBVIOUS
<1> QED
  BY <1>2, <1>3, <1>4 DEF Lies

LEMMA Push ==
  ASSUME NEW s, NEW all, Steady(s, all), NEW f \in Activations, NEW t \in Threads,
         f.th = t, f.kind \notin {"host", "resume"}, Lies(f, s, Len(s)),
         NEW r \in States, Pushed(f, all[t], r, Len(s) + 1), EntryFits(f, s[Len(s)], r)
  PROVE  /\ Steady(Append(s, f), [all EXCEPT ![t] = r])
         /\ DepthUpTo(Append(s, f))[Len(s) + 1] = DepthUpTo(s)[Len(s)] + Adds(f)
<1> DEFINE n == Len(s)
           u == Append(s, f)
           o == all[t]
<1>1. /\ s \in Seq(Activations) /\ s # <<>> /\ all \in [Threads -> States] /\ WellFormed(s)
      /\ Fine(s, t, o)
  BY DEF Fits, Steady
<1>2. /\ n \in Nat \ {0} /\ u \in Seq(Activations) /\ Len(u) = n + 1 /\ u[n + 1] = f
      /\ \A i \in 1 .. n : u[i] = s[i]
  BY <1>1
<1> HIDE DEF n, u, o
<1>3. Same(s, u, n) /\ Same(u, s, n)
  BY <1>2 DEF Same, n
<1>4. s[n].th = t /\ On(s, t)
  <2>1. Lies(f, s, n)
    BY DEF n
  <2>2. s[n].th = t
    BY <1>2, <2>1 DEF Lies
  <2> QED
    BY <1>2, <2>2 DEF On, n
<1>5. o.status # "yield"
  BY <1>4 DEF Steady, o
<1>6. Pushed(f, o, r, n + 1)
  BY DEF o, n
<1>7. FramesFine(u, t, r)
  <2>1. o.ci = RunUpTo(s, t)[n]
    BY <1>1, <1>4, <1>5 DEF Fine, FramesFine, n
  <2>2. n + 1 \in 1 .. Len(u) /\ n \in 0 .. n
    BY <1>2
  <2>3. RunUpTo(u, t)[n + 1] = RunUpTo(u, t)[(n + 1) - 1] \o Shown(f, t)
    BY <1>2, <2>2, RunRec
  <2>4. RunUpTo(u, t)[n] = RunUpTo(s, t)[n]
    BY <1>1, <1>2, <1>3, <2>2, Agree
  <2>5. (n + 1) - 1 = n
    BY <1>2
  <2>6. r.ci = RunUpTo(u, t)[n + 1]
    BY <1>6, <2>1, <2>3, <2>4, <2>5 DEF Pushed
  <2> QED
    BY <1>2, <1>5, <1>6, <2>6 DEF FramesFine, Pushed
<1>8. SavedFine(u, t, r)
  <2>1. n + 1 \in 1 .. Len(u) /\ n \in 0 .. n /\ (n + 1) - 1 = n /\ u[n + 1].th = t
    BY <1>2
  <2>2. JumpIs(u, n, t, o.errorJmp) /\ HandlerIs(u, n, t, o.errfunc) /\ HooksAre(u, n, t, o.allowhook)
    <3>1. JumpIs(s, n, t, o.errorJmp) /\ HandlerIs(s, n, t, o.errfunc) /\ HooksAre(s, n, t, o.allowhook)
      BY <1>1 DEF Fine, SavedFine, n
    <3> QED
      BY <1>1, <1>2, <1>3, <2>1, <3>1, SavedAgree
  <2>3. /\ f.kind = "pcall" => JumpIs(u, n + 1, t, n + 1)
        /\ f.kind # "pcall" => \A v : JumpIs(u, n + 1, t, v) <=> JumpIs(u, n, t, v)
        /\ f.kind = "pcall" => HandlerIs(u, n + 1, t, f.ef)
        /\ f.kind # "pcall" => \A v : HandlerIs(u, n + 1, t, v) <=> HandlerIs(u, n, t, v)
        /\ f.kind \in {"hook", "gctm"} => HooksAre(u, n + 1, t, FALSE)
        /\ f.kind \notin {"hook", "gctm"} => \A v : HooksAre(u, n + 1, t, v) <=> HooksAre(u, n, t, v)
    <3> DEFINE i == n + 1
    <3>1. i \in 1 .. Len(u) /\ u[i].th = t
      BY <2>1
    <3>2. u[i] = f /\ i - 1 = n
      BY <1>2
    <3> HIDE DEF i
    <3>3. /\ u[i].kind \in {"pcall", "resume"} => JumpIs(u, i, t, i)
          /\ u[i].kind \notin {"pcall", "resume"} => \A v : JumpIs(u, i, t, v) <=> JumpIs(u, i - 1, t, v)
          /\ u[i].kind = "pcall" => HandlerIs(u, i, t, u[i].ef)
          /\ u[i].kind # "pcall" => \A v : HandlerIs(u, i, t, v) <=> HandlerIs(u, i - 1, t, v)
          /\ u[i].kind \in {"hook", "gctm"} => HooksAre(u, i, t, FALSE)
          /\ u[i].kind \notin {"hook", "gctm"} => \A v : HooksAre(u, i, t, v) <=> HooksAre(u, i - 1, t, v)
      BY <1>2, <3>1, SavedStep
    <3> QED
      BY <3>2, <3>3 DEF i
  <2>4. JumpIs(u, n + 1, t, r.errorJmp)
    BY <1>6, <2>2, <2>3 DEF Pushed
  <2>5. HandlerIs(u, n + 1, t, r.errfunc)
    BY <1>6, <2>2, <2>3 DEF Pushed
  <2>6. HooksAre(u, n + 1, t, r.allowhook)
    BY <1>6, <2>2, <2>3 DEF Pushed
  <2> QED
    BY <1>2, <2>4, <2>5, <2>6 DEF SavedFine
<1>9. DepthUpTo(u)[n + 1] = DepthUpTo(s)[n] + Adds(f)
  <2>1. n + 1 \in 1 .. Len(u) /\ n \in 0 .. n /\ (n + 1) - 1 = n
    BY <1>2
  <2>2. DepthUpTo(u)[n + 1] = DepthUpTo(u)[(n + 1) - 1] + Adds(f)
    BY <1>2, <2>1, DepthRec
  <2>3. DepthUpTo(u)[n] = DepthUpTo(s)[n]
    BY <1>1, <1>2, <1>3, <2>1, Agree
  <2> QED
    BY <2>1, <2>2, <2>3
<1>10. ASSUME NEW i \in 1 .. Len(u) PROVE DepthFine(u, i, t, r)
  <2>1. CASE i = n + 1
    <3>1. n \in 1 .. Len(s) /\ n = Len(s)
      BY <1>2 DEF n
    <3>2. o.nC = DepthUpTo(s)[n]
      BY <1>1, <1>4, <3>1 DEF Fine, DepthFine
    <3>3. r.nC = DepthUpTo(u)[n + 1]
      BY <1>6, <1>9, <3>2 DEF Pushed
    <3>4. i - 1 = n /\ u[i] = f /\ u[i - 1] = s[n] /\ EntryFits(f, s[n], r)
      BY <1>2, <2>1 DEF n
    <3> QED
      BY <1>2, <2>1, <3>3, <3>4 DEF DepthFine
  <2>2. CASE i # n + 1
    <3>1. i \in 1 .. n /\ i \in 1 .. Len(s) /\ i \in 0 .. n /\ u[i] = s[i] /\ i # Len(u) /\ n = Len(s)
      BY <1>2, <2>2 DEF n
    <3> SUFFICES ASSUME u[i].th = t PROVE DepthFine(u, i, t, r)
      BY DEF DepthFine
    <3>2. u[i + 1].kind # "resume"
      <4>1. CASE i = n
        BY <1>2, <4>1
      <4>2. CASE i # n
        <5>1. i \in 1 .. Len(s) - 1 /\ i + 1 \in 1 .. n /\ s[i].th = s[Len(s)].th
          BY <1>4, <3>1, <4>2
        <5> QED
          BY <1>1, <1>2, <5>1, NotResumed
      <4> QED
        BY <4>1, <4>2
    <3>3. /\ u[i].kind = "resume" => o.baseC = DepthUpTo(u)[i]
          /\ i > 1 => EntryFits(u[i], u[i - 1], o)
      <4>1. DepthFine(s, i, t, o) /\ (i > 1 => u[i - 1] = s[i - 1])
        BY <1>1, <1>2, <3>1 DEF Fine
      <4>2. DepthUpTo(u)[i] = DepthUpTo(s)[i]
        BY <1>1, <1>2, <1>3, <3>1, Agree
      <4> QED
        BY <3>1, <4>1, <4>2 DEF DepthFine
    <3>4. r.baseC = o.baseC /\ (i > 1 => EntryFits(u[i], u[i - 1], r))
      BY <1>6, <3>3 DEF Pushed, EntryFits
    <3> QED
      BY <3>1, <3>2, <3>3, <3>4 DEF DepthFine
  <2> QED
    BY <2>1, <2>2
<1>11. StatusFine(u, t, r) /\ SizeFine(r)
  BY <1>1, <1>4, <1>6 DEF Fine, StatusFine, Pushed
<1>12. Fine(u, t, r)
  BY <1>7, <1>8, <1>10, <1>11 DEF Fine
<1>13. Fits(u, [all EXCEPT ![t] = r])
  <2>1. \A i \in n + 1 .. Len(s) : s[i].th = t
    BY <1>2 DEF n
  <2>2. \A i \in n + 1 .. Len(u) : u[i].th = t /\ Lies(u[i], u, i - 1)
    <3> SUFFICES ASSUME NEW i \in n + 1 .. Len(u) PROVE u[i].th = t /\ Lies(u[i], u, i - 1)
      OBVIOUS
    <3>1. i = n + 1 /\ u[i] = f /\ i - 1 = n /\ n \in 0 .. n
      BY <1>2
    <3>2. Lies(f, s, n)
      BY DEF n
    <3>3. Lies(f, u, n)
      BY <1>1, <1>2, <1>3, <3>1, <3>2, LiesAgree
    <3> QED
      BY <3>1, <3>3
  <2>3. Fits(s, all)
    BY DEF Steady
  <2> QED
    BY <1>2, <1>3, <1>12, <2>1, <2>2, <2>3, Change
<1>14. \A x \in Threads : On(u, x) => [all EXCEPT ![t] = r][x].status # "yield"
  <2> SUFFICES ASSUME NEW x \in Threads, On(u, x) PROVE [all EXCEPT ![t] = r][x].status # "yield"
    OBVIOUS
  <2>1. CASE x = t
    BY <1>1, <1>5, <1>6, <2>1 DEF Pushed
  <2>2. CASE x # t
    <3>1. On(s, x)
      BY <1>2, <2>2 DEF On, n
    <3> QED
      BY <1>1, <2>2, <3>1 DEF Steady
  <2> QED
    BY <2>1, <2>2
<1> QED
  BY <1>9, <1>13, <1>14 DEF Steady, u, n

(* The first m activations of a C stack                                    *)
LEMMA CutIs ==
  ASSUME NEW s \in Seq(Activations), NEW m \in 1 .. Len(s)
  PROVE  LET u == SubSeq(s, 1, m)
         IN  /\ u \in Seq(Activations) /\ Len(u) = m /\ u # <<>>
             /\ \A i \in 1 .. m : u[i] = s[i]
             /\ Same(s, u, m)
BY DEF Same

LEMMA Cancel ==
  ASSUME NEW x \in Seq({"L", "C"}), NEW y \in Seq({"L", "C"}), NEW v \in Seq({"L", "C"}),
         x \o v = y \o v
  PROVE  x = y
<1>1. Len(x \o v) = Len(x) + Len(v) /\ Len(y \o v) = Len(y) + Len(v)
  BY CutConcat
<1>2. Len(x) \in Nat /\ Len(y) \in Nat /\ Len(v) \in Nat /\ Len(x) = Len(y)
  BY <1>1
<1>3. SubSeq(x \o v, 1, Len(x)) = SubSeq(x, 1, Len(x)) /\ SubSeq(y \o v, 1, Len(y)) = SubSeq(y, 1, Len(y))
  BY <1>2, CutConcat
<1>4. SubSeq(x, 1, Len(x)) = x /\ SubSeq(y, 1, Len(y)) = y
  OBVIOUS
<1> QED
  BY <1>2, <1>3, <1>4

(* The depths of a thread whose activation is the top of the cut           *)
LEMMA DepthsOfCut ==
  ASSUME NEW s \in Seq(Activations), WellFormed(s), NEW m \in 1 .. Len(s), NEW t, s[m].th = t,
         NEW o, \A i \in 1 .. Len(s) : DepthFine(s, i, t, o),
         NEW r, r.baseC = o.baseC, r.entry = o.entry, r.nC = DepthUpTo(s)[m]
  PROVE  LET u == SubSeq(s, 1, m) IN \A i \in 1 .. Len(u) : DepthFine(u, i, t, r)
<1> DEFINE u == SubSeq(s, 1, m)
<1>1. /\ u \in Seq(Activations) /\ Len(u) = m /\ Same(s, u, m) /\ \A i \in 1 .. m : u[i] = s[i]
  BY CutIs
<1> HIDE DEF u
<1>2. WellFormed(u)
  <2> SUFFICES ASSUME NEW i \in 1 .. m PROVE Lies(u[i], u, i - 1)
    BY <1>1 DEF WellFormed
  <2>1. Lies(u[i], s, i - 1) /\ i - 1 \in 0 .. m
    BY <1>1 DEF WellFormed
  <2> QED
    BY <1>1, <2>1, LiesAgree
<1>3. \A i \in 0 .. m : DepthUpTo(u)[i] = DepthUpTo(s)[i]
  BY <1>1, Agree
<1>4. ASSUME NEW i \in 1 .. m PROVE DepthFine(u, i, t, r)
  <2> SUFFICES ASSUME u[i].th = t PROVE DepthFine(u, i, t, r)
    BY DEF DepthFine
  <2>1. i \in 1 .. Len(s) /\ i \in 0 .. m /\ DepthFine(s, i, t, o) /\ u[i] = s[i]
    BY <1>1
  <2>2. /\ u[i].kind = "resume" => r.baseC = DepthUpTo(u)[i]
        /\ i > 1 => EntryFits(u[i], u[i - 1], r)
    <3>1. i > 1 => u[i - 1] = s[i - 1]
      BY <1>1
    <3> QED
      BY <1>3, <2>1, <3>1 DEF DepthFine, EntryFits
  <2>3. i # m => u[i + 1].kind # "resume"
    <3> SUFFICES ASSUME i # m PROVE u[i + 1].kind # "resume"
      OBVIOUS
    <3>1. i \in 1 .. Len(u) - 1 /\ u[Len(u)].th = t
      BY <1>1
    <3> QED
      BY <1>1, <1>2, <3>1, NotResumed
  <2>4. i = m => r.nC = DepthUpTo(u)[i]
    BY <1>3, <2>1
  <2> QED
    BY <1>1, <2>2, <2>3, <2>4 DEF DepthFine
<1> QED
  BY <1>1, <1>4 DEF u

LEMMA PopTop ==
  ASSUME NEW s, NEW all, Steady(s, all), NEW f, f = s[Len(s)], NEW t \in Threads, f.th = t,
         f.kind \notin {"host", "resume"}, NEW r \in States, Popped(f, all[t], r)
  PROVE  /\ Steady(Front(s), [all EXCEPT ![t] = r])
         /\ Len(s) > 1
         /\ Len(Front(s)) = Len(s) - 1
         /\ Front(s) \in Seq(Activations)
         /\ \A i \in 1 .. Len(s) - 1 : Front(s)[i] = s[i]
         /\ DepthUpTo(s)[Len(s)] = DepthUpTo(Front(s))[Len(s) - 1] + Adds(f)
         /\ f \in Activations
         /\ DepthUpTo(Front(s))[Len(s) - 1] \in Nat
<1> DEFINE n == Len(s)
           m == n - 1
           u == Front(s)
           o == all[t]
<1>1. /\ s \in Seq(Activations) /\ s # <<>> /\ all \in [Threads -> States] /\ WellFormed(s)
      /\ Fine(s, t, o) /\ o \in States
  BY DEF Fits, Steady
<1>2. n \in Nat \ {0} /\ n \in 1 .. Len(s) /\ f \in Activations /\ Lies(f, s, n - 1)
  BY <1>1 DEF WellFormed
<1>3. n # 1
  BY <1>2 DEF Lies
<1>4. m \in 1 .. Len(s) /\ n \in 1 .. Len(s) /\ m = n - 1 /\ n = m + 1 /\ m > 0
  <2>1. Len(s) \in Nat /\ n = Len(s) /\ n # 0
    BY <1>2
  <2> HIDE DEF n
  <2> QED
    BY <1>3, <2>1
<1>5. u = SubSeq(s, 1, m)
  BY DEF Front
<1> HIDE DEF n, m, u, o
<1>6. /\ u \in Seq(Activations) /\ Len(u) = m /\ u # <<>>
      /\ Same(s, u, m) /\ \A i \in 1 .. m : u[i] = s[i]
  BY <1>1, <1>4, <1>5, CutIs
<1>7. s[m].th = t /\ s[n].th = t /\ u[m].th = t /\ On(s, t) /\ On(u, t)
  <2>1. s[m].th = t
    BY <1>2, <1>4 DEF Lies
  <2>2. s[n] = f
    BY DEF n
  <2> QED
    BY <1>4, <1>6, <2>1, <2>2 DEF On
<1>8. o.status # "yield"
  BY <1>7 DEF Steady, o
<1>9. Popped(f, o, r) /\ s[n] = f /\ n = Len(s)
  BY DEF o, n
<1>10. FramesFine(u, t, r)
  <2>1. o.ci = RunUpTo(s, t)[n]
    BY <1>1, <1>7, <1>8, <1>9 DEF Fine, FramesFine
  <2>2. RunUpTo(s, t)[n] = RunUpTo(s, t)[n - 1] \o Shown(f, t) /\ RunUpTo(s, t)[n - 1] \in Seq({"L", "C"})
    <3>1. n \in 1 .. Len(s) /\ n - 1 \in 0 .. Len(s)
      BY <1>4
    <3>2. RunUpTo(s, t)[n] = RunUpTo(s, t)[n - 1] \o Shown(s[n], t) /\ RunUpTo(s, t)[n - 1] \in Seq({"L", "C"})
      BY <1>1, <3>1, RunRec
    <3> QED
      BY <1>9, <3>2
  <2>3. RunUpTo(u, t)[m] = RunUpTo(s, t)[m]
    <3>1. m \in 0 .. m /\ m \in Nat
      BY <1>4
    <3> QED
      BY <1>1, <1>6, <3>1, Agree
  <2>4. Shown(f, t) \in Seq({"L", "C"}) /\ r.ci \in Seq({"L", "C"})
    BY <1>2, ShownType DEF States
  <2>5. r.ci \o Shown(f, t) = RunUpTo(s, t)[m] \o Shown(f, t)
    BY <1>4, <1>9, <2>1, <2>2 DEF Popped
  <2>6. RunUpTo(s, t)[m] \in Seq({"L", "C"})
    BY <1>4, <2>2
  <2>7. r.ci = RunUpTo(s, t)[m]
    BY <2>4, <2>5, <2>6, Cancel
  <2> QED
    BY <1>6, <1>8, <1>9, <2>3, <2>7 DEF FramesFine, Popped
<1>11. SavedFine(u, t, r)
  <2>1. JumpIs(s, n, t, o.errorJmp) /\ HandlerIs(s, n, t, o.errfunc) /\ HooksAre(s, n, t, o.allowhook)
    BY <1>1, <1>9 DEF Fine, SavedFine
  <2>2. /\ f.kind # "pcall" => \A v : JumpIs(s, n, t, v) <=> JumpIs(s, n - 1, t, v)
        /\ f.kind # "pcall" => \A v : HandlerIs(s, n, t, v) <=> HandlerIs(s, n - 1, t, v)
        /\ f.kind \notin {"hook", "gctm"} => \A v : HooksAre(s, n, t, v) <=> HooksAre(s, n - 1, t, v)
    <3>1. /\ s[n].kind \notin {"pcall", "resume"} => \A v : JumpIs(s, n, t, v) <=> JumpIs(s, n - 1, t, v)
          /\ s[n].kind # "pcall" => \A v : HandlerIs(s, n, t, v) <=> HandlerIs(s, n - 1, t, v)
          /\ s[n].kind \notin {"hook", "gctm"} => \A v : HooksAre(s, n, t, v) <=> HooksAre(s, n - 1, t, v)
      BY <1>1, <1>4, <1>7, SavedStep
    <3> QED
      BY <1>9, <3>1
  <2>3. /\ f.kind = "pcall" => JumpIs(s, n - 1, t, f.previous) /\ HandlerIs(s, n - 1, t, f.errfunc)
        /\ f.kind = "hook" => HooksAre(s, n - 1, t, TRUE)
        /\ f.kind = "gctm" => HooksAre(s, n - 1, t, f.allowhook)
    BY <1>2 DEF Lies
  <2>4. JumpIs(s, m, t, r.errorJmp)
    BY <1>4, <1>9, <2>1, <2>2, <2>3 DEF Popped
  <2>5. HandlerIs(s, m, t, r.errfunc)
    BY <1>4, <1>9, <2>1, <2>2, <2>3 DEF Popped
  <2>6. HooksAre(s, m, t, r.allowhook)
    <3>1. CASE f.kind \in {"hook", "gctm"}
      BY <1>4, <1>9, <2>3, <3>1 DEF Popped
    <3>2. CASE f.kind \notin {"hook", "gctm"}
      BY <1>4, <1>9, <2>1, <2>2, <3>2 DEF Popped
    <3> QED
      BY <3>1, <3>2
  <2>7. m \in 0 .. m /\ m \in Nat
    BY <1>4
  <2>8. JumpIs(u, m, t, r.errorJmp) /\ HandlerIs(u, m, t, r.errfunc) /\ HooksAre(u, m, t, r.allowhook)
    BY <1>1, <1>6, <2>4, <2>5, <2>6, <2>7, SavedAgree
  <2> QED
    BY <1>6, <2>8 DEF SavedFine
<1>12. DepthUpTo(s)[n] = DepthUpTo(u)[m] + Adds(f) /\ DepthUpTo(u)[m] = DepthUpTo(s)[m] /\ DepthUpTo(u)[m] \in Nat
  <2>1. DepthUpTo(s)[n] = DepthUpTo(s)[n - 1] + Adds(s[n])
    BY <1>1, <1>4, DepthRec
  <2>2. m \in 0 .. m /\ m \in Nat /\ m \in 0 .. Len(u)
    BY <1>4, <1>6
  <2>3. DepthUpTo(u)[m] = DepthUpTo(s)[m]
    BY <1>1, <1>6, <2>2, Agree
  <2>4. DepthUpTo(u)[m] \in Nat
    BY <1>6, <2>2, DepthRec
  <2> QED
    BY <1>4, <1>9, <2>1, <2>3, <2>4
<1>13. \A i \in 1 .. Len(u) : DepthFine(u, i, t, r)
  <2>1. o.nC = DepthUpTo(s)[n]
    BY <1>1, <1>4, <1>7, <1>9 DEF Fine, DepthFine
  <2>2. r.nC = DepthUpTo(s)[m]
    <3>1. o.nC = r.nC + Adds(f) /\ r.nC \in Nat
      BY <1>9 DEF Popped, States
    <3>2. Adds(f) \in Nat
      BY <1>2, AddsType
    <3> QED
      BY <1>12, <2>1, <3>1, <3>2
  <2>3. r.baseC = o.baseC /\ r.entry = o.entry
    BY <1>9 DEF Popped
  <2> QED
    BY <1>1, <1>4, <1>5, <1>7, <2>2, <2>3, DepthsOfCut DEF Fine
<1>14. StatusFine(u, t, r) /\ SizeFine(r)
  BY <1>1, <1>7, <1>9 DEF Fine, StatusFine, Popped
<1>15. Fine(u, t, r)
  BY <1>10, <1>11, <1>13, <1>14 DEF Fine
<1>16. Fits(u, [all EXCEPT ![t] = r])
  <2>1. \A i \in m + 1 .. Len(s) : s[i].th = t
    BY <1>4, <1>7, <1>9
  <2>2. \A i \in m + 1 .. Len(u) : u[i].th = t /\ Lies(u[i], u, i - 1)
    BY <1>4, <1>6
  <2>3. Fits(s, all) /\ m \in Nat \ {0}
    BY <1>4 DEF Steady
  <2> QED
    BY <1>6, <1>15, <2>1, <2>2, <2>3, Change
<1>17. \A x \in Threads : On(u, x) => [all EXCEPT ![t] = r][x].status # "yield"
  <2> SUFFICES ASSUME NEW x \in Threads, On(u, x) PROVE [all EXCEPT ![t] = r][x].status # "yield"
    OBVIOUS
  <2>1. CASE x = t
    BY <1>1, <1>8, <1>9, <2>1 DEF Popped
  <2>2. CASE x # t
    <3>1. On(s, x)
      BY <1>4, <1>6, <2>2 DEF On
    <3> QED
      BY <1>1, <2>2, <3>1 DEF Steady
  <2> QED
    BY <2>1, <2>2
<1>18. /\ Len(s) > 1 /\ Len(u) = Len(s) - 1 /\ \A i \in 1 .. Len(s) - 1 : u[i] = s[i]
       /\ DepthUpTo(s)[Len(s)] = DepthUpTo(u)[Len(s) - 1] + Adds(f)
       /\ DepthUpTo(u)[Len(s) - 1] \in Nat
  BY <1>4, <1>6, <1>9, <1>12
<1> QED
  BY <1>2, <1>6, <1>16, <1>17, <1>18 DEF Steady, u

-----------------------------------------------------------------------------
(* luaD_precall and luaD_call                                              *)
SameBut(r, o) ==
  /\ r.ci = o.ci /\ r.nC = o.nC /\ r.baseC = o.baseC /\ r.status = o.status
  /\ r.filled = o.filled /\ r.entry = o.entry /\ r.errorJmp = o.errorJmp /\ r.errfunc = o.errfunc
  /\ r.allowhook = o.allowhook

LEMMA Resized ==
  ASSUME NEW s, NEW all, Steady(s, all), NEW t \in Threads, NEW r \in States,
         SameBut(r, all[t]), SizeFine(r)
  PROVE  Steady(s, [all EXCEPT ![t] = r])
<1>1. /\ s \in Seq(Activations) /\ s # <<>> /\ all \in [Threads -> States] /\ WellFormed(s)
      /\ Fine(s, t, all[t])
  BY DEF Fits, Steady
<1>2. /\ FramesFine(s, t, r) /\ SavedFine(s, t, r) /\ StatusFine(s, t, r)
  BY <1>1 DEF Fine, SameBut, FramesFine, SavedFine, StatusFine
<1>3. \A i \in 1 .. Len(s) : DepthFine(s, i, t, r)
  BY <1>1 DEF Fine, SameBut, DepthFine, EntryFits
<1>4. Fine(s, t, r)
  BY <1>2, <1>3 DEF Fine
<1>5. /\ Len(s) \in Nat \ {0} /\ Same(s, s, Len(s))
      /\ \A i \in Len(s) + 1 .. Len(s) : s[i].th = t /\ Lies(s[i], s, i - 1)
  BY <1>1 DEF Same
<1>6. Fits(s, [all EXCEPT ![t] = r])
  BY <1>1, <1>4, <1>5, Change DEF Steady
<1>7. \A x \in Threads : On(s, x) => [all EXCEPT ![t] = r][x].status # "yield"
  BY <1>1 DEF Steady, SameBut
<1> QED
  BY <1>6, <1>7 DEF Steady

LEMMA GrowIs ==
  ASSUME NEW r \in States, SizeFine(r)
  PROVE  /\ GrowCI(r) \in States /\ SameBut(GrowCI(r), r) /\ SizeFine(GrowCI(r))
         /\ Len(r.ci) + 1 # r.size \/ r.size <= MaxCalls => Len(r.ci) + 2 <= GrowCI(r).size
<1>1. r.size \in Nat /\ Len(r.ci) \in Nat /\ Len(r.ci) + 1 <= r.size /\ r.size <= 2 * MaxCalls
  BY DEF States, SizeFine
<1>2. CASE Len(r.ci) + 1 < r.size \/ r.size > MaxCalls
  <2>1. GrowCI(r) = r
    BY <1>2 DEF GrowCI
  <2> QED
    BY <1>1, <1>2, <2>1, Limits DEF SameBut
<1>3. CASE ~ (Len(r.ci) + 1 < r.size \/ r.size > MaxCalls)
  <2> DEFINE g == [r EXCEPT !.size = 2 * r.size]
  <2>1. GrowCI(r) = g
    BY <1>3 DEF GrowCI
  <2>2. 2 * r.size \in Nat /\ 2 * r.size <= 2 * MaxCalls /\ Len(r.ci) + 2 <= 2 * r.size
    BY <1>1, <1>3, Limits
  <2>3. g \in States /\ SameBut(g, r) /\ g.size = 2 * r.size /\ g.ci = r.ci
    BY <2>2 DEF States, SameBut
  <2> HIDE DEF g
  <2>4. SizeFine(g)
    BY <1>1, <2>2, <2>3 DEF SizeFine
  <2> QED
    BY <2>1, <2>2, <2>3, <2>4
<1> QED
  BY <1>2, <1>3

(* What luaD_precall adds to the record of the thread                      *)
EnteredBy(r, o, f) ==
  /\ r.ci = o.ci \o <<f>> /\ r.nC = o.nC /\ r.baseC = o.baseC /\ r.status = o.status
  /\ r.filled = o.filled /\ r.entry = o.entry /\ r.errorJmp = o.errorJmp /\ r.errfunc = o.errfunc
  /\ r.allowhook = o.allowhook /\ SizeFine(r)

LEMMA PrecallIs ==
  ASSUME NEW s, NEW all, Steady(s, all), NEW t \in Threads,
         DepthUpTo(s)[Len(s)] < MaxCCalls + ErrRoom,
         NEW f \in {"L", "C"}, NEW entered,
         \A r \in States : EnteredBy(r, all[t], f) =>
           Steady(entered, [all EXCEPT ![t] = r]) /\ ModeFits(entered, "run"),
         NEW o, o = Precall(all[t], s, f, entered)
  PROVE  /\ Steady(o.stack, [all EXCEPT ![t] = o.r]) /\ ModeFits(o.stack, o.m)
<1> DEFINE r == all[t]
           grown == GrowCI(r)
           full == Len(r.ci) + 1 = r.size
<1>1. /\ s \in Seq(Activations) /\ s # <<>> /\ all \in [Threads -> States] /\ r \in States
      /\ SizeFine(r) /\ Fits(s, all)
  BY DEF Fits, Steady, Fine
<1>2. /\ grown \in States /\ SameBut(grown, r) /\ SizeFine(grown)
      /\ ~full \/ r.size <= MaxCalls => Len(r.ci) + 2 <= grown.size
  BY <1>1, GrowIs
<1>3. r.size \in Nat /\ Len(r.ci) \in Nat /\ DepthUpTo(s)[Len(s)] \in Nat
  <2>1. Len(s) \in 0 .. Len(s)
    BY <1>1
  <2>2. DepthUpTo(s)[Len(s)] \in Nat
    BY <1>1, <2>1, DepthRec
  <2>3. r.size \in Nat /\ Len(r.ci) \in Nat
    <3> HIDE DEF r
    <3> QED
      BY <1>1 DEF States
  <2> QED
    BY <2>2, <2>3
<1> HIDE DEF r, grown, full
<1>4. ModeFits(s, "throw") /\ ModeFits(s, "error")
  BY <1>3, Limits DEF ModeFits
<1>5. CASE full /\ r.size > MaxCalls
  <2>1. o = Outcome(r, s, "throw")
    BY <1>5 DEF Precall, r, full
  <2>2. o.r = r /\ o.stack = s /\ o.m = "throw"
    BY <2>1 DEF Outcome
  <2>3. [all EXCEPT ![t] = r] = all
    BY <1>1 DEF r
  <2> QED
    BY <1>4, <2>2, <2>3
<1>6. CASE full /\ ~ (r.size > MaxCalls) /\ grown.size > MaxCalls
  <2>1. o = Outcome(grown, s, "error")
    BY <1>6 DEF Precall, r, full, grown
  <2>2. o.r = grown /\ o.stack = s /\ o.m = "error"
    BY <2>1 DEF Outcome
  <2>3. Steady(s, [all EXCEPT ![t] = grown])
    BY <1>2, Resized DEF r
  <2> QED
    BY <1>4, <2>2, <2>3
<1>7. CASE ~ (full /\ r.size > MaxCalls) /\ ~ (full /\ grown.size > MaxCalls)
  <2> DEFINE new == [grown EXCEPT !.ci = Append(grown.ci, f)]
  <2>1. o = Outcome(new, entered, "run")
    BY <1>7 DEF Precall, r, full, grown
  <2>2. o.r = new /\ o.stack = entered /\ o.m = "run"
    BY <2>1 DEF Outcome
  <2>3. Append(grown.ci, f) \in Seq({"L", "C"}) /\ Len(Append(grown.ci, f)) = Len(r.ci) + 1
        /\ Append(grown.ci, f) = r.ci \o <<f>>
    <3>1. grown.ci = r.ci /\ r.ci \in Seq({"L", "C"})
      BY <1>1, <1>2 DEF States, SameBut
    <3> QED
      BY <3>1
  <2>4. new \in States
    BY <1>2, <2>3 DEF States
  <2>5. /\ new.ci = r.ci \o <<f>> /\ Len(new.ci) = Len(r.ci) + 1 /\ new.size = grown.size
        /\ new.nC = r.nC /\ new.baseC = r.baseC /\ new.status = r.status
        /\ new.filled = r.filled /\ new.entry = r.entry /\ new.errorJmp = r.errorJmp /\ new.errfunc = r.errfunc
        /\ new.allowhook = r.allowhook
    BY <1>2, <2>3 DEF States, SameBut
  <2> HIDE DEF new
  <2>6. SizeFine(new)
    <3>1. Len(r.ci) + 2 <= grown.size
      BY <1>2, <1>3, <1>7, Limits
    <3> QED
      BY <1>2, <1>3, <2>5, <3>1 DEF SizeFine
  <2>7. EnteredBy(new, r, f)
    BY <2>5, <2>6 DEF EnteredBy
  <2> QED
    BY <2>2, <2>4, <2>7 DEF r
<1> QED
  BY <1>5, <1>6, <1>7

(* The case of a new activation                                            *)
LEMMA PrecallPushes ==
  ASSUME NEW s, NEW all, Steady(s, all), NEW t \in Threads,
         DepthUpTo(s)[Len(s)] < MaxCCalls + ErrRoom,
         NEW f \in {"L", "C"}, NEW g, g = Activation(t, f), Lies(g, s, Len(s)),
         EntryFits(g, s[Len(s)], all[t]),
         NEW o, o = Precall(all[t], s, f, Append(s, g))
  PROVE  /\ Steady(o.stack, [all EXCEPT ![t] = o.r]) /\ ModeFits(o.stack, o.m)
<1>1. s \in Seq(Activations) /\ s # <<>> /\ all[t] \in States
  BY DEF Fits, Steady
<1>2. DepthUpTo(s)[Len(s)] \in Nat
  <2>1. Len(s) \in 0 .. Len(s)
    BY <1>1
  <2> QED
    BY <1>1, <2>1, DepthRec
<1>3. /\ g \in Activations /\ g.th = t /\ g.kind \in Code /\ Adds(g) = 0
  BY DEF Activation, Counted, Frame, Activations, Adds, Code
<1>4. Shown(g, t) = <<f>>
  <2>1. CASE f = "L"
    <3>1. g.kind = "exec" /\ g.th = t /\ g.n = 1
      BY <2>1 DEF Activation, Counted
    <3>2. [k \in 1 .. 1 |-> "L"] = <<"L">>
      OBVIOUS
    <3> QED
      BY <2>1, <3>1, <3>2 DEF Shown
  <2>2. CASE f = "C"
    BY <2>2 DEF Activation, Frame, Shown
  <2> QED
    BY <2>1, <2>2
<1>5. g.kind \notin {"host", "resume", "pcall", "hook", "gctm"}
  BY <1>3 DEF Code
<1>6. ASSUME NEW r \in States, EnteredBy(r, all[t], f)
      PROVE  Steady(Append(s, g), [all EXCEPT ![t] = r]) /\ ModeFits(Append(s, g), "run")
  <2>1. Pushed(g, all[t], r, Len(s) + 1)
    <3>1. all[t].nC \in Nat
      BY <1>1 DEF States
    <3> DEFINE old == all[t]
    <3>2. old.nC + Adds(g) = old.nC
      BY <1>3, <3>1
    <3>3. g.kind # "pcall" /\ ~ (g.kind \in {"hook", "gctm"}) /\ g.th = t
      BY <1>3, <1>5
    <3> HIDE DEF old
    <3>4. EnteredBy(r, old, f)
      BY <1>6 DEF old
    <3>5. Pushed(g, old, r, Len(s) + 1)
      BY <1>4, <3>2, <3>3, <3>4 DEF Pushed, EnteredBy
    <3> QED
      BY <3>5 DEF old
  <2>2. /\ Steady(Append(s, g), [all EXCEPT ![t] = r])
        /\ DepthUpTo(Append(s, g))[Len(s) + 1] = DepthUpTo(s)[Len(s)] + Adds(g)
    <3>1. EntryFits(g, s[Len(s)], r)
      BY <1>6 DEF EnteredBy, EntryFits
    <3> QED
      BY <1>3, <1>5, <2>1, <3>1, Push
  <2>3. ModeFits(Append(s, g), "run")
    <3>1. Append(s, g)[Len(Append(s, g))] = g /\ Len(Append(s, g)) = Len(s) + 1
      BY <1>1, <1>3
    <3> QED
      BY <1>2, <1>3, <2>2, <3>1, Limits DEF ModeFits, Code, Calling
  <2> QED
    BY <2>2, <2>3
<1> QED
  BY <1>6, PrecallIs

LEMMA WithDepth ==
  ASSUME NEW r \in States, NEW x \in Nat
  PROVE  LET d == [r EXCEPT !.nC = x]
         IN  /\ d \in States /\ d.nC = x
             /\ d.ci = r.ci /\ d.size = r.size /\ d.baseC = r.baseC /\ d.status = r.status
             /\ d.filled = r.filled /\ d.entry = r.entry /\ d.errorJmp = r.errorJmp /\ d.errfunc = r.errfunc
             /\ d.allowhook = r.allowhook
BY DEF States

LEMMA CallOverIs ==
  ASSUME NEW s, NEW all, Steady(s, all), NEW t \in Threads, s[Len(s)].th = t,
         s[Len(s)].kind \in Calling \cup {"pcall", "hook", "gctm", "handler"},
         DepthUpTo(s)[Len(s)] < MaxCCalls + ErrRoom,
         NEW f \in {"L", "C"}, NEW o, o = CallOver(t, all[t], s, f)
  PROVE  /\ Steady(o.stack, [all EXCEPT ![t] = o.r]) /\ ModeFits(o.stack, o.m)
<1> DEFINE r == all[t]
           c == Frame("call", t)
           deeper == [r EXCEPT !.nC = r.nC + 1]
           stack == Append(s, c)
           g == Activation(t, f)
           mid == [all EXCEPT ![t] = deeper]
           n == Len(s)
<1>1. /\ s \in Seq(Activations) /\ s # <<>> /\ all \in [Threads -> States] /\ r \in States
      /\ Fine(s, t, r) /\ n \in 1 .. Len(s) /\ n \in 0 .. Len(s) /\ n > 0 /\ n \in Nat
  BY DEF Fits, Steady
<1>2. /\ r.nC \in Nat /\ deeper \in States /\ deeper.nC = r.nC + 1
      /\ deeper.ci = r.ci /\ deeper.size = r.size /\ deeper.baseC = r.baseC
      /\ deeper.status = r.status /\ deeper.filled = r.filled /\ deeper.entry = r.entry /\ deeper.errorJmp = r.errorJmp
      /\ deeper.errfunc = r.errfunc /\ deeper.allowhook = r.allowhook
  <2> HIDE DEF r
  <2>1. r.nC \in Nat
    BY <1>1 DEF States
  <2> QED
    BY <1>1, <2>1, WithDepth
<1>3. c \in Activations /\ c.kind = "call" /\ c.th = t /\ Adds(c) = 1 /\ Shown(c, t) = <<>>
  BY DEF Frame, Activations, Adds, Shown
<1>4. CallOver(t, r, s, f) =
        IF deeper.nC = MaxCCalls THEN Outcome(deeper, stack, "error")
        ELSE IF deeper.nC >= MaxCCalls + ErrRoom THEN Outcome(deeper, stack, "throw")
        ELSE Precall(deeper, stack, f, Append(stack, g))
  BY DEF CallOver
<1>5. mid[t] = deeper /\ \A x : [mid EXCEPT ![t] = x] = [all EXCEPT ![t] = x]
  BY <1>1
<1> HIDE DEF r, c, deeper, mid
<1>6. Lies(c, s, n)
  BY <1>1, <1>3 DEF Lies
<1>7. r.nC = DepthUpTo(s)[n]
  BY <1>1 DEF Fine, DepthFine, r
<1>8. Pushed(c, r, deeper, n + 1)
  <2>1. r.ci \o <<>> = r.ci
    BY <1>1 DEF States
  <2>2. SizeFine(deeper)
    BY <1>1, <1>2 DEF Fine, SizeFine
  <2> QED
    BY <1>2, <1>3, <2>1, <2>2 DEF Pushed
<1>9. Steady(stack, mid) /\ DepthUpTo(stack)[n + 1] = deeper.nC
  <2>1. c.kind \notin {"host", "resume"}
    BY <1>3
  <2>2. /\ Steady(stack, mid)
        /\ DepthUpTo(stack)[n + 1] = DepthUpTo(s)[n] + Adds(c)
    <3>1. EntryFits(c, s[Len(s)], deeper)
      BY <1>3 DEF EntryFits
    <3> QED
      BY <1>2, <1>3, <1>6, <1>8, <2>1, <3>1, Push DEF r, mid
  <2> QED
    BY <1>2, <1>3, <1>7, <2>2
<1>10. /\ stack \in Seq(Activations) /\ Len(stack) = n + 1 /\ stack[n + 1] = c
  BY <1>1, <1>3
<1> HIDE DEF stack, n, g
<1>11. r.nC < MaxCCalls + ErrRoom
  BY <1>7 DEF n
<1>12. CASE deeper.nC = MaxCCalls
  <2>1. o.r = deeper /\ o.stack = stack /\ o.m = "error"
    BY <1>4, <1>12 DEF Outcome, r
  <2>2. ModeFits(stack, "error")
    BY <1>2, <1>9, <1>10, <1>12, Limits DEF ModeFits
  <2> QED
    BY <1>9, <2>1, <2>2 DEF mid
<1>13. CASE deeper.nC # MaxCCalls /\ deeper.nC >= MaxCCalls + ErrRoom
  <2>1. o.r = deeper /\ o.stack = stack /\ o.m = "throw"
    BY <1>4, <1>13 DEF Outcome, r
  <2>2. ModeFits(stack, "throw")
    BY <1>2, <1>9, <1>10, <1>11, <1>13, Limits DEF ModeFits
  <2> QED
    BY <1>9, <2>1, <2>2 DEF mid
<1>14. CASE deeper.nC # MaxCCalls /\ ~ (deeper.nC >= MaxCCalls + ErrRoom)
  <2>1. o = Precall(mid[t], stack, f, Append(stack, g))
    BY <1>4, <1>5, <1>14 DEF r
  <2>2. DepthUpTo(stack)[Len(stack)] < MaxCCalls + ErrRoom
    BY <1>2, <1>9, <1>10, <1>14, Limits
  <2>3. Lies(g, stack, Len(stack))
    <3>1. n + 1 > 0 /\ n + 1 # 0
      BY <1>1
    <3>2. /\ g.th = t /\ g.kind \in {"exec", "cfn"} /\ (g.kind = "exec" => g.n > 0)
      BY DEF g, Activation, Counted, Frame
    <3> QED
      BY <1>3, <1>10, <2>2, <3>1, <3>2 DEF Lies
  <2>4. EntryFits(g, stack[Len(stack)], mid[t])
    BY <1>3, <1>10 DEF EntryFits
  <2>5. Steady(o.stack, [mid EXCEPT ![t] = o.r]) /\ ModeFits(o.stack, o.m)
    BY <1>9, <2>1, <2>2, <2>3, <2>4, PrecallPushes DEF g
  <2> QED
    BY <1>5, <2>5
<1> QED
  BY <1>12, <1>13, <1>14

(* What thread t runs below the top of the C stack                         *)
LEMMA TopRuns ==
  ASSUME NEW s, NEW all, Steady(s, all), NEW t \in Threads, s[Len(s)].th = t
  PROVE  /\ all[t].ci = RunUpTo(s, t)[Len(s)]
         /\ all[t].ci = RunUpTo(s, t)[Len(s) - 1] \o Shown(s[Len(s)], t)
         /\ RunUpTo(s, t)[Len(s) - 1] \in Seq({"L", "C"})
         /\ all[t].nC = DepthUpTo(s)[Len(s)]
         /\ DepthUpTo(s)[Len(s)] = DepthUpTo(s)[Len(s) - 1] + Adds(s[Len(s)])
         /\ DepthUpTo(s)[Len(s) - 1] \in Nat
<1>1. /\ s \in Seq(Activations) /\ s # <<>> /\ Fine(s, t, all[t])
  BY DEF Fits, Steady
<1>2. Len(s) \in 1 .. Len(s) /\ Len(s) - 1 \in 0 .. Len(s)
  BY <1>1
<1>3. On(s, t)
  BY <1>2 DEF On
<1>4. all[t].status # "yield"
  BY <1>3 DEF Steady
<1>5. all[t].ci = RunUpTo(s, t)[Len(s)]
  BY <1>1, <1>3, <1>4 DEF Fine, FramesFine
<1>6. /\ RunUpTo(s, t)[Len(s)] = RunUpTo(s, t)[Len(s) - 1] \o Shown(s[Len(s)], t)
      /\ RunUpTo(s, t)[Len(s) - 1] \in Seq({"L", "C"})
  BY <1>1, <1>2, RunRec
<1>7. /\ DepthUpTo(s)[Len(s)] = DepthUpTo(s)[Len(s) - 1] + Adds(s[Len(s)])
      /\ DepthUpTo(s)[Len(s) - 1] \in Nat
  BY <1>1, <1>2, DepthRec
<1>8. all[t].nC = DepthUpTo(s)[Len(s)]
  BY <1>1, <1>2 DEF Fine, DepthFine
<1> QED
  BY <1>5, <1>6, <1>7, <1>8

LEMMA WithFrames ==
  ASSUME NEW r \in States, NEW x \in Nat, NEW y \in Seq({"L", "C"})
  PROVE  LET d == [r EXCEPT !.ci = y, !.nC = x]
         IN  /\ d \in States /\ d.nC = x /\ d.ci = y
             /\ d.size = r.size /\ d.baseC = r.baseC /\ d.status = r.status
             /\ d.filled = r.filled /\ d.entry = r.entry /\ d.errorJmp = r.errorJmp /\ d.errfunc = r.errfunc
             /\ d.allowhook = r.allowhook
BY DEF States

(* luaV_execute and the parser: the count of the top activation changes.   *)
Recounted(s, t, g, o, r) ==
  /\ r.ci = RunUpTo(s, t)[Len(s) - 1] \o Shown(g, t) /\ SizeFine(r)
  /\ r.nC = DepthUpTo(s)[Len(s) - 1] + Adds(g)
  /\ r.baseC = o.baseC /\ r.status = o.status /\ r.filled = o.filled /\ r.entry = o.entry
  /\ r.errorJmp = o.errorJmp /\ r.errfunc = o.errfunc /\ r.allowhook = o.allowhook

LEMMA Recount ==
  ASSUME NEW s, NEW all, Steady(s, all), NEW t \in Threads, s[Len(s)].th = t,
         NEW g \in Activations, g.th = t, g.kind = s[Len(s)].kind,
         g.kind \in {"exec", "parser"}, g.kind = "exec" => g.n > 0,
         NEW r \in States, Recounted(s, t, g, all[t], r), NEW w, w = Append(Front(s), g)
  PROVE  Steady(w, [all EXCEPT ![t] = r])
<1> DEFINE n == Len(s)
           f == s[Len(s)]
           o == all[t]
           x == RunUpTo(s, t)[n - 1]
           d == DepthUpTo(s)[n - 1]
           u == Front(s)
           r0 == [o EXCEPT !.ci = x, !.nC = d]
           mid == [all EXCEPT ![t] = r0]
<1>1. /\ s \in Seq(Activations) /\ s # <<>> /\ all \in [Threads -> States] /\ o \in States
      /\ SizeFine(o) /\ WellFormed(s)
  BY DEF Fits, Steady, Fine
<1>2. /\ o.ci = x \o Shown(f, t) /\ x \in Seq({"L", "C"}) /\ d \in Nat /\ o.nC = d + Adds(f)
  <2>1. s[Len(s)].th = t
    OBVIOUS
  <2>2. /\ all[t].ci = RunUpTo(s, t)[Len(s) - 1] \o Shown(s[Len(s)], t)
        /\ RunUpTo(s, t)[Len(s) - 1] \in Seq({"L", "C"})
        /\ all[t].nC = DepthUpTo(s)[Len(s)]
        /\ DepthUpTo(s)[Len(s)] = DepthUpTo(s)[Len(s) - 1] + Adds(s[Len(s)])
        /\ DepthUpTo(s)[Len(s) - 1] \in Nat
    BY ONLY Steady(s, all), t \in Threads, <2>1, TopRuns
  <2> QED
    BY <2>2
<1>3. n \in 1 .. n /\ n = Len(s) /\ f \in Activations /\ Lies(f, s, n - 1)
  BY <1>1 DEF WellFormed
<1>4. /\ g \in Activations /\ g.kind = f.kind /\ g.th = t /\ (g.kind = "exec" => g.n > 0)
      /\ f.th = t /\ f.kind \in {"exec", "parser"} /\ f = s[n]
  OBVIOUS
<1>5. mid[t] = r0 /\ \A y : [mid EXCEPT ![t] = y] = [all EXCEPT ![t] = y]
  BY <1>1
<1>r. /\ r.ci = x \o Shown(g, t) /\ SizeFine(r) /\ r.nC = d + Adds(g)
      /\ r.baseC = o.baseC /\ r.status = o.status /\ r.filled = o.filled /\ r.entry = o.entry
      /\ r.errorJmp = o.errorJmp /\ r.errfunc = o.errfunc /\ r.allowhook = o.allowhook
  BY DEF Recounted
<1> HIDE DEF n, f, o, x, d, u, mid
<1>6. /\ r0 \in States /\ r0.nC = d /\ r0.ci = x
      /\ r0.size = o.size /\ r0.baseC = o.baseC /\ r0.status = o.status
      /\ r0.filled = o.filled /\ r0.entry = o.entry /\ r0.errorJmp = o.errorJmp /\ r0.errfunc = o.errfunc
      /\ r0.allowhook = o.allowhook
  <2>1. o \in States /\ d \in Nat /\ x \in Seq({"L", "C"})
    BY <1>1, <1>2
  <2> QED
    BY <2>1 DEF States
<1> HIDE DEF r0
<1>7. SizeFine(r0)
  <2>1. Shown(f, t) \in Seq({"L", "C"})
    BY <1>3, ShownType
  <2>2. Len(x) \in Nat /\ Len(Shown(f, t)) \in Nat /\ Len(o.ci) = Len(x) + Len(Shown(f, t))
    BY <1>2, <2>1, CutConcat
  <2>3. o.size \in Nat
    BY <1>1 DEF States
  <2> QED
    BY <1>1, <1>6, <2>2, <2>3 DEF SizeFine
<1>8. Popped(f, o, r0)
  BY <1>2, <1>4, <1>6, <1>7 DEF Popped
<1>9. /\ Steady(u, mid) /\ n > 1 /\ Len(u) = n - 1 /\ u \in Seq(Activations)
      /\ \A i \in 1 .. n - 1 : u[i] = s[i]
      /\ DepthUpTo(s)[n] = DepthUpTo(u)[n - 1] + Adds(f)
      /\ DepthUpTo(u)[n - 1] \in Nat
  <2>1. f.kind \notin {"host", "resume"} /\ Popped(f, all[t], r0) /\ f = s[Len(s)] /\ f.th = t
    BY <1>4, <1>8 DEF o, n
  <2> QED
    BY <1>6, <2>1, PopTop DEF n, u, mid
<1>10. DepthUpTo(s)[n] = d + Adds(f) /\ Adds(f) \in Nat
  <2>1. Adds(f) \in Nat
    BY <1>3, AddsType
  <2> QED
    BY <1>4, <2>1, TopRuns DEF n, d
<1>11. DepthUpTo(u)[n - 1] = d
  BY <1>2, <1>9, <1>10
<1>12. Lies(g, u, n - 1)
  <2>1. n - 1 > 0 /\ n - 1 # 0 /\ n - 1 \in 1 .. n - 1 /\ n - 1 \in Nat
    BY <1>3, <1>9
  <2>2. u[n - 1] = s[n - 1]
    BY <1>9, <2>1
  <2>3. d < MaxCCalls + ErrRoom /\ s[n - 1].th = t
    BY <1>3, <1>4, <2>1 DEF Lies, d
  <2>4. /\ f.kind = "exec" => s[n - 1].kind \in {"call", "resume"}
        /\ f.kind = "parser" => s[n - 1].kind = "pcall"
    BY <1>3 DEF Lies
  <2> QED
    BY <1>4, <1>11, <2>1, <2>2, <2>3, <2>4 DEF Lies
<1>13. Pushed(g, r0, r, (n - 1) + 1)
  <2>1. g.kind # "pcall" /\ ~ (g.kind \in {"hook", "gctm"})
    BY <1>4
  <2> QED
    BY <1>4, <1>6, <1>r, <2>1 DEF Pushed
<1>14. /\ Steady(Append(u, g), [mid EXCEPT ![t] = r])
       /\ DepthUpTo(Append(u, g))[(n - 1) + 1] = DepthUpTo(u)[n - 1] + Adds(g)
  <2>1. g.kind \notin {"host", "resume"}
    BY <1>4
  <2> QED
    <3>1. /\ Pushed(g, mid[t], r, Len(u) + 1) /\ Lies(g, u, Len(u))
          /\ g \in Activations /\ g.th = t
      BY <1>4, <1>5, <1>9, <1>12, <1>13
    <3>2. EntryFits(g, u[Len(u)], r)
      BY <1>4 DEF EntryFits
    <3>3. /\ Steady(Append(u, g), [mid EXCEPT ![t] = r])
          /\ DepthUpTo(Append(u, g))[Len(u) + 1] = DepthUpTo(u)[Len(u)] + Adds(g)
      BY <1>9, <2>1, <3>1, <3>2, Push
    <3> QED
      BY <1>9, <3>3
<1>15. (n - 1) + 1 = n /\ n = Len(s) /\ u = Front(s)
  BY <1>3 DEF u
<1> QED
  BY <1>5, <1>14, <1>15

LEMMA RecountedTop ==
  ASSUME NEW s \in Seq(Activations), Len(s) > 1, NEW g \in Activations,
         NEW w, w = Append(Front(s), g)
  PROVE  /\ Len(w) = Len(s) /\ w[Len(s)] = g
         /\ DepthUpTo(w)[Len(s)] = DepthUpTo(s)[Len(s) - 1] + Adds(g)
<1> DEFINE n == Len(s)
           m == n - 1
<1>1. n \in Nat /\ m \in Nat /\ m \in 1 .. Len(s) /\ m + 1 = n /\ n - 1 = m
  OBVIOUS
<1>2. Front(s) = SubSeq(s, 1, m)
  BY DEF Front
<1> HIDE DEF n, m
<1>3. Front(s) \in Seq(Activations) /\ Len(Front(s)) = m /\ \A i \in 1 .. m : Front(s)[i] = s[i]
  BY <1>1, <1>2, CutIs
<1>4. w \in Seq(Activations) /\ Len(w) = n /\ w[n] = g /\ \A i \in 1 .. m : w[i] = s[i]
  BY <1>1, <1>3
<1>5. Same(s, w, m)
  BY <1>1, <1>4 DEF Same, n
<1>6. m \in 0 .. m /\ n \in 1 .. Len(w)
  BY <1>1, <1>4
<1>7. DepthUpTo(w)[m] = DepthUpTo(s)[m]
  BY <1>1, <1>4, <1>5, <1>6, Agree
<1>8. DepthUpTo(w)[n] = DepthUpTo(w)[n - 1] + Adds(w[n])
  BY <1>4, <1>6, DepthRec
<1>9. DepthUpTo(w)[n] = DepthUpTo(s)[n - 1] + Adds(g)
  BY <1>1, <1>4, <1>7, <1>8
<1> QED
  BY <1>4, <1>9 DEF n
=============================================================================
