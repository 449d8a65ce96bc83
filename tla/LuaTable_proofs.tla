--------------------------- MODULE LuaTable_proofs ---------------------------
(* Theorems about LuaTable, and their proofs.  A table is sound when its   *)
(* nodes lie on chains that do not meet (Laid), the key of every node is   *)
(* on the chain of its main position and only the first node with a key    *)
(* can be alive (Ordered).  luaH_set keeps that (PutIs); a resize puts in  *)
(* every value again and does not run out of nodes when as many were asked *)
(* for (ResizeIs); and rehash asks for as many, because what it counts is  *)
(* the number of keys with a value (RehashSizes).                          *)
EXTENDS LuaTable, FunctionTheorems, FiniteSetTheorems, WellFoundedInduction, TLAPS
-----------------------------------------------------------------------------
LEMMA Limits ==
  /\ Ints \subseteq Keys /\ Ints \subseteq Int /\ Strings \subseteq Keys
  /\ \A k \in Keys : k \in Int <=> k \in Ints
  /\ Nil \notin Keys /\ \A k \in Keys : Nil \notin Values[k]
  /\ Hash \in [Keys -> Nat] /\ MaxBits \in Nat /\ MaxInt \in Nat /\ MaxInt > 0
  /\ IsFiniteSet(Keys) /\ Cardinality(Keys) <= TwoTo[MaxBits]
BY KeysAssumption DEF Keys, Collectable

LEMMA SmallestIs ==
  ASSUME NEW S \in SUBSET Nat, S # {}
  PROVE  \E k \in S : \A m \in S : k <= m
<1> DEFINE R == OpToRel(<, Nat)
<1>1. IsWellFoundedOn(R, Nat)
  BY NatLessThanWellFounded, Zenon
<1>2. \A m, k \in Nat : m < k => <<m, k>> \in R
  BY Zenon DEF OpToRel
<1> HIDE DEF R
<1>3. PICK k \in S : \A m \in S : ~ (<<m, k>> \in R)
  BY <1>1, WFMin
<1>4. \A m \in S : ~ (m < k) /\ m \in Nat /\ k \in Nat
  BY <1>2, <1>3
<1>5. \A m \in S : k <= m
  BY <1>4
<1> QED
  BY <1>5

(* Induction over the set of the numbers for which something holds         *)
LEMMA Upwards ==
  ASSUME NEW m \in Nat, NEW n \in Nat, NEW P,
         m \in P, \A i \in m + 1 .. n : i - 1 \in P => i \in P
  PROVE  \A i \in m .. n : i \in P
<1> DEFINE S == {i \in m .. n : i \notin P}
<1> SUFFICES ASSUME S # {} PROVE FALSE
  OBVIOUS
<1>1. PICK k \in S : \A i \in S : k <= i
  <2>1. S \in SUBSET Nat
    OBVIOUS
  <2> HIDE DEF S
  <2> QED
    BY <2>1, SmallestIs
<1>2. k \in m + 1 .. n /\ k - 1 \in m .. n /\ ~ (k <= k - 1)
  BY <1>1
<1>3. k - 1 \in P
  BY <1>1, <1>2
<1> QED
  BY <1>1, <1>2, <1>3

(* Functions defined step by step exist and have their type.               *)
Steps(d, b, g, n) == d[0] = b /\ \A i \in 1 .. n : d[i] = g[<<i, d[i - 1]>>]
StepsIn(S, d, b, g, n) ==
  d[0] = b /\ \A i \in 1 .. n : d[i - 1] \in S => d[i] = g[<<i, d[i - 1]>>]

LEMMA Iterated ==
  ASSUME NEW n \in Nat, NEW S, NEW b \in S, NEW g \in [(1 .. n) \X S -> S]
  PROVE  \E d \in [0 .. n -> S] : Steps(d, b, g, n)
<1> DEFINE P == {k \in Nat : \E d \in [0 .. k -> S] : Steps(d, b, g, k)}
<1>1. 0 \in P
  <2>1. [i \in 0 .. 0 |-> b] \in [0 .. 0 -> S] /\ Steps([i \in 0 .. 0 |-> b], b, g, 0)
    BY DEF Steps
  <2> QED
    BY <2>1
<1>2. ASSUME NEW k \in 0 + 1 .. n, k - 1 \in P PROVE k \in P
  <2>1. PICK d \in [0 .. k - 1 -> S] : Steps(d, b, g, k - 1)
    BY <1>2
  <2>2. d[k - 1] \in S /\ g[<<k, d[k - 1]>>] \in S
    OBVIOUS
  <2> DEFINE e == [i \in 0 .. k |-> IF i < k THEN d[i] ELSE g[<<k, d[k - 1]>>]]
  <2>3. e \in [0 .. k -> S]
    BY <2>2
  <2>4. e[0] = b
    BY <2>1 DEF Steps
  <2>5. ASSUME NEW i \in 1 .. k PROVE e[i] = g[<<i, e[i - 1]>>]
    <3>1. CASE i < k
      <4>1. e[i] = d[i] /\ e[i - 1] = d[i - 1] /\ i \in 1 .. k - 1
        BY <3>1
      <4> QED
        BY <2>1, <4>1 DEF Steps
    <3>2. CASE i = k
      <4>1. e[i] = g[<<k, d[k - 1]>>] /\ e[i - 1] = d[k - 1]
        BY <3>2
      <4> QED
        BY <3>2, <4>1
    <3> QED
      BY <3>1, <3>2
  <2> HIDE DEF e
  <2> QED
    BY <2>3, <2>4, <2>5 DEF Steps
<1> HIDE DEF P
<1>3. \A i \in 0 .. n : i \in P
  BY <1>1, <1>2, Upwards
<1>4. n \in P
  BY <1>3
<1> QED
  BY <1>4 DEF P

LEMMA IteratedType ==
  ASSUME NEW n \in Nat, NEW S, NEW b \in S, NEW g \in [(1 .. n) \X S -> S],
         NEW e, StepsIn(S, e, b, g, n)
  PROVE  \A i \in 0 .. n : e[i] \in S
<1> DEFINE Q == {i \in Nat : e[i] \in S}
<1>1. 0 \in Q
  BY DEF StepsIn
<1>2. ASSUME NEW i \in 0 + 1 .. n, i - 1 \in Q PROVE i \in Q
  <2>1. i \in 1 .. n /\ e[i - 1] \in S
    BY <1>2
  <2>2. g[<<i, e[i - 1]>>] \in S
    BY <2>1
  <2> QED
    BY <2>1, <2>2 DEF StepsIn
<1>3. \A i \in 0 .. n : i \in Q
  <2> HIDE DEF Q
  <2> QED
    BY <1>1, <1>2, Upwards
<1> QED
  BY <1>3

LEMMA MinIs ==
  ASSUME NEW S \in SUBSET Nat, S # {}
  PROVE  Min(S) \in S /\ \A m \in S : Min(S) <= m
<1>1. \E k \in S : \A m \in S : k <= m
  BY SmallestIs
<1> QED
  BY <1>1, Zenon DEF Min

LEMMA MaxIs ==
  ASSUME NEW n \in Nat, NEW S \in SUBSET (0 .. n), S # {}
  PROVE  Max(S) \in S /\ \A m \in S : m <= Max(S)
<1> DEFINE R == {k \in Nat : n - k \in S}
<1>1. R \in SUBSET Nat /\ R # {}
  <2>1. PICK m \in S : TRUE
    OBVIOUS
  <2>2. n - m \in Nat /\ n - (n - m) = m
    OBVIOUS
  <2>3. n - m \in R
    BY <2>2
  <2> QED
    BY <2>3
<1>2. PICK k \in R : \A m \in R : k <= m
  <2> HIDE DEF R
  <2> QED
    BY <1>1, SmallestIs
<1> DEFINE x == n - k
<1>3. x \in S /\ k = n - x
  BY <1>2
<1>4. \A m \in S : x >= m
  <2> SUFFICES ASSUME NEW m \in S PROVE x >= m
    OBVIOUS
  <2>1. m \in 0 .. n /\ n - m \in Nat /\ n - (n - m) = m
    OBVIOUS
  <2>2. k <= n - m
    BY <1>2, <2>1
  <2> QED
    BY <2>1, <2>2
<1> HIDE DEF x
<1>5. Max(S) \in S /\ \A m \in S : Max(S) >= m
  BY <1>3, <1>4, Zenon DEF Max
<1> QED
  BY <1>5

LEMMA TwoToRec ==
  /\ TwoTo \in [0 .. MaxBits -> Nat]
  /\ TwoTo[0] = 1
  /\ \A i \in 1 .. MaxBits : TwoTo[i] = 2 * TwoTo[i - 1]
<1> DEFINE n == MaxBits
           D == TwoTo
           g == [p \in (1 .. n) \X Nat |-> 2 * p[2]]
<1>1. n \in Nat
  BY Limits
<1>2. g \in [(1 .. n) \X Nat -> Nat]
  OBVIOUS
<1>3. \A i \in 1 .. n, x \in Nat : g[<<i, x>>] = 2 * x
  OBVIOUS
<1> HIDE DEF n, g
<1>4. PICK d \in [0 .. n -> Nat] : Steps(d, 1, g, n)
  <2>1. 1 \in Nat
    OBVIOUS
  <2> QED
    BY <1>1, <1>2, <2>1, Iterated, Zenon
<1>5. ASSUME NEW i \in 1 .. n PROVE d[i] = 2 * d[i - 1]
  <2>1. d[i - 1] \in Nat
    BY <1>1
  <2> QED
    BY <1>3, <1>4, <2>1 DEF Steps
<1>6. d = [i \in 0 .. n |-> IF i = 0 THEN 1 ELSE 2 * d[i - 1]]
  BY <1>1, <1>4, <1>5 DEF Steps
<1>7. D = [i \in 0 .. n |-> IF i = 0 THEN 1 ELSE 2 * D[i - 1]]
  BY <1>6 DEF TwoTo, n
<1> HIDE DEF D
<1>8. D[0] = 1 /\ \A i \in 1 .. n : D[i] = 2 * D[i - 1]
  BY <1>1, <1>7
<1>9. StepsIn(Nat, D, 1, g, n)
  BY <1>3, <1>8 DEF StepsIn
<1>10. \A i \in 0 .. n : D[i] \in Nat
  BY <1>1, <1>2, <1>9, IteratedType
<1>11. D \in [0 .. n -> Nat]
  <2>1. D = [i \in 0 .. n |-> D[i]]
    BY <1>7
  <2> QED
    BY <1>10, <2>1
<1> QED
  BY <1>8, <1>11 DEF D, n

LEMMA TwoToGrows ==
  ASSUME NEW i \in 0 .. MaxBits, NEW j \in i .. MaxBits
  PROVE  TwoTo[i] \in Nat /\ TwoTo[j] \in Nat /\ 0 < TwoTo[i] /\ TwoTo[i] <= TwoTo[j]
<1> DEFINE P == {k \in 0 .. MaxBits : 0 < TwoTo[k]}
           Q == {k \in i .. MaxBits : TwoTo[i] <= TwoTo[k]}
<1>0. MaxBits \in Nat
  BY Limits
<1>1. \A k \in 0 .. MaxBits : k \in P
  <2>1. 0 \in P
    BY <1>0, TwoToRec
  <2>2. \A k \in 0 + 1 .. MaxBits : k - 1 \in P => k \in P
    BY <1>0, TwoToRec
  <2> HIDE DEF P
  <2> QED
    BY <1>0, <2>1, <2>2, Upwards
<1>2. \A k \in i .. MaxBits : k \in Q
  <2>1. i \in Q
    BY <1>0, TwoToRec
  <2>2. \A k \in i + 1 .. MaxBits : k - 1 \in Q => k \in Q
    <3> SUFFICES ASSUME NEW k \in i + 1 .. MaxBits, k - 1 \in Q PROVE k \in Q
      OBVIOUS
    <3>1. TwoTo[k] = 2 * TwoTo[k - 1] /\ TwoTo[k - 1] \in Nat /\ TwoTo[k] \in Nat /\ TwoTo[i] \in Nat
      BY <1>0, TwoToRec
    <3> QED
      BY <1>0, <3>1
  <2> HIDE DEF Q
  <2> QED
    BY <1>0, <2>1, <2>2, Upwards
<1> QED
  BY <1>0, <1>1, <1>2, TwoToRec

-----------------------------------------------------------------------------
(* Tables with a node vector of n nodes, and chains                        *)
Stored == (UNION {Values[k] : k \in Keys}) \cup {Nil}

Vectors(n) ==
  [0 .. n - 1 -> [key : Keys \cup {Nil}, dead : BOOLEAN, val : Stored, next : -1 .. n - 1]]

Shaped(tb, n) ==
  n \in Nat /\ tb \in [array : Seq(Stored), node : Vectors(n), lastfree : -1 .. n]

LEMMA NodesFinite ==
  ASSUME NEW n \in Nat
  PROVE  IsFiniteSet(0 .. n - 1) /\ Cardinality(0 .. n - 1) = n
<1>1. IsFiniteSet(0 .. n - 1)
  BY FS_Interval
<1>2. Cardinality(0 .. n - 1) = n
  BY FS_Interval
<1> QED
  BY <1>1, <1>2

LEMMA SizeIs ==
  ASSUME NEW tb, NEW n, Shaped(tb, n)
  PROVE  SizeNode(tb) = n /\ DOMAIN tb.node = 0 .. n - 1 /\ n \in Nat
<1>1. DOMAIN tb.node = 0 .. n - 1 /\ n \in Nat
  BY DEF Shaped, Vectors
<1>2. Cardinality(0 .. n - 1) = n
  BY <1>1, NodesFinite
<1> QED
  BY <1>1, <1>2 DEF SizeNode

LEMMA NodeType ==
  ASSUME NEW tb, NEW n, Shaped(tb, n), NEW i \in 0 .. n - 1
  PROVE  /\ tb.node[i].key \in Keys \cup {Nil} /\ tb.node[i].dead \in BOOLEAN
         /\ tb.node[i].val \in Stored /\ tb.node[i].next \in -1 .. n - 1
BY DEF Shaped, Vectors

(* F is the search for S, in chains of any length up to n.                 *)
Follows(tb, n, S, F) ==
  \A m \in 0 .. n, j \in 0 .. n - 1 :
    F[m][j] = IF j \in S THEN j
              ELSE IF m = 0 \/ tb.node[j].next = -1 THEN -1
              ELSE F[m - 1][tb.node[j].next]

LEMMA SearchRec ==
  ASSUME NEW tb, NEW n, Shaped(tb, n), NEW S
  PROVE  \E F : Follows(tb, n, S, F) /\ \A i \in 0 .. n - 1 : Search(tb, i, S) = F[n][i]
<1> DEFINE D == 0 .. n - 1
           T == [D -> -1 .. n - 1]
           b == [j \in D |-> IF j \in S THEN j ELSE -1]
           Nx(j) == tb.node[j].next
           h(f) == [j \in D |-> IF j \in S THEN j ELSE IF Nx(j) = -1 THEN -1 ELSE f[Nx(j)]]
           g == [p \in (1 .. n) \X T |-> h(p[2])]
           Found == CHOOSE F : F = [m \in 0 .. n |-> [j \in D |->
                      IF j \in S THEN j ELSE IF m = 0 \/ Nx(j) = -1 THEN -1 ELSE F[m - 1][Nx(j)]]]
<1>0. n \in Nat
  BY SizeIs
<1>1. \A j \in D : Nx(j) \in -1 .. n - 1
  BY NodeType
<1>a. \A i \in D : Search(tb, i, S) = Found[n][i]
  <2>1. SizeNode(tb) = n /\ DOMAIN tb.node = D
    BY SizeIs
  <2> QED
    BY <2>1 DEF Search
<1> HIDE DEF Nx
<1>2. b \in T
  BY <1>0
<1>3. \A f \in T : h(f) \in T
  <2> SUFFICES ASSUME NEW f \in T PROVE h(f) \in T
    OBVIOUS
  <2>1. \A j \in D : (IF j \in S THEN j ELSE IF Nx(j) = -1 THEN -1 ELSE f[Nx(j)]) \in -1 .. n - 1
    BY <1>0, <1>1
  <2> QED
    BY <2>1
<1>4. g \in [(1 .. n) \X T -> T]
  BY <1>3
<1>5. \A i \in 1 .. n, f \in T : g[<<i, f>>] = h(f)
  BY Zenon
<1> HIDE DEF T, g
<1>6. PICK d \in [0 .. n -> T] : Steps(d, b, g, n)
  BY <1>0, <1>2, <1>4, Iterated, Zenon
<1>7. ASSUME NEW i \in 1 .. n PROVE d[i] = h(d[i - 1])
  <2>1. d[i - 1] \in T
    BY <1>0
  <2> HIDE DEF h
  <2> QED
    BY <1>5, <1>6, <2>1 DEF Steps
<1>8. d[0] = b
  BY <1>6 DEF Steps
<1> DEFINE Body(F, m) == [j \in D |->
             IF j \in S THEN j ELSE IF m = 0 \/ Nx(j) = -1 THEN -1 ELSE F[m - 1][Nx(j)]]
<1>9. ASSUME NEW m \in 0 .. n PROVE d[m] = Body(d, m)
  <2>1. CASE m = 0
    BY <1>8, <2>1
  <2>2. CASE m # 0
    <3>1. m \in 1 .. n
      BY <1>0, <2>2
    <3> QED
      BY <1>7, <2>2, <3>1
  <2> QED
    BY <2>1, <2>2
<1>10. d = [m \in 0 .. n |-> Body(d, m)]
  <2>1. d = [m \in 0 .. n |-> d[m]]
    OBVIOUS
  <2> HIDE DEF Body
  <2> QED
    BY <1>9, <2>1
<1>11. Found = [m \in 0 .. n |-> Body(Found, m)]
  BY <1>10, Zenon
<1> HIDE DEF Found
<1>12. \A m \in 0 .. n, j \in D : Found[m][j] = IF j \in S THEN j
              ELSE IF m = 0 \/ Nx(j) = -1 THEN -1
              ELSE Found[m - 1][Nx(j)]
  <2> SUFFICES ASSUME NEW m \in 0 .. n, NEW j \in D
               PROVE Found[m][j] = IF j \in S THEN j
                  ELSE IF m = 0 \/ Nx(j) = -1 THEN -1
                  ELSE Found[m - 1][Nx(j)]
    OBVIOUS
  <2>1. Found[m] = Body(Found, m)
    <3> HIDE DEF Body
    <3> QED
      BY <1>11, Zenon
  <2>2. Body(Found, m)[j] = IF j \in S THEN j
                  ELSE IF m = 0 \/ Nx(j) = -1 THEN -1
                  ELSE Found[m - 1][Nx(j)]
    BY Zenon
  <2> QED
    BY <2>1, <2>2, Zenon
<1>13. Follows(tb, n, S, Found)
  BY <1>12 DEF Follows, Nx
<1> QED
  BY <1>a, <1>13

(* Every node i is on the path p[i], d[i] steps from its end.              *)
Laid(tb, n, p, d) ==
  /\ p \in [0 .. n - 1 -> Nat] /\ d \in [0 .. n - 1 -> Nat]
  /\ \A i \in 0 .. n - 1 :
       /\ tb.node[i].next = -1 <=> d[i] = 0
       /\ tb.node[i].next # -1 =>
            p[tb.node[i].next] = p[i] /\ d[tb.node[i].next] = d[i] - 1
  /\ \A i, j \in 0 .. n - 1 : p[i] = p[j] /\ d[i] = d[j] => i = j

(* The chain from i leads to j.                                            *)
Leads(p, d, i, j) == p[i] = p[j] /\ d[j] <= d[i]

LEMMA Below ==
  ASSUME NEW tb, NEW n, Shaped(tb, n), NEW p, NEW d, Laid(tb, n, p, d),
         NEW i \in 0 .. n - 1, NEW e \in 0 .. d[i]
  PROVE  \E j \in 0 .. n - 1 : p[j] = p[i] /\ d[j] = e
<1> DEFINE P == {m \in 0 .. d[i] : \E j \in 0 .. n - 1 : p[j] = p[i] /\ d[j] = d[i] - m}
<1>1. d[i] \in Nat
  BY DEF Laid
<1>2. 0 \in P
  BY <1>1
<1>3. ASSUME NEW m \in 0 + 1 .. d[i], m - 1 \in P PROVE m \in P
  <2>1. PICK j \in 0 .. n - 1 : p[j] = p[i] /\ d[j] = d[i] - (m - 1)
    BY <1>3
  <2>2. d[j] # 0 /\ tb.node[j].next \in -1 .. n - 1
    BY <1>1, <2>1, NodeType
  <2>3. tb.node[j].next \in 0 .. n - 1 /\ p[tb.node[j].next] = p[j] /\ d[tb.node[j].next] = d[j] - 1
    BY <2>2 DEF Laid
  <2>4. d[j] - 1 = d[i] - m
    BY <1>1, <2>1
  <2> QED
    BY <1>1, <2>1, <2>3, <2>4
<1>4. \A m \in 0 .. d[i] : m \in P
  <2> HIDE DEF P
  <2> QED
    BY <1>1, <1>2, <1>3, Upwards
<1>5. d[i] - e \in 0 .. d[i] /\ d[i] - (d[i] - e) = e
  BY <1>1
<1> QED
  BY <1>4, <1>5

LEMMA Short ==
  ASSUME NEW tb, NEW n, Shaped(tb, n), NEW p, NEW d, Laid(tb, n, p, d), NEW i \in 0 .. n - 1
  PROVE  d[i] \in Nat /\ d[i] < n
<1> DEFINE f == [e \in 0 .. d[i] |-> CHOOSE j \in 0 .. n - 1 : p[j] = p[i] /\ d[j] = e]
<1>1. d[i] \in Nat /\ n \in Nat
  BY SizeIs DEF Laid
<1>2. \A e \in 0 .. d[i] : f[e] \in 0 .. n - 1 /\ d[f[e]] = e
  <2> SUFFICES ASSUME NEW e \in 0 .. d[i] PROVE f[e] \in 0 .. n - 1 /\ d[f[e]] = e
    OBVIOUS
  <2>1. \E j \in 0 .. n - 1 : p[j] = p[i] /\ d[j] = e
    BY Below
  <2> QED
    BY <2>1
<1>3. f \in Injection(0 .. d[i], 0 .. n - 1)
  <2>1. f \in [0 .. d[i] -> 0 .. n - 1]
    BY <1>2
  <2>2. \A a, b \in 0 .. d[i] : f[a] = f[b] => a = b
    BY <1>2
  <2> HIDE DEF f
  <2> QED
    BY <2>1, <2>2, Fun_IsInj
<1>4. Cardinality(0 .. d[i]) = d[i] + 1 /\ Cardinality(0 .. n - 1) = n /\ IsFiniteSet(0 .. n - 1)
  <2> DEFINE e == d[i]
  <2>1. e \in Nat
    BY <1>1
  <2> HIDE DEF e
  <2>2. Cardinality(0 .. e) = e + 1
    BY <2>1, FS_Interval
  <2>3. IsFiniteSet(0 .. n - 1) /\ Cardinality(0 .. n - 1) = n
    BY <1>1, NodesFinite
  <2> QED
    BY <2>2, <2>3 DEF e
<1>5. Cardinality(0 .. d[i]) <= Cardinality(0 .. n - 1)
  <2> HIDE DEF f
  <2> QED
    BY <1>3, <1>4, FS_Injection
<1> QED
  BY <1>1, <1>4, <1>5

(* r is the first of S on the chain from i.                                *)
FirstIs(n, p, d, i, S, r) ==
  \/ r = -1 /\ \A j \in 0 .. n - 1 : j \in S => ~ Leads(p, d, i, j)
  \/ /\ r \in 0 .. n - 1 /\ r \in S /\ Leads(p, d, i, r)
     /\ \A j \in 0 .. n - 1 : j \in S /\ Leads(p, d, i, j) => d[j] <= d[r]

LEMMA SearchIs ==
  ASSUME NEW tb, NEW n, Shaped(tb, n), NEW p, NEW d, Laid(tb, n, p, d), NEW S,
         NEW i \in 0 .. n - 1
  PROVE  FirstIs(n, p, d, i, S, Search(tb, i, S))
<1> DEFINE D == 0 .. n - 1
<1>0. n \in Nat /\ p \in [D -> Nat] /\ d \in [D -> Nat]
  BY SizeIs DEF Laid
<1>1. PICK F : Follows(tb, n, S, F) /\ \A j \in D : Search(tb, j, S) = F[n][j]
  BY SearchRec
<1>2. ASSUME NEW j \in D, j \in S PROVE FirstIs(n, p, d, j, S, j)
  BY <1>0, <1>2 DEF FirstIs, Leads
<1>3. ASSUME NEW j \in D, j \notin S, tb.node[j].next = -1 PROVE FirstIs(n, p, d, j, S, -1)
  <2> SUFFICES ASSUME NEW x \in D, x \in S, Leads(p, d, j, x) PROVE FALSE
    BY DEF FirstIs
  <2>1. d[j] = 0 /\ d[x] \in Nat /\ d[x] <= d[j] /\ p[j] = p[x]
    BY <1>0, <1>3 DEF Laid, Leads
  <2> QED
    BY <1>3, <2>1 DEF Laid
<1>4. ASSUME NEW j \in D, j \notin S, tb.node[j].next # -1, NEW r,
             FirstIs(n, p, d, tb.node[j].next, S, r)
      PROVE  FirstIs(n, p, d, j, S, r)
  <2> DEFINE k == tb.node[j].next
  <2>1. k \in D /\ p[k] = p[j] /\ d[k] = d[j] - 1
    <3>1. k \in -1 .. n - 1
      BY NodeType
    <3>2. p[k] = p[j] /\ d[k] = d[j] - 1
      BY <1>4 DEF Laid
    <3>3. k # -1
      BY <1>4
    <3> HIDE DEF k
    <3>4. k \in D
      BY <1>0, <3>1, <3>3
    <3> QED
      BY <3>2, <3>4
  <2> HIDE DEF k
  <2>2. ASSUME NEW x \in D, x \in S, Leads(p, d, j, x) PROVE Leads(p, d, k, x)
    <3>1. d[x] # d[j]
      BY <1>4, <2>2 DEF Laid, Leads
    <3> QED
      BY <1>0, <2>1, <2>2, <3>1 DEF Leads
  <2>3. ASSUME NEW x \in D, Leads(p, d, k, x) PROVE Leads(p, d, j, x)
    BY <1>0, <2>1, <2>3 DEF Leads
  <2>4. FirstIs(n, p, d, k, S, r)
    BY <1>4 DEF k
  <2> QED
    BY <2>2, <2>3, <2>4 DEF FirstIs
<1> DEFINE P == {m \in 0 .. n : \A j \in D : d[j] <= m => FirstIs(n, p, d, j, S, F[m][j])}
<1>5. 0 \in P
  <2> SUFFICES ASSUME NEW j \in D, d[j] <= 0 PROVE FirstIs(n, p, d, j, S, F[0][j])
    BY <1>0
  <2>1. 0 \in 0 .. n /\ F[0][j] = IF j \in S THEN j ELSE -1
    BY <1>0, <1>1 DEF Follows
  <2>2. tb.node[j].next = -1
    BY <1>0 DEF Laid
  <2> QED
    BY <1>2, <1>3, <2>1, <2>2
<1>6. ASSUME NEW m \in 0 + 1 .. n, m - 1 \in P PROVE m \in P
  <2> SUFFICES ASSUME NEW j \in D, d[j] <= m PROVE FirstIs(n, p, d, j, S, F[m][j])
    BY <1>0
  <2>1. /\ m \in 0 .. n /\ m # 0
        /\ F[m][j] = IF j \in S THEN j ELSE IF tb.node[j].next = -1 THEN -1
                     ELSE F[m - 1][tb.node[j].next]
    BY <1>0, <1>1 DEF Follows
  <2>2. CASE j \notin S /\ tb.node[j].next # -1
    <3>0. tb.node[j].next \in -1 .. n - 1 /\ d[tb.node[j].next] = d[j] - 1
      BY <2>2, NodeType DEF Laid
    <3>1. tb.node[j].next \in D /\ d[tb.node[j].next] <= m - 1
      <4> DEFINE x == tb.node[j].next
      <4>1. x \in -1 .. n - 1 /\ x # -1 /\ d[x] = d[j] - 1
        BY <2>2, <3>0
      <4>2. d[j] \in Nat /\ m \in Nat /\ d[j] <= m
        BY <1>0
      <4> HIDE DEF x
      <4>3. x \in D /\ d[x] <= m - 1
        BY <1>0, <4>1, <4>2
      <4> QED
        BY <4>3 DEF x
    <3>2. FirstIs(n, p, d, tb.node[j].next, S, F[m - 1][tb.node[j].next])
      BY <1>6, <3>1
    <3> QED
      BY <1>4, <2>1, <2>2, <3>2
  <2> QED
    BY <1>2, <1>3, <2>1, <2>2
<1>7. \A m \in 0 .. n : m \in P
  <2> HIDE DEF P
  <2> QED
    BY <1>0, <1>5, <1>6, Upwards
<1>8. d[i] <= n /\ n \in 0 .. n
  <2>1. d[i] \in Nat /\ d[i] < n
    BY Short
  <2> QED
    BY <1>0, <2>1
<1> QED
  BY <1>1, <1>7, <1>8

LEMMA FirstUnique ==
  ASSUME NEW tb, NEW n, Shaped(tb, n), NEW p, NEW d, Laid(tb, n, p, d), NEW S, NEW i,
         NEW r, FirstIs(n, p, d, i, S, r), NEW q, FirstIs(n, p, d, i, S, q)
  PROVE  r = q
<1>1. n \in Nat /\ p \in [0 .. n - 1 -> Nat] /\ d \in [0 .. n - 1 -> Nat]
  BY SizeIs DEF Laid
<1>2. CASE r # -1 /\ q # -1
  <2>1. r \in 0 .. n - 1 /\ q \in 0 .. n - 1 /\ p[r] = p[q] /\ d[r] <= d[q] /\ d[q] <= d[r]
    BY <1>2 DEF FirstIs, Leads
  <2> QED
    BY <1>1, <2>1 DEF Laid
<1> QED
  BY <1>1, <1>2 DEF FirstIs

-----------------------------------------------------------------------------
(* The keys of a table                                                     *)

(* Every key that a node holds is on the chain of its main position, which *)
(* begins with a node that is in its own; the nodes that never had a key   *)
(* are free and alone.                                                     *)
KeyPlaced(tb, n, p, d, i) ==
  LET mp == MainPosition(tb, tb.node[i].key)
  IN  /\ Leads(p, d, mp, i)
      /\ tb.node[mp].key # Nil /\ MainPosition(tb, tb.node[mp].key) = mp
      /\ ~ InArray(tb, tb.node[i].key)

FreeAlone(tb, n, p, d, i) ==
  /\ tb.node[i].val = Nil /\ tb.node[i].next = -1 /\ i < tb.lastfree
  /\ \A j \in 0 .. n - 1 : p[j] = p[i] => j = i

(* Of the nodes with one key, only the first on its chain can be alive.    *)
KeysApart(tb, n, d) ==
  \A i, j \in 0 .. n - 1 :
    i # j /\ tb.node[i].key = tb.node[j].key /\ tb.node[i].key # Nil /\ ~ tb.node[i].dead
      => tb.node[j].dead /\ d[j] < d[i]

Ordered(tb, n, p, d) ==
  /\ Laid(tb, n, p, d)
  /\ \A i \in 0 .. n - 1 :
       /\ tb.node[i].key # Nil => KeyPlaced(tb, n, p, d, i)
       /\ tb.node[i].key = Nil => FreeAlone(tb, n, p, d, i)
       /\ tb.node[i].val # Nil => ~ tb.node[i].dead
  /\ KeysApart(tb, n, d)

Sound(tb, n) ==
  /\ Shaped(tb, n)
  /\ Len(tb.array) <= TwoTo[MaxBits]
  /\ \A i \in 1 .. Len(tb.array) : tb.array[i] # Nil => i \in Ints
  /\ \E p, d : Ordered(tb, n, p, d)

LEMMA MainIs ==
  ASSUME NEW tb, NEW n, Shaped(tb, n), n > 0, NEW k \in Keys
  PROVE  MainPosition(tb, k) \in 0 .. n - 1
<1>1. SizeNode(tb) = n /\ n \in Nat
  BY SizeIs
<1>2. Hash[k] \in Nat
  BY Limits
<1>3. Odd(n) \in 1 .. n
  BY <1>1 DEF Odd
<1>4. \A h \in Nat, m \in 1 .. n : h % m \in 0 .. n - 1
  BY <1>1
<1> HIDE DEF Odd
<1>5. MainPosition(tb, k) = Hash[k] % (IF k \in Strings THEN n ELSE Odd(n))
  BY <1>1 DEF MainPosition
<1>6. (IF k \in Strings THEN n ELSE Odd(n)) \in 1 .. n
  BY <1>1, <1>3
<1> QED
  BY <1>2, <1>4, <1>5, <1>6

NodeFits(tb, n, k, r) ==
  \/ r = -1 /\ \A i \in 0 .. n - 1 : tb.node[i].key = k => tb.node[i].dead
  \/ r \in 0 .. n - 1 /\ tb.node[r].key = k /\ ~ tb.node[r].dead

HolderFits(tb, n, k, r) ==
  \/ r = -1 /\ \A i \in 0 .. n - 1 : tb.node[i].key # k
  \/ /\ r \in 0 .. n - 1 /\ tb.node[r].key = k
     /\ \A i \in 0 .. n - 1 : tb.node[i].key = k /\ ~ tb.node[i].dead => i = r

LEMMA NodeIs ==
  ASSUME NEW tb, NEW n, Shaped(tb, n), NEW p, NEW d, Ordered(tb, n, p, d), NEW k \in Keys
  PROVE  NodeFits(tb, n, k, Node(tb, k))
<1>0. SizeNode(tb) = n /\ DOMAIN tb.node = 0 .. n - 1 /\ n \in Nat
  BY SizeIs
<1>1. CASE n = 0
  BY <1>0, <1>1 DEF NodeFits, Node
<1>2. CASE n # 0
  <2> DEFINE mp == MainPosition(tb, k)
             S == Holding(tb, k) \ {j \in DOMAIN tb.node : tb.node[j].dead}
  <2>1. mp \in 0 .. n - 1
    BY <1>0, <1>2, MainIs
  <2>2. \A j \in 0 .. n - 1 : j \in S <=> tb.node[j].key = k /\ ~ tb.node[j].dead
    BY <1>0 DEF Holding
  <2>3. Node(tb, k) = Search(tb, mp, S)
    BY <1>0, <1>2 DEF Node
  <2>4. \A j \in 0 .. n - 1 : tb.node[j].key = k => Leads(p, d, mp, j)
    BY Limits DEF Ordered, KeyPlaced
  <2> HIDE DEF mp, S
  <2>5. FirstIs(n, p, d, mp, S, Search(tb, mp, S))
    BY <2>1, SearchIs DEF Ordered
  <2> QED
    BY <2>2, <2>3, <2>4, <2>5 DEF FirstIs, NodeFits
<1> QED
  BY <1>1, <1>2

LEMMA HolderFirst ==
  ASSUME NEW tb, NEW n, Shaped(tb, n), n > 0, NEW p, NEW d, Ordered(tb, n, p, d), NEW k \in Keys
  PROVE  /\ MainPosition(tb, k) \in 0 .. n - 1
         /\ FirstIs(n, p, d, MainPosition(tb, k), Holding(tb, k), Holder(tb, k))
<1>0. SizeNode(tb) = n /\ n \in Nat
  BY SizeIs
<1>1. MainPosition(tb, k) \in 0 .. n - 1
  BY MainIs
<1>2. Holder(tb, k) = Search(tb, MainPosition(tb, k), Holding(tb, k))
  BY <1>0 DEF Holder
<1> QED
  BY <1>1, <1>2, SearchIs DEF Ordered

LEMMA HolderIs ==
  ASSUME NEW tb, NEW n, Shaped(tb, n), NEW p, NEW d, Ordered(tb, n, p, d), NEW k \in Keys
  PROVE  HolderFits(tb, n, k, Holder(tb, k))
<1>0. SizeNode(tb) = n /\ DOMAIN tb.node = 0 .. n - 1 /\ n \in Nat
  BY SizeIs
<1>1. CASE n = 0
  BY <1>0, <1>1 DEF HolderFits, Holder
<1>2. CASE n # 0
  <2> DEFINE mp == MainPosition(tb, k)
             S == Holding(tb, k)
             r == Holder(tb, k)
  <2>1. FirstIs(n, p, d, mp, S, r)
    BY <1>0, <1>2, HolderFirst
  <2>2. \A j \in 0 .. n - 1 : j \in S <=> tb.node[j].key = k
    BY <1>0 DEF Holding
  <2>3. \A j \in 0 .. n - 1 : tb.node[j].key = k => Leads(p, d, mp, j)
    BY Limits DEF Ordered, KeyPlaced
  <2>4. d \in [0 .. n - 1 -> Nat]
    BY DEF Ordered, Laid
  <2> HIDE DEF mp, S, r
  <2>5. CASE r = -1
    <3>1. \A j \in 0 .. n - 1 : tb.node[j].key # k
      BY <1>0, <2>1, <2>2, <2>3, <2>5 DEF FirstIs
    <3> QED
      BY <2>5, <3>1 DEF HolderFits, r
  <2>6. CASE r # -1
    <3>1. r \in 0 .. n - 1 /\ tb.node[r].key = k
      BY <2>1, <2>2, <2>6 DEF FirstIs
    <3>2. ASSUME NEW i \in 0 .. n - 1, tb.node[i].key = k, ~ tb.node[i].dead, i # r PROVE FALSE
      <4>1. d[i] <= d[r]
        BY <2>1, <2>2, <2>3, <2>6, <3>2 DEF FirstIs
      <4>2. d[r] < d[i]
        BY <3>1, <3>2, Limits DEF Ordered, KeysApart
      <4> QED
        BY <2>4, <3>1, <4>1, <4>2
    <3> QED
      BY <3>1, <3>2 DEF HolderFits, r
  <2> QED
    BY <2>5, <2>6
<1> QED
  BY <1>1, <1>2

(* A node holds the value of the key.                                      *)
Holds(tb, n, k, v) == \E i \in 0 .. n - 1 : tb.node[i].key = k /\ tb.node[i].val = v

LEMMA AliveOnce ==
  ASSUME NEW tb, NEW n, Shaped(tb, n), NEW p, NEW d, Ordered(tb, n, p, d),
         NEW i \in 0 .. n - 1, NEW j \in 0 .. n - 1,
         tb.node[i].key \in Keys, tb.node[i].key = tb.node[j].key,
         ~ tb.node[i].dead, ~ tb.node[j].dead
  PROVE  i = j
BY Limits DEF Ordered, KeysApart

LEMMA LiveKeyed ==
  ASSUME NEW tb, NEW n, Shaped(tb, n), NEW p, NEW d, Ordered(tb, n, p, d),
         NEW i \in 0 .. n - 1, tb.node[i].val # Nil
  PROVE  tb.node[i].key \in Keys /\ ~ tb.node[i].dead /\ ~ InArray(tb, tb.node[i].key)
<1>1. tb.node[i].key # Nil /\ tb.node[i].key \in Keys \cup {Nil}
  BY NodeType DEF Ordered, FreeAlone
<1> QED
  BY <1>1 DEF Ordered, KeyPlaced

LEMMA GetIs ==
  ASSUME NEW tb, NEW n, Shaped(tb, n), NEW p, NEW d, Ordered(tb, n, p, d),
         NEW k \in Keys, NEW v, v # Nil
  PROVE  Get(tb, k) = v <=> IF InArray(tb, k) THEN tb.array[k] = v ELSE Holds(tb, n, k, v)
<1>1. CASE InArray(tb, k)
  BY <1>1 DEF Get
<1>2. CASE ~ InArray(tb, k)
  <2> DEFINE r == Node(tb, k)
  <2>1. NodeFits(tb, n, k, r)
    BY NodeIs
  <2>2. Get(tb, k) = IF r = -1 THEN Nil ELSE tb.node[r].val
    BY <1>2 DEF Get
  <2> HIDE DEF r
  <2>3. CASE r = -1
    <3>1. \A i \in 0 .. n - 1 : tb.node[i].key = k => tb.node[i].val # v
      BY <2>1, <2>3, SizeIs DEF NodeFits, Ordered
    <3> QED
      BY <1>2, <2>2, <2>3, <3>1 DEF Holds
  <2>4. CASE r # -1
    <3>1. r \in 0 .. n - 1 /\ tb.node[r].key = k /\ ~ tb.node[r].dead
      BY <2>1, <2>4 DEF NodeFits
    <3>2. \A i \in 0 .. n - 1 : tb.node[i].key = k /\ tb.node[i].val = v => i = r
      BY <3>1, AliveOnce, LiveKeyed
    <3> QED
      BY <1>2, <2>2, <2>4, <3>1, <3>2 DEF Holds
  <2> QED
    BY <2>3, <2>4
<1> QED
  BY <1>1, <1>2

-----------------------------------------------------------------------------
(* Insertion                                                               *)

(* new is the table with the key k in a node of its own, without a value.  *)
Inserted(tb, n, k, new) ==
  /\ Shaped(new, n) /\ new.array = tb.array /\ Placed(new)
  /\ \E p, d : Ordered(new, n, p, d)
  /\ \E i \in 0 .. n - 1 :
       new.node[i].key = k /\ ~ new.node[i].dead /\ new.node[i].val = Nil
  /\ \E z \in 0 .. n - 1 : \A i \in 0 .. n - 1 :
       new.node[i].key # Nil => tb.node[i].key # Nil \/ i = z
  /\ \A h \in Keys : \A v : v # Nil => (Holds(new, n, h, v) <=> Holds(tb, n, h, v))

(* The node i of the table, and of one after an insertion                  *)
NodeHas(tb, i, k, dead, v, next) ==
  /\ tb.node[i].key = k /\ tb.node[i].dead = dead
  /\ tb.node[i].val = v /\ tb.node[i].next = next

SameNode(new, i, tb, j) ==
  NodeHas(new, i, tb.node[j].key, tb.node[j].dead, tb.node[j].val, tb.node[j].next)

SameBut(new, i, tb, next) ==
  NodeHas(new, i, tb.node[i].key, tb.node[i].dead, tb.node[i].val, next)

(* The key is new to the table.                                            *)
Absent(tb, n, k) ==
  /\ k \in Keys /\ ~ InArray(tb, k)
  /\ \A i \in 0 .. n - 1 : tb.node[i].key = k => tb.node[i].dead

LEMMA SameMain ==
  ASSUME NEW tb, NEW n, Shaped(tb, n), NEW new, Shaped(new, n), new.array = tb.array
  PROVE  /\ \A k : MainPosition(new, k) = MainPosition(tb, k)
         /\ \A k : InArray(new, k) = InArray(tb, k)
         /\ SizeArray(new) = SizeArray(tb)
BY SizeIs DEF MainPosition, InArray, SizeArray

LEMMA KeyedMain ==
  ASSUME NEW tb, NEW n, Shaped(tb, n), NEW i \in 0 .. n - 1, tb.node[i].key # Nil
  PROVE  tb.node[i].key \in Keys /\ MainPosition(tb, tb.node[i].key) \in 0 .. n - 1
<1>1. tb.node[i].key \in Keys
  BY NodeType
<1>2. n > 0
  BY SizeIs
<1> QED
  BY <1>1, <1>2, MainIs

LEMMA TakesOver ==
  ASSUME NEW tb, NEW n, Shaped(tb, n), NEW p, NEW d, Ordered(tb, n, p, d),
         NEW k, Absent(tb, n, k), NEW mp \in 0 .. n - 1, mp = MainPosition(tb, k),
         tb.node[mp].val = Nil, NEW new, Shaped(new, n), new.array = tb.array,
         new.lastfree = tb.lastfree, tb.lastfree >= 0,
         NodeHas(new, mp, k, FALSE, Nil, tb.node[mp].next),
         \A i \in 0 .. n - 1 : i # mp => SameNode(new, i, tb, i)
  PROVE  Inserted(tb, n, k, new)
<1> DEFINE D == 0 .. n - 1
<1>0. /\ n \in Nat /\ p \in [D -> Nat] /\ d \in [D -> Nat] /\ k \in Keys /\ k # Nil
      /\ Laid(tb, n, p, d)
  BY SizeIs, Limits DEF Ordered, Laid, Absent
<1>1. /\ \A h : MainPosition(new, h) = MainPosition(tb, h)
      /\ \A h : InArray(new, h) = InArray(tb, h)
  BY SameMain
<1>2. Laid(new, n, p, d)
  <2>1. \A i \in D : new.node[i].next = tb.node[i].next
    BY DEF NodeHas, SameNode
  <2> QED
    BY <1>0, <2>1 DEF Laid
<1>3. ASSUME NEW i \in D, new.node[i].key # Nil PROVE KeyPlaced(new, n, p, d, i)
  <2>1. CASE i = mp
    BY <1>0, <1>1, <2>1 DEF KeyPlaced, Leads, NodeHas, Absent
  <2>2. CASE i # mp
    <3>1. new.node[i].key = tb.node[i].key /\ KeyPlaced(tb, n, p, d, i)
      BY <1>3, <2>2 DEF SameNode, NodeHas, Ordered
    <3> DEFINE m == MainPosition(tb, tb.node[i].key)
    <3>2. m \in D /\ MainPosition(new, new.node[i].key) = m
      BY <1>1, <1>3, <3>1, KeyedMain
    <3>3. Leads(p, d, m, i) /\ ~ InArray(new, new.node[i].key)
      BY <1>1, <3>1 DEF KeyPlaced
    <3>4. new.node[m].key # Nil /\ MainPosition(new, new.node[m].key) = m
      <4>1. CASE m = mp
        BY <1>0, <1>1, <4>1 DEF NodeHas
      <4>2. CASE m # mp
        <5>1. new.node[m].key = tb.node[m].key
          BY <3>2, <4>2 DEF SameNode, NodeHas
        <5> HIDE DEF D
        <5> QED
          BY <1>1, <3>1, <5>1 DEF KeyPlaced
      <4> QED
        BY <4>1, <4>2
    <3> HIDE DEF m
    <3> QED
      BY <3>2, <3>3, <3>4 DEF KeyPlaced
  <2> QED
    BY <2>1, <2>2
<1>4. ASSUME NEW i \in D, new.node[i].key = Nil PROVE FreeAlone(new, n, p, d, i)
  <2>1. i # mp /\ SameNode(new, i, tb, i)
    BY <1>0, <1>4 DEF NodeHas
  <2> QED
    BY <1>4, <2>1 DEF FreeAlone, NodeHas, SameNode, Ordered
<1>5. \A i \in D : new.node[i].val # Nil => ~ new.node[i].dead
  BY DEF NodeHas, SameNode, Ordered
<1>6. KeysApart(new, n, d)
  <2> SUFFICES ASSUME NEW i \in D, NEW j \in D, i # j, new.node[i].key = new.node[j].key,
                      new.node[i].key # Nil, ~ new.node[i].dead
               PROVE  new.node[j].dead /\ d[j] < d[i]
    BY DEF KeysApart
  <2>1. CASE i = mp
    <3>1. tb.node[j].key = k /\ tb.node[j].dead /\ new.node[j].dead
      BY <2>1 DEF NodeHas, SameNode, Absent
    <3>2. Leads(p, d, mp, j)
      BY <1>0, <3>1 DEF Ordered, KeyPlaced
    <3> QED
      BY <1>0, <2>1, <3>1, <3>2 DEF Leads, Laid
  <2>2. CASE j = mp
    BY <2>2 DEF NodeHas, SameNode, Absent
  <2>3. CASE i # mp /\ j # mp
    BY <2>3 DEF NodeHas, SameNode, Ordered, KeysApart
  <2> QED
    BY <2>1, <2>2, <2>3
<1>7. Ordered(new, n, p, d)
  BY <1>2, <1>3, <1>4, <1>5, <1>6 DEF Ordered
<1>8. ASSUME NEW h \in Keys, NEW v, v # Nil PROVE Holds(new, n, h, v) <=> Holds(tb, n, h, v)
  BY <1>8 DEF Holds, NodeHas, SameNode
<1>9. Placed(new)
  BY DEF Placed
<1>10. \A i \in D : new.node[i].key # Nil => tb.node[i].key # Nil \/ i = mp
  BY DEF NodeHas, SameNode
<1> QED
  BY <1>7, <1>8, <1>9, <1>10 DEF Inserted, NodeHas

(* The colliding node is not in its main position: it moves to the free    *)
(* node f, with its place in the chain.                                    *)
LEMMA MovesAway ==
  ASSUME NEW tb, NEW n, Shaped(tb, n), NEW p, NEW d, Ordered(tb, n, p, d),
         NEW k, Absent(tb, n, k), NEW mp \in 0 .. n - 1, mp = MainPosition(tb, k),
         tb.node[mp].val # Nil,
         NEW f \in 0 .. n - 1, tb.node[f].key = Nil,
         \A i \in 0 .. n - 1 : tb.node[i].key = Nil => i <= f,
         NEW othern, othern = MainPosition(tb, tb.node[mp].key), othern # mp,
         NEW pr \in 0 .. n - 1, tb.node[pr].next = mp,
         NEW new, Shaped(new, n), new.array = tb.array, new.lastfree = f,
         NodeHas(new, mp, k, FALSE, Nil, -1), SameNode(new, f, tb, mp),
         SameBut(new, pr, tb, f),
         \A i \in 0 .. n - 1 : i \notin {mp, f, pr} => SameNode(new, i, tb, i)
  PROVE  Inserted(tb, n, k, new)
<1> DEFINE D == 0 .. n - 1
           q == [p EXCEPT ![f] = p[mp], ![mp] = p[f]]
           e == [d EXCEPT ![f] = d[mp], ![mp] = d[f]]
<1>0. /\ n \in Nat /\ p \in [D -> Nat] /\ d \in [D -> Nat] /\ k \in Keys /\ k # Nil
      /\ Laid(tb, n, p, d) /\ KeysApart(tb, n, d)
      /\ mp # -1 /\ f # -1
  <2>1. n \in Nat /\ k \in Keys /\ k # Nil
    BY SizeIs, Limits DEF Absent
  <2>2. p \in [D -> Nat] /\ d \in [D -> Nat] /\ Laid(tb, n, p, d) /\ KeysApart(tb, n, d)
    BY DEF Ordered, Laid
  <2>3. mp # -1 /\ f # -1
    BY <2>1
  <2> QED
    BY <2>1, <2>2, <2>3
<1>1. /\ \A h : MainPosition(new, h) = MainPosition(tb, h)
      /\ \A h : InArray(new, h) = InArray(tb, h)
  BY SameMain
<1>2. /\ tb.node[mp].key \in Keys /\ tb.node[mp].key # Nil /\ ~ tb.node[mp].dead /\ tb.node[mp].key # k
      /\ ~ InArray(tb, tb.node[mp].key)
  BY LiveKeyed, Limits DEF Absent
<1>3. FreeAlone(tb, n, p, d, f) /\ mp # f
  BY <1>2 DEF Ordered
<1>4. d[f] = 0 /\ tb.node[f].next = -1 /\ \A j \in D : p[j] = p[f] => j = f
  BY <1>0, <1>3 DEF FreeAlone, Laid
<1>5. KeyPlaced(tb, n, p, d, mp) /\ othern \in D
  BY <1>2, KeyedMain DEF Ordered
<1>6. /\ p[othern] = p[mp] /\ d[othern] > d[mp] /\ othern # f
      /\ tb.node[othern].key # Nil /\ MainPosition(tb, tb.node[othern].key) = othern
  <2>1. Leads(p, d, othern, mp) /\ tb.node[othern].key # Nil
        /\ MainPosition(tb, tb.node[othern].key) = othern
    BY <1>5 DEF KeyPlaced
  <2>2. p[othern] = p[mp] /\ d[mp] <= d[othern]
    BY <2>1 DEF Leads
  <2>3. d[mp] # d[othern]
    BY <1>0, <1>5, <2>2 DEF Laid
  <2>4. d[mp] \in Nat /\ d[othern] \in Nat
    BY <1>0, <1>5
  <2>5. othern # f
    BY <2>1
  <2> QED
    BY <2>1, <2>2, <2>3, <2>4, <2>5
<1>7. pr # mp /\ pr # f /\ p[pr] = p[mp] /\ d[pr] = d[mp] + 1
  <2>1. pr # f
    BY <1>0, <1>4
  <2>2. p[mp] = p[pr] /\ d[mp] = d[pr] - 1
    BY <1>0 DEF Laid
  <2> QED
    BY <1>0, <2>1, <2>2
<1>8. \A i \in D : tb.node[i].next = mp => i = pr
  <2> SUFFICES ASSUME NEW i \in D, tb.node[i].next = mp PROVE i = pr
    OBVIOUS
  <2>1. p[mp] = p[i] /\ d[mp] = d[i] - 1
    BY <1>0 DEF Laid
  <2>2. d[i] \in Nat /\ d[mp] \in Nat
    BY <1>0
  <2>3. p[i] = p[pr] /\ d[i] = d[pr]
    BY <1>7, <2>1, <2>2
  <2> QED
    BY <1>0, <2>3 DEF Laid
<1>9. /\ q \in [D -> Nat] /\ e \in [D -> Nat]
      /\ q[f] = p[mp] /\ e[f] = d[mp] /\ q[mp] = p[f] /\ e[mp] = 0
      /\ \A i \in D : i # f /\ i # mp => q[i] = p[i] /\ e[i] = d[i]
  BY <1>0, <1>3, <1>4
<1> HIDE DEF q, e
<1>10. /\ new.node[mp].next = -1 /\ new.node[f].next = tb.node[mp].next /\ new.node[pr].next = f
       /\ new.node[mp].key = k /\ new.node[f].key = tb.node[mp].key
       /\ \A i \in D : i # mp /\ i # f => new.node[i].key = tb.node[i].key
       /\ \A i \in D : i # mp /\ i # f => new.node[i].dead = tb.node[i].dead
       /\ \A i \in D : i # mp /\ i # f => new.node[i].val = tb.node[i].val
       /\ \A i \in D : i # mp /\ i # f /\ i # pr => new.node[i].next = tb.node[i].next
       /\ ~ new.node[mp].dead /\ ~ new.node[f].dead
       /\ new.node[mp].val = Nil /\ new.node[f].val = tb.node[mp].val
  BY <1>2 DEF NodeHas, SameNode, SameBut
<1>11. Laid(new, n, q, e)
  <2>1. \A i, j \in D : q[i] = q[j] /\ e[i] = e[j] => i = j
    <3> DEFINE s(i) == IF i = f THEN mp ELSE IF i = mp THEN f ELSE i
    <3>1. \A i \in D : s(i) \in D /\ q[i] = p[s(i)] /\ e[i] = d[s(i)]
      BY <1>4, <1>9
    <3>2. \A i, j \in D : s(i) = s(j) => i = j
      BY <1>3
    <3> SUFFICES ASSUME NEW i \in D, NEW j \in D, q[i] = q[j], e[i] = e[j] PROVE i = j
      OBVIOUS
    <3>3. s(i) \in D /\ s(j) \in D /\ p[s(i)] = p[s(j)] /\ d[s(i)] = d[s(j)]
      BY <3>1
    <3> HIDE DEF s
    <3>4. s(i) = s(j)
      BY <1>0, <3>3 DEF Laid
    <3> QED
      BY <3>2, <3>4
  <2>2. ASSUME NEW i \in D
        PROVE  /\ new.node[i].next = -1 <=> e[i] = 0
               /\ new.node[i].next # -1 =>
                    q[new.node[i].next] = q[i] /\ e[new.node[i].next] = e[i] - 1
    <3> DEFINE x == tb.node[i].next
    <3>1. CASE i = mp
      BY <1>9, <1>10, <3>1
    <3>2. CASE i = pr
      <4>1. new.node[i].next = f /\ q[f] = p[mp] /\ e[f] = d[mp] /\ q[i] = p[mp] /\ e[i] = d[mp] + 1
        BY <1>7, <1>9, <1>10, <3>2
      <4>2. d[mp] + 1 # 0 /\ d[mp] = d[mp] + 1 - 1
        <5>1. d[mp] \in Nat
          BY <1>0
        <5> QED
          BY <5>1
      <4> QED
        BY <1>0, <4>1, <4>2
    <3>3. CASE i = f
      <4> DEFINE y == tb.node[mp].next
      <4>1. /\ y = -1 <=> d[mp] = 0
            /\ y # -1 => p[y] = p[mp] /\ d[y] = d[mp] - 1
        BY <1>0 DEF Laid
      <4>2. y \in -1 .. n - 1
        BY NodeType
      <4>4. new.node[i].next = y
        BY <1>10, <3>3
      <4> HIDE DEF y
      <4>3. y # -1 => y \in D /\ y # mp /\ y # f
        BY <1>0, <1>3, <1>4, <4>1, <4>2
      <4>5. q[i] = p[mp] /\ e[i] = d[mp]
        BY <1>9, <3>3
      <4>6. y # -1 => q[y] = p[y] /\ e[y] = d[y]
        BY <1>9, <4>3
      <4> QED
        BY <4>1, <4>4, <4>5, <4>6
    <3>4. CASE i # mp /\ i # pr /\ i # f
      <4>1. /\ x = -1 <=> d[i] = 0
            /\ x # -1 => p[x] = p[i] /\ d[x] = d[i] - 1
        BY <1>0 DEF Laid
      <4>2. x \in -1 .. n - 1
        BY NodeType
      <4>4. new.node[i].next = x
        BY <1>10, <3>4
      <4>5. x # mp
        BY <1>8, <3>4
      <4> HIDE DEF x
      <4>3. x # -1 => x \in D /\ x # mp /\ x # f
        <5>1. x # -1 => x \in D
          BY <1>0, <4>2
        <5>2. x # -1 /\ x = f => i = f
          BY <1>4, <4>1
        <5> QED
          BY <3>4, <4>5, <5>1, <5>2
      <4> QED
        BY <1>9, <3>4, <4>1, <4>3, <4>4
    <3> QED
      BY <3>1, <3>2, <3>3, <3>4
  <2> QED
    BY <1>9, <2>1, <2>2 DEF Laid
<1>12. ASSUME NEW i \in D, tb.node[i].key # Nil
       PROVE  MainPosition(tb, tb.node[i].key) # mp /\ MainPosition(tb, tb.node[i].key) # f
  BY <1>5, <1>12 DEF Ordered, KeyPlaced
<1>13. ASSUME NEW i \in D, new.node[i].key # Nil PROVE KeyPlaced(new, n, q, e, i)
  <2>1. CASE i = mp
    <3>1. MainPosition(new, new.node[i].key) = mp
      BY <1>1, <1>10, <2>1
    <3>2. Leads(q, e, mp, i) /\ ~ InArray(new, new.node[i].key)
      BY <1>1, <1>9, <1>10, <2>1 DEF Leads, Absent
    <3> QED
      BY <1>13, <2>1, <3>1, <3>2 DEF KeyPlaced
  <2>2. CASE i = f
    <3>1. MainPosition(new, new.node[i].key) = othern
      BY <1>1, <1>10, <2>2
    <3>2. Leads(q, e, othern, i)
      <4>1. q[othern] = p[mp] /\ e[othern] = d[othern] /\ q[i] = p[mp] /\ e[i] = d[mp]
        BY <1>5, <1>6, <1>9, <2>2
      <4>2. d[mp] \in Nat /\ d[othern] \in Nat
        BY <1>0, <1>5
      <4>3. d[mp] <= d[othern]
        BY <1>6, <4>2
      <4> QED
        BY <4>1, <4>3 DEF Leads
    <3>3. new.node[othern].key # Nil /\ MainPosition(new, new.node[othern].key) = othern
      BY <1>1, <1>5, <1>6, <1>10
    <3>4. ~ InArray(new, new.node[i].key)
      BY <1>1, <1>2, <1>10, <2>2
    <3> QED
      BY <3>1, <3>2, <3>3, <3>4 DEF KeyPlaced
  <2>3. CASE i # mp /\ i # f
    <3> DEFINE m == MainPosition(tb, tb.node[i].key)
    <3>1. tb.node[i].key = new.node[i].key /\ KeyPlaced(tb, n, p, d, i)
      BY <1>10, <1>13, <2>3 DEF Ordered
    <3>2. m \in D /\ m # mp /\ m # f /\ MainPosition(new, new.node[i].key) = m
      BY <1>1, <1>12, <1>13, <3>1, KeyedMain
    <3>3. Leads(p, d, m, i) /\ tb.node[m].key # Nil /\ MainPosition(tb, tb.node[m].key) = m
      BY <3>1 DEF KeyPlaced
    <3>4. ~ InArray(new, new.node[i].key)
      BY <1>1, <3>1 DEF KeyPlaced
    <3> HIDE DEF m
    <3>5. new.node[m].key # Nil /\ MainPosition(new, new.node[m].key) = m
      BY <1>1, <1>10, <3>2, <3>3
    <3>6. Leads(q, e, m, i)
      BY <1>9, <2>3, <3>2, <3>3 DEF Leads
    <3> QED
      BY <3>2, <3>4, <3>5, <3>6 DEF KeyPlaced
  <2> QED
    BY <2>1, <2>2, <2>3
<1>14. ASSUME NEW i \in D, new.node[i].key = Nil PROVE FreeAlone(new, n, q, e, i)
  <2>1. i # mp /\ i # f /\ tb.node[i].key = Nil
    BY <1>0, <1>2, <1>10, <1>14
  <2>2. FreeAlone(tb, n, p, d, i) /\ i < f
    BY <1>0, <2>1 DEF Ordered
  <2>3. i # pr
    BY <1>0, <2>2 DEF FreeAlone
  <2>4. \A j \in D : q[j] = q[i] => j = i
    BY <1>4, <1>9, <2>1, <2>2 DEF FreeAlone
  <2> QED
    BY <1>10, <2>1, <2>2, <2>3, <2>4 DEF FreeAlone
<1>15. \A i \in D : new.node[i].val # Nil => ~ new.node[i].dead
  BY <1>10 DEF Ordered
<1>16. KeysApart(new, n, e)
  <2> SUFFICES ASSUME NEW i \in D, NEW j \in D, i # j, new.node[i].key = new.node[j].key,
                      new.node[i].key # Nil, ~ new.node[i].dead
               PROVE  new.node[j].dead /\ e[j] < e[i]
    BY DEF KeysApart
  <2>1. CASE i = mp \/ j = mp
    <3>1. PICK x \in D : x # mp /\ new.node[x].key = k
      BY <1>10, <2>1
    <3>2. x # f /\ tb.node[x].key = k
      BY <1>2, <1>10, <3>1
    <3> QED
      BY <1>0, <1>12, <3>2
  <2>2. CASE i = f
    <3>1. j # mp /\ j # f /\ tb.node[j].key = tb.node[mp].key
      BY <1>2, <1>10, <2>2
    <3>2. tb.node[j].dead /\ d[j] < d[mp]
      BY <1>0, <1>2, <3>1 DEF KeysApart
    <3> QED
      BY <1>9, <1>10, <2>2, <3>1, <3>2
  <2>3. CASE j = f /\ i # mp
    <3>1. i # mp /\ i # f /\ tb.node[i].key = tb.node[mp].key /\ ~ tb.node[i].dead
      BY <1>10, <2>3
    <3> QED
      BY <1>0, <1>2, <3>1 DEF KeysApart
  <2>4. CASE i # mp /\ j # mp /\ i # f /\ j # f
    <3>1. tb.node[j].dead /\ d[j] < d[i]
      BY <1>0, <1>10, <2>4 DEF KeysApart
    <3> QED
      BY <1>9, <1>10, <2>4, <3>1
  <2> QED
    BY <2>1, <2>2, <2>3, <2>4
<1>17. Ordered(new, n, q, e)
  BY <1>11, <1>13, <1>14, <1>15, <1>16 DEF Ordered
<1>18. ASSUME NEW h \in Keys, NEW v, v # Nil PROVE Holds(new, n, h, v) <=> Holds(tb, n, h, v)
  <2>1. tb.node[f].val = Nil
    BY <1>3 DEF FreeAlone
  <2> QED
    BY <1>10, <1>18, <2>1 DEF Holds
<1>19. Placed(new)
  BY <1>0 DEF Placed
<1>20. \A i \in D : new.node[i].key # Nil => tb.node[i].key # Nil \/ i = f
  BY <1>2, <1>10
<1> QED
  BY <1>10, <1>17, <1>18, <1>19, <1>20 DEF Inserted

(* The colliding node is in its main position: the key goes to the free    *)
(* node f, next in the chain.                                              *)
LEMMA PutsOff ==
  ASSUME NEW tb, NEW n, Shaped(tb, n), NEW p, NEW d, Ordered(tb, n, p, d),
         NEW k, Absent(tb, n, k), NEW mp \in 0 .. n - 1, mp = MainPosition(tb, k),
         tb.node[mp].val # Nil, mp = MainPosition(tb, tb.node[mp].key),
         NEW f \in 0 .. n - 1, tb.node[f].key = Nil,
         \A i \in 0 .. n - 1 : tb.node[i].key = Nil => i <= f,
         NEW new, Shaped(new, n), new.array = tb.array, new.lastfree = f,
         NodeHas(new, f, k, FALSE, Nil, tb.node[mp].next), SameBut(new, mp, tb, f),
         \A i \in 0 .. n - 1 : i \notin {mp, f} => SameNode(new, i, tb, i)
  PROVE  Inserted(tb, n, k, new)
<1> DEFINE D == 0 .. n - 1
           After(i) == p[i] = p[mp] /\ d[mp] <= d[i]
           q == [p EXCEPT ![f] = p[mp]]
           e == [i \in D |-> IF i = f THEN d[mp] ELSE IF After(i) THEN d[i] + 1 ELSE d[i]]
<1>0. /\ n \in Nat /\ p \in [D -> Nat] /\ d \in [D -> Nat] /\ k \in Keys /\ k # Nil
      /\ Laid(tb, n, p, d) /\ KeysApart(tb, n, d)
      /\ mp # -1 /\ f # -1
  <2>1. n \in Nat /\ k \in Keys /\ k # Nil
    BY SizeIs, Limits DEF Absent
  <2>2. p \in [D -> Nat] /\ d \in [D -> Nat] /\ Laid(tb, n, p, d) /\ KeysApart(tb, n, d)
    BY DEF Ordered, Laid
  <2>3. mp # -1 /\ f # -1
    BY <2>1
  <2> QED
    BY <2>1, <2>2, <2>3
<1>1. /\ \A h : MainPosition(new, h) = MainPosition(tb, h)
      /\ \A h : InArray(new, h) = InArray(tb, h)
  BY SameMain
<1>2. tb.node[mp].key \in Keys /\ tb.node[mp].key # Nil /\ ~ tb.node[mp].dead /\ tb.node[mp].key # k
  BY LiveKeyed, Limits DEF Absent
<1>3. FreeAlone(tb, n, p, d, f) /\ mp # f
  BY <1>2 DEF Ordered
<1>4. d[f] = 0 /\ \A j \in D : p[j] = p[f] => j = f
  BY <1>0, <1>3 DEF FreeAlone, Laid
<1>5. /\ q \in [D -> Nat] /\ e \in [D -> Nat]
      /\ q[f] = p[mp] /\ e[f] = d[mp]
      /\ \A i \in D : i # f => q[i] = p[i] /\ e[i] = IF After(i) THEN d[i] + 1 ELSE d[i]
  <2>1. \A i \in D : (IF i = f THEN d[mp] ELSE IF After(i) THEN d[i] + 1 ELSE d[i]) \in Nat
    BY <1>0
  <2> HIDE DEF After
  <2> QED
    BY <1>0, <2>1
<1> HIDE DEF q, e
<1>6. /\ new.node[f].next = tb.node[mp].next /\ new.node[mp].next = f
      /\ new.node[f].key = k /\ ~ new.node[f].dead /\ new.node[f].val = Nil
      /\ \A i \in D : i # f => new.node[i].key = tb.node[i].key
      /\ \A i \in D : i # f => new.node[i].dead = tb.node[i].dead
      /\ \A i \in D : i # f => new.node[i].val = tb.node[i].val
      /\ \A i \in D : i # f /\ i # mp => new.node[i].next = tb.node[i].next
  BY <1>3 DEF NodeHas, SameNode, SameBut
(* The order of the other nodes on a path is as it was.                    *)
<1>7. ASSUME NEW i \in D, NEW j \in D, i # f, j # f, p[i] = p[j]
      PROVE  e[i] <= e[j] <=> d[i] <= d[j]
  <2>1. d[i] \in Nat /\ d[j] \in Nat /\ d[mp] \in Nat
    BY <1>0
  <2>2. /\ e[i] = IF After(i) THEN d[i] + 1 ELSE d[i]
        /\ e[j] = IF After(j) THEN d[j] + 1 ELSE d[j]
    BY <1>5, <1>7
  <2> QED
    BY <1>7, <2>1, <2>2
<1>8. ASSUME NEW i \in D, i # f, p[i] = p[mp] PROVE e[i] # d[mp] /\ (i # mp /\ d[i] <= d[mp] => e[i] < d[mp])
  <2>1. d[i] \in Nat /\ d[mp] \in Nat /\ (d[i] = d[mp] => i = mp)
    BY <1>0, <1>8 DEF Laid
  <2>2. e[i] = IF After(i) THEN d[i] + 1 ELSE d[i]
    BY <1>5, <1>8
  <2> QED
    BY <1>8, <2>1, <2>2
<1>9. Laid(new, n, q, e)
  <2>1. ASSUME NEW i \in D, NEW j \in D, q[i] = q[j], e[i] = e[j] PROVE i = j
    <3>1. CASE i # f /\ j # f
      <4>1. p[i] = p[j] /\ e[i] \in Nat /\ e[j] \in Nat /\ d[i] \in Nat /\ d[j] \in Nat
        BY <1>0, <1>5, <2>1, <3>1
      <4>2. d[i] = d[j]
        BY <1>7, <2>1, <3>1, <4>1
      <4> QED
        BY <1>0, <4>1, <4>2 DEF Laid
    <3>2. CASE i # f /\ j = f
      BY <1>5, <1>8, <2>1, <3>2
    <3>3. CASE j # f /\ i = f
      BY <1>5, <1>8, <2>1, <3>3
    <3> QED
      BY <3>1, <3>2, <3>3
  <2>2. ASSUME NEW i \in D
        PROVE  /\ new.node[i].next = -1 <=> e[i] = 0
               /\ new.node[i].next # -1 =>
                    q[new.node[i].next] = q[i] /\ e[new.node[i].next] = e[i] - 1
    <3>1. CASE i = mp
      <4>1. new.node[i].next = f /\ q[f] = p[mp] /\ e[f] = d[mp] /\ q[i] = p[mp] /\ e[i] = d[mp] + 1
        <5>1. After(mp)
          BY <1>0
        <5> HIDE DEF After
        <5>2. e[mp] = d[mp] + 1 /\ q[mp] = p[mp]
          BY <1>3, <1>5, <5>1
        <5> QED
          BY <1>5, <1>6, <3>1, <5>2
      <4>2. d[mp] + 1 # 0 /\ d[mp] = d[mp] + 1 - 1
        <5>1. d[mp] \in Nat
          BY <1>0
        <5> QED
          BY <5>1
      <4> QED
        BY <1>0, <4>1, <4>2
    <3>2. CASE i # mp
      <4> DEFINE j == IF i = f THEN mp ELSE i
                 x == tb.node[j].next
      <4>1. j \in D /\ x \in -1 .. n - 1
        BY NodeType
      <4>2. /\ x = -1 <=> d[j] = 0
            /\ x # -1 => p[x] = p[j] /\ d[x] = d[j] - 1
        BY <1>0, <4>1 DEF Laid
      <4>3. new.node[i].next = x /\ q[i] = p[j]
        BY <1>5, <1>6, <3>2
      <4>a. e[i] = IF i # f /\ After(i) THEN d[j] + 1 ELSE d[j]
        BY <1>5, <3>2
      <4>4. i # f => i = j
        OBVIOUS
      <4>b. i = f => j = mp
        OBVIOUS
      <4>c. j # f
        BY <1>3
      <4> HIDE DEF j, x
      <4>5. x # -1 => x \in D /\ x # f /\ q[x] = p[j]
        BY <1>4, <1>5, <4>1, <4>2, <4>c
      <4>6. d[j] \in Nat /\ d[mp] \in Nat /\ (x # -1 => d[x] \in Nat)
        BY <1>0, <4>1, <4>5
      <4>7. x # -1 => e[x] = IF After(x) THEN d[x] + 1 ELSE d[x]
        BY <1>5, <4>5
      <4>8. CASE i = f
        <5>1. e[i] = d[mp] /\ j = mp
          BY <4>a, <4>b, <4>8
        <5> QED
          BY <4>2, <4>3, <4>5, <4>6, <4>7, <5>1
      <4>9. CASE i # f
        <5>1. j = i
          BY <4>4, <4>9
        <5>2. p[i] = p[mp] /\ d[i] = d[mp] => i = mp
          BY <1>0 DEF Laid
        <5>3. e[i] = IF After(i) THEN d[i] + 1 ELSE d[i]
          BY <4>9, <4>a, <5>1
        <5>4. e[i] = 0 <=> x = -1
          BY <3>2, <4>2, <4>6, <5>1, <5>2, <5>3
        <5>5. x # -1 => (After(x) <=> After(i))
          BY <3>2, <4>2, <4>6, <5>1, <5>2
        <5>6. x # -1 => q[x] = q[i] /\ e[x] = e[i] - 1
          BY <4>2, <4>3, <4>5, <4>6, <4>7, <5>1, <5>3, <5>5
        <5> QED
          BY <4>3, <5>4, <5>6
      <4> QED
        BY <4>8, <4>9
    <3> QED
      BY <3>1, <3>2
  <2> QED
    BY <1>5, <2>1, <2>2 DEF Laid
<1>10. ASSUME NEW i \in D, NEW j \in D, i # f, j # f, Leads(p, d, i, j) PROVE Leads(q, e, i, j)
  BY <1>5, <1>7, <1>10 DEF Leads
<1>11. ASSUME NEW i \in D, new.node[i].key # Nil PROVE KeyPlaced(new, n, q, e, i)
  <2>1. CASE i = f
    <3>1. MainPosition(new, new.node[i].key) = mp /\ ~ InArray(new, new.node[i].key)
      BY <1>1, <1>6, <2>1 DEF Absent
    <3>2. Leads(q, e, mp, i)
      <4>1. e[mp] = d[mp] + 1 /\ d[mp] \in Nat /\ q[mp] = p[mp]
        BY <1>0, <1>3, <1>5
      <4> QED
        BY <1>5, <2>1, <4>1 DEF Leads
    <3>3. new.node[mp].key # Nil /\ MainPosition(new, new.node[mp].key) = mp
      BY <1>1, <1>2, <1>3, <1>6
    <3> QED
      BY <3>1, <3>2, <3>3 DEF KeyPlaced
  <2>2. CASE i # f
    <3> DEFINE m == MainPosition(tb, tb.node[i].key)
    <3>1. tb.node[i].key = new.node[i].key /\ KeyPlaced(tb, n, p, d, i)
      BY <1>6, <1>11, <2>2 DEF Ordered
    <3>2. m \in D /\ MainPosition(new, new.node[i].key) = m
      BY <1>1, <1>11, <3>1, KeyedMain
    <3>3. Leads(p, d, m, i) /\ tb.node[m].key # Nil /\ MainPosition(tb, tb.node[m].key) = m
      BY <3>1 DEF KeyPlaced
    <3>4. ~ InArray(new, new.node[i].key)
      BY <1>1, <3>1 DEF KeyPlaced
    <3> HIDE DEF m
    <3>5. m # f
      BY <3>3
    <3>6. new.node[m].key # Nil /\ MainPosition(new, new.node[m].key) = m
      BY <1>1, <1>6, <3>2, <3>3, <3>5
    <3>7. Leads(q, e, m, i)
      BY <1>10, <2>2, <3>2, <3>3, <3>5
    <3> QED
      BY <3>2, <3>4, <3>6, <3>7 DEF KeyPlaced
  <2> QED
    BY <2>1, <2>2
<1>12. ASSUME NEW i \in D, new.node[i].key = Nil PROVE FreeAlone(new, n, q, e, i)
  <2>1. i # f /\ tb.node[i].key = Nil /\ i # mp
    BY <1>0, <1>2, <1>6, <1>12
  <2>2. FreeAlone(tb, n, p, d, i) /\ i < f
    BY <1>0, <2>1 DEF Ordered
  <2>3. \A j \in D : q[j] = q[i] => j = i
    BY <1>5, <2>1, <2>2 DEF FreeAlone
  <2> QED
    BY <1>6, <2>1, <2>2, <2>3 DEF FreeAlone
<1>13. \A i \in D : new.node[i].val # Nil => ~ new.node[i].dead
  BY <1>6 DEF Ordered
<1>14. KeysApart(new, n, e)
  <2> SUFFICES ASSUME NEW i \in D, NEW j \in D, i # j, new.node[i].key = new.node[j].key,
                      new.node[i].key # Nil, ~ new.node[i].dead
               PROVE  new.node[j].dead /\ e[j] < e[i]
    BY DEF KeysApart
  <2>1. CASE i = f
    <3>1. tb.node[j].key = k /\ tb.node[j].dead /\ new.node[j].dead
      BY <1>6, <2>1 DEF Absent
    <3>2. Leads(p, d, mp, j) /\ j # mp
      BY <1>0, <1>2, <3>1 DEF Ordered, KeyPlaced
    <3>3. e[j] < d[mp]
      BY <1>8, <2>1, <3>2 DEF Leads
    <3> QED
      BY <1>5, <2>1, <3>1, <3>3
  <2>2. CASE j = f
    BY <1>6, <2>2 DEF Absent
  <2>3. CASE i # f /\ j # f
    <3>1. tb.node[i].key = tb.node[j].key /\ tb.node[i].key # Nil
      BY <1>6, <2>3
    <3>2. tb.node[j].dead /\ d[j] < d[i] /\ new.node[j].dead
      BY <1>0, <1>6, <2>3, <3>1 DEF KeysApart
    <3>3. p[i] = p[j]
      BY <3>1 DEF Ordered, KeyPlaced, Leads
    <3>4. e[i] \in Nat /\ e[j] \in Nat /\ d[i] \in Nat /\ d[j] \in Nat
      BY <1>0, <1>5
    <3>5. e[i] <= e[j] <=> d[i] <= d[j]
      BY <1>7, <2>3, <3>3
    <3> QED
      BY <3>2, <3>4, <3>5
  <2> QED
    BY <2>1, <2>2, <2>3
<1>15. Ordered(new, n, q, e)
  BY <1>9, <1>11, <1>12, <1>13, <1>14 DEF Ordered
<1>16. ASSUME NEW h \in Keys, NEW v, v # Nil PROVE Holds(new, n, h, v) <=> Holds(tb, n, h, v)
  <2>1. tb.node[f].val = Nil
    BY <1>3 DEF FreeAlone
  <2> QED
    BY <1>6, <1>16, <2>1 DEF Holds
<1>17. Placed(new)
  BY <1>0 DEF Placed
<1>18. \A i \in D : new.node[i].key # Nil => tb.node[i].key # Nil \/ i = f
  BY <1>6
<1> QED
  BY <1>6, <1>15, <1>16, <1>17, <1>18 DEF Inserted

LEMMA Reshaped ==
  ASSUME NEW tb, NEW n, Shaped(tb, n), NEW nd \in Vectors(n), NEW lf \in -1 .. n
  PROVE  LET new == [tb EXCEPT !.lastfree = lf, !.node = nd]
         IN  Shaped(new, n) /\ new.node = nd /\ new.lastfree = lf /\ new.array = tb.array
<1>1. tb \in [array : Seq(Stored), node : Vectors(n), lastfree : -1 .. n] /\ n \in Nat
  BY DEF Shaped
<1> QED
  BY <1>1 DEF Shaped

LEMMA NewKeyIs ==
  ASSUME NEW k \in Keys, NEW n \in Nat, NEW x \in -1 .. n - 1
  PROVE  /\ NewKey(k) = [key |-> k, dead |-> FALSE, val |-> Nil, next |-> -1]
         /\ [NewKey(k) EXCEPT !.next = x] = [key |-> k, dead |-> FALSE, val |-> Nil, next |-> x]
         /\ NewKey(k) \in [key : Keys \cup {Nil}, dead : BOOLEAN, val : Stored, next : -1 .. n - 1]
         /\ [NewKey(k) EXCEPT !.next = x]
              \in [key : Keys \cup {Nil}, dead : BOOLEAN, val : Stored, next : -1 .. n - 1]
<1>1. Nil \in Stored
  BY DEF Stored
<1> DEFINE no == FALSE
<1>2. NewKey(k) = [[key |-> Nil, dead |-> no, val |-> Nil, next |-> -1] EXCEPT !.key = k]
  BY DEF NewKey, EmptyNode
<1> HIDE DEF no
<1>3. /\ NewKey(k) = [key |-> k, dead |-> no, val |-> Nil, next |-> -1]
      /\ [NewKey(k) EXCEPT !.next = x] = [key |-> k, dead |-> no, val |-> Nil, next |-> x]
  <2> DEFINE z == -1
  <2> HIDE DEF z
  <2>1. NewKey(k) = [[key |-> Nil, dead |-> no, val |-> Nil, next |-> z] EXCEPT !.key = k]
    BY <1>2 DEF z
  <2>2. NewKey(k) = [key |-> k, dead |-> no, val |-> Nil, next |-> z]
    BY <2>1
  <2>3. [[key |-> k, dead |-> no, val |-> Nil, next |-> z] EXCEPT !.next = x]
          = [key |-> k, dead |-> no, val |-> Nil, next |-> x]
    OBVIOUS
  <2>4. [NewKey(k) EXCEPT !.next = x] = [key |-> k, dead |-> no, val |-> Nil, next |-> x]
    BY <2>2, <2>3, Zenon
  <2> QED
    BY <2>2, <2>4 DEF z
<1>4. no \in BOOLEAN /\ -1 \in -1 .. n - 1
  BY DEF no
<1>5. /\ [key |-> k, dead |-> no, val |-> Nil, next |-> -1]
            \in [key : Keys \cup {Nil}, dead : BOOLEAN, val : Stored, next : -1 .. n - 1]
      /\ [key |-> k, dead |-> no, val |-> Nil, next |-> x]
            \in [key : Keys \cup {Nil}, dead : BOOLEAN, val : Stored, next : -1 .. n - 1]
  BY <1>1, <1>4
<1> QED
  BY <1>3, <1>5, Zenon DEF no

LEMMA InsertIs ==
  ASSUME NEW tb, NEW n, Shaped(tb, n), NEW p, NEW d, Ordered(tb, n, p, d),
         NEW k, Absent(tb, n, k), Placed(tb)
  PROVE  \/ Inserted(tb, n, k, Insert(tb, k))
         \/ ~ Placed(Insert(tb, k)) /\ \A i \in 0 .. n - 1 : tb.node[i].key # Nil
<1> DEFINE D == 0 .. n - 1
           mp == MainPosition(tb, k)
           f == Max(FreePositions(tb))
           othern == MainPosition(tb, tb.node[mp].key)
           pr == Search(tb, othern, {j \in DOMAIN tb.node : tb.node[j].next = mp})
           new == Insert(tb, k)
           N == [key : Keys \cup {Nil}, dead : BOOLEAN, val : Stored, next : -1 .. n - 1]
           K(x) == [NewKey(k) EXCEPT !.next = x]
<1>0. /\ n \in Nat /\ SizeNode(tb) = n /\ DOMAIN tb.node = D /\ k \in Keys
      /\ tb \in [array : Seq(Stored), node : Vectors(n), lastfree : -1 .. n]
      /\ tb.lastfree \in 0 .. n
  BY SizeIs DEF Absent, Shaped, Placed
<1>1. NewKey(k) = [key |-> k, dead |-> FALSE, val |-> Nil, next |-> -1] /\ NewKey(k) \in N
  <2>1. -1 \in -1 .. n - 1
    BY <1>0
  <2> QED
    BY <1>0, <2>1, NewKeyIs
<1>a. ASSUME NEW x \in -1 .. n - 1
      PROVE  K(x) = [key |-> k, dead |-> FALSE, val |-> Nil, next |-> x] /\ K(x) \in N
  BY <1>0, NewKeyIs
<1>3. tb.node \in [D -> N]
  BY <1>0 DEF Vectors
<1>4. Vectors(n) = [D -> N]
  BY DEF Vectors
<1>5. CASE n > 0 /\ tb.node[mp].val = Nil
  <2>1. mp \in D
    BY <1>0, <1>5, MainIs
  <2> DEFINE x == K(tb.node[mp].next)
             nd == [tb.node EXCEPT ![mp] = x]
  <2>2. /\ x = [key |-> k, dead |-> FALSE, val |-> Nil, next |-> tb.node[mp].next]
        /\ x \in N
    BY <1>a, <2>1, NodeType
  <2>3. nd \in [D -> N]
    <3> HIDE DEF x, N
    <3> QED
      BY <1>3, <2>2
  <2>4. new = [tb EXCEPT !.node = nd]
    <3>1. new = [tb EXCEPT !.node[mp] = x]
      BY <1>0, <1>5 DEF Insert
    <3> HIDE DEF mp, x
    <3> QED
      BY <1>0, <3>1
  <2>5. new = [tb EXCEPT !.lastfree = tb.lastfree, !.node = nd]
    <3> HIDE DEF nd
    <3> QED
      BY <1>0, <2>4
  <2>6. Shaped(new, n) /\ new.node = nd /\ new.lastfree = tb.lastfree /\ new.array = tb.array
    <3> HIDE DEF nd, N, new
    <3> QED
      BY <1>0, <1>4, <2>3, <2>5, Reshaped, Zenon
  <2>7. NodeHas(new, mp, k, FALSE, Nil, tb.node[mp].next)
    <3>1. new.node[mp] = x
      BY <1>3, <2>1, <2>6
    <3> HIDE DEF x, new, nd
    <3> QED
      BY <2>2, <3>1 DEF NodeHas
  <2>8. \A i \in D : i # mp => SameNode(new, i, tb, i)
    <3> HIDE DEF x
    <3> QED
      BY <1>3, <2>1, <2>6 DEF NodeHas, SameNode
  <2> HIDE DEF new, mp
  <2>9. Inserted(tb, n, k, new)
    <3>1. mp = MainPosition(tb, k)
      BY DEF mp
    <3>2. tb.lastfree >= 0 /\ tb.node[mp].val = Nil
      BY <1>0, <1>5
    <3> HIDE DEF nd
    <3> QED
      BY <2>1, <2>6, <2>7, <2>8, <3>1, <3>2, TakesOver, Zenon
  <2> QED
    BY <2>9 DEF new
<1>6. CASE n = 0 \/ (tb.node[mp].val # Nil /\ FreePositions(tb) = {})
  <2>1. new = [tb EXCEPT !.lastfree = -1]
    BY <1>0, <1>6 DEF Insert
  <2>2. ~ Placed(new)
    BY <1>0, <2>1 DEF Placed
  <2>3. ASSUME NEW i \in D, tb.node[i].key = Nil PROVE FALSE
    <3>1. i < tb.lastfree /\ n # 0
      BY <1>0, <2>3 DEF Ordered, FreeAlone
    <3>2. i \in FreePositions(tb)
      BY <1>0, <2>3, <3>1 DEF FreePositions
    <3> QED
      BY <1>6, <3>1, <3>2
  <2> QED
    BY <2>2, <2>3
<1>7. CASE n > 0 /\ tb.node[mp].val # Nil /\ FreePositions(tb) # {}
  <2>1. mp \in D
    BY <1>0, <1>7, MainIs
  <2>2. /\ f \in D /\ f < tb.lastfree /\ tb.node[f].key = Nil
        /\ \A i \in D : tb.node[i].key = Nil => i <= f
    <3>1. FreePositions(tb) \in SUBSET (0 .. n)
      BY <1>0 DEF FreePositions
    <3>2. f \in FreePositions(tb) /\ \A i \in FreePositions(tb) : i <= f
      BY <1>0, <1>7, <3>1, MaxIs
    <3>3. ASSUME NEW i \in D, tb.node[i].key = Nil PROVE i \in FreePositions(tb)
      BY <1>0, <3>3 DEF FreePositions, Ordered, FreeAlone
    <3> HIDE DEF f
    <3>4. f \in D /\ f < tb.lastfree /\ tb.node[f].key = Nil
      BY <1>0, <3>2 DEF FreePositions
    <3> QED
      BY <3>2, <3>3, <3>4
  <2>3. tb.node[mp].key \in Keys /\ tb.node[mp].key # Nil
    BY <1>7, <2>1, LiveKeyed, Limits
  <2>4. othern \in D /\ Leads(p, d, othern, mp)
    BY <2>1, <2>3, KeyedMain DEF Ordered, KeyPlaced
  <2>5. f # mp
    BY <2>2, <2>3
  <2>6. CASE othern # mp
    <3>1. pr \in D /\ tb.node[pr].next = mp
      <4> DEFINE S == {j \in DOMAIN tb.node : tb.node[j].next = mp}
      <4>1. d[mp] \in Nat /\ d[othern] \in Nat /\ p[othern] = p[mp] /\ d[mp] <= d[othern] /\ d[mp] # d[othern]
        BY <2>1, <2>4, <2>6 DEF Ordered, Laid, Leads
      <4>2. d[mp] + 1 \in 0 .. d[othern]
        BY <4>1
      <4>3. PICK j \in D : p[j] = p[othern] /\ d[j] = d[mp] + 1
        <5> HIDE DEF othern, mp
        <5> QED
          BY <2>4, <4>2, Below DEF Ordered
      <4>4. tb.node[j].next \in D /\ p[tb.node[j].next] = p[mp] /\ d[tb.node[j].next] = d[mp]
        <5>1. d[j] # 0 /\ d[j] - 1 = d[mp]
          BY <4>1, <4>3
        <5>2. tb.node[j].next # -1
          BY <5>1 DEF Ordered, Laid
        <5>3. tb.node[j].next \in -1 .. n - 1
          BY NodeType
        <5>4. p[tb.node[j].next] = p[j] /\ d[tb.node[j].next] = d[j] - 1
          BY <5>2 DEF Ordered, Laid
        <5> QED
          BY <1>0, <4>1, <4>3, <5>1, <5>2, <5>3, <5>4
      <4>5. tb.node[j].next = mp
        <5> HIDE DEF mp
        <5> QED
          BY <2>1, <4>4 DEF Ordered, Laid
      <4>6. \A i \in D : i \in S <=> tb.node[i].next = mp
        BY <1>0
      <4>7. Leads(p, d, othern, j)
        BY <4>1, <4>2, <4>3 DEF Leads
      <4> HIDE DEF S, mp, othern
      <4>8. FirstIs(n, p, d, othern, S, Search(tb, othern, S))
        BY <2>4, SearchIs DEF Ordered
      <4>9. pr = Search(tb, othern, S)
        BY DEF S
      <4> HIDE DEF pr
      <4> QED
        BY <4>5, <4>6, <4>7, <4>8, <4>9 DEF FirstIs
    <3>2. pr # mp /\ pr # f
      <4>1. tb.node[f].next = -1 /\ mp # -1
        BY <1>0, <2>1, <2>2 DEF Ordered, FreeAlone
      <4>2. tb.node[mp].next # mp
        <5>1. d[mp] \in Nat /\ d[mp] # d[mp] - 1
          BY <2>1 DEF Ordered, Laid
        <5> HIDE DEF mp
        <5> QED
          BY <2>1, <4>1, <5>1 DEF Ordered, Laid
      <4> QED
        BY <3>1, <4>1, <4>2
    <3> DEFINE prn == [tb.node[pr] EXCEPT !.next = f]
               nd == [tb.node EXCEPT ![pr] = prn, ![f] = tb.node[mp], ![mp] = NewKey(k)]
    <3> HIDE DEF f, pr, othern, mp
    <3>3. prn \in N /\ tb.node[mp] \in N
      <4>1. tb.node[mp] \in N /\ tb.node[pr] \in N /\ f \in -1 .. n - 1
        BY <1>0, <1>3, <2>1, <2>2, <3>1
      <4> QED
        BY <4>1
    <3>4. nd \in [D -> N]
      <4> HIDE DEF N, prn
      <4> QED
        BY <1>1, <1>3, <3>3
    <3>5. new = [tb EXCEPT !.lastfree = f, !.node = nd]
      <4>1. new = [tb EXCEPT !.lastfree = f, !.node[pr].next = f, !.node[f] = tb.node[mp], !.node[mp] = NewKey(k)]
        BY <1>0, <1>7, <2>6 DEF Insert, f, pr, othern, mp
      <4> QED
        BY <1>0, <4>1
    <3>6. Shaped(new, n) /\ new.node = nd /\ new.lastfree = f /\ new.array = tb.array
      <4>1. f \in -1 .. n
        BY <1>0, <2>2
      <4> HIDE DEF nd, N, new
      <4>2. nd \in Vectors(n)
        BY <1>4, <3>4
      <4> HIDE DEF D
      <4> QED
        BY <1>0, <3>5, <4>1, <4>2 DEF Shaped
    <3>7. nd[mp] = NewKey(k) /\ nd[f] = tb.node[mp] /\ nd[pr] = prn
      BY <1>0, <1>3, <2>1, <2>2, <2>5, <3>1, <3>2
    <3>8. \A i \in D : i \notin {mp, f, pr} => nd[i] = tb.node[i]
      <4> HIDE DEF prn
      <4> QED
        BY <1>3
    <3>9. prn.key = tb.node[pr].key /\ prn.dead = tb.node[pr].dead /\ prn.val = tb.node[pr].val /\ prn.next = f
      BY <1>3, <3>1
    <3>10. /\ NodeHas(new, mp, k, FALSE, Nil, -1) /\ SameNode(new, f, tb, mp) /\ SameBut(new, pr, tb, f)
           /\ \A i \in D : i \notin {mp, f, pr} => SameNode(new, i, tb, i)
      <4> HIDE DEF prn, nd
      <4> QED
        BY <1>1, <3>6, <3>7, <3>8, <3>9 DEF NodeHas, SameNode, SameBut
    <3> HIDE DEF new
    <3>11. Inserted(tb, n, k, new)
      <4>1. mp = MainPosition(tb, k) /\ othern = MainPosition(tb, tb.node[mp].key)
        BY DEF mp, othern
      <4> QED
        BY <1>7, <2>1, <2>2, <2>6, <3>1, <3>6, <3>10, <4>1, MovesAway
    <3> QED
      BY <3>11 DEF new
  <2>7. CASE othern = mp
    <3> DEFINE mpn == [tb.node[mp] EXCEPT !.next = f]
               x == K(tb.node[mp].next)
               nd == [tb.node EXCEPT ![mp] = mpn, ![f] = x]
    <3>0. tb.node[mp].next \in -1 .. n - 1
      BY <2>1, NodeType
    <3>1. othern = MainPosition(tb, tb.node[mp].key) /\ mp = MainPosition(tb, k)
      OBVIOUS
    <3> HIDE DEF f, mp
    <3>3. mpn \in N /\ x \in N /\ x = [key |-> k, dead |-> FALSE, val |-> Nil, next |-> tb.node[mp].next]
      <4>1. tb.node[mp] \in N /\ f \in -1 .. n - 1
        BY <1>0, <1>3, <2>1, <2>2
      <4>2. x \in N /\ x = [key |-> k, dead |-> FALSE, val |-> Nil, next |-> tb.node[mp].next]
        <5> HIDE DEF N
        <5> QED
          BY <1>a, <3>0
      <4>3. mpn \in N
        BY <4>1
      <4> HIDE DEF N, x
      <4> QED
        BY <4>2, <4>3
    <3>4. nd \in [D -> N]
      <4> HIDE DEF N, mpn, x
      <4> QED
        BY <1>3, <3>3
    <3>5. new = [tb EXCEPT !.lastfree = f, !.node = nd]
      <4>1. new = [tb EXCEPT !.lastfree = f, !.node[mp].next = f, !.node[f] = x]
        BY <1>0, <1>7, <2>7 DEF Insert, f, mp
      <4> HIDE DEF x
      <4> QED
        BY <1>0, <4>1
    <3>6. Shaped(new, n) /\ new.node = nd /\ new.lastfree = f /\ new.array = tb.array
      <4>1. f \in -1 .. n
        BY <1>0, <2>2
      <4> HIDE DEF nd, N, new
      <4>2. nd \in Vectors(n)
        BY <1>4, <3>4
      <4> HIDE DEF D
      <4> QED
        BY <1>0, <3>5, <4>1, <4>2 DEF Shaped
    <3>7. nd[mp] = mpn /\ nd[f] = x
      <4> HIDE DEF x
      <4> QED
        BY <1>0, <1>3, <2>1, <2>2, <2>5
    <3>8. \A i \in D : i \notin {mp, f} => nd[i] = tb.node[i]
      <4> HIDE DEF mpn, x
      <4> QED
        BY <1>3
    <3>9. mpn.key = tb.node[mp].key /\ mpn.dead = tb.node[mp].dead /\ mpn.val = tb.node[mp].val /\ mpn.next = f
      BY <1>3, <2>1
    <3>10. /\ NodeHas(new, f, k, FALSE, Nil, tb.node[mp].next) /\ SameBut(new, mp, tb, f)
           /\ \A i \in D : i \notin {mp, f} => SameNode(new, i, tb, i)
      <4>1. NodeHas(new, f, k, FALSE, Nil, tb.node[mp].next)
        <5> HIDE DEF x, nd
        <5> QED
          BY <3>3, <3>6, <3>7 DEF NodeHas
      <4> HIDE DEF mpn, nd
      <4> QED
        BY <3>6, <3>7, <3>8, <3>9, <4>1 DEF NodeHas, SameNode, SameBut
    <3> HIDE DEF new
    <3>11. Inserted(tb, n, k, new)
      <4>1. mp = MainPosition(tb, k) /\ mp = MainPosition(tb, tb.node[mp].key)
        BY <2>7, <3>1 DEF mp
      <4> QED
        BY <1>7, <2>1, <2>2, <3>6, <3>10, <4>1, PutsOff
    <3> QED
      BY <3>11 DEF new
  <2> QED
    BY <2>6, <2>7
<1> QED
  BY <1>0, <1>5, <1>6, <1>7

-----------------------------------------------------------------------------
(* Assignments to fields that are there, and the collector, leave every    *)
(* key where it is.                                                        *)
SameKeys(new, tb, n) ==
  /\ Len(new.array) = Len(tb.array) /\ new.lastfree = tb.lastfree
  /\ \A i \in 0 .. n - 1 : new.node[i].key = tb.node[i].key /\ new.node[i].next = tb.node[i].next

LEMMA SameSizes ==
  ASSUME NEW tb, NEW n, Shaped(tb, n), NEW new, Shaped(new, n), Len(new.array) = Len(tb.array)
  PROVE  /\ \A k : MainPosition(new, k) = MainPosition(tb, k)
         /\ \A k : InArray(new, k) <=> InArray(tb, k)
         /\ SizeArray(new) = SizeArray(tb)
BY SizeIs DEF MainPosition, InArray, SizeArray

LEMMA StillOrdered ==
  ASSUME NEW tb, NEW n, Shaped(tb, n), NEW p, NEW d, Ordered(tb, n, p, d),
         NEW new, Shaped(new, n), SameKeys(new, tb, n),
         \A i \in 0 .. n - 1 :
           /\ tb.node[i].dead => new.node[i].dead
           /\ new.node[i].val # Nil => new.node[i].key # Nil /\ ~ new.node[i].dead
  PROVE  Ordered(new, n, p, d)
<1> DEFINE D == 0 .. n - 1
<1>1. /\ \A k : MainPosition(new, k) = MainPosition(tb, k)
      /\ \A k : InArray(new, k) <=> InArray(tb, k)
  BY SameSizes DEF SameKeys
<1>2. Laid(new, n, p, d)
  BY DEF Ordered, Laid, SameKeys
<1>3. ASSUME NEW i \in D, new.node[i].key # Nil PROVE KeyPlaced(new, n, p, d, i)
  <2> DEFINE k == tb.node[i].key
             m == MainPosition(tb, k)
  <2>1. new.node[i].key = k /\ k # Nil /\ KeyPlaced(tb, n, p, d, i)
    BY <1>3 DEF SameKeys, Ordered
  <2>2. m \in D
    BY <2>1, KeyedMain
  <2>3. new.node[m].key = tb.node[m].key
    BY <2>2 DEF SameKeys
  <2>4. tb.node[m].key # Nil /\ MainPosition(tb, tb.node[m].key) = m /\ Leads(p, d, m, i) /\ ~ InArray(tb, k)
    BY <2>1 DEF KeyPlaced
  <2>5. MainPosition(new, new.node[i].key) = m
    BY <1>1, <2>1
  <2> HIDE DEF m
  <2> QED
    BY <1>1, <2>1, <2>3, <2>4, <2>5 DEF KeyPlaced
<1>4. ASSUME NEW i \in D, new.node[i].key = Nil PROVE FreeAlone(new, n, p, d, i)
  BY <1>4 DEF FreeAlone, SameKeys, Ordered
<1>5. KeysApart(new, n, d)
  BY DEF KeysApart, SameKeys, Ordered
<1> QED
  BY <1>2, <1>3, <1>4, <1>5 DEF Ordered

Answers(tb, n, k, v) == IF InArray(tb, k) THEN tb.array[k] = v ELSE Holds(tb, n, k, v)

LEMMA GetSame ==
  ASSUME NEW tb, NEW n, Shaped(tb, n), NEW p, NEW d, Ordered(tb, n, p, d),
         NEW new, NEW m, Shaped(new, m), NEW q, NEW e, Ordered(new, m, q, e),
         NEW k \in Keys, \A v : v # Nil => (Answers(new, m, k, v) <=> Answers(tb, n, k, v))
  PROVE  Get(new, k) = Get(tb, k)
<1>1. ASSUME NEW v, v # Nil PROVE Get(tb, k) = v <=> Answers(tb, n, k, v)
  BY <1>1, GetIs DEF Answers
<1>2. ASSUME NEW v, v # Nil PROVE Get(new, k) = v <=> Answers(new, m, k, v)
  BY <1>2, GetIs DEF Answers
<1> DEFINE x == Get(new, k)
           y == Get(tb, k)
<1> HIDE DEF x, y
<1>3. \A v : v # Nil => (x = v <=> y = v)
  BY <1>1, <1>2 DEF x, y
<1>4. x = y
  BY <1>3
<1> QED
  BY <1>4 DEF x, y

(* The new table answers v at k, and at every other key as before.         *)
Answered(tb, k, v, new) == \A x \in Keys : Get(new, x) = IF x = k THEN v ELSE Get(tb, x)

LEMMA InArrayIs ==
  ASSUME NEW tb, NEW n, Shaped(tb, n), NEW k \in Keys
  PROVE  /\ InArray(tb, k) <=> k \in 1 .. Len(tb.array)
         /\ Len(tb.array) \in Nat /\ DOMAIN tb.array = 1 .. Len(tb.array)
         /\ \A i \in 1 .. Len(tb.array) : tb.array[i] \in Stored
<1>1. tb.array \in Seq(Stored)
  BY DEF Shaped
<1>2. k \in 1 .. Len(tb.array) => k \in Ints
  BY <1>1, Limits
<1> QED
  BY <1>1, <1>2 DEF InArray, SizeArray

LEMMA AssignIs ==
  ASSUME NEW tb, NEW n, Shaped(tb, n), NEW p, NEW d, Ordered(tb, n, p, d),
         NEW k \in Keys, NEW v \in Stored, InArray(tb, k) \/ Node(tb, k) # -1
  PROVE  /\ Shaped(Assign(tb, k, v), n) /\ SameKeys(Assign(tb, k, v), tb, n)
         /\ Ordered(Assign(tb, k, v), n, p, d)
         /\ Answered(tb, k, v, Assign(tb, k, v))
         /\ \A i \in 1 .. Len(tb.array) :
              Assign(tb, k, v).array[i] = tb.array[i] \/ i = k
<1> DEFINE D == 0 .. n - 1
           N == [key : Keys \cup {Nil}, dead : BOOLEAN, val : Stored, next : -1 .. n - 1]
           new == Assign(tb, k, v)
<1>0. /\ tb \in [array : Seq(Stored), node : Vectors(n), lastfree : -1 .. n] /\ n \in Nat
      /\ v \in Stored /\ Vectors(n) = [D -> N] /\ tb.node \in [D -> N]
      /\ k # Nil
  BY Limits DEF Shaped, Vectors
<1> HIDE DEF N
<1>1. CASE InArray(tb, k)
  <2> DEFINE arr == [tb.array EXCEPT ![k] = v]
  <2>1. k \in 1 .. Len(tb.array) /\ tb.array \in Seq(Stored)
    BY <1>0, <1>1, InArrayIs
  <2>2. arr \in Seq(Stored) /\ Len(arr) = Len(tb.array) /\ arr[k] = v
        /\ \A i \in 1 .. Len(tb.array) : i # k => arr[i] = tb.array[i]
    BY <1>0, <2>1
  <2>3. new = [tb EXCEPT !.array = arr]
    BY <1>0, <1>1 DEF Assign
  <2> HIDE DEF new, arr, D
  <2>4. Shaped(new, n) /\ new.array = arr /\ new.node = tb.node /\ new.lastfree = tb.lastfree
    BY <1>0, <2>2, <2>3 DEF Shaped
  <2>5. SameKeys(new, tb, n)
    BY <2>2, <2>4 DEF SameKeys
  <2>6. Ordered(new, n, p, d)
    <3>1. \A i \in 0 .. n - 1 : tb.node[i].val # Nil => tb.node[i].key # Nil /\ ~ tb.node[i].dead
      BY DEF Ordered, FreeAlone
    <3> QED
      BY <2>4, <2>5, <3>1, StillOrdered
  <2>7. \A x : InArray(new, x) <=> InArray(tb, x)
    BY <2>2, <2>4, SameSizes
  <2>8. Get(new, k) = v
    BY <1>1, <2>2, <2>4, <2>7 DEF Get
  <2>9. ASSUME NEW x \in Keys, x # k PROVE Get(new, x) = Get(tb, x)
    <3>1. CASE InArray(tb, x)
      <4>1. x \in 1 .. Len(tb.array)
        BY <3>1, InArrayIs
      <4> QED
        BY <2>2, <2>4, <2>7, <2>9, <3>1, <4>1 DEF Get
    <3>2. CASE ~ InArray(tb, x)
      <4>1. \A w : Answers(new, n, x, w) <=> Answers(tb, n, x, w)
        BY <2>4, <2>7, <3>2 DEF Answers, Holds
      <4> QED
        BY <2>4, <2>6, <4>1, GetSame
    <3> QED
      BY <3>1, <3>2
  <2> QED
    BY <2>2, <2>4, <2>5, <2>6, <2>8, <2>9 DEF new, Answered
<1>2. CASE ~ InArray(tb, k)
  <2> DEFINE r == Node(tb, k)
             x0 == [tb.node[r] EXCEPT !.val = v]
             nd == [tb.node EXCEPT ![r] = x0]
  <2>1. new = [tb EXCEPT !.node[r].val = v]
    BY <1>2 DEF Assign
  <2>2. r \in D /\ tb.node[r].key = k /\ ~ tb.node[r].dead
    BY <1>2, NodeIs DEF NodeFits
  <2> HIDE DEF r
  <2>3. new = [tb EXCEPT !.node = nd]
    BY <1>0, <2>1
  <2>4. /\ x0 \in N /\ x0.key = k /\ ~ x0.dead /\ x0.val = v /\ x0.next = tb.node[r].next
    BY <1>0, <2>2 DEF N
  <2> HIDE DEF x0
  <2>5. nd \in [D -> N] /\ nd[r] = x0 /\ \A i \in D : i # r => nd[i] = tb.node[i]
    BY <1>0, <2>2, <2>4
  <2> HIDE DEF nd, new, D
  <2>6. Shaped(new, n) /\ new.array = tb.array /\ new.node = nd /\ new.lastfree = tb.lastfree
    BY <1>0, <2>3, <2>5 DEF Shaped
  <2>7. SameKeys(new, tb, n)
    BY <2>2, <2>4, <2>5, <2>6 DEF SameKeys, D
  <2>8. Ordered(new, n, p, d)
    <3>1. \A i \in D : tb.node[i].val # Nil => tb.node[i].key # Nil /\ ~ tb.node[i].dead
      BY DEF Ordered, FreeAlone, D
    <3>2. ASSUME NEW i \in D
          PROVE  /\ tb.node[i].dead => new.node[i].dead
                 /\ new.node[i].val # Nil => new.node[i].key # Nil /\ ~ new.node[i].dead
      <4>1. CASE i = r
        BY <1>0, <2>2, <2>4, <2>5, <2>6, <4>1
      <4>2. CASE i # r
        BY <2>5, <2>6, <3>1, <4>2
      <4> QED
        BY <4>1, <4>2
    <3> QED
      BY <2>6, <2>7, <3>2, StillOrdered DEF D
  <2>9. \A x : InArray(new, x) <=> InArray(tb, x)
    BY <2>6, SameSizes
  <2>10. Get(new, k) = v
    <3>1. CASE v # Nil
      <4>1. Holds(new, n, k, v)
        BY <2>2, <2>4, <2>5, <2>6 DEF Holds, D
      <4> QED
        BY <1>2, <2>6, <2>8, <2>9, <3>1, <4>1, GetIs
    <3>2. CASE v = Nil
      <4> SUFFICES ASSUME Get(new, k) # Nil PROVE FALSE
        BY <3>2
      <4>1. PICK i \in D : new.node[i].key = k /\ new.node[i].val = Get(new, k)
        BY <1>2, <2>6, <2>8, <2>9, GetIs DEF Holds, D
      <4>2. ~ new.node[i].dead
        BY <2>6, <2>8, <4>1, LiveKeyed DEF D
      <4>3. new.node[r].key = k /\ ~ new.node[r].dead /\ new.node[r].val = Nil
        BY <2>4, <2>5, <2>6, <3>2
      <4>4. i = r
        BY <2>2, <2>6, <2>8, <4>1, <4>2, <4>3, AliveOnce DEF D
      <4> QED
        BY <4>1, <4>3, <4>4
    <3> QED
      BY <3>1, <3>2
  <2>11. ASSUME NEW x \in Keys, x # k PROVE Get(new, x) = Get(tb, x)
    <3>1. ASSUME NEW w, w # Nil PROVE Answers(new, n, x, w) <=> Answers(tb, n, x, w)
      <4>1. \A i \in D : new.node[i].key = x \/ tb.node[i].key = x => new.node[i] = tb.node[i]
        BY <2>2, <2>4, <2>5, <2>6, <2>11
      <4> QED
        BY <2>6, <2>9, <4>1 DEF Answers, Holds, D
    <3> QED
      BY <2>6, <2>8, <3>1, GetSame
  <2> QED
    BY <2>6, <2>7, <2>8, <2>10, <2>11 DEF new, Answered
<1> QED
  BY <1>1, <1>2
-----------------------------------------------------------------------------
(* The table new is tb with v at k, with at most one node more in use.     *)
PutIn(tb, n, k, v, new) ==
  /\ Sound(new, n) /\ Placed(new) /\ Len(new.array) = Len(tb.array)
  /\ Answered(tb, k, v, new)
  /\ \E z : \A i \in 0 .. n - 1 :
       new.node[i].key # Nil => tb.node[i].key # Nil \/ (i = z /\ ~ InArray(tb, k))

LEMMA AssignedIs ==
  ASSUME NEW tb, NEW n, Sound(tb, n), Placed(tb),
         NEW k \in Keys, NEW v \in Stored, InArray(tb, k) \/ Node(tb, k) # -1
  PROVE  PutIn(tb, n, k, v, Assign(tb, k, v)) /\ SameKeys(Assign(tb, k, v), tb, n)
<1> DEFINE new == Assign(tb, k, v)
<1>1. PICK p, d : Ordered(tb, n, p, d)
  BY DEF Sound
<1>2. Shaped(tb, n) /\ \A i \in 1 .. Len(tb.array) : tb.array[i] # Nil => i \in Ints
  BY DEF Sound
<1>3. /\ Shaped(new, n) /\ SameKeys(new, tb, n) /\ Ordered(new, n, p, d)
      /\ Answered(tb, k, v, new)
      /\ \A i \in 1 .. Len(tb.array) : new.array[i] = tb.array[i] \/ i = k
  BY <1>1, <1>2, AssignIs
<1> HIDE DEF new
<1>4. Len(new.array) = Len(tb.array) /\ new.lastfree = tb.lastfree
  BY <1>3 DEF SameKeys
<1>5. \A i \in 1 .. Len(new.array) : new.array[i] # Nil => i \in Ints
  <2>1. k \in 1 .. Len(tb.array) => k \in Ints
    BY <1>2, Limits, InArrayIs
  <2> QED
    BY <1>2, <1>3, <1>4, <2>1
<1>6. Sound(new, n)
  BY <1>3, <1>4, <1>5 DEF Sound
<1>7. \A i \in 0 .. n - 1 : new.node[i].key # Nil => tb.node[i].key # Nil
  BY <1>3 DEF SameKeys
<1> QED
  BY <1>3, <1>4, <1>6, <1>7 DEF PutIn, Placed, new

LEMMA PutIs ==
  ASSUME NEW tb, NEW n, Sound(tb, n), Placed(tb), NEW k \in Keys, NEW v \in Stored
  PROVE  \/ PutIn(tb, n, k, v, Put(tb, k, v))
         \/ /\ ~ Placed(Put(tb, k, v)) /\ ~ InArray(tb, k)
            /\ \A i \in 0 .. n - 1 : tb.node[i].key # Nil
<1>1. CASE InArray(tb, k) \/ Node(tb, k) # -1
  BY <1>1, AssignedIs DEF Put
<1>2. CASE ~ (InArray(tb, k) \/ Node(tb, k) # -1)
  <2> DEFINE new == Insert(tb, k)
             res == Put(tb, k, v)
  <2>1. PICK p, d : Ordered(tb, n, p, d)
    BY DEF Sound
  <2>2. Shaped(tb, n) /\ \A i \in 1 .. Len(tb.array) : tb.array[i] # Nil => i \in Ints
    BY DEF Sound
  <2>3. Absent(tb, n, k)
    <3>1. NodeFits(tb, n, k, Node(tb, k))
      BY <2>1, <2>2, NodeIs
    <3>2. n \in Nat
      BY <2>2, SizeIs
    <3> QED
      BY <1>2, <3>1, <3>2 DEF Absent, NodeFits
  <2>4. res = IF Placed(new) THEN Assign(new, k, v) ELSE new
    BY <1>2 DEF Put
  <2>5. \/ Inserted(tb, n, k, new)
        \/ ~ Placed(new) /\ \A i \in 0 .. n - 1 : tb.node[i].key # Nil
    BY <2>1, <2>2, <2>3, InsertIs
  <2> HIDE DEF new, res
  <2>6. CASE ~ Inserted(tb, n, k, new)
    BY <1>2, <2>4, <2>5, <2>6 DEF res
  <2>7. CASE Inserted(tb, n, k, new)
    <3>1. Shaped(new, n) /\ new.array = tb.array /\ Placed(new)
      BY <2>7 DEF Inserted
    <3>2. PICK q, e : Ordered(new, n, q, e)
      BY <2>7 DEF Inserted
    <3>3. Sound(new, n)
      BY <2>2, <3>1, <3>2 DEF Sound
    <3>4. Node(new, k) # -1
      <4>1. PICK i \in 0 .. n - 1 : new.node[i].key = k /\ ~ new.node[i].dead
        BY <2>7 DEF Inserted
      <4>2. NodeFits(new, n, k, Node(new, k)) /\ n \in Nat
        BY <3>1, <3>2, NodeIs, SizeIs
      <4> QED
        BY <4>1, <4>2 DEF NodeFits
    <3>5. ASSUME NEW x \in Keys PROVE Get(new, x) = Get(tb, x)
      <4>1. InArray(new, x) = InArray(tb, x)
        BY <2>2, <3>1, SameMain
      <4>2. \A w : w # Nil => (Answers(new, n, x, w) <=> Answers(tb, n, x, w))
        BY <2>7, <3>1, <4>1 DEF Answers, Inserted
      <4> QED
        BY <2>1, <2>2, <3>1, <3>2, <4>2, GetSame
    <3>6. PutIn(new, n, k, v, res) /\ SameKeys(res, new, n)
      BY <2>4, <3>1, <3>3, <3>4, AssignedIs
    <3>7. Answered(tb, k, v, res)
      BY <3>5, <3>6 DEF Answered, PutIn
    <3>8. PICK z \in 0 .. n - 1 : \A i \in 0 .. n - 1 :
             new.node[i].key # Nil => tb.node[i].key # Nil \/ i = z
      BY <2>7 DEF Inserted
    <3>9. \A i \in 0 .. n - 1 :
            res.node[i].key # Nil => tb.node[i].key # Nil \/ (i = z /\ ~ InArray(tb, k))
      BY <1>2, <3>6, <3>8 DEF SameKeys
    <3>10. PutIn(tb, n, k, v, res)
      BY <3>1, <3>6, <3>7, <3>9 DEF PutIn
    <3> QED
      BY <3>10 DEF res
  <2> QED
    BY <2>6, <2>7
<1> QED
  BY <1>1, <1>2

(* A field that has a value is assigned in place.                          *)
LEMMA PutInPlace ==
  ASSUME NEW tb, NEW n, Sound(tb, n), Placed(tb), NEW k \in Keys, NEW v \in Stored,
         Get(tb, k) # Nil
  PROVE  PutIn(tb, n, k, v, Put(tb, k, v)) /\ SameKeys(Put(tb, k, v), tb, n)
<1>1. InArray(tb, k) \/ Node(tb, k) # -1
  BY DEF Get
<1> QED
  BY <1>1, AssignedIs DEF Put
-----------------------------------------------------------------------------
(* setarrayvector, setnodevector                                           *)
LEMMA CeilLog2Is ==
  ASSUME NEW m \in 0 .. TwoTo[MaxBits]
  PROVE  /\ CeilLog2(m) \in 0 .. MaxBits /\ TwoTo[CeilLog2(m)] \in Nat
         /\ m <= TwoTo[CeilLog2(m)] /\ TwoTo[CeilLog2(m)] <= TwoTo[MaxBits]
<1> DEFINE S == {lg \in 0 .. MaxBits : TwoTo[lg] >= m}
<1>1. MaxBits \in Nat
  BY Limits
<1>2. TwoTo[MaxBits] \in Nat
  BY <1>1, TwoToRec
<1>3. MaxBits \in S /\ S \in SUBSET Nat
  BY <1>1, <1>2
<1>4. CeilLog2(m) \in S
  <2>1. CeilLog2(m) = Min(S)
    BY DEF CeilLog2
  <2> HIDE DEF S
  <2> QED
    BY <1>3, <2>1, MinIs
<1>5. CeilLog2(m) \in 0 .. MaxBits /\ MaxBits \in CeilLog2(m) .. MaxBits /\ TwoTo[CeilLog2(m)] >= m
  BY <1>1, <1>4
<1>6. TwoTo[CeilLog2(m)] \in Nat /\ TwoTo[CeilLog2(m)] <= TwoTo[MaxBits]
  BY <1>5, TwoToGrows
<1> QED
  BY <1>5, <1>6

IntsOnly(array) ==
  array \in Seq(Stored) /\ \A i \in 1 .. Len(array) : array[i] # Nil => i \in Ints

(* A table whose nodes are all free, with what is left of the array.       *)
Cleared(array, nasize, nhsize, tb, n) ==
  /\ Sound(tb, n) /\ Placed(tb) /\ n \in nhsize .. TwoTo[MaxBits]
  /\ Len(tb.array) = nasize /\ \A i \in 0 .. n - 1 : tb.node[i].key = Nil
  /\ \A x \in Keys :
       Get(tb, x) = IF x \in 1 .. nasize /\ x \in 1 .. Len(array) THEN array[x] ELSE Nil

LEMMA SizedIs ==
  ASSUME NEW array, IntsOnly(array), NEW nasize \in 0 .. TwoTo[MaxBits],
         NEW nhsize \in 0 .. TwoTo[MaxBits]
  PROVE  \E n : Cleared(array, nasize, nhsize, Sized(array, nasize, nhsize), n)
<1> DEFINE n == IF nhsize = 0 THEN 0 ELSE TwoTo[CeilLog2(nhsize)]
           arr == [i \in 1 .. nasize |-> IF i <= Len(array) THEN array[i] ELSE Nil]
           nd == [i \in 0 .. n - 1 |-> EmptyNode]
           tb == Sized(array, nasize, nhsize)
           N == [key : Keys \cup {Nil}, dead : BOOLEAN, val : Stored, next : -1 .. n - 1]
           p == [i \in 0 .. n - 1 |-> i]
           d == [i \in 0 .. n - 1 |-> 0]
<1>1. n \in Nat /\ n \in nhsize .. TwoTo[MaxBits] /\ TwoTo[MaxBits] \in Nat
  <2>1. TwoTo[MaxBits] \in Nat
    BY Limits, TwoToRec
  <2> QED
    BY <2>1, CeilLog2Is
<1>2. tb = [array |-> arr, node |-> nd, lastfree |-> n]
  BY DEF Sized
<1> HIDE DEF n, tb
<1>3. /\ arr \in Seq(Stored) /\ Len(arr) = nasize
      /\ \A i \in 1 .. nasize : arr[i] = IF i <= Len(array) THEN array[i] ELSE Nil
  <2>1. nasize \in Nat /\ Len(array) \in Nat /\ Nil \in Stored
    BY <1>1 DEF IntsOnly, Stored
  <2>2. \A i \in 1 .. nasize : i <= Len(array) => array[i] \in Stored
    BY <2>1 DEF IntsOnly
  <2> QED
    BY <2>1, <2>2
<1>4. EmptyNode \in N /\ EmptyNode.key = Nil /\ ~ EmptyNode.dead /\ EmptyNode.val = Nil /\ EmptyNode.next = -1
  <2>1. Nil \in Stored /\ -1 \in -1 .. n - 1
    BY <1>1 DEF Stored
  <2> DEFINE no == FALSE
  <2>2. no \in BOOLEAN /\ ~ no
    OBVIOUS
  <2>3. EmptyNode = [key |-> Nil, dead |-> no, val |-> Nil, next |-> -1]
    BY DEF EmptyNode
  <2> HIDE DEF no
  <2> QED
    BY <2>1, <2>2, <2>3
<1> HIDE DEF N
<1>5. nd \in [0 .. n - 1 -> N] /\ \A i \in 0 .. n - 1 : nd[i] = EmptyNode
  BY <1>4
<1> HIDE DEF arr, nd
<1>6. Shaped(tb, n) /\ tb.array = arr /\ tb.node = nd /\ tb.lastfree = n
  BY <1>1, <1>2, <1>3, <1>5 DEF Shaped, Vectors, N
<1>7. Ordered(tb, n, p, d)
  <2>1. Laid(tb, n, p, d)
    BY <1>1, <1>4, <1>5, <1>6 DEF Laid
  <2>2. ASSUME NEW i \in 0 .. n - 1 PROVE FreeAlone(tb, n, p, d, i)
    BY <1>1, <1>4, <1>5, <1>6 DEF FreeAlone
  <2>3. \A i \in 0 .. n - 1 : tb.node[i].key = Nil /\ tb.node[i].val = Nil
    BY <1>4, <1>5, <1>6
  <2> HIDE DEF p, d
  <2> QED
    BY <2>1, <2>2, <2>3 DEF Ordered, KeysApart
<1> HIDE DEF p, d
<1>8. \A i \in 1 .. nasize : arr[i] # Nil => i \in Ints
  BY <1>1, <1>3 DEF IntsOnly
<1>9. Sound(tb, n)
  BY <1>1, <1>3, <1>6, <1>7, <1>8 DEF Sound
<1>10. ASSUME NEW x \in Keys
       PROVE  Get(tb, x) = IF x \in 1 .. nasize /\ x \in 1 .. Len(array) THEN array[x] ELSE Nil
  <2>1. InArray(tb, x) <=> x \in 1 .. nasize
    BY <1>3, <1>6, InArrayIs
  <2>2. CASE x \in 1 .. nasize
    <3>1. Get(tb, x) = arr[x]
      BY <1>6, <2>1, <2>2 DEF Get
    <3>2. Len(array) \in Nat
      BY DEF IntsOnly
    <3> QED
      BY <1>1, <1>3, <2>2, <3>1, <3>2
  <2>3. CASE x \notin 1 .. nasize
    <3>1. ~ \E v : v # Nil /\ Holds(tb, n, x, v)
      BY <1>4, <1>5, <1>6 DEF Holds
    <3> QED
      BY <1>6, <1>7, <2>1, <2>3, <3>1, GetIs
  <2> QED
    BY <2>2, <2>3
<1>11. Placed(tb) /\ \A i \in 0 .. n - 1 : tb.node[i].key = Nil
  BY <1>1, <1>4, <1>5, <1>6 DEF Placed
<1>12. Cleared(array, nasize, nhsize, tb, n)
  BY <1>1, <1>3, <1>6, <1>9, <1>10, <1>11 DEF Cleared
<1> QED
  BY <1>12 DEF tb
-----------------------------------------------------------------------------
(* What resize takes out of the table and puts in again                    *)
MovedFits(tb, n, nasize, moved) ==
  /\ Len(moved) \in Nat /\ Len(moved) = Len(tb.array) + n
  /\ \A j \in 1 .. Len(moved) : moved[j].val # Nil =>
       /\ moved[j].key \in Keys /\ moved[j].val \in Stored
       /\ Get(tb, moved[j].key) = moved[j].val
       /\ j <= Len(tb.array) => moved[j].key = j /\ j > nasize
       /\ j > Len(tb.array) => moved[j].key \notin 1 .. Len(tb.array)
  /\ \A x \in Keys : Get(tb, x) # Nil =>
       \/ x \in 1 .. nasize /\ x \in 1 .. Len(tb.array)
       \/ \E j \in 1 .. Len(moved) : moved[j].key = x /\ moved[j].val # Nil
  /\ \A i, j \in 1 .. Len(moved) :
       moved[i].val # Nil /\ moved[j].val # Nil /\ moved[i].key = moved[j].key => i = j

LEMMA MovedIs ==
  ASSUME NEW tb, NEW n, Sound(tb, n), NEW nasize \in Nat
  PROVE  MovedFits(tb, n, nasize, Moved(tb, nasize))
<1> DEFINE moved == Moved(tb, nasize)
           a == Len(tb.array)
           all == a + n
<1>1. /\ Shaped(tb, n) /\ SizeNode(tb) = n /\ n \in Nat /\ a \in Nat /\ SizeArray(tb) = a
      /\ \A i \in 1 .. a : tb.array[i] \in Stored /\ (tb.array[i] # Nil => i \in Ints)
  <2>1. Shaped(tb, n)
    BY DEF Sound
  <2>2. tb.array \in Seq(Stored)
    BY <2>1 DEF Shaped
  <2> QED
    BY <2>1, <2>2, SizeIs DEF Sound, SizeArray
<1>2. PICK p, d : Ordered(tb, n, p, d)
  BY DEF Sound
<1> HIDE DEF a
<1>3. /\ Len(moved) = all /\ all \in Nat
      /\ \A i \in 1 .. all :
           moved[i] = IF i > a THEN [key |-> tb.node[all - i].key, val |-> tb.node[all - i].val]
                      ELSE [key |-> i, val |-> IF i > nasize THEN tb.array[i] ELSE Nil]
  BY <1>1 DEF Moved
<1> HIDE DEF moved
<1>4. \A i \in 1 .. all : i > a => /\ all - i \in 0 .. n - 1
                                   /\ moved[i].key = tb.node[all - i].key
                                   /\ moved[i].val = tb.node[all - i].val
  BY <1>1, <1>3
<1>5. \A i \in 1 .. all : ~ (i > a) => /\ i \in 1 .. a /\ moved[i].key = i
                                       /\ moved[i].val = IF i > nasize THEN tb.array[i] ELSE Nil
  BY <1>1, <1>3
<1>6. \A x \in Keys : InArray(tb, x) <=> x \in 1 .. a
  BY <1>1, InArrayIs DEF a
<1>7. ASSUME NEW i \in 0 .. n - 1, tb.node[i].val # Nil
      PROVE  /\ tb.node[i].key \in Keys /\ tb.node[i].key \notin 1 .. a
             /\ Get(tb, tb.node[i].key) = tb.node[i].val /\ tb.node[i].val \in Stored
             /\ ~ tb.node[i].dead
  <2>1. tb.node[i].key \in Keys /\ ~ InArray(tb, tb.node[i].key) /\ ~ tb.node[i].dead
    BY <1>1, <1>2, <1>7, LiveKeyed
  <2>2. Holds(tb, n, tb.node[i].key, tb.node[i].val)
    BY DEF Holds
  <2> QED
    BY <1>1, <1>2, <1>6, <1>7, <2>1, <2>2, GetIs, NodeType
<1>8. ASSUME NEW j \in 1 .. all, moved[j].val # Nil
      PROVE  /\ moved[j].key \in Keys /\ moved[j].val \in Stored
             /\ Get(tb, moved[j].key) = moved[j].val
             /\ j <= a => moved[j].key = j /\ j > nasize
             /\ j > a => moved[j].key \notin 1 .. a
  <2>1. CASE j > a
    BY <1>1, <1>4, <1>7, <1>8, <2>1
  <2>2. CASE ~ (j > a)
    <3>1. j \in 1 .. a /\ moved[j].key = j /\ moved[j].val = tb.array[j] /\ j > nasize
      BY <1>5, <1>8, <2>2
    <3>2. j \in Keys
      BY <1>1, <1>8, <3>1, Limits
    <3>3. Get(tb, j) = tb.array[j]
      BY <1>6, <3>1, <3>2 DEF Get
    <3> QED
      BY <1>1, <2>2, <3>1, <3>2, <3>3
  <2> QED
    BY <2>1, <2>2
<1>9. ASSUME NEW x \in Keys, Get(tb, x) # Nil
      PROVE  \/ x \in 1 .. nasize /\ x \in 1 .. a
             \/ \E j \in 1 .. all : moved[j].key = x /\ moved[j].val # Nil
  <2>1. CASE x \in 1 .. a
    <3>1. tb.array[x] # Nil
      BY <1>6, <1>9, <2>1 DEF Get
    <3>2. CASE x > nasize
      <4>1. x \in 1 .. all /\ ~ (x > a)
        BY <1>1, <2>1
      <4> QED
        BY <1>5, <3>1, <3>2, <4>1
    <3>3. CASE ~ (x > nasize)
      BY <1>1, <2>1, <3>3
    <3> QED
      BY <3>2, <3>3
  <2>2. CASE x \notin 1 .. a
    <3>1. PICK i \in 0 .. n - 1 : tb.node[i].key = x /\ tb.node[i].val = Get(tb, x)
      BY <1>1, <1>2, <1>6, <1>9, <2>2, GetIs DEF Holds
    <3>2. all - i \in 1 .. all /\ all - i > a /\ all - (all - i) = i
      BY <1>1
    <3> QED
      BY <1>4, <1>9, <3>1, <3>2
  <2> QED
    BY <2>1, <2>2
<1>10. ASSUME NEW i \in 1 .. all, NEW j \in 1 .. all,
              moved[i].val # Nil, moved[j].val # Nil, moved[i].key = moved[j].key
       PROVE  i = j
  <2>1. (i > a) = (j > a)
    BY <1>5, <1>8, <1>10
  <2>2. CASE i > a
    <3>1. all - i = all - j
      BY <1>1, <1>2, <1>4, <1>7, <1>10, <2>1, <2>2, AliveOnce
    <3> QED
      BY <1>1, <3>1
  <2>3. CASE ~ (i > a)
    BY <1>5, <1>10, <2>1, <2>3
  <2> QED
    BY <2>2, <2>3
<1> QED
  BY <1>1, <1>3, <1>8, <1>9, <1>10 DEF MovedFits, moved, a
-----------------------------------------------------------------------------
(* The moved entries up to the i-th that need a node *)
ToNodes(moved, nasize, i) ==
  {j \in 1 .. i : moved[j].val # Nil /\ moved[j].key \notin 1 .. nasize}

KeyedNodes(tb, n) == {i \in 0 .. n - 1 : tb.node[i].key # Nil}

LEMMA KeyedFinite ==
  ASSUME NEW tb, NEW n \in Nat
  PROVE  IsFiniteSet(KeyedNodes(tb, n)) /\ Cardinality(KeyedNodes(tb, n)) \in Nat
<1>1. IsFiniteSet(0 .. n - 1)
  BY NodesFinite
<1>2. KeyedNodes(tb, n) \subseteq 0 .. n - 1
  BY DEF KeyedNodes
<1> QED
  BY <1>1, <1>2, FS_Subset, FS_CardinalityType

LEMMA ToNodesFinite ==
  ASSUME NEW moved, NEW nasize, NEW i \in Nat
  PROVE  IsFiniteSet(ToNodes(moved, nasize, i)) /\ Cardinality(ToNodes(moved, nasize, i)) \in Nat
<1>1. IsFiniteSet(1 .. i)
  BY FS_Interval
<1>2. ToNodes(moved, nasize, i) \subseteq 1 .. i
  BY DEF ToNodes
<1> QED
  BY <1>1, <1>2, FS_Subset, FS_CardinalityType

(* The table new, after the first i moved entries have been put in         *)
Filled(tb, nasize, moved, m, i, new) ==
  /\ Sound(new, m) /\ Placed(new) /\ Len(new.array) = nasize
  /\ Cardinality(KeyedNodes(new, m)) <= Cardinality(ToNodes(moved, nasize, i))
  /\ \A x \in Keys :
       /\ Get(new, x) = Nil \/ Get(new, x) = Get(tb, x)
       /\ \/ x \in 1 .. nasize /\ x \in 1 .. Len(tb.array)
          \/ \E j \in 1 .. i : moved[j].key = x /\ moved[j].val # Nil
          => Get(new, x) = Get(tb, x)

LEMMA MoveOne ==
  ASSUME NEW tb, NEW n, NEW nasize \in Nat, NEW moved, MovedFits(tb, n, nasize, moved),
         NEW m \in Nat, Cardinality(ToNodes(moved, nasize, Len(moved))) <= m,
         NEW i \in 1 .. Len(moved), NEW new, Filled(tb, nasize, moved, m, i - 1, new),
         moved[i].val # Nil
  PROVE  Filled(tb, nasize, moved, m, i, Put(new, moved[i].key, moved[i].val))
<1> DEFINE k == moved[i].key
           v == moved[i].val
           res == Put(new, k, v)
           A == KeyedNodes(new, m)
           B == KeyedNodes(res, m)
           M == ToNodes(moved, nasize, i - 1)
           L == ToNodes(moved, nasize, i)
           All == ToNodes(moved, nasize, Len(moved))
<1>1. /\ k \in Keys /\ v \in Stored /\ Get(tb, k) = v /\ Len(moved) \in Nat
      /\ i \in Nat /\ i - 1 \in Nat /\ v # Nil
  BY DEF MovedFits
<1>2. Sound(new, m) /\ Placed(new) /\ Len(new.array) = nasize /\ Shaped(new, m)
  BY DEF Filled, Sound
<1>3. InArray(new, k) <=> k \in 1 .. nasize
  BY <1>1, <1>2, InArrayIs
<1>4. /\ IsFiniteSet(A) /\ IsFiniteSet(B) /\ IsFiniteSet(M) /\ IsFiniteSet(L) /\ IsFiniteSet(All)
      /\ Cardinality(A) \in Nat /\ Cardinality(B) \in Nat /\ Cardinality(M) \in Nat
      /\ Cardinality(L) \in Nat /\ Cardinality(All) \in Nat
  BY <1>1, KeyedFinite, ToNodesFinite
<1>5. L = IF k \in 1 .. nasize THEN M ELSE M \cup {i}
  BY <1>1 DEF ToNodes
<1>6. i \notin M /\ L \subseteq All
  BY <1>1 DEF ToNodes
<1>7. Cardinality(A) <= Cardinality(M)
  BY DEF Filled
<1> HIDE DEF k, v, res, A, B, M, L, All
<1>8. k \notin 1 .. nasize => Cardinality(L) = Cardinality(M) + 1
  BY <1>4, <1>5, <1>6, FS_AddElement
<1>9. PutIn(new, m, k, v, res)
  <2> SUFFICES ASSUME k \notin 1 .. nasize, \A j \in 0 .. m - 1 : new.node[j].key # Nil
               PROVE  FALSE
    BY <1>1, <1>2, <1>3, PutIs DEF res
  <2>1. A = 0 .. m - 1
    BY DEF A, KeyedNodes
  <2>2. Cardinality(A) = m
    BY <2>1, NodesFinite
  <2>3. Cardinality(L) <= Cardinality(All)
    BY <1>4, <1>6, FS_Subset
  <2>4. Cardinality(All) <= m
    BY DEF All
  <2> QED
    BY <1>4, <1>7, <1>8, <2>2, <2>3, <2>4
<1>10. Cardinality(B) <= Cardinality(L)
  <2>1. PICK z : \A j \in 0 .. m - 1 :
          res.node[j].key # Nil => new.node[j].key # Nil \/ (j = z /\ ~ InArray(new, k))
    BY <1>9 DEF PutIn
  <2>2. CASE k \in 1 .. nasize
    <3>1. B \subseteq A
      BY <1>3, <2>1, <2>2 DEF A, B, KeyedNodes
    <3>2. Cardinality(B) <= Cardinality(A)
      BY <1>4, <3>1, FS_Subset
    <3> QED
      BY <1>4, <1>5, <1>7, <2>2, <3>2
  <2>3. CASE k \notin 1 .. nasize
    <3>1. B \subseteq A \cup {z}
      BY <2>1 DEF A, B, KeyedNodes
    <3>2. IsFiniteSet(A \cup {z}) /\ Cardinality(A \cup {z}) <= Cardinality(A) + 1
          /\ Cardinality(A \cup {z}) \in Nat
      <4>1. IsFiniteSet(A \cup {z})
            /\ Cardinality(A \cup {z}) = IF z \in A THEN Cardinality(A) ELSE Cardinality(A) + 1
        BY <1>4, FS_AddElement
      <4> QED
        BY <1>4, <4>1
    <3>3. Cardinality(B) <= Cardinality(A \cup {z})
      BY <3>1, <3>2, FS_Subset
    <3> QED
      BY <1>4, <1>7, <1>8, <2>3, <3>2, <3>3
  <2> QED
    BY <2>2, <2>3
<1>11. Sound(res, m) /\ Placed(res) /\ Len(res.array) = nasize /\ Answered(new, k, v, res)
  BY <1>2, <1>9 DEF PutIn
<1>12. ASSUME NEW x \in Keys
       PROVE  /\ Get(res, x) = Nil \/ Get(res, x) = Get(tb, x)
              /\ \/ x \in 1 .. nasize /\ x \in 1 .. Len(tb.array)
                 \/ \E j \in 1 .. i : moved[j].key = x /\ moved[j].val # Nil
                 => Get(res, x) = Get(tb, x)
  <2>1. CASE x = k
    BY <1>1, <1>11, <2>1 DEF Answered
  <2>2. CASE x # k
    <3>1. Get(res, x) = Get(new, x)
      BY <1>11, <2>2 DEF Answered
    <3>2. \A j \in 1 .. i : moved[j].key = x => j \in 1 .. i - 1
      BY <1>1, <2>2 DEF k
    <3> QED
      BY <3>1, <3>2 DEF Filled
  <2> QED
    BY <2>1, <2>2
<1> QED
  BY <1>10, <1>11, <1>12 DEF Filled, res, k, v, B, L
LEMMA MoveNone ==
  ASSUME NEW tb, NEW nasize \in Nat, NEW moved, NEW m \in Nat, Len(moved) \in Nat,
         NEW i \in 1 .. Len(moved), NEW new, Filled(tb, nasize, moved, m, i - 1, new),
         moved[i].val = Nil
  PROVE  Filled(tb, nasize, moved, m, i, new)
<1>1. ToNodes(moved, nasize, i) = ToNodes(moved, nasize, i - 1)
  BY DEF ToNodes
<1>2. \A j \in 1 .. i : moved[j].val # Nil => j \in 1 .. i - 1
  OBVIOUS
<1> QED
  BY <1>1, <1>2 DEF Filled

LEMMA MoveFirst ==
  ASSUME NEW tb, NEW n, Sound(tb, n), NEW nasize \in Nat, NEW nhsize, NEW moved,
         NEW new, NEW m \in Nat, Cleared(tb.array, nasize, nhsize, new, m)
  PROVE  Filled(tb, nasize, moved, m, 0, new)
<1>1. KeyedNodes(new, m) = {} /\ ToNodes(moved, nasize, 0) = {}
  BY DEF KeyedNodes, ToNodes, Cleared
<1>2. Cardinality({}) = 0
  BY FS_EmptySet
<1>3. Shaped(tb, n)
  BY DEF Sound
<1>4. ASSUME NEW x \in Keys, x \in 1 .. Len(tb.array) PROVE Get(tb, x) = tb.array[x]
  BY <1>3, <1>4, InArrayIs DEF Get
<1>5. Sound(new, m) /\ Placed(new) /\ Len(new.array) = nasize
  BY DEF Cleared
<1>6. Cardinality(KeyedNodes(new, m)) <= Cardinality(ToNodes(moved, nasize, 0))
  BY <1>1, <1>2
<1>7. ASSUME NEW x \in Keys
      PROVE  /\ Get(new, x) = Nil \/ Get(new, x) = Get(tb, x)
             /\ x \in 1 .. nasize /\ x \in 1 .. Len(tb.array) => Get(new, x) = Get(tb, x)
  BY <1>4 DEF Cleared
<1>8. \A j \in 1 .. 0 : FALSE
  OBVIOUS
<1> QED
  BY <1>5, <1>6, <1>7, <1>8 DEF Filled

(* The table new has what tb has, with room for nhsize keys outside the    *)
(* array part.                                                             *)
Resized(tb, nasize, nhsize, new) ==
  \E m \in nhsize .. TwoTo[MaxBits] :
    /\ Sound(new, m) /\ Placed(new) /\ Len(new.array) = nasize
    /\ Cardinality(KeyedNodes(new, m))
         <= Cardinality(ToNodes(Moved(tb, nasize), nasize, Len(Moved(tb, nasize))))
    /\ \A x \in Keys : Get(new, x) = Get(tb, x)

LEMMA ResizeIs ==
  ASSUME NEW tb, NEW n, Sound(tb, n), NEW nasize \in 0 .. TwoTo[MaxBits],
         NEW nhsize \in 0 .. TwoTo[MaxBits],
         Cardinality(ToNodes(Moved(tb, nasize), nasize, Len(Moved(tb, nasize)))) <= nhsize
  PROVE  Resized(tb, nasize, nhsize, Resize(tb, nasize, nhsize))
<1> DEFINE moved == Moved(tb, nasize)
           L == Len(moved)
           start == Sized(tb.array, nasize, nhsize)
           Step(j, e) == IF moved[j].val = Nil THEN e ELSE Put(e, moved[j].key, moved[j].val)
           Into(f) == [j \in 0 .. L |-> IF j = 0 THEN start ELSE IF moved[j].val = Nil THEN f[j - 1]
                                        ELSE Put(f[j - 1], moved[j].key, moved[j].val)]
           into == CHOOSE f : f = Into(f)
           P == {i \in Nat : \E f : f[0] = start /\ \A j \in 1 .. i : f[j] = Step(j, f[j - 1])}
<1>1. nasize \in Nat /\ nhsize \in Nat /\ TwoTo[MaxBits] \in Nat
  BY Limits, TwoToRec
<1>2. MovedFits(tb, n, nasize, moved)
  BY <1>1, MovedIs
<1>3. L \in Nat
  BY <1>2 DEF MovedFits
<1>4. Resize(tb, nasize, nhsize) = into[L]
  BY DEF Resize
<1>5. PICK m : Cleared(tb.array, nasize, nhsize, start, m)
  <2>1. IntsOnly(tb.array)
    BY DEF Sound, Shaped, IntsOnly
  <2> QED
    BY <1>1, <2>1, SizedIs
<1>6. m \in nhsize .. TwoTo[MaxBits] /\ m \in Nat
  BY <1>1, <1>5 DEF Cleared
<1>7. Cardinality(ToNodes(moved, nasize, L)) <= m
  <2>1. Cardinality(ToNodes(moved, nasize, L)) \in Nat
    BY <1>3, ToNodesFinite
  <2> QED
    BY <1>1, <1>6, <2>1
<1> HIDE DEF moved, start
<1>8. 0 \in P
  <2>1. [j \in {0} |-> start][0] = start
    OBVIOUS
  <2>2. \A j \in 1 .. 0 : FALSE
    OBVIOUS
  <2> QED
    BY <2>1, <2>2
<1>9. ASSUME NEW i \in 0 + 1 .. L, i - 1 \in P PROVE i \in P
  <2>1. PICK f : f[0] = start /\ \A j \in 1 .. i - 1 : f[j] = Step(j, f[j - 1])
    BY <1>9
  <2> DEFINE e == [j \in 0 .. i |-> IF j < i THEN f[j] ELSE Step(i, f[i - 1])]
  <2>2. i \in Nat /\ i > 0
    BY <1>3
  <2> HIDE DEF Step
  <2>3. e[0] = start
    BY <2>1, <2>2
  <2>4. ASSUME NEW j \in 1 .. i PROVE e[j] = Step(j, e[j - 1])
    <3>1. e[j - 1] = f[j - 1]
      BY <2>2
    <3>2. CASE j = i
      BY <2>2, <3>1, <3>2
    <3>3. CASE j # i
      <4>1. e[j] = f[j] /\ j \in 1 .. i - 1
        BY <2>2, <3>3
      <4> QED
        BY <2>1, <3>1, <4>1
    <3> QED
      BY <3>2, <3>3
  <2> HIDE DEF e
  <2> QED
    BY <2>2, <2>3, <2>4
<1>10. L \in P
  <2> HIDE DEF P
  <2>1. 0 \in Nat
    OBVIOUS
  <2>2. \A i \in 0 .. L : i \in P
    BY <1>3, <1>8, <1>9, <2>1, Upwards
  <2> QED
    BY <1>3, <2>2
<1>11. PICK f : f[0] = start /\ \A j \in 1 .. L : f[j] = Step(j, f[j - 1])
  BY <1>10
<1> DEFINE F == [j \in 0 .. L |-> f[j]]
<1>12. F = Into(F)
  <2>1. \A j \in 0 .. L : j # 0 => j \in 1 .. L /\ j - 1 \in 0 .. L
    BY <1>3
  <2>2. \A j \in 0 .. L : F[j] = IF j = 0 THEN start ELSE IF moved[j].val = Nil THEN F[j - 1]
                                 ELSE Put(F[j - 1], moved[j].key, moved[j].val)
    BY <1>11, <2>1
  <2> QED
    BY <2>2
<1>13. into = Into(into)
  <2> HIDE DEF F, Into
  <2> QED
    BY <1>12
<1> HIDE DEF into
<1>14. into[0] = start /\ \A j \in 1 .. L : into[j] = Step(j, into[j - 1])
  <2>1. \A j \in 1 .. L : j \in 0 .. L /\ j # 0
    BY <1>3
  <2>2. 0 \in 0 .. L
    BY <1>3
  <2> QED
    BY <1>13, <2>1, <2>2
<1> DEFINE Q == {i \in 0 .. L : Filled(tb, nasize, moved, m, i, into[i])}
<1>15. 0 \in Q
  <2>1. Filled(tb, nasize, moved, m, 0, start)
    BY <1>1, <1>5, <1>6, MoveFirst
  <2> QED
    BY <1>3, <1>14, <2>1
<1>16. ASSUME NEW i \in 0 + 1 .. L, i - 1 \in Q PROVE i \in Q
  <2>1. i \in 1 .. L /\ i \in 0 .. L /\ Filled(tb, nasize, moved, m, i - 1, into[i - 1])
    BY <1>3, <1>16
  <2>2. CASE moved[i].val = Nil
    <3>1. into[i] = into[i - 1]
      BY <1>14, <2>1, <2>2
    <3> QED
      BY <1>1, <1>3, <1>6, <2>1, <2>2, <3>1, MoveNone
  <2>3. CASE moved[i].val # Nil
    <3>1. into[i] = Put(into[i - 1], moved[i].key, moved[i].val)
      BY <1>14, <2>1, <2>3
    <3> QED
      BY <1>1, <1>2, <1>6, <1>7, <2>1, <2>3, <3>1, MoveOne
  <2> QED
    BY <2>2, <2>3
<1>17. L \in Q
  <2> HIDE DEF Q
  <2>1. 0 \in Nat
    OBVIOUS
  <2>2. \A i \in 0 .. L : i \in Q
    BY <1>3, <1>15, <1>16, <2>1, Upwards
  <2> QED
    BY <1>3, <2>2
<1>18. Filled(tb, nasize, moved, m, L, into[L])
  BY <1>17
<1>19. \A x \in Keys : Get(into[L], x) = Get(tb, x)
  BY <1>2, <1>18 DEF Filled, MovedFits
<1> QED
  BY <1>4, <1>6, <1>18, <1>19 DEF Resized, Filled, moved
-----------------------------------------------------------------------------
(* Counting: every key with a value is counted once, in the array or in a  *)
(* node.                                                                   *)
LEMMA Matched ==
  ASSUME NEW S, NEW T, IsFiniteSet(S), NEW f \in [S -> T],
         \A x, y \in S : f[x] = f[y] => x = y, \A y \in T : \E x \in S : f[x] = y
  PROVE  IsFiniteSet(T) /\ Cardinality(T) = Cardinality(S)
<1>1. f \in Bijection(S, T)
  BY DEF Bijection, Injection, Surjection, IsInjective
<1>2. ExistsBijection(S, T)
  BY <1>1, Fun_ExistsBij
<1> QED
  BY <1>2, FS_Bijection

LEMMA Parts ==
  ASSUME NEW T, NEW U, IsFiniteSet(T \cup U), T \cap U = {}
  PROVE  /\ IsFiniteSet(T) /\ IsFiniteSet(U) /\ Cardinality(T \cup U) \in Nat
         /\ Cardinality(T) \in Nat /\ Cardinality(U) \in Nat
         /\ Cardinality(T \cup U) = Cardinality(T) + Cardinality(U)
<1>1. IsFiniteSet(T) /\ IsFiniteSet(U)
  BY FS_Subset
<1>2. Cardinality(T \cup U) \in Nat /\ Cardinality(T) \in Nat /\ Cardinality(U) \in Nat
  BY <1>1, FS_CardinalityType
<1>3. Cardinality(T \cap U) = 0
  BY FS_EmptySet
<1>4. Cardinality(T \cup U) = Cardinality(T) + Cardinality(U) - Cardinality(T \cap U)
  BY <1>1, FS_Union
<1> QED
  BY <1>1, <1>2, <1>3, <1>4

HasValue(tb) == {k \in Keys : Get(tb, k) # Nil}

LEMMA HasValueFinite ==
  ASSUME NEW tb, NEW S, S \subseteq HasValue(tb)
  PROVE  IsFiniteSet(S) /\ Cardinality(S) \in Nat
<1>1. S \subseteq Keys
  BY DEF HasValue
<1> QED
  BY <1>1, Limits, FS_Subset, FS_CardinalityType

(* The keys of X with a value in each part, and the nodes of the latter    *)
LiveNodes(tb, n, X) == {i \in 0 .. n - 1 : tb.node[i].val # Nil /\ tb.node[i].key \in X}
NodePart(tb, X) == {k \in HasValue(tb) : k \notin 1 .. Len(tb.array) /\ k \in X}
ArrayPart(tb, X) == {k \in HasValue(tb) : k \in 1 .. Len(tb.array) /\ k \in X}

LEMMA NodesCount ==
  ASSUME NEW tb, NEW n, Sound(tb, n), NEW X
  PROVE  Cardinality(LiveNodes(tb, n, X)) = Cardinality(NodePart(tb, X))
<1> DEFINE S == LiveNodes(tb, n, X)
           T == NodePart(tb, X)
           f == [i \in S |-> tb.node[i].key]
<1>1. Shaped(tb, n) /\ n \in Nat
  BY SizeIs DEF Sound
<1>2. PICK p, d : Ordered(tb, n, p, d)
  BY DEF Sound
<1>3. \A x \in Keys : InArray(tb, x) <=> x \in 1 .. Len(tb.array)
  BY <1>1, InArrayIs
<1>s. S = {i \in 0 .. n - 1 : tb.node[i].val # Nil /\ tb.node[i].key \in X}
  BY DEF LiveNodes
<1>t. T = {k \in HasValue(tb) : k \notin 1 .. Len(tb.array) /\ k \in X}
  BY DEF NodePart
<1> HIDE DEF S, T
<1>4. IsFiniteSet(S)
  <2>1. S \subseteq 0 .. n - 1
    BY <1>s
  <2> QED
    BY <1>1, <2>1, NodesFinite, FS_Subset
<1>5. ASSUME NEW i \in S PROVE tb.node[i].key \in T /\ ~ tb.node[i].dead /\ tb.node[i].key \in Keys
  <2>1. tb.node[i].key \in Keys /\ ~ tb.node[i].dead /\ ~ InArray(tb, tb.node[i].key)
    BY <1>1, <1>2, <1>s, LiveKeyed
  <2>2. Holds(tb, n, tb.node[i].key, tb.node[i].val)
    BY <1>s DEF Holds
  <2>3. Get(tb, tb.node[i].key) = tb.node[i].val
    BY <1>1, <1>2, <1>s, <2>1, <2>2, GetIs
  <2> QED
    BY <1>3, <1>s, <1>t, <2>1, <2>3 DEF HasValue
<1>6. f \in [S -> T]
  BY <1>5
<1>7. \A i, j \in S : f[i] = f[j] => i = j
  BY <1>1, <1>2, <1>5, <1>s, AliveOnce
<1>8. ASSUME NEW k \in T PROVE \E i \in S : f[i] = k
  <2>1. k \in Keys /\ Get(tb, k) # Nil /\ ~ InArray(tb, k) /\ k \in X
    BY <1>3, <1>t DEF HasValue
  <2>2. PICK i \in 0 .. n - 1 : tb.node[i].key = k /\ tb.node[i].val = Get(tb, k)
    BY <1>1, <1>2, <2>1, GetIs DEF Holds
  <2> QED
    BY <1>s, <2>1, <2>2
<1> HIDE DEF f
<1>9. Cardinality(T) = Cardinality(S)
  BY <1>4, <1>6, <1>7, <1>8, Matched
<1> QED
  BY <1>9 DEF S, T

LEMMA MovedCount ==
  ASSUME NEW tb, NEW n, Sound(tb, n), NEW nasize \in Nat, NEW moved, MovedFits(tb, n, nasize, moved)
  PROVE  Cardinality(ToNodes(moved, nasize, Len(moved)))
           = Cardinality({k \in HasValue(tb) : k \notin 1 .. nasize})
<1> DEFINE S == ToNodes(moved, nasize, Len(moved))
           T == {k \in HasValue(tb) : k \notin 1 .. nasize}
           f == [j \in S |-> moved[j].key]
<1>1. IsFiniteSet(S)
  BY ToNodesFinite DEF MovedFits
<1>2. \A j \in S : j \in 1 .. Len(moved) /\ moved[j].val # Nil /\ moved[j].key \notin 1 .. nasize
  BY DEF ToNodes
<1>3. ASSUME NEW j \in S PROVE moved[j].key \in T
  <2>1. j \in 1 .. Len(moved) /\ moved[j].val # Nil /\ moved[j].key \notin 1 .. nasize
    BY <1>2
  <2>2. moved[j].key \in Keys /\ Get(tb, moved[j].key) = moved[j].val
    BY <2>1 DEF MovedFits
  <2> QED
    BY <2>1, <2>2 DEF HasValue
<1>4. \A j \in 1 .. Len(moved) : moved[j].val # Nil /\ moved[j].key \notin 1 .. nasize => j \in S
  BY DEF ToNodes
<1> HIDE DEF S
<1>5. f \in [S -> T]
  BY <1>3
<1>6. \A i, j \in S : f[i] = f[j] => i = j
  BY <1>2 DEF MovedFits
<1>7. ASSUME NEW k \in T PROVE \E j \in S : f[j] = k
  <2>1. k \in Keys /\ Get(tb, k) # Nil /\ k \notin 1 .. nasize
    BY DEF HasValue
  <2>2. PICK j \in 1 .. Len(moved) : moved[j].key = k /\ moved[j].val # Nil
    BY <2>1 DEF MovedFits
  <2> QED
    BY <1>4, <2>1, <2>2
<1> HIDE DEF T, f
<1>8. Cardinality(T) = Cardinality(S)
  BY <1>1, <1>5, <1>6, <1>7, Matched
<1> QED
  BY <1>8 DEF S, T

(* The elements of the array part with a value, among X *)
LEMMA ArrayCount ==
  ASSUME NEW tb, NEW n, Sound(tb, n), NEW X
  PROVE  {i \in 1 .. Len(tb.array) : tb.array[i] # Nil /\ i \in X} = ArrayPart(tb, X)
<1>1. Shaped(tb, n)
  BY DEF Sound
<1>2. ASSUME NEW i \in 1 .. Len(tb.array), tb.array[i] # Nil PROVE i \in HasValue(tb)
  <2>1. i \in Keys
    BY <1>2, Limits DEF Sound
  <2>2. Get(tb, i) = tb.array[i]
    BY <1>1, <2>1, InArrayIs DEF Get
  <2> QED
    BY <1>2, <2>1, <2>2 DEF HasValue
<1>3. ASSUME NEW k \in HasValue(tb), k \in 1 .. Len(tb.array) PROVE tb.array[k] # Nil
  <2>1. k \in Keys /\ Get(tb, k) # Nil
    BY DEF HasValue
  <2> QED
    BY <1>1, <1>3, <2>1, InArrayIs DEF Get
<1> QED
  BY <1>2, <1>3 DEF ArrayPart

LEMMA InUseIs ==
  ASSUME NEW tb, NEW n, Sound(tb, n)
  PROVE  InUse(tb) = Cardinality(HasValue(tb)) /\ Cardinality(HasValue(tb)) \in Nat
<1> DEFINE A == ArrayPart(tb, Keys)
           B == NodePart(tb, Keys)
<1>1. Shaped(tb, n) /\ SizeArray(tb) = Len(tb.array) /\ DOMAIN tb.node = 0 .. n - 1
  BY SizeIs DEF Sound, SizeArray
<1>2. {i \in 1 .. Len(tb.array) : tb.array[i] # Nil} = A
  <2>1. \A i \in 1 .. Len(tb.array) : tb.array[i] # Nil => i \in Keys
    BY Limits DEF Sound
  <2>2. {i \in 1 .. Len(tb.array) : tb.array[i] # Nil}
          = {i \in 1 .. Len(tb.array) : tb.array[i] # Nil /\ i \in Keys}
    BY <2>1
  <2> QED
    BY <2>2, ArrayCount
<1>3. {i \in 0 .. n - 1 : tb.node[i].val # Nil} = LiveNodes(tb, n, Keys)
  <2>1. \A i \in 0 .. n - 1 : tb.node[i].val # Nil => tb.node[i].key \in Keys
    BY <1>1, LiveKeyed DEF Sound
  <2> QED
    BY <2>1 DEF LiveNodes
<1>4. HasValue(tb) = A \cup B /\ A \cap B = {} /\ IsFiniteSet(HasValue(tb))
  BY HasValueFinite DEF HasValue, ArrayPart, NodePart
<1>5. Cardinality(LiveNodes(tb, n, Keys)) = Cardinality(B)
  BY NodesCount
<1> HIDE DEF A, B
<1>6. Cardinality(A \cup B) = Cardinality(A) + Cardinality(B) /\ Cardinality(A \cup B) \in Nat
  BY <1>4, Parts
<1>7. InUse(tb) = Cardinality(A) + Cardinality(B)
  BY <1>1, <1>2, <1>3, <1>5 DEF InUse
<1> QED
  BY <1>4, <1>6, <1>7
-----------------------------------------------------------------------------
(* The slices partition 1 .. twoto(lg), and nums counts the keys in each.  *)
LEMMA SliceIs ==
  /\ Slice(0) = 1 .. 1 /\ TwoTo[0] = 1
  /\ \A lg \in 1 .. MaxBits :
       /\ TwoTo[lg - 1] \in Nat /\ TwoTo[lg] = 2 * TwoTo[lg - 1] /\ TwoTo[lg - 1] > 0
       /\ Slice(lg) = TwoTo[lg - 1] + 1 .. TwoTo[lg]
       /\ 1 .. TwoTo[lg] = (1 .. TwoTo[lg - 1]) \cup Slice(lg)
       /\ (1 .. TwoTo[lg - 1]) \cap Slice(lg) = {}
<1>1. TwoTo[0] = 1 /\ MaxBits \in Nat
  BY TwoToRec, Limits
<1>2. Slice(0) = 1 .. 1
  <2>1. TwoTo[0] \div 2 = 0
    BY <1>1
  <2> QED
    BY <1>1, <2>1 DEF Slice
<1>3. ASSUME NEW lg \in 1 .. MaxBits
      PROVE  /\ TwoTo[lg - 1] \in Nat /\ TwoTo[lg] = 2 * TwoTo[lg - 1] /\ TwoTo[lg - 1] > 0
             /\ Slice(lg) = TwoTo[lg - 1] + 1 .. TwoTo[lg]
             /\ 1 .. TwoTo[lg] = (1 .. TwoTo[lg - 1]) \cup Slice(lg)
             /\ (1 .. TwoTo[lg - 1]) \cap Slice(lg) = {}
  <2> DEFINE a == TwoTo[lg - 1]
  <2>1. lg - 1 \in 0 .. MaxBits /\ lg \in lg - 1 .. MaxBits
    BY <1>1
  <2>2. a \in Nat /\ a > 0 /\ TwoTo[lg] = 2 * a
    BY <2>1, TwoToGrows, TwoToRec
  <2> HIDE DEF a
  <2>3. (2 * a) \div 2 = a
    BY <2>2
  <2>4. Slice(lg) = {i \in 1 .. 2 * a : i > a}
    BY <2>2, <2>3 DEF Slice
  <2>5. Slice(lg) = a + 1 .. 2 * a
    BY <2>2, <2>4
  <2>6. 1 .. 2 * a = (1 .. a) \cup (a + 1 .. 2 * a) /\ (1 .. a) \cap (a + 1 .. 2 * a) = {}
    BY <2>2
  <2> QED
    BY <2>2, <2>5, <2>6 DEF a
<1> QED
  BY <1>1, <1>2, <1>3

Counts(nums, X) == \A lg \in 0 .. MaxBits : nums[lg] = Cardinality(X \cap Slice(lg))

LEMMA NumsIs ==
  ASSUME NEW tb, NEW n, Sound(tb, n), NEW ek \in Keys, Get(tb, ek) = Nil
  PROVE  /\ Counts(Nums(tb, ek), HasValue(tb) \cup {ek})
         /\ IsFiniteSet(HasValue(tb) \cup {ek})
         /\ Cardinality(HasValue(tb) \cup {ek}) = InUse(tb) + 1
         /\ Cardinality(HasValue(tb) \cup {ek}) <= TwoTo[MaxBits]
<1> DEFINE H == HasValue(tb)
           all == H \cup {ek}
<1>1. Shaped(tb, n) /\ SizeArray(tb) = Len(tb.array) /\ DOMAIN tb.node = 0 .. n - 1
      /\ Len(tb.array) \in Nat
  BY SizeIs, InArrayIs DEF Sound, SizeArray
<1>2. IsFiniteSet(H) /\ ek \notin H /\ IsFiniteSet(all) /\ H \cap {ek} = {}
  BY HasValueFinite, FS_AddElement DEF HasValue
<1>3. Cardinality(all) = InUse(tb) + 1
  BY <1>2, FS_AddElement, InUseIs
<1>4. Cardinality(all) <= TwoTo[MaxBits]
  <2>1. all \subseteq Keys
    BY DEF HasValue
  <2>2. Cardinality(all) <= Cardinality(Keys) /\ Cardinality(all) \in Nat /\ Cardinality(Keys) \in Nat
    BY <2>1, Limits, FS_Subset, FS_CardinalityType
  <2>3. TwoTo[MaxBits] \in Nat
    BY Limits, TwoToRec
  <2> HIDE DEF all
  <2> QED
    BY <2>2, <2>3, Limits
<1>5. ASSUME NEW lg \in 0 .. MaxBits PROVE Nums(tb, ek)[lg] = Cardinality(all \cap Slice(lg))
  <2> DEFINE S == Slice(lg)
             A == ArrayPart(tb, S)
             B == NodePart(tb, S)
             C == {ek} \cap S
  <2>1. \A i \in S : i \in Nat /\ i >= 1
    <3>1. TwoTo[lg] \in Nat
      BY TwoToRec
    <3> QED
      BY <3>1 DEF Slice
  <2>2. {i \in S : i <= SizeArray(tb) /\ tb.array[i] # Nil} = A
    <3>1. {i \in S : i <= SizeArray(tb) /\ tb.array[i] # Nil}
            = {i \in 1 .. Len(tb.array) : tb.array[i] # Nil /\ i \in S}
      BY <1>1, <2>1
    <3> QED
      BY <3>1, ArrayCount
  <2>3. Cardinality({i \in DOMAIN tb.node : tb.node[i].val # Nil /\ tb.node[i].key \in S}) = Cardinality(B)
    <3>1. {i \in DOMAIN tb.node : tb.node[i].val # Nil /\ tb.node[i].key \in S} = LiveNodes(tb, n, S)
      BY <1>1 DEF LiveNodes
    <3> QED
      BY <3>1, NodesCount
  <2>4. Nums(tb, ek)[lg] = Cardinality(A) + Cardinality(B) + Cardinality(C)
    BY <2>2, <2>3 DEF Nums
  <2>5. A \cup B = H \cap S /\ A \cap B = {}
    BY DEF ArrayPart, NodePart
  <2> HIDE DEF H, S, A, B
  <2>6. (A \cup B) \cup C = all \cap S /\ (A \cup B) \cap C = {} /\ A \cup B \subseteq H
    BY <1>2, <2>5
  <2> HIDE DEF C, all
  <2>7. IsFiniteSet(all \cap S) /\ IsFiniteSet(A \cup B)
    BY <1>2, <2>6, FS_Intersection, FS_Subset
  <2>8. /\ Cardinality(A \cup B) = Cardinality(A) + Cardinality(B)
        /\ Cardinality(A \cup B) \in Nat
    BY <2>5, <2>7, Parts
  <2>9. Cardinality((A \cup B) \cup C) = Cardinality(A \cup B) + Cardinality(C)
    <3> DEFINE T == A \cup B
    <3>1. IsFiniteSet(T \cup C) /\ T \cap C = {}
      BY <2>6, <2>7
    <3> HIDE DEF T
    <3>2. Cardinality(T \cup C) = Cardinality(T) + Cardinality(C)
      BY <3>1, Parts
    <3> QED
      BY <3>2 DEF T
  <2> QED
    BY <2>4, <2>6, <2>8, <2>9 DEF S
<1> QED
  BY <1>2, <1>3, <1>4, <1>5 DEF Counts

LEMMA UpToIs ==
  ASSUME NEW nums, NEW X, IsFiniteSet(X), Counts(nums, X), NEW lg \in 0 .. MaxBits
  PROVE  UpTo(nums, lg) = Cardinality(X \cap (1 .. TwoTo[lg]))
<1> DEFINE C(i) == Cardinality(X \cap (1 .. TwoTo[i]))
           F == [i \in 0 .. lg |-> C(i)]
           sum == CHOOSE f : f = [i \in 0 .. lg |-> IF i = 0 THEN nums[0] ELSE f[i - 1] + nums[i]]
<1>0. MaxBits \in Nat /\ lg \in Nat
  BY Limits
<1>1. UpTo(nums, lg) = sum[lg]
  BY DEF UpTo
<1>2. C(0) = nums[0]
  BY <1>0, SliceIs DEF Counts
<1>3. ASSUME NEW i \in 1 .. lg PROVE C(i) = C(i - 1) + nums[i] /\ C(i) \in Nat
  <2> DEFINE T == X \cap (1 .. TwoTo[i - 1])
             U == X \cap Slice(i)
  <2>1. i \in 1 .. MaxBits /\ i \in 0 .. MaxBits
    BY <1>0
  <2>2. 1 .. TwoTo[i] = (1 .. TwoTo[i - 1]) \cup Slice(i) /\ (1 .. TwoTo[i - 1]) \cap Slice(i) = {}
    BY <2>1, SliceIs
  <2>3. T \cup U = X \cap (1 .. TwoTo[i]) /\ T \cap U = {}
    BY <2>2
  <2>4. IsFiniteSet(T \cup U)
    BY <2>3, FS_Intersection
  <2>5. nums[i] = Cardinality(U)
    BY <2>1 DEF Counts
  <2> HIDE DEF T, U
  <2>6. Cardinality(T \cup U) = Cardinality(T) + Cardinality(U) /\ Cardinality(T \cup U) \in Nat
    BY <2>3, <2>4, Parts
  <2> QED
    BY <2>3, <2>5, <2>6 DEF T
<1> HIDE DEF C
<1>4. F = [i \in 0 .. lg |-> IF i = 0 THEN nums[0] ELSE F[i - 1] + nums[i]]
  <2>1. ASSUME NEW i \in 0 .. lg PROVE F[i] = IF i = 0 THEN nums[0] ELSE F[i - 1] + nums[i]
    <3>1. CASE i = 0
      BY <1>2, <3>1
    <3>2. CASE i # 0
      <4>1. i \in 1 .. lg /\ i - 1 \in 0 .. lg
        BY <1>0, <3>2
      <4> QED
        BY <1>3, <3>2, <4>1
    <3> QED
      BY <3>1, <3>2
  <2> QED
    BY <2>1
<1>5. sum = [i \in 0 .. lg |-> IF i = 0 THEN nums[0] ELSE sum[i - 1] + nums[i]]
  <2> HIDE DEF F
  <2> QED
    BY <1>4
<1> HIDE DEF sum
<1> DEFINE P == {i \in 0 .. lg : sum[i] = C(i)}
<1>6. 0 \in P
  BY <1>0, <1>2, <1>5
<1>7. ASSUME NEW i \in 0 + 1 .. lg, i - 1 \in P PROVE i \in P
  <2>1. i \in 1 .. lg /\ i \in 0 .. lg /\ i # 0
    BY <1>0
  <2>2. sum[i] = sum[i - 1] + nums[i]
    BY <1>5, <2>1
  <2> QED
    BY <1>3, <1>7, <2>1, <2>2
<1>8. lg \in P
  <2> HIDE DEF P
  <2>1. 0 \in Nat
    OBVIOUS
  <2>2. \A i \in 0 .. lg : i \in P
    BY <1>0, <1>6, <1>7, <2>1, Upwards
  <2> QED
    BY <1>0, <2>2
<1> QED
  BY <1>1, <1>8 DEF C
-----------------------------------------------------------------------------
(* computesizes *)
LEMMA CountUpTo ==
  ASSUME NEW X, IsFiniteSet(X), NEW m \in Nat
  PROVE  Cardinality(X \cap (1 .. m)) \in Nat /\ Cardinality(X \cap (1 .. m)) <= m
<1>1. IsFiniteSet(1 .. m) /\ Cardinality(1 .. m) = m
  BY FS_Interval
<1>2. X \cap (1 .. m) \subseteq 1 .. m
  OBVIOUS
<1> QED
  BY <1>1, <1>2, FS_Subset, FS_CardinalityType

LEMMA HalfUsedIs ==
  ASSUME NEW nums, NEW X, IsFiniteSet(X), Counts(nums, X)
  PROVE  HalfUsed(nums) =
           {lg \in 0 .. MaxBits : 2 * Cardinality(X \cap (1 .. TwoTo[lg])) > TwoTo[lg]}
<1> DEFINE C(i) == Cardinality(X \cap (1 .. TwoTo[i]))
<1>0. MaxBits \in Nat
  BY Limits
<1>1. ASSUME NEW lg \in 0 .. MaxBits
      PROVE  (/\ TwoTo[lg] \div 2 < UpTo(nums, MaxBits)
              /\ nums[lg] > 0 /\ UpTo(nums, lg) > TwoTo[lg] \div 2) <=> 2 * C(lg) > TwoTo[lg]
  <2>1. TwoTo[lg] \in Nat /\ TwoTo[MaxBits] \in Nat /\ TwoTo[lg] <= TwoTo[MaxBits]
    <3>1. MaxBits \in lg .. MaxBits
      BY <1>0
    <3> QED
      BY <3>1, TwoToGrows
  <2>2. C(lg) \in Nat /\ C(MaxBits) \in Nat /\ C(lg) <= C(MaxBits)
    <3>1. X \cap (1 .. TwoTo[lg]) \subseteq X \cap (1 .. TwoTo[MaxBits])
      BY <2>1
    <3>2. IsFiniteSet(X \cap (1 .. TwoTo[MaxBits]))
      BY FS_Intersection
    <3> QED
      BY <2>1, <3>1, <3>2, CountUpTo, FS_Subset
  <2>3. UpTo(nums, MaxBits) = C(MaxBits) /\ UpTo(nums, lg) = C(lg)
    BY <1>0, UpToIs
  <2>4. nums[lg] = Cardinality(X \cap Slice(lg))
    BY DEF Counts
  <2> HIDE DEF C
  <2>5. CASE lg = 0
    <3>1. nums[0] = C(0) /\ TwoTo[0] = 1
      BY <2>4, <2>5, SliceIs DEF C
    <3>2. TwoTo[0] \div 2 = 0
      BY <3>1
    <3> QED
      BY <2>2, <2>3, <2>5, <3>1, <3>2
  <2>6. CASE lg # 0
    <3> DEFINE a == TwoTo[lg - 1]
               T == X \cap (1 .. a)
               U == X \cap Slice(lg)
    <3>1. lg \in 1 .. MaxBits
      BY <1>0, <2>6
    <3>2. /\ a \in Nat /\ TwoTo[lg] = 2 * a
          /\ 1 .. TwoTo[lg] = (1 .. a) \cup Slice(lg) /\ (1 .. a) \cap Slice(lg) = {}
      BY <3>1, SliceIs
    <3>3. T \cup U = X \cap (1 .. TwoTo[lg]) /\ T \cap U = {} /\ IsFiniteSet(T \cup U)
      <4>1. T \cup U = X \cap (1 .. TwoTo[lg]) /\ T \cap U = {}
        BY <3>2
      <4>2. IsFiniteSet(X \cap (1 .. TwoTo[lg]))
        BY FS_Intersection
      <4> QED
        BY <4>1, <4>2
    <3> HIDE DEF a
    <3>4. Cardinality(T) <= a /\ Cardinality(T) \in Nat
      BY <3>2, CountUpTo
    <3> HIDE DEF T, U
    <3>5. Cardinality(T \cup U) = Cardinality(T) + Cardinality(U) /\ Cardinality(U) \in Nat
      BY <3>3, Parts
    <3>6. C(lg) = Cardinality(T) + nums[lg] /\ nums[lg] \in Nat
      BY <2>4, <3>3, <3>5 DEF C, U
    <3>7. TwoTo[lg] \div 2 = a
      BY <3>2
    <3> QED
      BY <2>2, <2>3, <3>2, <3>4, <3>6, <3>7
  <2> QED
    BY <2>5, <2>6
<1> QED
  BY <1>1 DEF HalfUsed

(* The largest power of two of which S fills more than half.               *)
BestSize(S) ==
  LET sizes == {n \in {TwoTo[lg] : lg \in 0 .. MaxBits} : 2 * Cardinality({k \in S : k <= n}) > n}
  IN  IF sizes = {} THEN 0 ELSE Max(sizes)

LEMMA ArraySizeIs ==
  ASSUME NEW nums, NEW X, X \subseteq Keys, IsFiniteSet(X), Counts(nums, X)
  PROVE  /\ NewArraySize(nums) \in 0 .. TwoTo[MaxBits]
         /\ ToArray(nums) = Cardinality(X \cap (1 .. NewArraySize(nums)))
         /\ NewArraySize(nums) = BestSize({e \in X \cap Ints : e > 0})
<1> DEFINE C(m) == Cardinality(X \cap (1 .. m))
           H == HalfUsed(nums)
           S == {e \in X \cap Ints : e > 0}
           sizes == {m \in {TwoTo[lg] : lg \in 0 .. MaxBits} : 2 * Cardinality({k \in S : k <= m}) > m}
           best == Max(H)
<1>0. MaxBits \in Nat /\ TwoTo[MaxBits] \in Nat
  BY Limits, TwoToRec
<1>1. H = {lg \in 0 .. MaxBits : 2 * C(TwoTo[lg]) > TwoTo[lg]}
  BY HalfUsedIs
<1>2. sizes = {TwoTo[lg] : lg \in H}
  <2>1. ASSUME NEW lg \in 0 .. MaxBits PROVE {k \in S : k <= TwoTo[lg]} = X \cap (1 .. TwoTo[lg])
    <3>1. TwoTo[lg] \in Nat
      BY TwoToRec
    <3>2. \A k \in X : k \in Int => k \in Ints
      BY Limits
    <3>3. Ints \subseteq Int
      BY Limits
    <3>4. ASSUME NEW k \in S, k <= TwoTo[lg] PROVE k \in X /\ k \in 1 .. TwoTo[lg]
      <4>1. k \in X /\ k \in Ints /\ k > 0
        OBVIOUS
      <4>2. k \in Int
        BY <3>3, <4>1
      <4> QED
        BY <3>1, <3>4, <4>1, <4>2
    <3>5. ASSUME NEW k \in X, k \in 1 .. TwoTo[lg] PROVE k \in S /\ k <= TwoTo[lg]
      BY <3>1, <3>2, <3>5
    <3> HIDE DEF S
    <3> QED
      BY <3>4, <3>5
  <2> HIDE DEF S
  <2>2. \A lg \in 0 .. MaxBits :
          2 * Cardinality({k \in S : k <= TwoTo[lg]}) > TwoTo[lg] <=> lg \in H
    BY <1>1, <2>1
  <2> HIDE DEF H
  <2>3. H \subseteq 0 .. MaxBits
    BY <1>1
  <2> QED
    BY <2>2, <2>3
<1>3. NewArraySize(nums) = IF H = {} THEN 0 ELSE TwoTo[best]
  BY DEF NewArraySize
<1>4. ToArray(nums) = IF H = {} THEN 0 ELSE UpTo(nums, best)
  BY DEF ToArray
<1>5. BestSize(S) = IF sizes = {} THEN 0 ELSE Max(sizes)
  BY DEF BestSize
<1>6. H \in SUBSET (0 .. MaxBits)
  BY <1>1
<1> HIDE DEF H, sizes, S
<1>7. CASE H = {}
  <2>1. NewArraySize(nums) = 0 /\ ToArray(nums) = 0 /\ BestSize(S) = 0
    BY <1>2, <1>3, <1>4, <1>5, <1>7
  <2>2. X \cap (1 .. 0) = {} /\ Cardinality({}) = 0
    BY FS_EmptySet
  <2> QED
    BY <1>0, <2>1, <2>2 DEF S
<1>8. CASE H # {}
  <2>1. best \in H /\ \A lg \in H : lg <= best
    BY <1>0, <1>6, <1>8, MaxIs
  <2> HIDE DEF best
  <2>2. best \in 0 .. MaxBits
    BY <1>6, <2>1
  <2>3. TwoTo[best] \in Nat /\ TwoTo[best] <= TwoTo[MaxBits]
    <3>1. MaxBits \in best .. MaxBits
      BY <1>0, <2>2
    <3> QED
      BY <2>2, <3>1, TwoToGrows
  <2>4. ToArray(nums) = C(TwoTo[best])
    BY <1>4, <1>8, <2>2, UpToIs
  <2>5. BestSize(S) = TwoTo[best]
    <3>1. sizes # {} /\ TwoTo[best] \in sizes
      BY <1>2, <1>8, <2>1
    <3>2. \A m \in sizes : m \in Nat /\ m <= TwoTo[best]
      <4>1. ASSUME NEW lg \in H PROVE TwoTo[lg] \in Nat /\ TwoTo[lg] <= TwoTo[best]
        <5>1. lg \in 0 .. MaxBits /\ best \in lg .. MaxBits
          BY <1>0, <1>6, <2>1, <2>2
        <5> QED
          BY <5>1, TwoToGrows
      <4> QED
        BY <1>2, <4>1
    <3>3. Max(sizes) \in sizes /\ \A m \in sizes : m <= Max(sizes)
      <4>1. sizes \in SUBSET (0 .. TwoTo[best])
        BY <2>3, <3>2
      <4> QED
        BY <2>3, <3>1, <4>1, MaxIs
    <3>4. Max(sizes) = TwoTo[best]
      BY <2>3, <3>1, <3>2, <3>3
    <3> QED
      BY <1>5, <3>1, <3>4
  <2> QED
    BY <1>0, <1>3, <1>8, <2>3, <2>4, <2>5 DEF S
<1> QED
  BY <1>7, <1>8
-----------------------------------------------------------------------------
(* rehash and luaH_set *)
Rest(S, size) == {k \in S : k \notin 1 .. size}

LEMMA RehashSizes ==
  ASSUME NEW tb, NEW n, Sound(tb, n), NEW ek \in Keys, Get(tb, ek) = Nil
  PROVE  LET nums == Nums(tb, ek)
             size == NewArraySize(nums)
             all == HasValue(tb) \cup {ek}
         IN  /\ size \in 0 .. TwoTo[MaxBits]
             /\ size = BestSize({e \in all \cap Ints : e > 0})
             /\ InUse(tb) + 1 - ToArray(nums) = Cardinality(all \ (1 .. size))
             /\ Cardinality(all \ (1 .. size)) \in 0 .. TwoTo[MaxBits]
             /\ Cardinality(Rest(HasValue(tb), size)) \in Nat
             /\ Cardinality(Rest(HasValue(tb), size)) <= Cardinality(all \ (1 .. size))
             /\ ek \notin 1 .. size =>
                  Cardinality(Rest(HasValue(tb), size)) < Cardinality(all \ (1 .. size))
<1> DEFINE nums == Nums(tb, ek)
           size == NewArraySize(nums)
           all == HasValue(tb) \cup {ek}
           R == Rest(HasValue(tb), size)
           A == all \ (1 .. size)
           I == all \cap (1 .. size)
<1>1. /\ Counts(nums, all) /\ IsFiniteSet(all) /\ Cardinality(all) = InUse(tb) + 1
      /\ Cardinality(all) <= TwoTo[MaxBits]
  BY NumsIs
<1>2. all \subseteq Keys /\ ek \notin HasValue(tb)
  BY DEF HasValue
<1> HIDE DEF nums, all
<1>3. /\ size \in 0 .. TwoTo[MaxBits] /\ ToArray(nums) = Cardinality(I)
      /\ size = BestSize({e \in all \cap Ints : e > 0})
  BY <1>1, <1>2, ArraySizeIs
<1> HIDE DEF size
<1>4. I \cup A = all /\ I \cap A = {}
  OBVIOUS
<1>5. R \subseteq A /\ (ek \notin 1 .. size => A = R \cup {ek}) /\ ek \notin R
  BY <1>2 DEF all, Rest
<1> HIDE DEF I, A, R
<1>6. /\ IsFiniteSet(A) /\ Cardinality(all) = Cardinality(I) + Cardinality(A)
      /\ Cardinality(I) \in Nat /\ Cardinality(A) \in Nat
  BY <1>1, <1>4, Parts
<1>7. IsFiniteSet(R) /\ Cardinality(R) \in Nat /\ Cardinality(R) <= Cardinality(A)
  BY <1>5, <1>6, FS_Subset, FS_CardinalityType
<1>8. ek \notin 1 .. size => Cardinality(A) = Cardinality(R) + 1
  BY <1>5, <1>7, FS_AddElement
<1>9. InUse(tb) + 1 - ToArray(nums) = Cardinality(A)
  BY <1>1, <1>3, <1>6, InUseIs
<1>10. TwoTo[MaxBits] \in Nat
  BY Limits, TwoToRec
<1>11. Cardinality(A) \in 0 .. TwoTo[MaxBits]
  BY <1>1, <1>6, <1>10
<1>12. ek \notin 1 .. size => Cardinality(R) < Cardinality(A)
  BY <1>6, <1>7, <1>8
<1> QED
  BY <1>3, <1>7, <1>9, <1>11, <1>12 DEF A, R, size, all, nums

LEMMA RehashIs ==
  ASSUME NEW tb, NEW n, Sound(tb, n), NEW ek \in Keys, Get(tb, ek) = Nil
  PROVE  \E m \in 0 .. TwoTo[MaxBits] :
           /\ Sound(Rehash(tb, ek), m) /\ Placed(Rehash(tb, ek))
           /\ \A x \in Keys : Get(Rehash(tb, ek), x) = Get(tb, x)
           /\ InArray(Rehash(tb, ek), ek) \/ \E i \in 0 .. m - 1 : Rehash(tb, ek).node[i].key = Nil
<1> DEFINE nums == Nums(tb, ek)
           size == NewArraySize(nums)
           nh == InUse(tb) + 1 - ToArray(nums)
           R == Rest(HasValue(tb), size)
           new == Rehash(tb, ek)
           moved == Moved(tb, size)
<1>1. /\ size \in 0 .. TwoTo[MaxBits] /\ nh \in 0 .. TwoTo[MaxBits] /\ Cardinality(R) <= nh
      /\ Cardinality(R) \in Nat /\ (ek \notin 1 .. size => Cardinality(R) < nh)
  BY RehashSizes
<1>2. new = Resize(tb, size, nh)
  BY DEF Rehash
<1> HIDE DEF nh, size, new
<1>3. size \in Nat /\ nh \in Nat /\ TwoTo[MaxBits] \in Nat
  BY <1>1, Limits, TwoToRec
<1>4. Cardinality(ToNodes(moved, size, Len(moved))) = Cardinality(R)
  BY <1>3, MovedIs, MovedCount DEF Rest
<1>5. Resized(tb, size, nh, new)
  BY <1>1, <1>2, <1>4, ResizeIs
<1>6. PICK m \in nh .. TwoTo[MaxBits] :
         /\ Sound(new, m) /\ Placed(new) /\ Len(new.array) = size
         /\ Cardinality(KeyedNodes(new, m)) <= Cardinality(R)
         /\ \A x \in Keys : Get(new, x) = Get(tb, x)
  BY <1>4, <1>5 DEF Resized
<1>7. m \in Nat /\ m \in 0 .. TwoTo[MaxBits] /\ m >= nh
  BY <1>3
<1> HIDE DEF R
<1>8. ASSUME ~ InArray(new, ek) PROVE \E i \in 0 .. m - 1 : new.node[i].key = Nil
  <2> SUFFICES ASSUME \A i \in 0 .. m - 1 : new.node[i].key # Nil PROVE FALSE
    OBVIOUS
  <2>1. ek \notin 1 .. size
    <3>1. Shaped(new, m)
      BY <1>6 DEF Sound
    <3> QED
      BY <1>6, <1>8, <3>1, InArrayIs
  <2>2. KeyedNodes(new, m) = 0 .. m - 1
    BY DEF KeyedNodes
  <2>3. Cardinality(KeyedNodes(new, m)) = m
    BY <1>7, <2>2, NodesFinite
  <2> QED
    BY <1>1, <1>3, <1>6, <1>7, <2>1, <2>3
<1> QED
  BY <1>6, <1>7, <1>8 DEF new

(* The table new is tb with v at k; a field that had a value has kept its  *)
(* place.                                                                  *)
SetTo(tb, n, k, v, new) ==
  \E m \in 0 .. TwoTo[MaxBits] :
    /\ Sound(new, m) /\ Placed(new) /\ Answered(tb, k, v, new)
    /\ Get(tb, k) # Nil => m = n /\ SameKeys(new, tb, n)

LEMMA SetValueIs ==
  ASSUME NEW tb, NEW n \in 0 .. TwoTo[MaxBits], Sound(tb, n), Placed(tb),
         NEW k \in Keys, NEW v \in Stored
  PROVE  SetTo(tb, n, k, v, SetValue(tb, k, v))
<1> DEFINE new == Put(tb, k, v)
           big == Rehash(tb, k)
           last == Put(big, k, v)
<1>1. SetValue(tb, k, v) = IF Placed(new) THEN new ELSE last
  BY DEF SetValue
<1>2. CASE Get(tb, k) # Nil
  <2>1. PutIn(tb, n, k, v, new) /\ SameKeys(new, tb, n)
    BY <1>2, PutInPlace
  <2> QED
    BY <1>1, <2>1 DEF PutIn, SetTo
<1>3. CASE Get(tb, k) = Nil
  <2>1. PutIn(tb, n, k, v, new) \/ ~ Placed(new)
    BY PutIs
  <2>2. PICK m \in 0 .. TwoTo[MaxBits] :
           /\ Sound(big, m) /\ Placed(big) /\ \A x \in Keys : Get(big, x) = Get(tb, x)
           /\ InArray(big, k) \/ \E i \in 0 .. m - 1 : big.node[i].key = Nil
    BY <1>3, RehashIs
  <2> HIDE DEF big
  <2>3. PutIn(big, m, k, v, last)
    BY <2>2, PutIs
  <2> HIDE DEF new, last
  <2>4. CASE Placed(new)
    BY <1>1, <1>3, <2>1, <2>4 DEF PutIn, SetTo
  <2>5. CASE ~ Placed(new)
    <3>1. Sound(last, m) /\ Placed(last)
      BY <2>3 DEF PutIn
    <3>2. Answered(tb, k, v, last)
      BY <2>2, <2>3 DEF PutIn, Answered
    <3> QED
      BY <1>1, <1>3, <2>5, <3>1, <3>2 DEF SetTo
  <2> QED
    BY <2>4, <2>5
<1> QED
  BY <1>2, <1>3
-----------------------------------------------------------------------------
(* The order of a traversal: a key with a value is at its index, and a     *)
(* place with a value has its key.                                         *)
Places(tb) == SizeArray(tb) + SizeNode(tb)

Indexed(tb) ==
  /\ Places(tb) \in Nat
  /\ \A k \in Keys : Get(tb, k) # Nil =>
       /\ FindIndex(tb, k) \in 0 .. Places(tb) - 1
       /\ ValueAt(tb, FindIndex(tb, k)) # Nil /\ KeyAt(tb, FindIndex(tb, k)) = k
  /\ \A i \in 0 .. Places(tb) - 1 : ValueAt(tb, i) # Nil =>
       /\ KeyAt(tb, i) \in Keys /\ Get(tb, KeyAt(tb, i)) # Nil
       /\ FindIndex(tb, KeyAt(tb, i)) = i
       /\ InArray(tb, KeyAt(tb, i)) \/ Holder(tb, KeyAt(tb, i)) # -1

LEMMA IndexIs ==
  ASSUME NEW tb, NEW n, Sound(tb, n)
  PROVE  Indexed(tb)
<1> DEFINE a == Len(tb.array)
<1>1. /\ Shaped(tb, n) /\ SizeArray(tb) = a /\ SizeNode(tb) = n /\ n \in Nat /\ a \in Nat
      /\ \A i \in 1 .. a : tb.array[i] # Nil => i \in Ints /\ i \in Keys
      /\ \A k \in Keys : InArray(tb, k) <=> k \in 1 .. a
  BY SizeIs, InArrayIs, Limits DEF Sound, SizeArray
<1>2. PICK p, d : Ordered(tb, n, p, d)
  BY DEF Sound
<1> HIDE DEF a
<1>3. Nil \notin Keys
  BY Limits
<1>4. ASSUME NEW i \in 0 .. n - 1, tb.node[i].val # Nil
      PROVE  /\ tb.node[i].key \in Keys /\ ~ InArray(tb, tb.node[i].key)
             /\ Get(tb, tb.node[i].key) # Nil /\ Holder(tb, tb.node[i].key) = i
  <2> DEFINE k == tb.node[i].key
  <2>1. k \in Keys /\ ~ InArray(tb, k) /\ ~ tb.node[i].dead
    BY <1>1, <1>2, <1>4, LiveKeyed
  <2>2. Holds(tb, n, k, tb.node[i].val)
    BY DEF Holds
  <2>3. Get(tb, k) = tb.node[i].val
    BY <1>1, <1>2, <1>4, <2>1, <2>2, GetIs
  <2>4. HolderFits(tb, n, k, Holder(tb, k))
    BY <1>1, <1>2, <2>1, HolderIs
  <2>5. Holder(tb, k) = i
    BY <2>1, <2>4 DEF HolderFits
  <2> QED
    BY <1>4, <2>1, <2>3, <2>5
<1>5. ASSUME NEW k \in Keys, Get(tb, k) # Nil
      PROVE  /\ FindIndex(tb, k) \in 0 .. Places(tb) - 1
             /\ ValueAt(tb, FindIndex(tb, k)) # Nil /\ KeyAt(tb, FindIndex(tb, k)) = k
  <2> DEFINE x == FindIndex(tb, k)
  <2>1. CASE InArray(tb, k)
    <3>1. x = k - 1 /\ k \in 1 .. a /\ tb.array[k] # Nil
      BY <1>1, <1>3, <1>5, <2>1 DEF FindIndex, Get
    <3> HIDE DEF x
    <3>2. x < SizeArray(tb) /\ x + 1 = k /\ x \in 0 .. a + n - 1
      BY <1>1, <3>1
    <3>3. ValueAt(tb, x) # Nil /\ KeyAt(tb, x) = k
      BY <3>1, <3>2 DEF ValueAt, KeyAt
    <3> QED
      BY <1>1, <3>2, <3>3 DEF Places, x
  <2>2. CASE ~ InArray(tb, k)
    <3>1. PICK i \in 0 .. n - 1 : tb.node[i].key = k /\ tb.node[i].val = Get(tb, k)
      BY <1>1, <1>2, <1>5, <2>2, GetIs DEF Holds
    <3>2. Holder(tb, k) = i
      BY <1>4, <1>5, <3>1
    <3>3. x = a + i
      BY <1>1, <1>3, <2>2, <3>2 DEF FindIndex
    <3> HIDE DEF x
    <3>4. ~ (x < SizeArray(tb)) /\ x - SizeArray(tb) = i /\ x \in 0 .. a + n - 1
      BY <1>1, <3>3
    <3>5. ValueAt(tb, x) # Nil /\ KeyAt(tb, x) = k
      BY <1>5, <3>1, <3>4 DEF ValueAt, KeyAt
    <3> QED
      BY <1>1, <3>4, <3>5 DEF Places, x
  <2> QED
    BY <2>1, <2>2
<1>6. ASSUME NEW i \in 0 .. a + n - 1, ValueAt(tb, i) # Nil
      PROVE  /\ KeyAt(tb, i) \in Keys /\ Get(tb, KeyAt(tb, i)) # Nil
             /\ FindIndex(tb, KeyAt(tb, i)) = i
             /\ InArray(tb, KeyAt(tb, i)) \/ Holder(tb, KeyAt(tb, i)) # -1
  <2>1. CASE i < a
    <3>1. KeyAt(tb, i) = i + 1 /\ tb.array[i + 1] # Nil /\ i + 1 \in 1 .. a
      BY <1>1, <1>6, <2>1 DEF KeyAt, ValueAt
    <3>2. i + 1 \in Keys /\ InArray(tb, i + 1)
      BY <1>1, <3>1
    <3>3. Get(tb, i + 1) # Nil /\ FindIndex(tb, i + 1) = (i + 1) - 1
      BY <1>3, <3>1, <3>2 DEF Get, FindIndex
    <3> QED
      BY <1>1, <3>1, <3>2, <3>3
  <2>2. CASE ~ (i < a)
    <3> DEFINE j == i - a
               k == tb.node[j].key
    <3>1. j \in 0 .. n - 1 /\ i = a + j
      BY <1>1, <2>2
    <3>2. KeyAt(tb, i) = k /\ tb.node[j].val # Nil
      BY <1>1, <1>6, <2>2 DEF KeyAt, ValueAt
    <3> HIDE DEF j
    <3>3. k \in Keys /\ ~ InArray(tb, k) /\ Get(tb, k) # Nil /\ Holder(tb, k) = j
      BY <1>4, <3>1, <3>2
    <3>4. FindIndex(tb, k) = a + j
      BY <1>1, <1>3, <3>3 DEF FindIndex
    <3> QED
      BY <1>1, <3>1, <3>2, <3>3, <3>4
  <2> QED
    BY <2>1, <2>2
<1> QED
  BY <1>1, <1>5, <1>6 DEF Indexed, Places

(* Where no key moves, every key is found where it was.                    *)
LEMMA Frozen ==
  ASSUME NEW tb, NEW n, Sound(tb, n), NEW new, Sound(new, n), SameKeys(new, tb, n), NEW k \in Keys
  PROVE  /\ FindIndex(new, k) = FindIndex(tb, k) /\ Holder(new, k) = Holder(tb, k)
         /\ InArray(new, k) <=> InArray(tb, k)
<1>1. Shaped(tb, n) /\ Shaped(new, n) /\ Len(new.array) = Len(tb.array)
  BY DEF Sound, SameKeys
<1>2. PICK p, d : Ordered(tb, n, p, d)
  BY DEF Sound
<1>3. /\ MainPosition(new, k) = MainPosition(tb, k) /\ SizeArray(new) = SizeArray(tb)
      /\ InArray(new, k) <=> InArray(tb, k)
      /\ SizeNode(new) = n /\ SizeNode(tb) = n /\ DOMAIN new.node = 0 .. n - 1
      /\ DOMAIN tb.node = 0 .. n - 1 /\ n \in Nat
  BY <1>1, SameSizes, SizeIs
<1>4. Laid(tb, n, p, d) /\ Laid(new, n, p, d)
  BY <1>2 DEF Ordered, Laid, SameKeys
<1>5. Holding(new, k) = Holding(tb, k)
  BY <1>3 DEF Holding, SameKeys
<1>6. Holder(new, k) = Holder(tb, k)
  <2>1. CASE n = 0
    BY <1>3, <2>1 DEF Holder
  <2>2. CASE n # 0
    <3> DEFINE mp == MainPosition(tb, k)
               S == Holding(tb, k)
    <3>1. mp \in 0 .. n - 1
      BY <1>1, <1>3, <2>2, MainIs
    <3>2. Holder(tb, k) = Search(tb, mp, S) /\ Holder(new, k) = Search(new, mp, S)
      BY <1>3, <1>5, <2>2 DEF Holder
    <3> HIDE DEF mp, S
    <3>3. FirstIs(n, p, d, mp, S, Search(tb, mp, S)) /\ FirstIs(n, p, d, mp, S, Search(new, mp, S))
      BY <1>1, <1>4, <3>1, SearchIs
    <3> QED
      BY <1>1, <1>4, <3>2, <3>3, FirstUnique
  <2> QED
    BY <2>1, <2>2
<1> QED
  BY <1>3, <1>6 DEF FindIndex

LEMMA IndexType ==
  ASSUME NEW tb, NEW n, Sound(tb, n), NEW k \in Keys \cup {Nil}
  PROVE  FindIndex(tb, k) \in Int
<1>1. Shaped(tb, n) /\ SizeArray(tb) \in Nat /\ n \in Nat
  BY SizeIs, InArrayIs DEF Sound, SizeArray, Shaped
<1>2. CASE k = Nil
  BY <1>2 DEF FindIndex
<1>3. CASE k # Nil
  <2>1. k \in Keys
    BY <1>3
  <2>2. PICK p, d : Ordered(tb, n, p, d)
    BY DEF Sound
  <2>3. Holder(tb, k) \in Int
    <3>1. HolderFits(tb, n, k, Holder(tb, k))
      BY <1>1, <2>1, <2>2, HolderIs
    <3> QED
      BY <1>1, <3>1 DEF HolderFits
  <2>4. InArray(tb, k) => k \in Int
    BY Limits DEF InArray
  <2> QED
    BY <1>1, <1>3, <2>3, <2>4 DEF FindIndex
<1> QED
  BY <1>2, <1>3

(* The collector changes neither the places nor the values.                *)
LEMMA CollectIs ==
  ASSUME NEW tb, NEW n, Sound(tb, n), NEW new,
         new = [tb EXCEPT !.node = [i \in DOMAIN tb.node |->
                  [tb.node[i] EXCEPT !.dead = @ \/ (tb.node[i].val = Nil /\ tb.node[i].key \in Collectable)]]]
  PROVE  Sound(new, n) /\ SameKeys(new, tb, n) /\ \A k \in Keys : Get(new, k) = Get(tb, k)
<1> DEFINE D == 0 .. n - 1
           N == [key : Keys \cup {Nil}, dead : BOOLEAN, val : Stored, next : -1 .. n - 1]
           gone(i) == tb.node[i].dead \/ (tb.node[i].val = Nil /\ tb.node[i].key \in Collectable)
           x(i) == [tb.node[i] EXCEPT !.dead = gone(i)]
           nd == [i \in D |-> x(i)]
<1>1. Shaped(tb, n) /\ DOMAIN tb.node = D /\ n \in Nat
  BY SizeIs DEF Sound
<1>2. PICK p, d : Ordered(tb, n, p, d)
  BY DEF Sound
<1>3. tb \in [array : Seq(Stored), node : Vectors(n), lastfree : -1 .. n] /\ tb.node \in [D -> N]
  BY <1>1 DEF Shaped, Vectors
<1>4. new = [tb EXCEPT !.node = nd]
  BY <1>1
<1>5. ASSUME NEW i \in D
      PROVE  /\ x(i) \in N /\ x(i).key = tb.node[i].key /\ x(i).val = tb.node[i].val
             /\ x(i).next = tb.node[i].next /\ x(i).dead = gone(i)
  <2>1. tb.node[i] \in N
    BY <1>3
  <2>2. gone(i) \in BOOLEAN
    BY <2>1
  <2> HIDE DEF gone
  <2> QED
    BY <2>1, <2>2
<1> HIDE DEF x, N
<1>6. nd \in [D -> N] /\ \A i \in D : nd[i] = x(i)
  BY <1>5
<1> HIDE DEF nd
<1>7. Shaped(new, n) /\ new.node = nd /\ new.array = tb.array /\ new.lastfree = tb.lastfree
  BY <1>1, <1>3, <1>4, <1>6 DEF Shaped, Vectors, N
<1>8. \A i \in D : /\ new.node[i].key = tb.node[i].key /\ new.node[i].val = tb.node[i].val
                     /\ new.node[i].next = tb.node[i].next /\ new.node[i].dead = gone(i)
  <2> HIDE DEF gone, D
  <2> QED
    BY <1>5, <1>6, <1>7
<1>9. SameKeys(new, tb, n)
  BY <1>7, <1>8 DEF SameKeys
<1>10. Ordered(new, n, p, d)
  <2>1. \A i \in D : tb.node[i].val # Nil => tb.node[i].key # Nil /\ ~ tb.node[i].dead
    BY <1>2 DEF Ordered, FreeAlone
  <2>2. \A i \in D : /\ tb.node[i].dead => new.node[i].dead
                     /\ new.node[i].val # Nil => new.node[i].key # Nil /\ ~ new.node[i].dead
    BY <1>8, <2>1
  <2> QED
    BY <1>1, <1>2, <1>7, <1>9, <2>2, StillOrdered
<1>11. Sound(new, n)
  BY <1>7, <1>10 DEF Sound
<1>12. ASSUME NEW k \in Keys PROVE Get(new, k) = Get(tb, k)
  <2>1. InArray(new, k) <=> InArray(tb, k)
    BY <1>1, <1>7, SameSizes
  <2>2. \A v : Answers(new, n, k, v) <=> Answers(tb, n, k, v)
    <3>1. \A v : Holds(new, n, k, v) <=> Holds(tb, n, k, v)
      BY <1>8 DEF Holds
    <3> QED
      BY <1>7, <2>1, <3>1 DEF Answers
  <2> QED
    BY <1>1, <1>2, <1>7, <1>10, <2>2, GetSame
<1> QED
  BY <1>9, <1>11, <1>12
-----------------------------------------------------------------------------
(* The inductive invariant: the table is sound and has never run out of    *)
(* room, and a traversal has seen of the keys it owes exactly those up to  *)
(* the one it has got to.                                                  *)
Fit(tb) == \E n \in 0 .. TwoTo[MaxBits] : Sound(tb, n) /\ Placed(tb)

Types == on \in BOOLEAN /\ at \in Keys \cup {Nil} /\ seen \subseteq Keys /\ owed \subseteq Keys

Traversed ==
  /\ at # Nil => InArray(t, at) \/ Holder(t, at) # -1
  /\ \A k \in Keys : Get(t, k) # Nil =>
       /\ k \in seen => FindIndex(t, k) <= FindIndex(t, at)
       /\ k \in owed /\ FindIndex(t, k) <= FindIndex(t, at) => k \in seen
  /\ \A k \in owed : Get(t, k) # Nil

Inv == Types /\ Fit(t) /\ (on => Traversed)

LEMMA InitInv == Init => Inv
<1> SUFFICES ASSUME Init PROVE Inv
  OBVIOUS
<1>1. PICK narray \in NewSizes, nhash \in NewSizes : t = Sized(<<>>, narray, nhash)
  BY DEF Init
<1>2. narray \in 0 .. TwoTo[MaxBits] /\ nhash \in 0 .. TwoTo[MaxBits] /\ TwoTo[MaxBits] \in Nat
  BY KeysAssumption, Limits, TwoToRec
<1>3. IntsOnly(<<>>)
  BY DEF IntsOnly
<1>4. PICK n : Cleared(<<>>, narray, nhash, Sized(<<>>, narray, nhash), n)
  BY <1>2, <1>3, SizedIs
<1>5. Fit(t)
  <2>1. n \in nhash .. TwoTo[MaxBits] /\ Sound(t, n) /\ Placed(t)
    BY <1>1, <1>4 DEF Cleared
  <2>2. n \in 0 .. TwoTo[MaxBits]
    BY <1>2, <2>1
  <2> QED
    BY <2>1, <2>2 DEF Fit
<1> QED
  BY <1>5 DEF Inv, Types, Init

LEMMA StillTraversed ==
  ASSUME Types, NEW n, Sound(t, n), Sound(t', n), SameKeys(t', t, n), Traversed,
         at' = at, seen' = seen, owed' \subseteq owed,
         \A k \in Keys : Get(t', k) # Nil => Get(t, k) # Nil,
         \A k \in owed' : Get(t', k) # Nil
  PROVE  Traversed'
<1>1. \A k \in Keys : /\ FindIndex(t', k) = FindIndex(t, k) /\ Holder(t', k) = Holder(t, k)
                      /\ InArray(t', k) <=> InArray(t, k)
  BY Frozen
<1>2. FindIndex(t', at) = FindIndex(t, at)
  <2>1. CASE at = Nil
    BY <2>1 DEF FindIndex
  <2>2. CASE at # Nil
    BY <1>1, <2>2 DEF Types
  <2> QED
    BY <2>1, <2>2
<1>3. at # Nil => InArray(t', at) \/ Holder(t', at) # -1
  BY <1>1 DEF Types, Traversed
<1>4. ASSUME NEW k \in Keys, Get(t', k) # Nil
      PROVE  /\ k \in seen' => FindIndex(t', k) <= FindIndex(t', at')
             /\ k \in owed' /\ FindIndex(t', k) <= FindIndex(t', at') => k \in seen'
  BY <1>1, <1>2, <1>4 DEF Traversed
<1> QED
  BY <1>3, <1>4 DEF Traversed

LEMMA SetIs ==
  ASSUME Inv, NEW k \in Keys, NEW v \in Values[k] \cup {Nil}, t' = SetValue(t, k, v)
  PROVE  /\ Fit(t') /\ Answered(t, k, v, t')
         /\ Get(t, k) # Nil => \E n \in 0 .. TwoTo[MaxBits] :
                                 Sound(t, n) /\ Sound(t', n) /\ SameKeys(t', t, n)
<1>1. PICK n \in 0 .. TwoTo[MaxBits] : Sound(t, n) /\ Placed(t)
  BY DEF Inv, Fit
<1>2. v \in Stored
  BY DEF Stored
<1>3. SetTo(t, n, k, v, t')
  BY <1>1, <1>2, SetValueIs
<1> QED
  BY <1>1, <1>3 DEF SetTo, Fit

LEMMA SetInv == ASSUME Inv, Set PROVE Inv'
<1>1. PICK k \in Keys : \E v \in Values[k] \cup {Nil} :
         /\ on => Get(t, k) # Nil
         /\ t' = SetValue(t, k, v)
         /\ owed' = IF v = Nil THEN owed \ {k} ELSE owed
         /\ UNCHANGED <<on, at, seen>>
  BY DEF Set
<1>2. PICK v \in Values[k] \cup {Nil} :
         /\ on => Get(t, k) # Nil
         /\ t' = SetValue(t, k, v)
         /\ owed' = IF v = Nil THEN owed \ {k} ELSE owed
         /\ UNCHANGED <<on, at, seen>>
  BY <1>1
<1>3. /\ Fit(t') /\ Answered(t, k, v, t')
      /\ Get(t, k) # Nil => \E n \in 0 .. TwoTo[MaxBits] :
                              Sound(t, n) /\ Sound(t', n) /\ SameKeys(t', t, n)
  BY <1>2, SetIs
<1>4. Types'
  BY <1>2 DEF Inv, Types
<1>5. ASSUME on' PROVE Traversed'
  <2>1. on /\ Get(t, k) # Nil /\ Traversed
    BY <1>2, <1>5 DEF Inv
  <2>2. PICK n \in 0 .. TwoTo[MaxBits] : Sound(t, n) /\ Sound(t', n) /\ SameKeys(t', t, n)
    BY <1>3, <2>1
  <2>3. \A x \in Keys : Get(t', x) # Nil => Get(t, x) # Nil
    BY <1>3, <2>1 DEF Answered
  <2>4. \A x \in owed' : Get(t', x) # Nil
    <3>1. \A x \in owed : x \in Keys /\ Get(t, x) # Nil
      BY <2>1 DEF Traversed, Inv, Types
    <3> QED
      BY <1>2, <1>3, <3>1 DEF Answered
  <2> QED
    BY <1>2, <2>1, <2>2, <2>3, <2>4, StillTraversed DEF Inv
<1> QED
  BY <1>3, <1>4, <1>5 DEF Inv

LEMMA ResizeArrayIs ==
  ASSUME Inv, NEW m \in NewSizes, m > SizeArray(t), t' = Resize(t, m, SizeNode(t))
  PROVE  Fit(t') /\ \A x \in Keys : Get(t', x) = Get(t, x)
<1>1. PICK n \in 0 .. TwoTo[MaxBits] : Sound(t, n) /\ Placed(t)
  BY DEF Inv, Fit
<1>2. /\ m \in 0 .. TwoTo[MaxBits] /\ TwoTo[MaxBits] \in Nat /\ m \in Nat /\ n \in Nat
      /\ SizeNode(t) = n /\ SizeArray(t) = Len(t.array) /\ Len(t.array) \in Nat
  <2>1. m \in 0 .. TwoTo[MaxBits] /\ TwoTo[MaxBits] \in Nat
    BY KeysAssumption, Limits, TwoToRec
  <2> QED
    BY <1>1, <2>1, SizeIs, InArrayIs DEF Sound, SizeArray, Shaped
<1> DEFINE moved == Moved(t, m)
           M == ToNodes(moved, m, Len(moved))
<1>3. MovedFits(t, n, m, moved)
  BY <1>1, <1>2, MovedIs
<1> HIDE DEF moved
<1>4. Cardinality(M) <= n
  <2> DEFINE a == Len(t.array)
             S == a + 1 .. a + n
  <2>1. \A j \in M : j \in S
    <3>1. \A j \in 1 .. Len(moved) : moved[j].val # Nil => ~ (j <= a)
      BY <1>2, <1>3 DEF MovedFits
    <3>2. Len(moved) = a + n
      BY <1>3 DEF MovedFits
    <3> QED
      BY <1>2, <3>1, <3>2 DEF ToNodes
  <2>2. IsFiniteSet(S) /\ Cardinality(S) = n
    <3>1. a + 1 \in Int /\ a + n \in Int /\ a \in Nat
      BY <1>2
    <3> HIDE DEF a
    <3>2. IsFiniteSet(S) /\ Cardinality(S) = IF a + 1 > a + n THEN 0 ELSE (a + n) - (a + 1) + 1
      BY <3>1, FS_Interval
    <3> QED
      BY <1>2, <3>1, <3>2
  <2> HIDE DEF S, M
  <2> QED
    BY <1>2, <2>1, <2>2, FS_Subset
<1>5. Resized(t, m, n, t')
  BY <1>1, <1>2, <1>4, ResizeIs DEF moved
<1>6. PICK q \in n .. TwoTo[MaxBits] :
         Sound(t', q) /\ Placed(t') /\ \A x \in Keys : Get(t', x) = Get(t, x)
  BY <1>5 DEF Resized
<1>7. q \in 0 .. TwoTo[MaxBits]
  BY <1>2
<1> QED
  BY <1>6, <1>7 DEF Fit

LEMMA CollectStep ==
  ASSUME Inv, Collect
  PROVE  /\ Inv' /\ \A x \in Keys : Get(t', x) = Get(t, x)
<1>1. PICK n \in 0 .. TwoTo[MaxBits] : Sound(t, n) /\ Placed(t)
  BY DEF Inv, Fit
<1>2. /\ t' = [t EXCEPT !.node = [i \in DOMAIN t.node |->
                [t.node[i] EXCEPT !.dead = @ \/ (t.node[i].val = Nil /\ t.node[i].key \in Collectable)]]]
      /\ UNCHANGED <<on, at, seen, owed>>
  BY DEF Collect
<1>3. Sound(t', n) /\ SameKeys(t', t, n) /\ \A k \in Keys : Get(t', k) = Get(t, k)
  BY <1>1, <1>2, CollectIs
<1>4. Fit(t')
  BY <1>1, <1>3 DEF Fit, SameKeys, Placed
<1>5. Types'
  BY <1>2 DEF Inv, Types
<1>6. ASSUME on' PROVE Traversed'
  <2>1. Traversed /\ owed \subseteq Keys
    BY <1>2, <1>6 DEF Inv, Types
  <2>2. \A k \in owed' : Get(t', k) # Nil
    BY <1>2, <1>3, <2>1 DEF Traversed
  <2> QED
    BY <1>1, <1>2, <1>3, <2>1, <2>2, StillTraversed DEF Inv
<1> QED
  BY <1>3, <1>4, <1>5, <1>6 DEF Inv

LEMMA BeginInv == ASSUME Inv, Begin PROVE Inv'
<1>1. PICK n \in 0 .. TwoTo[MaxBits] : Sound(t, n) /\ Placed(t)
  BY DEF Inv, Fit
<1>2. t' = t /\ on' = TRUE /\ at' = Nil /\ seen' = {} /\ owed' = {k \in Keys : Get(t, k) # Nil}
  BY DEF Begin
<1>3. FindIndex(t', at') = -1
  BY <1>2 DEF FindIndex
<1>4. ASSUME NEW k \in Keys, Get(t, k) # Nil PROVE ~ (FindIndex(t', k) <= -1)
  <2>1. FindIndex(t, k) \in 0 .. Places(t) - 1 /\ Places(t) \in Nat
    BY <1>1, <1>4, IndexIs DEF Indexed
  <2> QED
    BY <1>2, <2>1
<1>5. Traversed'
  BY <1>2, <1>3, <1>4 DEF Traversed
<1> QED
  BY <1>2, <1>5 DEF Inv, Types, Fit

(* What the next step of a traversal answers                               *)
LEMMA VisitIs ==
  ASSUME Inv, Visit
  PROVE  /\ at' \in Keys /\ Get(t, at') # Nil /\ at' \notin seen
         /\ InArray(t, at') \/ Holder(t, at') # -1
         /\ FindIndex(t, at) < FindIndex(t, at')
         /\ \A k \in Keys : Get(t, k) # Nil /\ FindIndex(t, k) <= FindIndex(t, at') =>
              k = at' \/ FindIndex(t, k) <= FindIndex(t, at)
<1>1. PICK n \in 0 .. TwoTo[MaxBits] : Sound(t, n) /\ Placed(t)
  BY DEF Inv, Fit
<1> DEFINE F == Following(t, at)
           f == FindIndex(t, at)
           m == Min(F)
<1>2. on /\ F # {} /\ at' = KeyAt(t, m)
  BY DEF Visit
<1>3. Indexed(t) /\ Places(t) \in Nat
  BY <1>1, IndexIs DEF Indexed
<1>4. f \in Int
  BY <1>1, IndexType DEF Inv, Types
<1>5. \A i : i \in F <=> i \in f + 1 .. Places(t) - 1 /\ ValueAt(t, i) # Nil
  <2>1. SizeArray(t) \in Nat /\ SizeNode(t) \in Nat
    BY <1>1, SizeIs, InArrayIs DEF Sound, SizeArray, Shaped
  <2>2. Places(t) - 1 = SizeArray(t) + SizeNode(t) - 1
    BY <2>1 DEF Places
  <2> QED
    BY <2>2 DEF Following
<1>6. f >= -1
  <2>1. CASE at = Nil
    BY <2>1 DEF FindIndex
  <2>2. CASE at # Nil
    <3>1. at \in Keys /\ (InArray(t, at) \/ Holder(t, at) # -1)
      BY <1>2, <2>2 DEF Inv, Types, Traversed
    <3>2. PICK p, d : Ordered(t, n, p, d)
      BY <1>1 DEF Sound
    <3>3. Shaped(t, n) /\ SizeArray(t) \in Nat /\ n \in Nat
      BY <1>1, <3>1, SizeIs, InArrayIs DEF Sound, SizeArray
    <3>4. CASE InArray(t, at)
      BY <2>2, <3>4 DEF FindIndex, InArray
    <3>5. CASE ~ InArray(t, at)
      <4>1. Holder(t, at) \in 0 .. n - 1
        <5>1. HolderFits(t, n, at, Holder(t, at))
          BY <3>1, <3>2, <3>3, HolderIs
        <5> QED
          BY <3>1, <3>5, <5>1 DEF HolderFits
      <4> QED
        BY <2>2, <3>3, <3>5, <4>1 DEF FindIndex
    <3> QED
      BY <3>4, <3>5
  <2> QED
    BY <2>1, <2>2
<1> HIDE DEF F, f
<1>7. m \in F /\ \A i \in F : m <= i
  <2>1. F \in SUBSET Nat
    BY <1>3, <1>4, <1>5, <1>6
  <2> QED
    BY <1>2, <2>1, MinIs
<1> HIDE DEF m
<1>8. m \in 0 .. Places(t) - 1 /\ ValueAt(t, m) # Nil /\ f < m /\ m \in Int
  BY <1>3, <1>4, <1>5, <1>6, <1>7
<1>9. /\ at' \in Keys /\ Get(t, at') # Nil /\ FindIndex(t, at') = m
      /\ InArray(t, at') \/ Holder(t, at') # -1
  BY <1>2, <1>3, <1>8 DEF Indexed
<1>10. at' \notin seen
  <2>1. at' \in seen => FindIndex(t, at') <= f
    BY <1>2, <1>9 DEF Inv, Traversed, f
  <2> QED
    BY <1>4, <1>8, <1>9, <2>1
<1>11. ASSUME NEW k \in Keys, Get(t, k) # Nil, FindIndex(t, k) <= FindIndex(t, at')
       PROVE  k = at' \/ FindIndex(t, k) <= f
  <2> DEFINE i == FindIndex(t, k)
  <2>1. i \in 0 .. Places(t) - 1 /\ ValueAt(t, i) # Nil /\ KeyAt(t, i) = k
    BY <1>3, <1>11 DEF Indexed
  <2> HIDE DEF i
  <2>2. CASE i <= f
    BY <2>2 DEF i
  <2>3. CASE ~ (i <= f)
    <3>1. i \in F
      BY <1>3, <1>4, <1>5, <2>1, <2>3
    <3>2. i = m
      BY <1>3, <1>7, <1>8, <1>9, <1>11, <2>1, <3>1 DEF i
    <3> QED
      BY <1>2, <2>1, <3>2
  <2> QED
    BY <2>2, <2>3
<1> QED
  BY <1>8, <1>9, <1>10, <1>11 DEF f

LEMMA VisitInv == ASSUME Inv, Visit PROVE Inv'
<1>1. /\ at' \in Keys /\ Get(t, at') # Nil
      /\ InArray(t, at') \/ Holder(t, at') # -1
      /\ FindIndex(t, at) < FindIndex(t, at')
      /\ \A k \in Keys : Get(t, k) # Nil /\ FindIndex(t, k) <= FindIndex(t, at') =>
           k = at' \/ FindIndex(t, k) <= FindIndex(t, at)
  BY VisitIs
<1>2. t' = t /\ on' = on /\ owed' = owed /\ seen' = seen \cup {at'} /\ on
  BY DEF Visit
<1>3. PICK n \in 0 .. TwoTo[MaxBits] : Sound(t, n) /\ Placed(t)
  BY DEF Inv, Fit
<1>4. \A k \in Keys \cup {Nil} : FindIndex(t, k) \in Int
  BY <1>3, IndexType
<1>5. at \in Keys \cup {Nil} /\ Traversed
  BY <1>2 DEF Inv, Types
<1>6. ASSUME NEW k \in Keys, Get(t, k) # Nil
      PROVE  /\ k \in seen' => FindIndex(t, k) <= FindIndex(t, at')
             /\ k \in owed /\ FindIndex(t, k) <= FindIndex(t, at') => k \in seen'
  <2>1. /\ k \in seen => FindIndex(t, k) <= FindIndex(t, at)
        /\ k \in owed /\ FindIndex(t, k) <= FindIndex(t, at) => k \in seen
    BY <1>5, <1>6 DEF Traversed
  <2>2. FindIndex(t, k) \in Int /\ FindIndex(t, at) \in Int /\ FindIndex(t, at') \in Int
    BY <1>1, <1>4, <1>5
  <2>3. k \in seen' => FindIndex(t, k) <= FindIndex(t, at')
    <3>1. CASE k = at'
      BY <2>2, <3>1
    <3>2. CASE k # at'
      BY <1>1, <1>2, <2>1, <2>2, <3>2
    <3> QED
      BY <3>1, <3>2
  <2>4. k \in owed /\ FindIndex(t, k) <= FindIndex(t, at') => k \in seen'
    BY <1>1, <1>2, <1>6, <2>1
  <2> QED
    BY <2>3, <2>4
<1>7. Traversed'
  <2>1. \A k \in owed : Get(t, k) # Nil
    BY <1>5 DEF Traversed
  <2> QED
    BY <1>1, <1>2, <1>6, <2>1 DEF Traversed
<1> QED
  BY <1>1, <1>2, <1>7 DEF Inv, Types, Fit

LEMMA NextInv == ASSUME Inv, [Next]_vars PROVE Inv'
<1>1. CASE Set
  BY <1>1, SetInv
<1>2. CASE ResizeArray
  <2>1. PICK m \in NewSizes : m > SizeArray(t) /\ t' = Resize(t, m, SizeNode(t))
    BY <1>2 DEF ResizeArray
  <2>2. ~ on /\ UNCHANGED <<on, at, seen, owed>>
    BY <1>2 DEF ResizeArray
  <2>3. Fit(t')
    BY <2>1, ResizeArrayIs
  <2> QED
    BY <2>2, <2>3 DEF Inv, Types
<1>3. CASE Collect
  BY <1>3, CollectStep
<1>4. CASE Begin
  BY <1>4, BeginInv
<1>5. CASE Visit
  BY <1>5, VisitInv
<1>6. CASE Finish
  BY <1>6 DEF Finish, Inv, Types, Fit
<1>7. CASE UNCHANGED vars
  BY <1>7 DEF vars, Inv, Types, Fit, Traversed
<1> QED
  BY <1>1, <1>2, <1>3, <1>4, <1>5, <1>6, <1>7 DEF Next

(* ltable.c: luaH_set, rehash, resize and the collector keep every         *)
(* reachable table sound and with room, and do not disturb a traversal.    *)
THEOREM AlwaysInv == Spec => []Inv
<1>1. Init => Inv
  BY InitInv
<1>2. Inv /\ [Next]_vars => Inv'
  BY NextInv
<1> QED
  BY <1>1, <1>2, PTL DEF Spec

(* ltable.c: every live node is reached from the main position of its key, *)
(* through nodes that were put off by one that is in its own.              *)
THEOREM AlwaysChainsSound == Spec => []ChainsSound
<1>1. Inv => ChainsSound
  <2> SUFFICES ASSUME Inv PROVE ChainsSound
    OBVIOUS
  <2>1. PICK n \in 0 .. TwoTo[MaxBits] : Sound(t, n) /\ Placed(t)
    BY DEF Inv, Fit
  <2>2. PICK p, d : Ordered(t, n, p, d)
    BY <2>1 DEF Sound
  <2>3. Shaped(t, n) /\ Laid(t, n, p, d) /\ DOMAIN t.node = 0 .. n - 1
    BY <2>1, <2>2, SizeIs DEF Sound, Ordered
  <2>4. ASSUME NEW i \in 0 .. n - 1 PROVE Search(t, i, {}) = -1
    <3>1. FirstIs(n, p, d, i, {}, Search(t, i, {}))
      BY <2>3, SearchIs
    <3> QED
      BY <3>1 DEF FirstIs
  <2>5. ASSUME NEW i \in 0 .. n - 1, Live(i)
        PROVE  /\ Search(t, MainPosition(t, t.node[i].key), {i}) = i
               /\ MainPosition(t, t.node[MainPosition(t, t.node[i].key)].key)
                    = MainPosition(t, t.node[i].key)
    <3> DEFINE mp == MainPosition(t, t.node[i].key)
    <3>1. t.node[i].key \in Keys /\ t.node[i].key # Nil
      BY <2>2, <2>3, <2>5, LiveKeyed, Limits DEF Live
    <3>2. Leads(p, d, mp, i) /\ MainPosition(t, t.node[mp].key) = mp
      BY <2>2, <3>1 DEF Ordered, KeyPlaced
    <3>3. mp \in 0 .. n - 1
      BY <2>3, <3>1, KeyedMain
    <3> HIDE DEF mp
    <3>4. FirstIs(n, p, d, mp, {i}, Search(t, mp, {i}))
      BY <2>3, <3>3, SearchIs
    <3>5. Search(t, mp, {i}) = i
      BY <3>2, <3>4 DEF FirstIs
    <3> QED
      BY <3>2, <3>5 DEF mp
  <2> QED
    BY <2>3, <2>4, <2>5 DEF ChainsSound
<1> QED
  BY <1>1, AlwaysInv, PTL

(* rehash, resize: no insertion that a rehash makes calls rehash again.    *)
THEOREM AlwaysRoomForAll == Spec => []RoomForAll
<1>1. Inv => RoomForAll
  BY DEF Inv, Fit, RoomForAll
<1> QED
  BY <1>1, AlwaysInv, PTL

(* findindex: a traversal never meets "invalid key to 'next'".             *)
THEOREM AlwaysKeyFound == Spec => []KeyFound
<1>1. Inv => KeyFound
  BY DEF Inv, Traversed, KeyFound
<1> QED
  BY <1>1, AlwaysInv, PTL

LEMMA BestSizeFits ==
  ASSUME NEW S, NEW size, size = BestSize(S),
         \A m \in Nat : Cardinality({e \in S : e <= m}) \in Nat,
         \A e \in S : e \in Int /\ e > 0
  PROVE  /\ 2 * AtMost(S, size) >= size
         /\ \A lg \in 0 .. MaxBits : TwoTo[lg] > size => 2 * AtMost(S, TwoTo[lg]) <= TwoTo[lg]
<1> DEFINE C(m) == Cardinality({e \in S : e <= m})
           powers == {TwoTo[lg] : lg \in 0 .. MaxBits}
           sizes == {m \in powers : 2 * C(m) > m}
<1>0. MaxBits \in Nat /\ TwoTo[MaxBits] \in Nat
  BY Limits, TwoToRec
<1>1. size = IF sizes = {} THEN 0 ELSE Max(sizes)
  BY DEF BestSize
<1>2. \A m : AtMost(S, m) = C(m)
  BY DEF AtMost
<1>3. \A m \in Nat : C(m) \in Nat
  OBVIOUS
<1>4. ASSUME NEW lg \in 0 .. MaxBits PROVE TwoTo[lg] \in 0 .. TwoTo[MaxBits]
  <2>1. MaxBits \in lg .. MaxBits
    BY <1>0
  <2> QED
    BY <1>0, <2>1, TwoToGrows
<1>5. powers \in SUBSET (0 .. TwoTo[MaxBits])
  BY <1>4
<1> HIDE DEF C
<1>6. sizes \in SUBSET (0 .. TwoTo[MaxBits]) /\ sizes \subseteq powers
  BY <1>5
<1>7. \A m \in powers : m \in sizes <=> 2 * C(m) > m
  OBVIOUS
<1>8. \A lg \in 0 .. MaxBits : TwoTo[lg] \in powers
  OBVIOUS
<1> HIDE DEF sizes, powers
<1>9. CASE sizes = {}
  <2>1. size = 0 /\ C(0) \in Nat
    BY <1>1, <1>3, <1>9
  <2>2. 2 * C(size) >= size
    BY <2>1
  <2>3. ASSUME NEW lg \in 0 .. MaxBits PROVE 2 * C(TwoTo[lg]) <= TwoTo[lg]
    <3>1. TwoTo[lg] \in Nat /\ C(TwoTo[lg]) \in Nat
      BY <1>0, <1>3, <1>4
    <3>2. ~ (2 * C(TwoTo[lg]) > TwoTo[lg])
      BY <1>7, <1>8, <1>9
    <3> QED
      BY <3>1, <3>2
  <2> QED
    BY <1>2, <2>2, <2>3
<1>10. CASE sizes # {}
  <2>1. size \in sizes /\ \A m \in sizes : m <= size
    BY <1>0, <1>1, <1>6, <1>10, MaxIs
  <2>2. size \in Nat /\ C(size) \in Nat /\ 2 * C(size) > size
    BY <1>0, <1>3, <1>6, <1>7, <2>1
  <2>3. ASSUME NEW lg \in 0 .. MaxBits, TwoTo[lg] > size PROVE 2 * C(TwoTo[lg]) <= TwoTo[lg]
    <3>1. TwoTo[lg] \in Nat /\ C(TwoTo[lg]) \in Nat
      BY <1>0, <1>3, <1>4
    <3>2. TwoTo[lg] \notin sizes
      BY <2>1, <2>2, <2>3, <3>1
    <3>3. ~ (2 * C(TwoTo[lg]) > TwoTo[lg])
      BY <1>7, <1>8, <3>2
    <3> QED
      BY <3>1, <3>3
  <2> QED
    BY <1>2, <2>2, <2>3
<1> QED
  BY <1>9, <1>10

(* computesizes, rehash: the array part that a rehash makes is as large as *)
(* its use allows, and the nodes suffice for the rest.                     *)
THEOREM AlwaysArrayFits == Spec => []ArrayFits
<1>1. Inv => ArrayFits
  <2> SUFFICES ASSUME Inv PROVE ArrayFits
    OBVIOUS
  <2>1. PICK n \in 0 .. TwoTo[MaxBits] : Sound(t, n) /\ Placed(t)
    BY DEF Inv, Fit
  <2>2. ASSUME NEW k \in {e \in Keys : Get(t, e) = Nil}
        PROVE  LET all == {e \in Keys : Get(t, e) # Nil} \cup {k}
                   indices == {e \in all \cap Ints : e > 0}
               IN  With(Nums(t, k), LAMBDA nums :
                     LET size == NewArraySize(nums)
                     IN  /\ 2 * AtMost(indices, size) >= size
                         /\ \A lg \in 0 .. MaxBits :
                              TwoTo[lg] > size => 2 * AtMost(indices, TwoTo[lg]) <= TwoTo[lg]
                         /\ InUse(t) + 1 - ToArray(nums) = Cardinality(all \ 1 .. size))
    <3> DEFINE all == {e \in Keys : Get(t, e) # Nil} \cup {k}
               indices == {e \in all \cap Ints : e > 0}
               Fits(size) == /\ 2 * AtMost(indices, size) >= size
                             /\ \A lg \in 0 .. MaxBits :
                                  TwoTo[lg] > size => 2 * AtMost(indices, TwoTo[lg]) <= TwoTo[lg]
               F(nums) == LET size == NewArraySize(nums)
                          IN  /\ 2 * AtMost(indices, size) >= size
                              /\ \A lg \in 0 .. MaxBits :
                                   TwoTo[lg] > size => 2 * AtMost(indices, TwoTo[lg]) <= TwoTo[lg]
                              /\ InUse(t) + 1 - ToArray(nums) = Cardinality(all \ 1 .. size)
    <3>1. F(Nums(t, k))
      <4>1. HasValue(t) \cup {k} = all
        BY DEF HasValue
      <4>2. NewArraySize(Nums(t, k)) = BestSize({e \in (HasValue(t) \cup {k}) \cap Ints : e > 0})
        BY <2>1, RehashSizes
      <4>3. InUse(t) + 1 - ToArray(Nums(t, k))
              = Cardinality((HasValue(t) \cup {k}) \ (1 .. NewArraySize(Nums(t, k))))
        BY <2>1, RehashSizes
      <4>4. IsFiniteSet(all)
        BY <2>1, <4>1, NumsIs
      <4> HIDE DEF all
      <4>5. \A e \in indices : e \in Int /\ e > 0
        BY Limits
      <4>6. ASSUME NEW m \in Nat PROVE Cardinality({e \in indices : e <= m}) \in Nat
        <5>1. {e \in indices : e <= m} \subseteq all
          OBVIOUS
        <5> HIDE DEF indices
        <5> QED
          BY <4>4, <5>1, FS_Subset, FS_CardinalityType
      <4>7. NewArraySize(Nums(t, k)) = BestSize(indices)
        BY <4>1, <4>2
      <4> HIDE DEF indices
      <4>8. Fits(NewArraySize(Nums(t, k)))
        BY <4>5, <4>6, <4>7, BestSizeFits
      <4> QED
        BY <4>1, <4>3, <4>8
    <3> HIDE DEF F, Fits
    <3>2. {F(x) : x \in {Nums(t, k)}} = {F(Nums(t, k))}
      OBVIOUS
    <3>3. (CHOOSE r \in {F(x) : x \in {Nums(t, k)}} : TRUE) = F(Nums(t, k))
      BY <3>2
    <3> QED
      BY <3>1, <3>3 DEF With, F
  <2> QED
    BY <2>2 DEF ArrayFits
<1> QED
  BY <1>1, AlwaysInv, PTL
-----------------------------------------------------------------------------
(* luaH_getn *)
Filling(tb, i) == i = 0 \/ Get(tb, i) # Nil
Border(tb, i) == Filling(tb, i) /\ Get(tb, i + 1) = Nil

Halved(tb, e) ==
  LET i == e[1]
      j == e[2]
      m == (i + j) \div 2
  IN  IF j - i <= 1 THEN <<i, j>>
      ELSE IF Get(tb, m) = Nil THEN <<i, m>> ELSE <<m, j>>

(* The border is between the two, which at most x steps will bring         *)
(* together.                                                               *)
Enclosed(tb, e, x) ==
  /\ e \in Nat \X Nat /\ e[1] < e[2] /\ Filling(tb, e[1]) /\ Get(tb, e[2]) = Nil
  /\ e[2] - e[1] <= 1 \/ e[2] - e[1] <= x

LEMMA HalvedType ==
  ASSUME NEW tb, NEW e \in Nat \X Nat
  PROVE  Halved(tb, e) \in Nat \X Nat
<1> DEFINE i == e[1]
           j == e[2]
           m == (i + j) \div 2
<1>1. i \in Nat /\ j \in Nat
  OBVIOUS
<1> HIDE DEF i, j
<1>2. m \in Nat
  BY <1>1
<1> HIDE DEF m
<1>3. Halved(tb, e) = IF j - i <= 1 THEN <<i, j>> ELSE IF Get(tb, m) = Nil THEN <<i, m>> ELSE <<m, j>>
  BY DEF Halved, i, j, m
<1> QED
  BY <1>1, <1>2, <1>3

LEMMA HalvedIs ==
  ASSUME NEW tb, NEW e, NEW x \in Nat, x > 0, Enclosed(tb, e, x)
  PROVE  Enclosed(tb, Halved(tb, e), x - 1)
<1> DEFINE i == e[1]
           j == e[2]
           m == (i + j) \div 2
           r == Halved(tb, e)
<1>1. /\ i \in Nat /\ j \in Nat /\ i < j /\ Filling(tb, i) /\ Get(tb, j) = Nil
      /\ j - i <= 1 \/ j - i <= x
  BY DEF Enclosed
<1> HIDE DEF i, j
<1>2. m \in Nat /\ (j - i > 1 => i < m /\ m < j)
  BY <1>1
<1> HIDE DEF m
<1>3. r = IF j - i <= 1 THEN <<i, j>> ELSE IF Get(tb, m) = Nil THEN <<i, m>> ELSE <<m, j>>
  BY DEF Halved, i, j, m
<1> HIDE DEF r
<1>4. CASE j - i <= 1
  <2>1. r = <<i, j>> /\ r[1] = i /\ r[2] = j /\ r \in Nat \X Nat
    BY <1>1, <1>3, <1>4
  <2> QED
    BY <1>1, <1>4, <2>1 DEF Enclosed, r
<1>5. CASE ~ (j - i <= 1) /\ Get(tb, m) = Nil
  <2>1. r = <<i, m>> /\ r[1] = i /\ r[2] = m /\ r \in Nat \X Nat
    BY <1>1, <1>2, <1>3, <1>5
  <2>2. i < m /\ m - i <= x - 1
    BY <1>1, <1>2, <1>5
  <2> QED
    BY <1>1, <1>5, <2>1, <2>2 DEF Enclosed, r
<1>6. CASE ~ (j - i <= 1) /\ Get(tb, m) # Nil
  <2>1. r = <<m, j>> /\ r[1] = m /\ r[2] = j /\ r \in Nat \X Nat
    BY <1>1, <1>2, <1>3, <1>6
  <2>2. m < j /\ j - m <= x - 1
    BY <1>1, <1>2, <1>6
  <2>3. Filling(tb, m)
    BY <1>6 DEF Filling
  <2> QED
    BY <1>1, <2>1, <2>2, <2>3 DEF Enclosed, r
<1> QED
  BY <1>4, <1>5, <1>6

LEMMA BetweenIs ==
  ASSUME NEW tb, NEW lo \in Nat, NEW hi \in Nat, lo < hi, Filling(tb, lo), Get(tb, hi) = Nil
  PROVE  Border(tb, Between(tb, lo, hi))
<1> DEFINE N == hi - lo
           S == Nat \X Nat
           b == <<lo, hi>>
           g == [p \in (1 .. N) \X S |-> Halved(tb, p[2])]
           Into(f) == [n \in 0 .. N |-> IF n = 0 THEN b ELSE Halved(tb, f[n - 1])]
           within == CHOOSE f : f = Into(f)
<1>1. N \in Nat /\ N > 0 /\ b \in S /\ b[1] = lo /\ b[2] = hi
  OBVIOUS
<1>2. Between(tb, lo, hi) = within[N][1]
  BY DEF Between, Halved
<1> HIDE DEF S, b
<1>3. g \in [(1 .. N) \X S -> S]
  <2>1. \A p \in (1 .. N) \X S : p[2] \in S
    OBVIOUS
  <2>2. \A e \in S : Halved(tb, e) \in S
    BY HalvedType DEF S
  <2> QED
    BY <2>1, <2>2
<1> HIDE DEF N
<1>4. PICK d \in [0 .. N -> S] : Steps(d, b, g, N)
  <2> HIDE DEF g
  <2> QED
    BY <1>1, <1>3, Iterated
<1>5. d = Into(d)
  <2>1. ASSUME NEW n \in 0 .. N, n # 0 PROVE d[n] = Halved(tb, d[n - 1])
    <3>1. n \in 1 .. N /\ n - 1 \in 0 .. N
      BY <1>1, <2>1
    <3>2. d[n] = g[<<n, d[n - 1]>>] /\ <<n, d[n - 1]>> \in (1 .. N) \X S
      BY <1>4, <3>1 DEF Steps
    <3> QED
      BY <3>2
  <2>2. d[0] = b
    BY <1>4 DEF Steps
  <2> QED
    BY <2>1, <2>2
<1>6. within = Into(within)
  <2> HIDE DEF Into
  <2> QED
    BY <1>5
<1> HIDE DEF within, g
<1> DEFINE Q == {n \in 0 .. N : Enclosed(tb, within[n], N - n)}
<1>7. 0 \in Q
  <2>1. within[0] = b
    BY <1>1, <1>6
  <2>2. b[2] - b[1] <= N - 0
    BY <1>1 DEF N
  <2>3. Enclosed(tb, b, N - 0)
    BY <1>1, <2>2 DEF Enclosed, S
  <2> QED
    BY <1>1, <2>1, <2>3
<1>8. ASSUME NEW n \in 0 + 1 .. N, n - 1 \in Q PROVE n \in Q
  <2>1. n \in 0 .. N /\ n # 0 /\ N - (n - 1) \in Nat /\ N - (n - 1) > 0 /\ (N - (n - 1)) - 1 = N - n
    BY <1>1
  <2>2. within[n] = Halved(tb, within[n - 1])
    BY <1>6, <2>1
  <2>3. Enclosed(tb, within[n - 1], N - (n - 1))
    BY <1>8
  <2>4. Enclosed(tb, Halved(tb, within[n - 1]), N - n)
    BY <2>1, <2>3, HalvedIs
  <2> QED
    BY <2>1, <2>2, <2>4
<1>9. N \in Q
  <2> HIDE DEF Q
  <2>1. 0 \in Nat
    OBVIOUS
  <2>2. \A n \in 0 .. N : n \in Q
    BY <1>1, <1>7, <1>8, <2>1, Upwards
  <2> QED
    BY <1>1, <2>2
<1>10. Enclosed(tb, within[N], 0)
  BY <1>1, <1>9
<1>11. within[N][2] = within[N][1] + 1
  BY <1>10 DEF Enclosed
<1> QED
  BY <1>2, <1>10, <1>11 DEF Enclosed, Border

LEMMA LinearIs ==
  ASSUME NEW tb
  PROVE  Border(tb, LinearSearch(tb)) \/ \E i \in 1 .. Cardinality(Ints) + 1 : i \notin Keys /\ Get(tb, i) # Nil
<1> DEFINE c == Cardinality(Ints)
           F == {i \in 1 .. c + 1 : Get(tb, i) = Nil}
           m == Min(F)
<1>1. IsFiniteSet(Ints) /\ c \in Nat
  BY Limits, FS_Subset, FS_CardinalityType
<1>2. LinearSearch(tb) = m - 1
  BY DEF LinearSearch
<1>3. CASE F = {}
  <2>1. \A i \in 1 .. c + 1 : Get(tb, i) # Nil
    BY <1>3
  <2>2. ASSUME \A i \in 1 .. c + 1 : i \in Keys PROVE FALSE
    <3>1. 1 .. c + 1 \subseteq Ints
      BY <2>2, Limits
    <3>2. IsFiniteSet(1 .. c + 1) /\ Cardinality(1 .. c + 1) = c + 1
      <4>1. 1 \in Int /\ c + 1 \in Int
        BY <1>1
      <4>2. Cardinality(1 .. c + 1) = IF 1 > c + 1 THEN 0 ELSE (c + 1) - 1 + 1
        BY <4>1, FS_Interval
      <4> QED
        BY <1>1, <4>1, <4>2, FS_Interval
    <3>3. Cardinality(1 .. c + 1) <= c
      BY <1>1, <3>1, FS_Subset
    <3> QED
      BY <1>1, <3>2, <3>3
  <2> QED
    BY <2>1, <2>2
<1>4. CASE F # {}
  <2>1. m \in F /\ \A i \in F : m <= i
    <3>1. F \in SUBSET Nat
      BY <1>1
    <3> HIDE DEF F
    <3> QED
      BY <1>4, <3>1, MinIs
  <2> HIDE DEF m
  <2>2. m \in 1 .. c + 1 /\ Get(tb, m) = Nil
    BY <2>1
  <2>3. m - 1 = 0 \/ (m - 1 \in 1 .. c + 1 /\ ~ (m <= m - 1))
    BY <1>1, <2>2
  <2>4. Filling(tb, m - 1)
    BY <2>1, <2>3 DEF Filling
  <2>5. (m - 1) + 1 = m
    BY <1>1, <2>2
  <2> QED
    BY <1>2, <2>2, <2>4, <2>5 DEF Border
<1> QED
  BY <1>3, <1>4

Doubled(tb, e) ==
  LET j == e[2] IN IF Get(tb, j) = Nil \/ 2 * j > MaxInt THEN e ELSE <<j, 2 * j>>

LEMMA UnboundIs ==
  ASSUME NEW tb, NEW from \in Nat, Filling(tb, from),
         \A i \in Int : i \notin Keys => Get(tb, i) = Nil
  PROVE  Border(tb, UnboundSearch(tb, from))
<1> DEFINE S == {e \in Nat \X Nat : e[1] < e[2] /\ Filling(tb, e[1])}
           b == <<from, from + 1>>
           g == [p \in (1 .. MaxInt) \X S |-> Doubled(tb, p[2])]
           Into(f) == [n \in 0 .. MaxInt |->
                         IF n = 0 THEN b
                         ELSE LET j == f[n - 1][2]
                              IN  IF Get(tb, j) = Nil \/ 2 * j > MaxInt THEN f[n - 1] ELSE <<j, 2 * j>>]
           double == CHOOSE f : f = Into(f)
           last == double[MaxInt]
<1>1. MaxInt \in Nat
  BY Limits
<1>2. UnboundSearch(tb, from) =
        IF Get(tb, last[2]) = Nil THEN Between(tb, last[1], last[2]) ELSE LinearSearch(tb)
  BY DEF UnboundSearch
<1>3. b \in S
  OBVIOUS
<1>4. ASSUME NEW e \in S PROVE Doubled(tb, e) \in S
  <2> DEFINE j == e[2]
             r == <<j, 2 * j>>
  <2>1. e \in Nat \X Nat /\ e[1] < e[2] /\ j \in Nat /\ e[1] \in Nat
    OBVIOUS
  <2>2. CASE Get(tb, j) = Nil \/ 2 * j > MaxInt
    BY <2>2 DEF Doubled
  <2>3. CASE ~ (Get(tb, j) = Nil \/ 2 * j > MaxInt)
    <3>1. Doubled(tb, e) = r
      BY <2>3 DEF Doubled
    <3>2. Filling(tb, j)
      BY <2>3 DEF Filling
    <3>3. j > 0
      BY <2>1
    <3> HIDE DEF j
    <3>4. r \in Nat \X Nat /\ r[1] = j /\ r[2] = 2 * j /\ j < 2 * j
      BY <2>1, <3>3
    <3> HIDE DEF r
    <3>5. r \in S
      BY <3>2, <3>4
    <3> QED
      BY <3>1, <3>5
  <2> QED
    BY <2>2, <2>3
<1> HIDE DEF S, b
<1>5. g \in [(1 .. MaxInt) \X S -> S]
  <2>1. \A p \in (1 .. MaxInt) \X S : p[2] \in S
    OBVIOUS
  <2> QED
    BY <1>4, <2>1
<1>6. PICK d \in [0 .. MaxInt -> S] : Steps(d, b, g, MaxInt)
  <2> HIDE DEF g
  <2> QED
    BY <1>1, <1>3, <1>5, Iterated
<1>7. d = Into(d)
  <2>1. ASSUME NEW n \in 0 .. MaxInt, n # 0 PROVE d[n] = Doubled(tb, d[n - 1])
    <3>1. n \in 1 .. MaxInt /\ n - 1 \in 0 .. MaxInt
      BY <1>1, <2>1
    <3>2. d[n] = g[<<n, d[n - 1]>>] /\ <<n, d[n - 1]>> \in (1 .. MaxInt) \X S
      BY <1>6, <3>1 DEF Steps
    <3> QED
      BY <3>2
  <2>2. d[0] = b
    BY <1>6 DEF Steps
  <2> QED
    BY <2>1, <2>2 DEF Doubled
<1>8. double = Into(double)
  <2> HIDE DEF Into
  <2> QED
    BY <1>7
<1> HIDE DEF double, g
<1>9. double[0] = b /\ \A n \in 1 .. MaxInt : double[n] = Doubled(tb, double[n - 1])
  <2>1. 0 \in 0 .. MaxInt /\ \A n \in 1 .. MaxInt : n \in 0 .. MaxInt /\ n # 0
    BY <1>1
  <2> QED
    BY <1>8, <2>1 DEF Doubled
<1> DEFINE Q == {n \in 0 .. MaxInt : double[n] \in S}
<1>10. 0 \in Q
  BY <1>1, <1>3, <1>9
<1>11. ASSUME NEW n \in 0 + 1 .. MaxInt, n - 1 \in Q PROVE n \in Q
  <2>1. n \in 1 .. MaxInt /\ n \in 0 .. MaxInt
    BY <1>1
  <2>2. double[n] = Doubled(tb, double[n - 1]) /\ double[n - 1] \in S
    BY <1>9, <1>11, <2>1
  <2> QED
    BY <1>4, <2>1, <2>2
<1>12. last \in S
  <2> HIDE DEF Q
  <2>1. 0 \in Nat
    OBVIOUS
  <2>2. \A n \in 0 .. MaxInt : n \in Q
    BY <1>1, <1>10, <1>11, <2>1, Upwards
  <2>3. MaxInt \in Q
    BY <1>1, <2>2
  <2> QED
    BY <2>3 DEF Q
<1>13. last[1] \in Nat /\ last[2] \in Nat /\ last[1] < last[2] /\ Filling(tb, last[1])
  BY <1>12 DEF S
<1> HIDE DEF last
<1>14. CASE Get(tb, last[2]) = Nil
  BY <1>2, <1>13, <1>14, BetweenIs
<1>15. CASE Get(tb, last[2]) # Nil
  <2>1. \A i \in 1 .. Cardinality(Ints) + 1 : i \notin Keys => Get(tb, i) = Nil
    OBVIOUS
  <2> QED
    BY <1>2, <1>15, <2>1, LinearIs
<1> QED
  BY <1>14, <1>15

(* luaH_getn: the length operator answers a border of every table.         *)
THEOREM AlwaysLengthIsBorder == Spec => []LengthIsBorder
<1>1. Inv => LengthIsBorder
  <2> SUFFICES ASSUME Inv PROVE LengthIsBorder
    OBVIOUS
  <2> DEFINE a == SizeArray(t)
  <2>1. PICK n \in 0 .. TwoTo[MaxBits] : Sound(t, n) /\ Placed(t)
    BY DEF Inv, Fit
  <2>2. /\ Shaped(t, n) /\ SizeNode(t) = n /\ a = Len(t.array) /\ a \in Nat
        /\ \A i \in 1 .. a : t.array[i] # Nil => i \in Ints
    BY <2>1, SizeIs, InArrayIs DEF Sound, SizeArray, Shaped
  <2> HIDE DEF a
  <2>3. \A i \in Int : i \notin Keys => Get(t, i) = Nil
    BY Limits DEF Get, InArray
  <2>4. \A i \in 1 .. a : Get(t, i) = t.array[i]
    <3> SUFFICES ASSUME NEW i \in 1 .. a PROVE Get(t, i) = t.array[i]
      OBVIOUS
    <3>1. CASE i \in Ints
      BY <2>2, <3>1 DEF Get, InArray, a
    <3>2. CASE i \notin Ints
      BY <2>2, <2>3, <3>2, Limits
    <3> QED
      BY <3>1, <3>2
  <2>5. Border(t, GetN(t))
    <3>1. CASE a > 0 /\ t.array[a] = Nil
      <4>1. GetN(t) = Between(t, 0, a)
        BY <3>1 DEF GetN, a
      <4>2. Get(t, a) = Nil /\ Filling(t, 0)
        BY <2>2, <2>4, <3>1 DEF Filling
      <4> QED
        BY <2>2, <3>1, <4>1, <4>2, BetweenIs
    <3>2. CASE ~ (a > 0 /\ t.array[a] = Nil)
      <4>1. GetN(t) = IF n = 0 THEN a ELSE UnboundSearch(t, a)
        BY <2>2, <3>2 DEF GetN, a
      <4>2. Filling(t, a)
        BY <2>2, <2>4, <3>2 DEF Filling
      <4>3. CASE n = 0
        <5>1. ~ InArray(t, a + 1)
          BY <2>2 DEF InArray, a
        <5>2. Get(t, a + 1) = Nil
          BY <2>2, <4>3, <5>1 DEF Get, Node
        <5> QED
          BY <4>1, <4>2, <4>3, <5>2 DEF Border
      <4>4. CASE n # 0
        BY <2>2, <2>3, <4>1, <4>2, <4>4, UnboundIs
      <4> QED
        BY <4>3, <4>4
    <3> QED
      BY <3>1, <3>2
  <2> QED
    BY <2>5 DEF Border, Filling, LengthIsBorder
<1> QED
  BY <1>1, AlwaysInv, PTL
-----------------------------------------------------------------------------
(* The table is the map it promises to be.                                 *)
LEMMA InitMap == ASSUME Init PROVE Map!Init
<1>1. PICK narray \in NewSizes, nhash \in NewSizes : t = Sized(<<>>, narray, nhash)
  BY DEF Init
<1>2. narray \in 0 .. TwoTo[MaxBits] /\ nhash \in 0 .. TwoTo[MaxBits]
  BY KeysAssumption
<1>3. IntsOnly(<<>>)
  BY DEF IntsOnly
<1>4. PICK n : Cleared(<<>>, narray, nhash, Sized(<<>>, narray, nhash), n)
  BY <1>2, <1>3, SizedIs
<1>5. \A k \in Keys : Get(t, k) = Nil
  BY <1>1, <1>4 DEF Cleared
<1>6. [k \in Keys |-> Get(t, k)] = [k \in Keys |-> Nil]
  BY <1>5
<1> QED
  BY <1>6 DEF Map!Init, Init

LEMMA StepMap == ASSUME Inv, [Next]_vars PROVE [Map!Next]_(Map!vars)
<1> DEFINE map == [k \in Keys |-> Get(t, k)]
<1>1. CASE Set
  <2>1. PICK k \in Keys : \E v \in Values[k] \cup {Nil} :
           /\ on => Get(t, k) # Nil
           /\ t' = SetValue(t, k, v)
           /\ owed' = IF v = Nil THEN owed \ {k} ELSE owed
           /\ UNCHANGED <<on, at, seen>>
    BY <1>1 DEF Set
  <2>2. PICK v \in Values[k] \cup {Nil} :
           /\ on => Get(t, k) # Nil
           /\ t' = SetValue(t, k, v)
           /\ owed' = IF v = Nil THEN owed \ {k} ELSE owed
           /\ UNCHANGED <<on, at, seen>>
    BY <2>1
  <2>3. Answered(t, k, v, t')
    BY <2>2, SetIs
  <2>4. map' = [map EXCEPT ![k] = v]
    BY <2>3 DEF Answered
  <2>5. on => k \in Map!Present
    BY <2>2 DEF Map!Present
  <2>6. Map!Set
    BY <2>2, <2>4, <2>5 DEF Map!Set
  <2> QED
    BY <2>6 DEF Map!Next
<1>2. ASSUME \A k \in Keys : Get(t', k) = Get(t, k), UNCHANGED <<on, seen, owed>>
      PROVE  UNCHANGED Map!vars
  <2>1. map' = map
    BY <1>2
  <2> QED
    BY <1>2, <2>1 DEF Map!vars
<1>3. CASE ResizeArray
  <2>1. PICK m \in NewSizes : m > SizeArray(t) /\ t' = Resize(t, m, SizeNode(t))
    BY <1>3 DEF ResizeArray
  <2>2. \A k \in Keys : Get(t', k) = Get(t, k)
    BY <2>1, ResizeArrayIs
  <2> QED
    BY <1>2, <1>3, <2>2 DEF ResizeArray
<1>4. CASE Collect
  <2>1. \A k \in Keys : Get(t', k) = Get(t, k)
    BY <1>4, CollectStep
  <2> QED
    BY <1>2, <1>4, <2>1 DEF Collect
<1>5. CASE Begin
  <2>1. map' = map
    BY <1>5 DEF Begin
  <2>2. Map!Present = {k \in Keys : Get(t, k) # Nil}
    BY DEF Map!Present
  <2>3. Map!Begin
    BY <1>5, <2>1, <2>2 DEF Begin, Map!Begin
  <2> QED
    BY <2>3 DEF Map!Next
<1>6. CASE Visit
  <2>1. at' \in Keys /\ Get(t, at') # Nil /\ at' \notin seen
    BY <1>6, VisitIs
  <2>2. at' \in Map!Present \ seen
    BY <2>1 DEF Map!Present
  <2>3. map' = map
    BY <1>6 DEF Visit
  <2>4. Map!Visit
    BY <1>6, <2>2, <2>3 DEF Visit, Map!Visit
  <2> QED
    BY <2>4 DEF Map!Next
<1>7. CASE Finish
  <2>1. PICK n \in 0 .. TwoTo[MaxBits] : Sound(t, n) /\ Placed(t)
    BY DEF Inv, Fit
  <2>2. on /\ Following(t, at) = {} /\ Traversed /\ at \in Keys \cup {Nil}
    BY <1>7 DEF Finish, Inv, Types
  <2>3. Indexed(t) /\ Places(t) \in Nat /\ FindIndex(t, at) \in Int
        /\ SizeArray(t) \in Nat /\ SizeNode(t) \in Nat
    BY <2>1, <2>2, IndexIs, IndexType, SizeIs, InArrayIs DEF Indexed, Sound, Shaped, SizeArray
  <2>4. owed \subseteq seen
    <3> SUFFICES ASSUME NEW k \in owed PROVE k \in seen
      OBVIOUS
    <3>1. k \in Keys /\ Get(t, k) # Nil
      BY <2>2 DEF Traversed, Inv, Types
    <3> DEFINE i == FindIndex(t, k)
    <3>2. i \in 0 .. Places(t) - 1 /\ ValueAt(t, i) # Nil
      BY <2>3, <3>1 DEF Indexed
    <3>3. Places(t) - 1 = SizeArray(t) + SizeNode(t) - 1
      BY <2>3 DEF Places
    <3>4. i \notin FindIndex(t, at) + 1 .. SizeArray(t) + SizeNode(t) - 1
      BY <2>2, <3>2 DEF Following
    <3> HIDE DEF i
    <3>5. i <= FindIndex(t, at)
      BY <2>3, <3>2, <3>3, <3>4
    <3> QED
      BY <2>2, <3>1, <3>5 DEF Traversed, i
  <2>5. map' = map
    BY <1>7 DEF Finish
  <2>6. Map!Finish
    BY <1>7, <2>4, <2>5 DEF Finish, Map!Finish
  <2> QED
    BY <2>6 DEF Map!Next
<1>8. CASE UNCHANGED vars
  <2>1. \A k \in Keys : Get(t', k) = Get(t, k)
    BY <1>8 DEF vars
  <2> QED
    BY <1>2, <1>8, <2>1 DEF vars
<1> QED
  BY <1>1, <1>3, <1>4, <1>5, <1>6, <1>7, <1>8 DEF Next

(* luaH_get, luaH_set, luaH_next: every behaviour of the table, with its   *)
(* collisions, rehashes and dead keys, is one of the map.                  *)
THEOREM AlwaysMap == Spec => IsAMap
<1>1. Init => Map!Init
  BY InitMap
<1>2. Inv /\ [Next]_vars => [Map!Next]_(Map!vars)
  BY StepMap
<1> QED
  BY <1>1, <1>2, AlwaysInv, PTL DEF Spec, IsAMap, Map!Spec
=============================================================================
