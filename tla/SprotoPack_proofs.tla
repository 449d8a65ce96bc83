------------------------- MODULE SprotoPack_proofs -------------------------
(* Proofs about SprotoPack: the buffers of pack and unpack are respected,  *)
(* what pack answers is a sound stream, and unpacking it gives the source. *)
EXTENDS SprotoPack, FiniteSetTheorems, TLAPS

LEMMA Weights ==
  /\ Weight[0 + 1] = 1 /\ Weight[1 + 1] = 2 /\ Weight[2 + 1] = 4 /\ Weight[3 + 1] = 8
  /\ Weight[4 + 1] = 16 /\ Weight[5 + 1] = 32 /\ Weight[6 + 1] = 64 /\ Weight[7 + 1] = 128
BY DEF Weight

(* The header of a group is a byte that has a bit for each byte that is    *)
(* not 0                                                                   *)
LEMMA HeaderIs ==
  /\ Header \in Byte
  /\ Header = 255 <=> NonZero = 0 .. 7
  /\ \A b \in 0 .. 7 : Bit(Header, b) = 1 <=> b \in NonZero
<1> DEFINE x(b) == IF b \in NonZero THEN 1 ELSE 0
           x0 == x(0)
           x1 == x(1)
           x2 == x(2)
           x3 == x(3)
           x4 == x(4)
           x5 == x(5)
           x6 == x(6)
           x7 == x(7)
<1>1. /\ x0 \in 0 .. 1 /\ x1 \in 0 .. 1 /\ x2 \in 0 .. 1 /\ x3 \in 0 .. 1
      /\ x4 \in 0 .. 1 /\ x5 \in 0 .. 1 /\ x6 \in 0 .. 1 /\ x7 \in 0 .. 1
  OBVIOUS
<1>2. /\ Flag(0) = x0 /\ Flag(1) = 2 * x1 /\ Flag(2) = 4 * x2 /\ Flag(3) = 8 * x3
      /\ Flag(4) = 16 * x4 /\ Flag(5) = 32 * x5 /\ Flag(6) = 64 * x6 /\ Flag(7) = 128 * x7
  BY Weights DEF Flag
<1>3. \A b \in 0 .. 7 : x(b) = 1 <=> b \in NonZero
  OBVIOUS
<1>4. NonZero = 0 .. 7 <=> \A b \in 0 .. 7 : x(b) = 1
  BY DEF NonZero
<1>5. NonZero = 0 .. 7 <=> x0 + x1 + x2 + x3 + x4 + x5 + x6 + x7 = 8
  <2>1. (\A b \in 0 .. 7 : x(b) = 1) <=>
          /\ x0 = 1 /\ x1 = 1 /\ x2 = 1 /\ x3 = 1
          /\ x4 = 1 /\ x5 = 1 /\ x6 = 1 /\ x7 = 1
    <3> HIDE DEF x
    <3>1. \A b \in 0 .. 7 : b = 0 \/ b = 1 \/ b = 2 \/ b = 3 \/ b = 4 \/ b = 5 \/ b = 6 \/ b = 7
      OBVIOUS
    <3>2. 0 \in 0 .. 7 /\ 1 \in 0 .. 7 /\ 2 \in 0 .. 7 /\ 3 \in 0 .. 7 /\ 4 \in 0 .. 7
          /\ 5 \in 0 .. 7 /\ 6 \in 0 .. 7 /\ 7 \in 0 .. 7
      OBVIOUS
    <3> QED
      BY <3>1, <3>2, Zenon
  <2> HIDE DEF x0, x1, x2, x3, x4, x5, x6, x7
  <2> QED
    BY <1>1, <1>4, <2>1
<1> HIDE DEF x0, x1, x2, x3, x4, x5, x6, x7
<1>6. Header = x0 + 2 * x1 + 4 * x2 + 8 * x3 + 16 * x4 + 32 * x5 + 64 * x6 + 128 * x7
  BY <1>1, <1>2 DEF Header
<1>7. Header \in 0 .. 255 /\ (Header = 255 <=> x0 + x1 + x2 + x3 + x4 + x5 + x6 + x7 = 8)
  BY <1>1, <1>6
<1>8. (Header \div 1) % 2 = x0 /\ (Header \div 2) % 2 = x1
  BY <1>1, <1>6
<1>9. (Header \div 4) % 2 = x2 /\ (Header \div 8) % 2 = x3
  BY <1>1, <1>6
<1>10. (Header \div 16) % 2 = x4 /\ (Header \div 32) % 2 = x5
  BY <1>1, <1>6
<1>11. (Header \div 64) % 2 = x6 /\ (Header \div 128) % 2 = x7
  BY <1>1, <1>6
<1>12. \A b \in 0 .. 7 : Bit(Header, b) = x(b)
  <2>1. /\ Bit(Header, 0) = x0 /\ Bit(Header, 1) = x1 /\ Bit(Header, 2) = x2 /\ Bit(Header, 3) = x3
        /\ Bit(Header, 4) = x4 /\ Bit(Header, 5) = x5 /\ Bit(Header, 6) = x6 /\ Bit(Header, 7) = x7
    BY <1>8, <1>9, <1>10, <1>11, Weights, Zenon DEF Bit
  <2>2. \A b \in 0 .. 7 : b = 0 \/ b = 1 \/ b = 2 \/ b = 3 \/ b = 4 \/ b = 5 \/ b = 6 \/ b = 7
    OBVIOUS
  <2> HIDE DEF x
  <2> QED
    BY <2>1, <2>2, Zenon DEF x0, x1, x2, x3, x4, x5, x6, x7
<1> QED
  BY <1>3, <1>5, <1>7, <1>12 DEF Byte
-----------------------------------------------------------------------------
(* How many of a set of places come before one.                            *)
Below(S, b) == Cardinality({c \in S : c < b})

LEMMA Bits ==
  /\ IsFiniteSet(0 .. 7)
  /\ \A S \in SUBSET (0 .. 7) : \A b \in S : b \in Int /\ 0 <= b /\ b < 8 /\ b \in 0 .. 7
<1>1. 0 \in Int /\ 7 \in Int
  OBVIOUS
<1>2. IsFiniteSet(0 .. 7)
  BY <1>1, FS_Interval
<1> QED
  BY <1>2

LEMMA BelowStep ==
  ASSUME NEW S \in SUBSET (0 .. 7), NEW b \in 0 .. 7
  PROVE  /\ Below(S, b) \in Nat
         /\ Below(S, b + 1) = IF b \in S THEN Below(S, b) + 1 ELSE Below(S, b)
<1> DEFINE T == {c \in S : c < b}
<1>1. IsFiniteSet(T) /\ Cardinality(T) \in Nat
  <2>1. IsFiniteSet(0 .. 7)
    BY Bits
  <2>2. T \in SUBSET (0 .. 7)
    OBVIOUS
  <2> HIDE DEF T
  <2> QED
    BY <2>1, <2>2, FS_Subset, FS_CardinalityType
<1>2. b \notin T
  OBVIOUS
<1>3. CASE b \in S
  <2>1. \A c \in S : c < b + 1 <=> c < b \/ c = b
    BY Bits
  <2>3. {c \in S : c < b + 1} = T \cup {b}
    BY <1>3, <2>1
  <2> HIDE DEF T
  <2>2. Cardinality(T \cup {b}) = Cardinality(T) + 1
    BY <1>1, <1>2, FS_AddElement
  <2> QED
    BY <1>1, <1>3, <2>2, <2>3 DEF Below, T
<1>4. CASE b \notin S
  <2>0. \A c \in S : c < b + 1 <=> c < b
    BY <1>4, Bits
  <2>1. {c \in S : c < b + 1} = T
    BY <2>0
  <2> HIDE DEF T
  <2> QED
    BY <1>1, <1>4, <2>1 DEF Below, T
<1> QED
  BY <1>3, <1>4

(* They are counted up to all of them, and every count is met              *)
LEMMA Counted ==
  ASSUME NEW S \in SUBSET (0 .. 7)
  PROVE  /\ Cardinality(S) \in 0 .. 8
         /\ Cardinality(S) = 8 <=> S = 0 .. 7
         /\ Below(S, 8) = Cardinality(S)
         /\ \A b \in S : Below(S, b) \in 0 .. Cardinality(S) - 1
         /\ \A b, c \in S : Below(S, b) = Below(S, c) => b = c
         /\ \A k \in 0 .. Cardinality(S) - 1 : \E b \in S : Below(S, b) = k
<1> DEFINE n(b) == Below(S, b)
           y(b) == IF b \in S THEN 1 ELSE 0
<1>1. n(0) = 0
  <2>0. \A c \in S : ~ (c < 0)
    BY Bits
  <2>1. {c \in S : c < 0} = {}
    BY <2>0
  <2> QED
    BY <2>1, FS_EmptySet DEF Below
<1>2. n(8) = Cardinality(S)
  <2>0. \A c \in S : c < 8
    BY Bits
  <2>1. {c \in S : c < 8} = S
    BY <2>0
  <2> QED
    BY <2>1 DEF Below
<1>3. \A b \in 0 .. 7 : n(b) \in Nat /\ n(b + 1) = n(b) + y(b)
  BY BelowStep
<1>4. \A b \in 0 .. 7 : (y(b) = 0 \/ y(b) = 1) /\ (y(b) = 1 <=> b \in S)
  OBVIOUS
<1>5. \A b \in 0 .. 7 : b = 0 \/ b = 1 \/ b = 2 \/ b = 3 \/ b = 4 \/ b = 5 \/ b = 6 \/ b = 7
  OBVIOUS
<1>6. S = 0 .. 7 <=> \A b \in 0 .. 7 : y(b) = 1
  BY <1>4, Zenon
<1> HIDE DEF n, y
<1>7. /\ n(1) = n(0) + y(0) /\ n(2) = n(1) + y(1) /\ n(3) = n(2) + y(2) /\ n(4) = n(3) + y(3)
      /\ n(5) = n(4) + y(4) /\ n(6) = n(5) + y(5) /\ n(7) = n(6) + y(6) /\ n(8) = n(7) + y(7)
  BY <1>3
<1>8. /\ y(0) \in 0 .. 1 /\ y(1) \in 0 .. 1 /\ y(2) \in 0 .. 1 /\ y(3) \in 0 .. 1
      /\ y(4) \in 0 .. 1 /\ y(5) \in 0 .. 1 /\ y(6) \in 0 .. 1 /\ y(7) \in 0 .. 1
  BY <1>4
<1>9. n(8) \in 0 .. 8 /\ (n(8) = 8 <=> \A b \in 0 .. 7 : y(b) = 1)
  BY <1>1, <1>5, <1>7, <1>8
<1>10. \A b, c \in 0 .. 8 : b <= c => n(b) <= n(c)
  BY <1>1, <1>7, <1>8
<1>11. \A b, c \in S : b < c => n(b) < n(c)
  <2>1. TAKE b, c \in S
  <2>2. b \in 0 .. 7 /\ c \in 0 .. 7 /\ n(b + 1) = n(b) + 1 /\ n(b) \in Nat /\ n(c) \in Nat
    BY <1>3, <1>4
  <2>3. b < c => n(b + 1) <= n(c)
    BY <1>10, <2>2
  <2> QED
    BY <2>2, <2>3
<1>12. \A b \in S : n(b) \in 0 .. n(8) - 1
  <2>1. TAKE b \in S
  <2>2. b \in 0 .. 7 /\ n(b + 1) = n(b) + 1 /\ n(b) \in Nat
    BY <1>3, <1>4
  <2>3. n(b + 1) <= n(8)
    BY <1>10, <2>2
  <2> QED
    BY <1>9, <2>2, <2>3
<1>13. \A b, c \in S : n(b) = n(c) => b = c
  <2>1. TAKE b, c \in S
  <2>2. b \in 0 .. 7 /\ c \in 0 .. 7 /\ n(b) \in Nat /\ n(c) \in Nat
    BY <1>3
  <2> QED
    BY <1>11, <2>2
<1>14. ASSUME NEW k \in 0 .. n(8) - 1 PROVE \E b \in S : n(b) = k
  <2>1. k \in Nat /\ n(8) \in Nat /\ k < n(8)
    BY <1>9
  <2>2. SUFFICES ASSUME \A b \in S : n(b) # k PROVE FALSE
    OBVIOUS
  <2>3. \A b \in 0 .. 7 : n(b) <= k => n(b + 1) <= k
    BY <1>3, <1>4, <2>1, <2>2
  <2>4. n(0) <= k /\ n(1) <= k /\ n(2) <= k /\ n(3) <= k
    BY <1>1, <2>1, <2>3
  <2>5. n(4) <= k /\ n(5) <= k /\ n(6) <= k /\ n(7) <= k /\ n(8) <= k
    BY <2>3, <2>4
  <2> QED
    BY <2>1, <2>5
<1> QED
  BY <1>2, <1>6, <1>9, <1>12, <1>13, <1>14 DEF n

(* The bytes of the group that are not 0, by the bits of the header        *)
LEMMA OnesIs ==
  ASSUME NEW h, NEW S \in SUBSET (0 .. 7), \A b \in 0 .. 7 : Bit(h, b) = 1 <=> b \in S
  PROVE  \A b \in 0 .. 8 : Ones(h, b) = Below(S, b)
<1>1. ASSUME NEW b \in 0 .. 8 PROVE {c \in 0 .. b - 1 : Bit(h, c) = 1} = {c \in S : c < b}
  <2>1. \A c : c \in 0 .. b - 1 <=> c \in 0 .. 7 /\ c < b
    OBVIOUS
  <2>2. \A c : c \in S => c \in 0 .. 7
    OBVIOUS
  <2> HIDE DEF Bit
  <2> QED
    BY <2>1, <2>2, Zenon
<1> QED
  BY <1>1, Zenon DEF Ones, Below

LEMMA RankIs == NonZero \in SUBSET (0 .. 7) /\ \A b : Rank(b) = Below(NonZero, b)
BY DEF Rank, Below, NonZero

(* The bits of a byte are fewer before one than before all                 *)
LEMMA OnesBound ==
  ASSUME NEW h
  PROVE  /\ \A b \in 0 .. 8 : Ones(h, b) \in 0 .. 8
         /\ \A b \in 0 .. 7 : Bit(h, b) = 1 => Ones(h, b) < Ones(h, 8)
<1> DEFINE S == {b \in 0 .. 7 : Bit(h, b) = 1}
<1>1. S \in SUBSET (0 .. 7) /\ \A b \in 0 .. 7 : Bit(h, b) = 1 <=> b \in S
  OBVIOUS
<1> HIDE DEF S
<1>2. \A b \in 0 .. 8 : Ones(h, b) = Below(S, b)
  BY <1>1, OnesIs
<1>3. /\ Below(S, 8) = Cardinality(S) /\ Cardinality(S) \in 0 .. 8
      /\ \A b \in S : Below(S, b) \in 0 .. Cardinality(S) - 1
  BY <1>1, Counted
<1>4. \A b \in 0 .. 8 : Below(S, b) \in 0 .. 8
  <2>1. TAKE b \in 0 .. 8
  <2>2. {c \in S : c < b} \in SUBSET S /\ IsFiniteSet(S)
    BY <1>1, Bits, FS_Subset
  <2>3. /\ Cardinality({c \in S : c < b}) <= Cardinality(S)
        /\ IsFiniteSet({c \in S : c < b})
    BY <2>2, FS_Subset
  <2>4. Cardinality({c \in S : c < b}) \in Nat
    BY <2>3, FS_CardinalityType
  <2> QED
    BY <1>3, <2>3, <2>4 DEF Below
<1> QED
  BY <1>1, <1>2, <1>3, <1>4
-----------------------------------------------------------------------------
Runs == [n : Nat, from : Nat, at : Nat]

(* The types of the variables: a buffer keeps its size, and what is stored *)
(* in it are bytes.                                                        *)
Types ==
  /\ src \in Seq(Byte) /\ junk \in Byte
  /\ phase \in {"pack", "packed", "error", "done", "invalid"}
  /\ i \in Nat /\ size \in Nat /\ pos \in Nat /\ osize \in Nat /\ room \in Nat
  /\ run \in Runs
  /\ buf \in [0 .. MaxSize - 1 -> Byte]
  /\ out \in [0 .. room - 1 -> Byte]

(* Where a run ends in the source and in the buffer, and what is known     *)
(* when pack is over.                                                      *)
RunPlaces ==
  /\ i % 8 = 0 /\ i < Len(src) + 8
  /\ run.n < MaxRun
  /\ run.n > 0 => size = run.at + 2 + 8 * run.n /\ i = run.from + 8 * run.n
  /\ phase # "pack" => i >= Len(src)
  /\ phase \in {"packed", "done", "invalid"} => size <= MaxSize

LEMMA MaxSizeIs ==
  ASSUME src \in Seq(Byte)
  PROVE  MaxSize \in Nat /\ Len(src) \in Nat
<1> DEFINE n == Len(src)
           m == 8 * MaxRun
<1>1. n \in Nat /\ m \in Nat /\ m > 0
  BY PackAssumption
<1>2. MaxSize = ((n + m - 1) \div m) * 2 + n
  BY DEF MaxSize
<1> HIDE DEF n, m
<1>3. (n + m - 1) \div m \in Nat
  BY <1>1
<1> QED
  BY <1>1, <1>2, <1>3 DEF n

(* Bytes stored over others                                                *)
LEMMA OverIs ==
  ASSUME NEW f, NEW g
  PROVE  /\ DOMAIN Over(f, g) = DOMAIN f \cup DOMAIN g
         /\ \A p \in DOMAIN f : Over(f, g)[p] = f[p]
         /\ \A p \in DOMAIN g : p \notin DOMAIN f => Over(f, g)[p] = g[p]
BY DEF Over

LEMMA OverStays ==
  ASSUME NEW S, NEW f, NEW g \in [S -> Byte],
         \A p \in DOMAIN f : p \in S /\ f[p] \in Byte
  PROVE  Over(f, g) \in [S -> Byte]
<1>1. DOMAIN f \cup DOMAIN g = S
  OBVIOUS
<1>2. \A p \in S : (IF p \in DOMAIN f THEN f[p] ELSE g[p]) \in Byte
  OBVIOUS
<1> QED
  BY <1>1, <1>2 DEF Over

LEMMA OverNothing ==
  ASSUME NEW S, NEW g \in [S -> Byte]
  PROVE  Over(Fresh(0), g) = g
<1>1. DOMAIN Fresh(0) = {}
  BY DEF Fresh
<1>2. Over(Fresh(0), g) = [p \in S |-> g[p]]
  BY <1>1 DEF Over
<1> QED
  BY <1>2

(* What a group stores: its header unless it is a literal, and each byte   *)
(* that is not 0 at its rank                                               *)
LEMMA SegIs ==
  ASSUME Types
  PROVE  /\ \A p \in DOMAIN SegStored : p \in size .. MaxSize - 1 /\ SegStored[p] \in Byte
         /\ ~Literal /\ size < MaxSize => size \in DOMAIN SegStored /\ SegStored[size] = Header
         /\ \A b \in NonZero : size + 1 + Rank(b) < MaxSize =>
              /\ size + 1 + Rank(b) \in DOMAIN SegStored
              /\ SegStored[size + 1 + Rank(b)] = Group[b]
<1>1. size \in Nat /\ MaxSize \in Nat /\ src \in Seq(Byte) /\ i \in Nat
  BY MaxSizeIs DEF Types
<1>2. \A b \in 0 .. 7 : Group[b] \in Byte
  <2>1. TAKE b \in 0 .. 7
  <2>2. i + b < Len(src) => i + b + 1 \in 1 .. Len(src)
    BY <1>1
  <2>3. 0 \in Byte
    BY DEF Byte
  <2> HIDE DEF Byte
  <2> QED
    BY <1>1, <2>2, <2>3 DEF Group
<1> DEFINE n == Cardinality(NonZero)
           D == {q \in size .. size + n : q < MaxSize /\ ~(Literal /\ q = size)}
           at(k) == CHOOSE b \in NonZero : Rank(b) = k
<1>3. NonZero \in SUBSET (0 .. 7)
  BY RankIs
<1>4. /\ n \in 0 .. 8
      /\ \A b \in NonZero : Rank(b) \in 0 .. n - 1
      /\ \A b, c \in NonZero : Rank(b) = Rank(c) => b = c
      /\ \A k \in 0 .. n - 1 : \E b \in NonZero : Rank(b) = k
  BY <1>3, Counted, RankIs
<1>5. SegStored = [p \in D |-> IF p = size THEN Header ELSE Group[at(p - size - 1)]]
  BY DEF SegStored
<1> HIDE DEF n
<1>6. \A k \in 0 .. n - 1 : at(k) \in NonZero
  BY <1>4
<1>7. \A b \in NonZero : at(Rank(b)) = b
  BY <1>4
<1> HIDE DEF at
<1>8. ASSUME NEW p \in D PROVE p \in size .. MaxSize - 1 /\ SegStored[p] \in Byte
  <2>1. p \in size .. MaxSize - 1 /\ (p # size => p - size - 1 \in 0 .. n - 1)
    BY <1>1, <1>4
  <2>2. CASE p = size
    BY <1>5, <2>1, <2>2, HeaderIs
  <2>3. CASE p # size
    <3>1. at(p - size - 1) \in 0 .. 7
      BY <1>3, <1>6, <2>1, <2>3
    <3> QED
      BY <1>2, <1>5, <2>1, <2>3, <3>1
  <2> QED
    BY <2>2, <2>3
<1>9. ~Literal /\ size < MaxSize => size \in D
  BY <1>1, <1>4
<1>10. ASSUME NEW b \in NonZero, size + 1 + Rank(b) < MaxSize
       PROVE  size + 1 + Rank(b) \in D /\ SegStored[size + 1 + Rank(b)] = Group[b]
  <2> DEFINE k == Rank(b)
  <2>1. k \in 0 .. n - 1 /\ at(k) = b /\ size + 1 + k < MaxSize
    BY <1>4, <1>7, <1>10
  <2> HIDE DEF k
  <2>2. /\ size + 1 + k \in size .. size + n /\ size + 1 + k # size
        /\ (size + 1 + k) - size - 1 = k
    BY <1>1, <1>4, <2>1
  <2>3. size + 1 + k \in D
    BY <2>1, <2>2
  <2> HIDE DEF D
  <2> QED
    BY <1>5, <2>1, <2>2, <2>3 DEF k
<1>11. DOMAIN SegStored = D
  BY <1>5
<1> QED
  BY <1>5, <1>8, <1>9, <1>10, <1>11

(* What is stored for a run r of g groups, n bytes of the source           *)
IsRun(f, r, n, g) ==
  /\ DOMAIN f = r.at .. r.at + 1 + 8 * g
  /\ \A p \in DOMAIN f : f[p] \in Byte
  /\ f[r.at] = 255 /\ f[r.at + 1] = g - 1
  /\ \A k \in 0 .. 8 * g - 1 : f[r.at + 2 + k] = IF k < n THEN AtSource(r.from + k) ELSE 0

LEMMA RunIs ==
  ASSUME Types, NEW r \in Runs, NEW n \in Nat, NEW g \in 1 .. 256,
         Aligned(n) = 8 * g
  PROVE  IsRun(RunStored(r, n), r, n, g)
<1> DEFINE a == r.at
           s == r.from
           F(p) == IF p = a THEN 255 ELSE IF p = a + 1 THEN g - 1
                   ELSE IF p - a - 2 < n THEN AtSource(s + p - a - 2) ELSE 0
<1>1. a \in Nat /\ s \in Nat /\ 8 * g \in Nat /\ (8 * g) \div 8 = g /\ g - 1 \in Byte
  BY DEF Byte, Runs
<1>2. \A p \in Nat : AtSource(p) \in Byte
  BY DEF AtSource, Types
<1>3. RunStored(r, n) = [p \in a .. a + 1 + 8 * g |-> F(p)]
  BY <1>1 DEF RunStored
<1> HIDE DEF a, s
<1>4. \A p \in a .. a + 1 + 8 * g : F(p) \in Byte
  <2>1. TAKE p \in a .. a + 1 + 8 * g
  <2>2. 255 \in Byte /\ 0 \in Byte
    BY DEF Byte
  <2>3. p # a /\ p # a + 1 => s + p - a - 2 \in Nat
    BY <1>1
  <2> QED
    BY <1>1, <1>2, <2>2, <2>3
<1>5. F(a) = 255 /\ F(a + 1) = g - 1 /\ a \in a .. a + 1 + 8 * g /\ a + 1 \in a .. a + 1 + 8 * g
  BY <1>1
<1>6. ASSUME NEW k \in 0 .. 8 * g - 1
      PROVE  /\ a + 2 + k \in a .. a + 1 + 8 * g
             /\ F(a + 2 + k) = IF k < n THEN AtSource(s + k) ELSE 0
  <2>1. /\ a + 2 + k \in a .. a + 1 + 8 * g /\ a + 2 + k # a /\ a + 2 + k # a + 1
        /\ (a + 2 + k) - a - 2 = k /\ s + (a + 2 + k) - a - 2 = s + k
    BY <1>1
  <2> QED
    BY <2>1
<1> HIDE DEF F
<1>7. /\ DOMAIN RunStored(r, n) = a .. a + 1 + 8 * g
      /\ \A p \in a .. a + 1 + 8 * g : RunStored(r, n)[p] = F(p)
  BY <1>3
<1> QED
  <2>1. r.at = a /\ r.from = s
    BY DEF a, s
  <2>2. \A k \in 0 .. 8 * g - 1 :
          RunStored(r, n)[a + 2 + k] = IF k < n THEN AtSource(s + k) ELSE 0
    BY <1>6, <1>7
  <2>3. RunStored(r, n)[a] = 255 /\ RunStored(r, n)[a + 1] = g - 1
    BY <1>5, <1>7
  <2> QED
    BY <1>4, <1>7, <2>1, <2>2, <2>3 DEF IsRun
(* A run of whole groups, and the last run, which ends with the source     *)
LEMMA AlignedIs ==
  /\ \A g \in Nat : Aligned(8 * g) = 8 * g
  /\ \A g \in Nat, n \in Nat : 8 * (g - 1) < n /\ n <= 8 * g => Aligned(n) = 8 * g
<1>1. \A g \in Nat : (8 * g + 7) \div 8 = g
  OBVIOUS
<1>2. \A g \in Nat, n \in Nat : 8 * (g - 1) < n /\ n <= 8 * g => (n + 7) \div 8 = g
  OBVIOUS
<1> QED
  BY <1>1, <1>2 DEF Aligned

(* h is f with the run of g groups, n bytes of the source, written in it   *)
WithRun(h, f, n, g) ==
  /\ run.at + 2 + 8 * g <= MaxSize
  /\ \A p \in 0 .. MaxSize - 1 : p < run.at \/ p >= run.at + 2 + 8 * g => h[p] = f[p]
  /\ h[run.at] = 255 /\ h[run.at + 1] = g - 1
  /\ \A k \in 0 .. 8 * g - 1 :
       h[run.at + 2 + k] = IF k < n THEN AtSource(run.from + k) ELSE 0

(* A run is written only when all that is used so far fits in the buffer   *)
LEMMA FlushIs ==
  ASSUME Types, NEW n \in Nat, NEW g \in 1 .. 256, Aligned(n) = 8 * g, NEW used \in Nat,
         run.at + 2 + 8 * g <= used, NEW f \in [0 .. MaxSize - 1 -> Byte]
  PROVE  /\ Over(Flush(run, n, used), f) \in [0 .. MaxSize - 1 -> Byte]
         /\ n > 0 /\ used <= MaxSize => WithRun(Over(Flush(run, n, used), f), f, n, g)
<1>1. run \in Runs /\ MaxSize \in Nat
  BY MaxSizeIs DEF Types
<1>2. IsRun(RunStored(run, n), run, n, g)
  BY <1>1, RunIs
<1>3. CASE n > 0 /\ used <= MaxSize
  <2> DEFINE a == run.at
             s == run.from
             w == RunStored(run, n)
             h == Over(w, f)
  <2>1. Flush(run, n, used) = w
    BY <1>3 DEF Flush
  <2>2. a \in Nat /\ s \in Nat
    BY <1>1 DEF Runs
  <2>3. a + 2 + 8 * g <= MaxSize
    BY <1>1, <1>3, <2>2
  <2>4. /\ DOMAIN w = a .. a + 1 + 8 * g
        /\ \A p \in DOMAIN w : w[p] \in Byte
        /\ w[a] = 255 /\ w[a + 1] = g - 1
        /\ \A k \in 0 .. 8 * g - 1 : w[a + 2 + k] = IF k < n THEN AtSource(s + k) ELSE 0
    BY <1>2 DEF IsRun
  <2> HIDE DEF a, s, w
  <2>5. \A p \in DOMAIN w : p \in 0 .. MaxSize - 1 /\ w[p] \in Byte
    BY <1>1, <2>2, <2>3, <2>4
  <2>6. h \in [0 .. MaxSize - 1 -> Byte]
    BY <2>5, OverStays
  <2>7. /\ \A p \in DOMAIN w : h[p] = w[p]
        /\ \A p \in DOMAIN f : p \notin DOMAIN w => h[p] = f[p]
    BY OverIs
  <2> HIDE DEF h
  <2>8. \A p \in 0 .. MaxSize - 1 : p < a \/ p >= a + 2 + 8 * g => h[p] = f[p]
    BY <2>2, <2>4, <2>7
  <2>9. \A k \in 0 .. 8 * g - 1 : a + 2 + k \in DOMAIN w
    BY <2>2, <2>4
  <2>10. a \in DOMAIN w /\ a + 1 \in DOMAIN w
    BY <2>2, <2>4
  <2>11. /\ h[a] = 255 /\ h[a + 1] = g - 1
         /\ \A k \in 0 .. 8 * g - 1 : h[a + 2 + k] = IF k < n THEN AtSource(s + k) ELSE 0
    BY <2>4, <2>7, <2>9, <2>10
  <2>12. WithRun(h, f, n, g)
    BY <2>3, <2>8, <2>11 DEF WithRun, a, s
  <2> QED
    BY <2>1, <2>6, <2>12 DEF h
<1>4. CASE ~ (n > 0 /\ used <= MaxSize)
  <2>1. Flush(run, n, used) = Fresh(0)
    BY <1>4 DEF Flush
  <2>2. Over(Fresh(0), f) = f
    BY OverNothing
  <2> QED
    BY <1>4, <2>1, <2>2
<1> QED
  BY <1>3, <1>4

(* What a group may do: it is stored by its header and closes the run, if  *)
(* there is one; or it opens a run, joins it, or fills it                  *)
Stored == Over(SegStored, buf)

AsGroup == /\ ~Literal /\ run.n = 0 /\ run' = NoRun
           /\ size' = size + Cardinality(NonZero) + 1
           /\ buf' = Stored

Closes == /\ ~Literal /\ run.n > 0 /\ run' = NoRun
          /\ size' = size + Cardinality(NonZero) + 1
          /\ buf' = Over(Flush(run, 8 * run.n, size'), Stored)

Opens == /\ Literal /\ run.n = 0 /\ run' = [n |-> 1, from |-> i, at |-> size]
         /\ size' = size + 10
         /\ buf' = Stored

Joins == /\ Literal /\ run.n > 0 /\ run.n + 1 < MaxRun /\ run' = [run EXCEPT !.n = run.n + 1]
         /\ size' = size + 8
         /\ buf' = Stored

Fills == /\ Literal /\ run.n > 0 /\ run.n + 1 = MaxRun /\ run' = NoRun
         /\ size' = size + 8
         /\ buf' = Over(Flush(run, 8 * (run.n + 1), size'), Stored)

LEMMA StoredIs ==
  ASSUME Types
  PROVE  Stored \in [0 .. MaxSize - 1 -> Byte]
<1>1. buf \in [0 .. MaxSize - 1 -> Byte] /\ size \in Nat /\ MaxSize \in Nat
  BY MaxSizeIs DEF Types
<1>2. \A p \in DOMAIN SegStored : p \in 0 .. MaxSize - 1 /\ SegStored[p] \in Byte
  BY <1>1, SegIs
<1> QED
  BY <1>1, <1>2, OverStays DEF Stored

LEMMA GroupCases ==
  ASSUME Types, RunPlaces, PackGroup
  PROVE  AsGroup \/ Closes \/ Opens \/ Joins \/ Fills
<1> DEFINE m == run.n
<1>1. m \in Nat /\ m < MaxRun /\ MaxRun \in Nat
  BY PackAssumption DEF Types, RunPlaces, Runs
<1>2. size' = size + SegSize /\ size \in Nat
  BY DEF PackGroup, Types
<1>3. Cardinality(NonZero) \in Nat
  BY RankIs, Counted
<1>4. Over(Fresh(0), Stored) = Stored
  BY StoredIs, OverNothing
<1>5. Flush(run, 0, size') = Fresh(0)
  BY DEF Flush
<1>6. CASE ~Literal /\ m = 0
  <2>1. run' = NoRun /\ buf' = Over(Flush(run, 8 * m, size'), Stored)
    BY <1>6 DEF PackGroup, Stored
  <2>2. SegSize = Cardinality(NonZero) + 1
    BY <1>6 DEF SegSize
  <2>3. 8 * m = 0 /\ size + (Cardinality(NonZero) + 1) = size + Cardinality(NonZero) + 1
    BY <1>2, <1>3, <1>6
  <2> QED
    BY <1>2, <1>4, <1>5, <1>6, <2>1, <2>2, <2>3 DEF AsGroup
<1>7. CASE ~Literal /\ m > 0
  <2>1. run' = NoRun /\ buf' = Over(Flush(run, 8 * m, size'), Stored)
    BY <1>7 DEF PackGroup, Stored
  <2>2. SegSize = Cardinality(NonZero) + 1
    BY <1>7 DEF SegSize
  <2>3. size + (Cardinality(NonZero) + 1) = size + Cardinality(NonZero) + 1
    BY <1>2, <1>3
  <2> QED
    BY <1>2, <1>7, <2>1, <2>2, <2>3 DEF Closes
<1>8. CASE Literal /\ m = 0
  <2>1. run' = [n |-> 1, from |-> i, at |-> size] /\ buf' = Over(Flush(run, 0, size'), Stored)
    BY <1>8 DEF PackGroup, Stored
  <2>2. SegSize = 10
    BY <1>8 DEF SegSize
  <2> QED
    BY <1>2, <1>4, <1>5, <1>8, <2>1, <2>2 DEF Opens
<1>9. CASE Literal /\ m > 0 /\ m + 1 # MaxRun
  <2>1. run' = [run EXCEPT !.n = m + 1] /\ buf' = Over(Flush(run, 0, size'), Stored)
    BY <1>9 DEF PackGroup, Stored
  <2>2. SegSize = 8
    BY <1>9 DEF SegSize
  <2>3. m + 1 < MaxRun
    BY <1>1, <1>9
  <2> QED
    BY <1>2, <1>4, <1>5, <1>9, <2>1, <2>2, <2>3 DEF Joins
<1>10. CASE Literal /\ m > 0 /\ m + 1 = MaxRun
  <2>1. run' = NoRun /\ buf' = Over(Flush(run, 8 * (m + 1), size'), Stored)
    BY <1>10 DEF PackGroup, Stored
  <2>2. SegSize = 8
    BY <1>10 DEF SegSize
  <2> QED
    BY <1>2, <1>10, <2>1, <2>2 DEF Fills
<1> QED
  BY <1>1, <1>6, <1>7, <1>8, <1>9, <1>10
(* How much of the last run is written                                     *)
Rest == IF run.n <= 1 THEN 8 * run.n ELSE Len(src) - run.from

LEMMA RestIs ==
  ASSUME Types, RunPlaces, run.n > 0, i >= Len(src)
  PROVE  Rest \in Nat /\ Rest > 0 /\ Aligned(Rest) = 8 * run.n
<1> DEFINE m == run.n
           s == run.from
           l == Len(src)
<1>1. m \in Nat /\ m > 0 /\ s \in Nat /\ i \in Nat /\ l \in Nat
  BY MaxSizeIs DEF Types, Runs
<1>2. i = s + 8 * m /\ i < l + 8 /\ i >= l
  BY DEF RunPlaces
<1>3. Rest = IF m <= 1 THEN 8 * m ELSE l - s
  BY DEF Rest
<1> HIDE DEF m, s, l
<1>4. Rest \in Nat /\ 8 * (m - 1) < Rest /\ Rest <= 8 * m
  BY <1>1, <1>2, <1>3
<1>5. Aligned(Rest) = 8 * m
  <2>1. PICK n \in Nat : n = Rest
    BY <1>4
  <2> QED
    BY <1>1, <1>4, <2>1, AlignedIs
<1> QED
  BY <1>1, <1>4, <1>5 DEF m

LEMMA PackEndIs ==
  ASSUME PackEnd
  PROVE  buf' = Over(Flush(run, Rest, size), buf)
BY DEF PackEnd, Rest

(* What is known of the run when it is written                             *)
LEMMA RunFits ==
  ASSUME Types, RunPlaces, run.n > 0
  PROVE  /\ run.n \in 1 .. 256 /\ 8 * run.n \in Nat /\ 8 * run.n > 0
         /\ run.at + 2 + 8 * run.n = size
         /\ run.at \in Nat /\ run.from \in Nat /\ i = run.from + 8 * run.n
<1> DEFINE m == run.n
<1>1. m \in Nat /\ m < MaxRun /\ m > 0 /\ MaxRun \in 2 .. 256
  BY PackAssumption DEF Types, RunPlaces, Runs
<1> DEFINE a == run.at
           s == run.from
<1>2. a \in Nat /\ s \in Nat /\ i \in Nat /\ size \in Nat
  BY DEF Types, Runs
<1>3. size = a + 2 + 8 * m /\ i = s + 8 * m
  BY <1>1 DEF RunPlaces
<1> HIDE DEF m, a, s
<1>4. /\ m \in 1 .. 256 /\ 8 * m \in Nat /\ 8 * m > 0
      /\ a + 2 + 8 * m = size /\ a \in Nat /\ s \in Nat /\ i = s + 8 * m
  BY <1>1, <1>2, <1>3
<1> QED
  BY <1>4 DEF m, a, s

LEMMA BufStays ==
  ASSUME Types, RunPlaces, PackGroup \/ PackEnd
  PROVE  buf' \in [0 .. MaxSize - 1 -> Byte]
<1>1. MaxSize \in Nat /\ size \in Nat /\ buf \in [0 .. MaxSize - 1 -> Byte]
  BY MaxSizeIs DEF Types
<1>2. PICK f \in [0 .. MaxSize - 1 -> Byte] : f = Stored
  BY StoredIs
<1>3. Cardinality(NonZero) \in Nat
  BY RankIs, Counted
<1>4. CASE PackGroup
  <2>1. CASE AsGroup \/ Opens \/ Joins
    BY <1>2, <2>1 DEF AsGroup, Opens, Joins
  <2>2. CASE Closes
    <3>1. PICK g \in 1 .. 256 : g = run.n
      BY <2>2, RunFits DEF Closes
    <3>2. PICK used \in Nat : used = size'
      BY <1>1, <1>3, <2>2 DEF Closes
    <3>3. PICK n \in Nat : n = 8 * g
      OBVIOUS
    <3>4. run.at + 2 + 8 * g <= used
      BY <1>1, <1>3, <2>2, <3>1, <3>2, RunFits DEF Closes
    <3>5. Aligned(n) = 8 * g
      BY <3>3, AlignedIs
    <3>6. Over(Flush(run, n, used), f) \in [0 .. MaxSize - 1 -> Byte]
      BY <3>4, <3>5, FlushIs
    <3> QED
      BY <1>2, <2>2, <3>1, <3>2, <3>3, <3>6 DEF Closes
  <2>3. CASE Fills
    <3>1. PICK g \in 1 .. 256 : g = run.n + 1
      <4> DEFINE m == run.n
      <4>1. m + 1 = MaxRun /\ MaxRun \in 2 .. 256 /\ m \in Nat
        BY <2>3, PackAssumption DEF Fills, Types, Runs
      <4> HIDE DEF m
      <4>2. m + 1 \in 1 .. 256
        BY <4>1
      <4> QED
        BY <4>2 DEF m
    <3>2. PICK used \in Nat : used = size'
      BY <1>1, <1>3, <2>3 DEF Fills
    <3>3. PICK n \in Nat : n = 8 * g
      OBVIOUS
    <3>4. run.at + 2 + 8 * g <= used
      <4> DEFINE m == run.n
                 a == run.at
      <4>0. run.n > 0
        BY <2>3 DEF Fills
      <4>1. a + 2 + 8 * m = size /\ a \in Nat /\ m \in Nat
        <5>1. run.at + 2 + 8 * run.n = size /\ run.at \in Nat
          BY <4>0, RunFits
        <5> QED
          BY <5>1 DEF Types, Runs
      <4>2. g = m + 1 /\ used = size + 8
        BY <2>3, <3>1, <3>2 DEF Fills
      <4> HIDE DEF m, a
      <4>3. a + 2 + 8 * g <= used
        BY <1>1, <4>1, <4>2
      <4> QED
        BY <4>3 DEF a
    <3>5. Aligned(n) = 8 * g
      BY <3>3, AlignedIs
    <3>6. Over(Flush(run, n, used), f) \in [0 .. MaxSize - 1 -> Byte]
      BY <3>4, <3>5, FlushIs
    <3> QED
      BY <1>2, <2>3, <3>1, <3>2, <3>3, <3>6 DEF Fills
  <2> QED
    BY <1>4, <2>1, <2>2, <2>3, GroupCases
<1>5. CASE PackEnd
  <2>1. PICK b \in [0 .. MaxSize - 1 -> Byte] : b = buf
    BY <1>1
  <2>2. i >= Len(src) /\ run.n \in Nat
    BY <1>5 DEF PackEnd, Types, Runs
  <2>3. CASE run.n > 0
    <3>1. PICK g \in 1 .. 256 : g = run.n
      BY <2>3, RunFits
    <3>2. PICK n \in Nat : n = Rest /\ Aligned(n) = 8 * g
      BY <2>2, <2>3, <3>1, RestIs
    <3>3. PICK used \in Nat : used = size
      BY <1>1
    <3>4. run.at + 2 + 8 * g <= used
      BY <1>1, <2>3, <3>1, <3>3, RunFits
    <3>5. Over(Flush(run, n, used), b) \in [0 .. MaxSize - 1 -> Byte]
      BY <3>2, <3>4, FlushIs
    <3> QED
      BY <1>5, <2>1, <3>2, <3>3, <3>5, PackEndIs
  <2>4. CASE run.n = 0
    <3>1. Flush(run, Rest, size) = Fresh(0)
      BY <2>4 DEF Flush, Rest
    <3> QED
      BY <1>1, <1>5, <3>1, OverNothing, PackEndIs
  <2> QED
    BY <2>2, <2>3, <2>4
<1> QED
  BY <1>4, <1>5
LEMMA PackedIs ==
  ASSUME Types, RunPlaces, phase = "packed", NEW p \in Nat
  PROVE  AtPacked(p) \in Byte /\ (p < size => AtPacked(p) = buf[p])
<1>1. size \in Nat /\ MaxSize \in Nat /\ size <= MaxSize /\ buf \in [0 .. MaxSize - 1 -> Byte]
  BY MaxSizeIs DEF Types, RunPlaces
<1>2. 0 \in Byte
  BY DEF Byte
<1>3. p < size => p \in 0 .. MaxSize - 1
  BY <1>1
<1> QED
  BY <1>1, <1>2, <1>3 DEF AtPacked

(* Each step of unpack, when it goes on, and where it gets to              *)
ReadsRun(n, w) ==
  /\ n = (AtPacked(pos + 1) + 1) * 8
  /\ DOMAIN w = IF osize + n > room THEN {} ELSE osize .. osize + n - 1
  /\ \A p \in DOMAIN w : w[p] = AtPacked(pos + 2 + (p - osize))
  /\ out' = Over(w, out)
  /\ pos' = pos + 2 + n /\ osize' = osize + n /\ UNCHANGED <<phase, room>>

ReadsGroup(h, w) ==
  /\ h = AtPacked(pos)
  /\ DOMAIN w = {q \in osize .. osize + 7 : q < room}
  /\ \A p \in DOMAIN w :
       w[p] = IF Bit(h, p - osize) = 1 THEN AtPacked(Place(h, p - osize)) ELSE 0
  /\ out' = Over(w, out)
  /\ pos' = Place(h, 8) /\ osize' = osize + 8 /\ UNCHANGED <<phase, room>>

(* Where they give up                                                      *)
RunCut == size - (pos + 1) < (AtPacked(pos + 1) + 1) * 8 + 1

GroupCut == \E b \in 0 .. 7 : Bit(AtPacked(pos), b) = 1 /\ Place(AtPacked(pos), b) > size

LEMMA UnpackRunIs ==
  ASSUME Types, RunPlaces, UnpackRun
  PROVE  \/ RunCut /\ phase' = "invalid" /\ UNCHANGED unpacking
         \/ \E n \in Nat : \E w : ReadsRun(n, w)
<1>1. phase = "packed" /\ pos \in Nat /\ osize \in Nat /\ room \in Nat
  BY DEF UnpackRun, Types
<1>2. AtPacked(pos + 1) \in Nat
  BY <1>1, PackedIs DEF Byte
<1>3. PICK n \in Nat : n = (AtPacked(pos + 1) + 1) * 8
  BY <1>2
<1> DEFINE w == IF osize + n > room THEN Fresh(0)
                ELSE [p \in osize .. osize + n - 1 |-> AtPacked(pos + 2 + p - osize)]
<1>4. \/ RunCut /\ phase' = "invalid" /\ UNCHANGED unpacking
      \/ /\ out' = Over(w, out)
         /\ pos' = pos + 2 + n /\ osize' = osize + n /\ UNCHANGED <<phase, room>>
  BY <1>3 DEF UnpackRun, RunCut
<1>5. DOMAIN w = IF osize + n > room THEN {} ELSE osize .. osize + n - 1
  BY DEF Fresh
<1>6. \A p \in DOMAIN w : w[p] = AtPacked(pos + 2 + (p - osize))
  <2>1. SUFFICES ASSUME ~ (osize + n > room)
                 PROVE  \A p \in osize .. osize + n - 1 : w[p] = AtPacked(pos + 2 + (p - osize))
    BY <1>5
  <2>2. \A p \in osize .. osize + n - 1 : pos + 2 + p - osize = pos + 2 + (p - osize)
    BY <1>1
  <2> QED
    BY <2>1, <2>2
<1> HIDE DEF w
<1>7. CASE RunCut /\ phase' = "invalid" /\ UNCHANGED unpacking
  BY <1>7
<1>8. CASE /\ out' = Over(w, out)
           /\ pos' = pos + 2 + n /\ osize' = osize + n /\ UNCHANGED <<phase, room>>
  <2>1. ReadsRun(n, w)
    BY <1>3, <1>5, <1>6, <1>8 DEF ReadsRun
  <2> QED
    BY <2>1
<1> QED
  BY <1>4, <1>7, <1>8

LEMMA UnpackGroupIs ==
  ASSUME Types, RunPlaces, UnpackGroup
  PROVE  \/ GroupCut /\ phase' = "invalid" /\ UNCHANGED unpacking
         \/ \E h \in Byte : \E w : ReadsGroup(h, w)
<1>1. phase = "packed" /\ pos \in Nat /\ osize \in Nat /\ room \in Nat
  BY DEF UnpackGroup, Types
<1>2. PICK h \in Byte : h = AtPacked(pos)
  BY <1>1, PackedIs
<1> DEFINE w == [p \in {q \in osize .. osize + 7 : q < room} |->
                   IF Bit(h, p - osize) = 1 THEN AtPacked(Place(h, p - osize)) ELSE 0]
<1>3. \/ GroupCut /\ phase' = "invalid" /\ UNCHANGED unpacking
      \/ /\ out' = Over(w, out)
         /\ pos' = Place(h, 8) /\ osize' = osize + 8 /\ UNCHANGED <<phase, room>>
  BY <1>2 DEF UnpackGroup, GroupCut
<1>4. /\ DOMAIN w = {q \in osize .. osize + 7 : q < room}
      /\ \A p \in DOMAIN w :
           w[p] = IF Bit(h, p - osize) = 1 THEN AtPacked(Place(h, p - osize)) ELSE 0
  OBVIOUS
<1> HIDE DEF w
<1>5. CASE GroupCut /\ phase' = "invalid" /\ UNCHANGED unpacking
  BY <1>5
<1>6. CASE /\ out' = Over(w, out)
           /\ pos' = Place(h, 8) /\ osize' = osize + 8 /\ UNCHANGED <<phase, room>>
  <2>1. ReadsGroup(h, w)
    BY <1>2, <1>4, <1>6 DEF ReadsGroup
  <2> QED
    BY <2>1
<1> QED
  BY <1>3, <1>5, <1>6

LEMMA PlaceIs ==
  ASSUME Types, NEW h
  PROVE  /\ \A b \in 0 .. 8 : Place(h, b) \in Nat
         /\ \A b \in 0 .. 7 : Bit(h, b) = 1 => Place(h, b) < Place(h, 8)
<1>1. pos \in Nat
  BY DEF Types
<1>2. \A b \in 0 .. 8 : Ones(h, b) \in 0 .. 8
  BY OnesBound
<1>3. \A b \in 0 .. 7 : Bit(h, b) = 1 => Ones(h, b) < Ones(h, 8)
  BY OnesBound
<1>4. \A b \in 0 .. 8 : Place(h, b) = pos + 1 + Ones(h, b)
  BY DEF Place
<1>5. \A b \in 0 .. 7 : b \in 0 .. 8
  OBVIOUS
<1>6. 8 \in 0 .. 8
  OBVIOUS
<1> QED
  BY <1>1, <1>2, <1>3, <1>4, <1>5, <1>6

LEMMA UnpackTypes ==
  ASSUME Types, RunPlaces, UnpackRun \/ UnpackGroup \/ UnpackEnd
  PROVE  /\ pos' \in Nat /\ osize' \in Nat /\ room' \in Nat
         /\ out' \in [0 .. room' - 1 -> Byte]
         /\ phase' \in {"packed", "done", "invalid"} /\ phase = "packed"
<1>1. /\ pos \in Nat /\ osize \in Nat /\ room \in Nat /\ junk \in Byte
      /\ out \in [0 .. room - 1 -> Byte] /\ phase = "packed"
  BY DEF Types, UnpackRun, UnpackGroup, UnpackEnd
<1>2. \A p \in Nat : AtPacked(p) \in Byte
  BY <1>1, PackedIs
<1>3. ASSUME phase' = "invalid" /\ UNCHANGED unpacking
      PROVE  /\ pos' \in Nat /\ osize' \in Nat /\ room' \in Nat
             /\ out' \in [0 .. room' - 1 -> Byte] /\ phase' \in {"packed", "done", "invalid"}
  BY <1>1, <1>3 DEF unpacking
<1>4. CASE UnpackRun
  <2>1. ASSUME NEW n \in Nat, NEW w, ReadsRun(n, w)
        PROVE  /\ pos' \in Nat /\ osize' \in Nat /\ room' \in Nat
               /\ out' \in [0 .. room' - 1 -> Byte] /\ phase' \in {"packed", "done", "invalid"}
    <3>1. \A p \in DOMAIN w : p \in 0 .. room - 1 /\ pos + 2 + (p - osize) \in Nat
      <4>1. DOMAIN w = IF osize + n > room THEN {} ELSE osize .. osize + n - 1
        BY <2>1 DEF ReadsRun
      <4>2. \A p \in DOMAIN w : osize + n <= room /\ p \in osize .. osize + n - 1
        BY <1>1, <4>1
      <4> QED
        BY <1>1, <4>2
    <3>2. \A p \in DOMAIN w : w[p] \in Byte
      BY <1>2, <2>1, <3>1 DEF ReadsRun
    <3>3. Over(w, out) \in [0 .. room - 1 -> Byte]
      BY <1>1, <3>1, <3>2, OverStays
    <3> QED
      BY <1>1, <2>1, <3>3 DEF ReadsRun
  <2> QED
    BY <1>1, <1>3, <1>4, <2>1, UnpackRunIs
<1>5. CASE UnpackGroup
  <2>1. ASSUME NEW h \in Byte, NEW w, ReadsGroup(h, w)
        PROVE  /\ pos' \in Nat /\ osize' \in Nat /\ room' \in Nat
               /\ out' \in [0 .. room' - 1 -> Byte] /\ phase' \in {"packed", "done", "invalid"}
    <3>1. \A p \in DOMAIN w : p \in 0 .. room - 1 /\ p - osize \in 0 .. 7
      <4>1. DOMAIN w = {q \in osize .. osize + 7 : q < room}
        BY <2>1 DEF ReadsGroup
      <4>2. \A p \in DOMAIN w : p \in osize .. osize + 7 /\ p < room
        BY <4>1
      <4>3. osize \in Nat /\ room \in Nat
        BY <1>1
      <4> QED
        BY ONLY <4>2, <4>3
    <3>2. \A b \in 0 .. 7 : Place(h, b) \in Nat
      BY PlaceIs
    <3>3. Place(h, 8) \in Nat
      BY PlaceIs
    <3>4. 0 \in Byte
      BY DEF Byte
    <3>5. \A p \in DOMAIN w : w[p] \in Byte
      BY <1>2, <2>1, <3>1, <3>2, <3>4 DEF ReadsGroup
    <3>6. Over(w, out) \in [0 .. room - 1 -> Byte]
      BY <1>1, <3>1, <3>5, OverStays
    <3> QED
      BY <1>1, <2>1, <3>3, <3>6 DEF ReadsGroup
  <2> QED
    BY <1>1, <1>3, <1>5, <2>1, UnpackGroupIs
<1>6. CASE UnpackEnd
  <2>1. Fresh(osize) \in [0 .. osize - 1 -> Byte]
    BY <1>1 DEF Fresh
  <2> QED
    BY <1>1, <1>6, <2>1 DEF UnpackEnd, unpacking
<1> QED
  BY <1>1, <1>4, <1>5, <1>6
-----------------------------------------------------------------------------
Sound == Types /\ RunPlaces

LEMMA InitSound == Init => Sound
<1> SUFFICES ASSUME Init PROVE Sound
  OBVIOUS
<1>1. /\ src \in Sources /\ junk \in Junk /\ room \in OutSizes
      /\ phase = "pack" /\ i = 0 /\ size = 0 /\ run = NoRun /\ buf = Fresh(MaxSize)
      /\ out = Fresh(room) /\ pos = 0 /\ osize = 0
  BY DEF Init
<1>2. src \in Seq(Byte) /\ junk \in Byte /\ room \in Nat /\ MaxRun \in 2 .. 256
  BY <1>1, PackAssumption
<1>3. run \in Runs /\ run.n = 0
  BY <1>1 DEF NoRun, Runs
<1>4. MaxSize \in Nat /\ Len(src) \in Nat
  BY <1>2, MaxSizeIs
<1>5. buf \in [0 .. MaxSize - 1 -> Byte] /\ out \in [0 .. room - 1 -> Byte]
  BY <1>1, <1>2, <1>4 DEF Fresh
<1>6. Types
  BY <1>1, <1>2, <1>3, <1>5 DEF Types
<1>7. RunPlaces
  BY <1>1, <1>2, <1>3, <1>4 DEF RunPlaces
<1> QED
  BY <1>6, <1>7 DEF Sound

LEMMA GroupPlace ==
  ASSUME Types, RunPlaces, PackGroup
  PROVE  RunPlaces' /\ run' \in Runs /\ i' \in Nat /\ size' \in Nat
<1> DEFINE m == run.n
           a == run.at
           s == run.from
           l == Len(src)
<1>1. /\ i \in Nat /\ size \in Nat /\ m \in Nat /\ a \in Nat /\ s \in Nat /\ l \in Nat
      /\ run \in Runs /\ phase = "pack" /\ i < l /\ MaxRun \in 2 .. 256
  BY MaxSizeIs, PackAssumption DEF Types, Runs, PackGroup
<1>2. i' = i + 8 /\ phase' = phase /\ src' = src
  BY DEF PackGroup, source
<1>3. i % 8 = 0 /\ m < MaxRun
  BY DEF RunPlaces
<1>4. m > 0 => size = a + 2 + 8 * m /\ i = s + 8 * m
  BY DEF RunPlaces
<1>5. Cardinality(NonZero) \in Nat
  BY RankIs, Counted
<1>6. i' \in Nat /\ i' % 8 = 0 /\ i' < l + 8
  BY <1>1, <1>2, <1>3
<1>7. (i % 8 = 0 /\ i < Len(src) + 8)'
  BY <1>2, <1>6
<1>8. (/\ phase # "pack" => i >= Len(src)
       /\ phase \in {"packed", "done", "invalid"} => size <= MaxSize)'
  BY <1>1, <1>2
<1>9. /\ run' \in Runs /\ size' \in Nat
      /\ (run.n < MaxRun /\ (run.n > 0 => size = run.at + 2 + 8 * run.n /\ i = run.from + 8 * run.n))'
  <2>1. CASE AsGroup \/ Closes \/ Fills
    <3>1. run' = NoRun /\ size' \in Nat
      BY <1>1, <1>5, <2>1 DEF AsGroup, Closes, Fills
    <3>2. run' \in Runs /\ run'.n = 0
      BY <3>1 DEF NoRun, Runs
    <3> QED
      BY <1>1, <3>1, <3>2
  <2>2. CASE Opens
    <3>1. run' = [n |-> 1, from |-> i, at |-> size] /\ size' = size + 10
      BY <2>2 DEF Opens
    <3>2. run' \in Runs /\ run'.n = 1 /\ run'.at = size /\ run'.from = i
      BY <1>1, <3>1 DEF Runs
    <3>3. size' = size + 2 + 8 * 1 /\ i' = i + 8 * 1 /\ 1 < MaxRun /\ size' \in Nat
      BY <1>1, <1>2, <3>1
    <3> QED
      BY <3>2, <3>3
  <2>3. CASE Joins
    <3>1. /\ run' = [run EXCEPT !.n = m + 1] /\ size' = size + 8 /\ m + 1 < MaxRun
          /\ m > 0
      BY <2>3 DEF Joins
    <3>2. run' \in Runs /\ run'.n = m + 1 /\ run'.at = a /\ run'.from = s
      BY <1>1, <3>1 DEF Runs
    <3> HIDE DEF m, a, s
    <3>3. size' = a + 2 + 8 * (m + 1) /\ i' = s + 8 * (m + 1) /\ size' \in Nat
      <4>1. size' = size + 8 /\ i' = i + 8 /\ size = a + 2 + 8 * m /\ i = s + 8 * m
        BY <1>2, <1>4, <3>1
      <4>2. size \in Nat /\ a \in Nat /\ m \in Nat /\ s \in Nat
        BY <1>1
      <4> QED
        BY <4>1, <4>2
    <3> QED
      BY <3>1, <3>2, <3>3
  <2> QED
    BY <2>1, <2>2, <2>3, GroupCases
<1> QED
  BY <1>6, <1>7, <1>8, <1>9 DEF RunPlaces

LEMMA MaxSizeStays == UNCHANGED src => MaxSize' = MaxSize
BY DEF MaxSize

LEMMA SoundStep == Sound /\ [Next]_vars => Sound'
<1> SUFFICES ASSUME Sound, [Next]_vars PROVE Sound'
  OBVIOUS
<1>0. Types /\ RunPlaces
  BY DEF Sound
<1>1. CASE PackGroup
  <2>1. UNCHANGED <<source, phase, unpacking>>
    BY <1>1 DEF PackGroup
  <2>2. MaxSize' = MaxSize
    BY <2>1, MaxSizeStays DEF source
  <2>3. buf' \in [0 .. MaxSize' - 1 -> Byte]
    BY <1>0, <1>1, <2>2, BufStays
  <2>4. RunPlaces' /\ run' \in Runs /\ i' \in Nat /\ size' \in Nat
    BY <1>0, <1>1, GroupPlace
  <2>5. Types'
    BY <1>0, <2>1, <2>3, <2>4 DEF Types, source, unpacking
  <2> QED
    BY <2>4, <2>5 DEF Sound
<1>2. CASE PackEnd
  <2>1. UNCHANGED <<source, i, size, run, unpacking>> /\ phase' = IF size > MaxSize THEN "error" ELSE "packed"
    BY <1>2 DEF PackEnd
  <2>2. MaxSize' = MaxSize /\ MaxSize \in Nat
    BY <1>0, <2>1, MaxSizeStays, MaxSizeIs DEF source, Types
  <2>3. buf' \in [0 .. MaxSize' - 1 -> Byte]
    BY <1>0, <1>2, <2>2, BufStays
  <2>4. Types'
    BY <1>0, <2>1, <2>3 DEF Types, source, unpacking
  <2>5. i >= Len(src)
    BY <1>2 DEF PackEnd
  <2>6. phase' = "packed" => size <= MaxSize
    BY <1>0, <2>1, <2>2 DEF Types
  <2>7. phase' \in {"packed", "error"}
    BY <2>1
  <2>8. RunPlaces'
    BY <1>0, <2>1, <2>2, <2>5, <2>6, <2>7 DEF RunPlaces, source
  <2> QED
    BY <2>4, <2>8 DEF Sound
<1>3. CASE UnpackRun \/ UnpackGroup \/ UnpackEnd
  <2>1. UNCHANGED <<source, packing>>
    BY <1>3 DEF UnpackRun, UnpackGroup, UnpackEnd
  <2>2. /\ pos' \in Nat /\ osize' \in Nat /\ room' \in Nat
        /\ out' \in [0 .. room' - 1 -> Byte]
        /\ phase' \in {"packed", "done", "invalid"} /\ phase = "packed"
    BY <1>0, <1>3, UnpackTypes
  <2>3. MaxSize' = MaxSize
    BY <2>1, MaxSizeStays DEF source
  <2>4. Types'
    BY <1>0, <2>1, <2>2, <2>3 DEF Types, source, packing
  <2>5. RunPlaces'
    BY <1>0, <2>1, <2>2, <2>3 DEF RunPlaces, source, packing
  <2> QED
    BY <2>4, <2>5 DEF Sound
<1>4. CASE UNCHANGED vars
  <2>1. MaxSize' = MaxSize
    BY <1>4, MaxSizeStays DEF vars, source
  <2> QED
    BY <1>0, <1>4, <2>1 DEF Sound, Types, RunPlaces, vars, source, packing, unpacking
<1> QED
  BY <1>1, <1>2, <1>3, <1>4 DEF Next

(* The types are kept, and the bookkeeping of the runs                     *)
THEOREM TypeCorrect == Spec => []Sound
  BY InitSound, SoundStep, PTL DEF Spec

(* Neither pack nor unpack stores a byte outside its buffer                *)
(* (sproto_pack, write_ff, sproto_unpack).                                 *)
THEOREM AlwaysInBuffer == Spec => []InBuffer
<1>1. Sound => InBuffer
  BY DEF Sound, Types, InBuffer
<1> QED
  BY <1>1, TypeCorrect, PTL
-----------------------------------------------------------------------------
(* The packed string as a chain: what is told at p of the bytes f, how     *)
(* many bytes of the source that are, where it ends, and that they are     *)
(* those of the source s from a on, as far as it goes.                     *)
Gain(f, p) == IF f[p] = 255 THEN 8 * (f[p + 1] + 1) ELSE 8

After(f, p) == IF f[p] = 255 THEN p + 2 + Gain(f, p) ELSE p + 1 + Ones(f[p], 8)

Told(f, p, b) ==
  IF f[p] = 255 THEN f[p + 2 + b]
  ELSE IF Bit(f[p], b) = 1 THEN f[p + 1 + Ones(f[p], b)] ELSE 0

Tells(s, f, p, a) == \A b \in 0 .. Gain(f, p) - 1 : a + b < Len(s) => s[a + b + 1] = Told(f, p, b)

(* The places S where something begins, up to e, which stands for t bytes; *)
(* d tells how much of the source comes before each.                       *)
Parse(s, S, d, f, e, t) ==
  /\ \A p \in S : p \in 0 .. e /\ d[p] \in Nat
  /\ 0 \in S /\ d[0] = 0 /\ e \in S /\ d[e] = t
  /\ \A p \in S : p # e => /\ f[p] = 255 => p + 1 < e
                           /\ After(f, p) \in S
                           /\ d[After(f, p)] = d[p] + Gain(f, p)
                           /\ Tells(s, f, p, d[p])

(* The bytes f, up to e, stand for the first t bytes of s, and at p for the *)
(* first o.                                                                *)
Stands(s, f, e, t, p, o) == \E S : \E d : Parse(s, S, d, f, e, t) /\ p \in S /\ d[p] = o

LEMMA Farther ==
  ASSUME NEW m \in Nat, NEW f \in [0 .. m - 1 -> Byte], NEW p \in 0 .. m - 1,
         f[p] = 255 => p + 1 < m
  PROVE  /\ After(f, p) \in Nat /\ p < After(f, p) /\ Gain(f, p) \in Nat
         /\ f[p] = 255 => /\ p + 1 < After(f, p)
                          /\ \A b \in 0 .. Gain(f, p) - 1 : p + 2 + b \in 0 .. After(f, p) - 1
         /\ f[p] # 255 => /\ Gain(f, p) = 8
                          /\ \A b \in 0 .. 7 : Bit(f[p], b) = 1 =>
                               p + 1 + Ones(f[p], b) \in 0 .. After(f, p) - 1
<1>0. \A q \in 0 .. m - 1 : f[q] \in Nat
  <2>1. \A q \in 0 .. m - 1 : f[q] \in Byte
    OBVIOUS
  <2>2. \A x \in Byte : x \in Nat
    BY DEF Byte
  <2> QED
    BY <2>1, <2>2
<1>1. p \in Nat /\ f[p] \in Nat
  BY <1>0
<1>2. CASE f[p] = 255
  <2>1. f[p + 1] \in Nat
    BY <1>0, <1>1, <1>2
  <2>2. Gain(f, p) = 8 * (f[p + 1] + 1) /\ After(f, p) = p + 2 + Gain(f, p)
    BY <1>2 DEF Gain, After
  <2>3. Gain(f, p) \in Nat
    BY <2>1, <2>2
  <2>4. \A b \in 0 .. Gain(f, p) - 1 : p + 2 + b \in 0 .. After(f, p) - 1
    BY <1>1, <2>2, <2>3
  <2> QED
    BY <1>1, <1>2, <2>2, <2>3, <2>4
<1>3. CASE f[p] # 255
  <2>1. After(f, p) = p + 1 + Ones(f[p], 8) /\ Gain(f, p) = 8
    BY <1>3 DEF Gain, After
  <2>2. PICK h \in Nat : h = f[p]
    BY <1>1
  <2>3. \A b \in 0 .. 8 : Ones(h, b) \in 0 .. 8
    BY OnesBound
  <2>4. \A b \in 0 .. 7 : Bit(h, b) = 1 => Ones(h, b) < Ones(h, 8)
    BY OnesBound
  <2>5. Ones(h, 8) \in 0 .. 8 /\ \A b \in 0 .. 7 : Ones(h, b) \in 0 .. 8
    BY <2>3
  <2>6. PICK z \in Nat : z = p + 1 + Ones(h, 8)
    BY <1>1, <2>5
  <2>7. \A b \in 0 .. 7 : Bit(h, b) = 1 => p + 1 + Ones(h, b) \in 0 .. z - 1
    <3>1. \A x, y \in 0 .. 8 : x < y => p + 1 + x \in 0 .. (p + 1 + y) - 1
      BY <1>1
    <3>2. \A b \in 0 .. 7 : Bit(h, b) = 1 => p + 1 + Ones(h, b) \in 0 .. (p + 1 + Ones(h, 8)) - 1
      BY <2>4, <2>5, <3>1
    <3> QED
      BY <2>6, <3>2, Zenon
  <2>8. p < z
    BY <1>1, <2>5, <2>6
  <2>9. After(f, p) = z
    BY <2>1, <2>2, <2>6
  <2>10. \A b \in 0 .. 7 : Bit(f[p], b) = 1 => p + 1 + Ones(f[p], b) \in 0 .. After(f, p) - 1
    BY <2>2, <2>7, <2>9, Zenon
  <2> QED
    BY <1>3, <2>1, <2>6, <2>8, <2>9, <2>10
<1> QED
  BY <1>2, <1>3

(* What is told depends on the bytes up to where it ends                   *)
LEMMA TellsSame ==
  ASSUME NEW m \in Nat, NEW f \in [0 .. m - 1 -> Byte], NEW g \in [0 .. m - 1 -> Byte],
         NEW e \in 0 .. m, \A p \in 0 .. e - 1 : g[p] = f[p],
         NEW p \in 0 .. e - 1, After(f, p) <= e, f[p] = 255 => p + 1 < m
  PROVE  /\ Gain(g, p) = Gain(f, p) /\ After(g, p) = After(f, p)
         /\ \A b \in 0 .. Gain(f, p) - 1 : Told(g, p, b) = Told(f, p, b)
<1>1. p \in 0 .. m - 1 /\ g[p] = f[p]
  OBVIOUS
<1>2. /\ After(f, p) \in Nat /\ p < After(f, p) /\ Gain(f, p) \in Nat
      /\ f[p] = 255 => /\ p + 1 < After(f, p)
                       /\ \A b \in 0 .. Gain(f, p) - 1 : p + 2 + b \in 0 .. After(f, p) - 1
      /\ f[p] # 255 => /\ Gain(f, p) = 8
                       /\ \A b \in 0 .. 7 : Bit(f[p], b) = 1 =>
                            p + 1 + Ones(f[p], b) \in 0 .. After(f, p) - 1
  BY <1>1, Farther
<1>3. \A q \in 0 .. After(f, p) - 1 : g[q] = f[q]
  BY <1>2
<1>4. CASE f[p] = 255
  <2>1. p + 1 \in 0 .. After(f, p) - 1
    BY <1>2, <1>4
  <2>2. g[p + 1] = f[p + 1]
    BY <1>3, <2>1
  <2>3. Gain(g, p) = Gain(f, p) /\ After(g, p) = After(f, p)
    BY <1>1, <1>4, <2>2 DEF Gain, After
  <2>4. \A b \in 0 .. Gain(f, p) - 1 : g[p + 2 + b] = f[p + 2 + b]
    BY <1>2, <1>3, <1>4
  <2> QED
    BY <1>1, <1>4, <2>3, <2>4 DEF Told
<1>5. CASE f[p] # 255
  <2>1. Gain(g, p) = Gain(f, p) /\ After(g, p) = After(f, p)
    BY <1>1, <1>5 DEF Gain, After
  <2>2. \A b \in 0 .. 7 : Bit(f[p], b) = 1 => g[p + 1 + Ones(f[p], b)] = f[p + 1 + Ones(f[p], b)]
    BY <1>2, <1>3, <1>5
  <2>3. Gain(f, p) = 8
    BY <1>2, <1>5
  <2>4. \A b \in 0 .. 7 : Told(g, p, b) = Told(f, p, b)
    BY <1>1, <1>5, <2>2 DEF Told
  <2>5. \A b \in 0 .. Gain(f, p) - 1 : b \in 0 .. 7
    BY <2>3
  <2> QED
    BY <2>1, <2>4, <2>5
<1> QED
  BY <1>4, <1>5
(* Bytes stored at or behind the end change nothing                        *)
LEMMA StandsSame ==
  ASSUME NEW m \in Nat, NEW f \in [0 .. m - 1 -> Byte], NEW g \in [0 .. m - 1 -> Byte],
         NEW e \in 0 .. m, \A p \in 0 .. e - 1 : g[p] = f[p],
         NEW s, NEW t, NEW x, NEW o, Stands(s, f, e, t, x, o)
  PROVE  Stands(s, g, e, t, x, o)
<1>1. PICK S : \E d : Parse(s, S, d, f, e, t) /\ x \in S /\ d[x] = o
  BY DEF Stands
<1>2. PICK d : Parse(s, S, d, f, e, t) /\ x \in S /\ d[x] = o
  BY <1>1
<1>3. ASSUME NEW p \in S, p # e
      PROVE  /\ g[p] = 255 => p + 1 < e
             /\ After(g, p) \in S
             /\ d[After(g, p)] = d[p] + Gain(g, p)
             /\ Tells(s, g, p, d[p])
  <2>1. /\ f[p] = 255 => p + 1 < e
        /\ After(f, p) \in S
        /\ d[After(f, p)] = d[p] + Gain(f, p)
        /\ Tells(s, f, p, d[p])
    BY <1>2, <1>3 DEF Parse
  <2>2. p \in 0 .. e /\ After(f, p) \in 0 .. e
    BY <1>2, <2>1 DEF Parse
  <2>3. p \in 0 .. e - 1 /\ After(f, p) <= e /\ (f[p] = 255 => p + 1 < m)
    BY <1>3, <2>1, <2>2
  <2>4. /\ Gain(g, p) = Gain(f, p) /\ After(g, p) = After(f, p)
        /\ \A b \in 0 .. Gain(f, p) - 1 : Told(g, p, b) = Told(f, p, b)
    BY <2>3, TellsSame
  <2>5. Tells(s, g, p, d[p])
    BY <2>1, <2>4 DEF Tells
  <2> QED
    BY <2>1, <2>3, <2>4, <2>5
<1>4. Parse(s, S, d, g, e, t)
  BY <1>2, <1>3 DEF Parse
<1> QED
  BY <1>2, <1>4 DEF Stands

(* What is told at the end makes it longer                                 *)
LEMMA StandsGrows ==
  ASSUME NEW m \in Nat, NEW f \in [0 .. m - 1 -> Byte], NEW e \in 0 .. m - 1,
         f[e] = 255 => e + 1 < m,
         NEW s, NEW t \in Nat, NEW x, NEW o, Stands(s, f, e, t, x, o), Tells(s, f, e, t)
  PROVE  Stands(s, f, After(f, e), t + Gain(f, e), x, o)
<1>1. PICK S : \E d : Parse(s, S, d, f, e, t) /\ x \in S /\ d[x] = o
  BY DEF Stands
<1>2. PICK d : Parse(s, S, d, f, e, t) /\ x \in S /\ d[x] = o
  BY <1>1
<1>3. PICK z \in Nat : z = After(f, e)
  BY Farther
<1>4. PICK u \in Nat : u = t + Gain(f, e)
  BY Farther
<1>5. /\ z = After(f, e) /\ e < z /\ (f[e] = 255 => e + 1 < z)
  BY <1>3, Farther
<1> DEFINE T == S \cup {z}
           c == [p \in T |-> IF p = z THEN u ELSE d[p]]
<1>6. \A p \in S : p \in 0 .. e /\ d[p] \in Nat
  BY <1>2 DEF Parse
<1>7. z \notin S /\ z # e
  BY <1>5, <1>6
<1>8. \A p \in S : p \in T /\ c[p] = d[p]
  BY <1>7
<1>9. z \in T /\ c[z] = u
  OBVIOUS
<1>10. \A p \in T : p \in S \/ p = z
  OBVIOUS
<1> HIDE DEF T, c
<1>11. \A p \in T : p \in 0 .. z /\ c[p] \in Nat
  <2>1. \A p \in S : p \in 0 .. z /\ c[p] \in Nat
    BY <1>5, <1>6, <1>8
  <2> QED
    BY <1>9, <1>10, <2>1
<1>12. 0 \in S /\ d[0] = 0 /\ e \in S /\ d[e] = t
  BY <1>2 DEF Parse
<1>13. ASSUME NEW p \in T, p # z
       PROVE  /\ f[p] = 255 => p + 1 < z
              /\ After(f, p) \in T
              /\ c[After(f, p)] = c[p] + Gain(f, p)
              /\ Tells(s, f, p, c[p])
  <2>1. p \in S /\ c[p] = d[p]
    BY <1>8, <1>10, <1>13
  <2>2. CASE p = e
    BY <1>3, <1>4, <1>5, <1>9, <1>12, <2>1, <2>2
  <2>3. CASE p # e
    <3>1. /\ f[p] = 255 => p + 1 < e
          /\ After(f, p) \in S
          /\ d[After(f, p)] = d[p] + Gain(f, p)
          /\ Tells(s, f, p, d[p])
      BY <1>2, <2>1, <2>3 DEF Parse
    <3>2. f[p] = 255 => p + 1 < z
      BY <1>5, <1>6, <2>1, <3>1
    <3> QED
      BY <1>8, <2>1, <3>1, <3>2
  <2> QED
    BY <2>2, <2>3
<1>14. Parse(s, T, c, f, z, u)
  BY <1>8, <1>9, <1>11, <1>12, <1>13 DEF Parse
<1>15. x \in T /\ c[x] = o
  BY <1>2, <1>8
<1> QED
  BY <1>3, <1>4, <1>14, <1>15 DEF Stands

(* Reading goes on from where something is told to where it ends, within   *)
(* the string                                                              *)
LEMMA StandsOnward ==
  ASSUME NEW e \in Nat, NEW s, NEW f, NEW t, NEW x \in Nat, NEW o, Stands(s, f, e, t, x, o), x # e
  PROVE  /\ x \in 0 .. e - 1 /\ o \in Nat /\ (f[x] = 255 => x + 1 < e)
         /\ After(f, x) \in 0 .. e
         /\ Tells(s, f, x, o)
         /\ Stands(s, f, e, t, After(f, x), o + Gain(f, x))
<1>1. PICK S : \E d : Parse(s, S, d, f, e, t) /\ x \in S /\ d[x] = o
  BY DEF Stands
<1>2. PICK d : Parse(s, S, d, f, e, t) /\ x \in S /\ d[x] = o
  BY <1>1
<1>3. /\ f[x] = 255 => x + 1 < e
      /\ After(f, x) \in S
      /\ d[After(f, x)] = d[x] + Gain(f, x)
      /\ Tells(s, f, x, d[x])
  BY <1>2 DEF Parse
<1>4. x \in 0 .. e /\ o \in Nat /\ After(f, x) \in 0 .. e
  BY <1>2, <1>3 DEF Parse
<1>5. Stands(s, f, e, t, After(f, x), o + Gain(f, x))
  BY <1>2, <1>3 DEF Stands
<1> QED
  BY <1>2, <1>3, <1>4, <1>5

(* At its end all has been read, and it may be read again                  *)
LEMMA StandsEnds ==
  ASSUME NEW e, NEW s, NEW f, NEW t, NEW x, NEW o, Stands(s, f, e, t, x, o)
  PROVE  (x = e => o = t) /\ x \in 0 .. e /\ Stands(s, f, e, t, 0, 0)
BY DEF Stands, Parse
-----------------------------------------------------------------------------
(* What a group that is stored by its header tells                         *)
LEMMA GroupTold ==
  ASSUME Types, ~Literal, size + Cardinality(NonZero) + 1 <= MaxSize,
         NEW f \in [0 .. MaxSize - 1 -> Byte],
         \A p \in 0 .. MaxSize - 1 : p >= size => f[p] = Stored[p]
  PROVE  /\ size \in 0 .. MaxSize - 1 /\ f[size] # 255
         /\ After(f, size) = size + Cardinality(NonZero) + 1 /\ Gain(f, size) = 8
         /\ Tells(src, f, size, i)
<1> DEFINE n == Cardinality(NonZero)
<1>1. size \in Nat /\ i \in Nat /\ MaxSize \in Nat /\ src \in Seq(Byte) /\ Len(src) \in Nat
  BY MaxSizeIs DEF Types
<1>2. NonZero \in SUBSET (0 .. 7)
  BY RankIs
<1>3. n \in 0 .. 8 /\ n # 8 /\ NonZero # 0 .. 7
  BY <1>2, Counted DEF Literal
<1>4. size < MaxSize /\ size + n + 1 <= MaxSize
  BY <1>1, <1>3
<1>5. /\ size \in DOMAIN SegStored /\ SegStored[size] = Header
      /\ \A b \in NonZero : size + 1 + Rank(b) < MaxSize =>
           /\ size + 1 + Rank(b) \in DOMAIN SegStored
           /\ SegStored[size + 1 + Rank(b)] = Group[b]
  BY <1>4, SegIs
<1>6. \A p \in DOMAIN SegStored : p \in 0 .. MaxSize - 1 /\ f[p] = SegStored[p]
  <2>1. \A p \in DOMAIN SegStored : p \in size .. MaxSize - 1
    BY SegIs
  <2>2. \A p \in DOMAIN SegStored : Stored[p] = SegStored[p]
    BY OverIs DEF Stored
  <2>3. \A p \in size .. MaxSize - 1 : p \in 0 .. MaxSize - 1 /\ f[p] = Stored[p]
    BY <1>1
  <2> QED
    BY <2>1, <2>2, <2>3
<1>7. PICK h \in Byte : h = Header
  BY HeaderIs
<1>8. h # 255 /\ \A b \in 0 .. 7 : Bit(h, b) = 1 <=> b \in NonZero
  BY <1>3, <1>7, HeaderIs
<1>9. f[size] = h
  BY <1>5, <1>6, <1>7
<1>10. PICK S \in SUBSET (0 .. 7) : S = NonZero
  BY <1>2
<1>11. \A b \in 0 .. 8 : Ones(h, b) = Below(S, b)
  BY <1>8, <1>10, OnesIs
<1>12. /\ Below(S, 8) = n
       /\ \A b \in S : Below(S, b) \in 0 .. n - 1
  BY <1>10, Counted
<1> HIDE DEF n
<1>13. Ones(h, 8) = n /\ \A b \in NonZero : Ones(h, b) = Rank(b) /\ Rank(b) \in 0 .. n - 1
  <2>1. 8 \in 0 .. 8 /\ \A b \in S : b \in 0 .. 8
    BY <1>10
  <2>2. \A b : Rank(b) = Below(S, b)
    BY <1>10, RankIs
  <2> QED
    BY <1>10, <1>11, <1>12, <2>1, <2>2
<1>14. After(f, size) = size + n + 1 /\ Gain(f, size) = 8
  <2>1. After(f, size) = size + 1 + n
    BY <1>8, <1>9, <1>13 DEF After
  <2>2. size + 1 + n = size + n + 1
    BY <1>1, <1>3
  <2> QED
    BY <1>8, <1>9, <2>1, <2>2 DEF Gain
<1>15. ASSUME NEW b \in 0 .. 7, i + b < Len(src) PROVE src[i + b + 1] = Told(f, size, b)
  <2>1. Group[b] = src[i + b + 1]
    BY <1>15 DEF Group
  <2>2. CASE b \in NonZero
    <3>1. PICK k \in 0 .. n - 1 : k = Rank(b) /\ k = Ones(h, b)
      BY <1>13, <2>2
    <3>2. size + 1 + k < MaxSize
      BY <1>1, <1>3, <1>4
    <3>3. f[size + 1 + k] = Group[b]
      BY <1>5, <1>6, <2>2, <3>1, <3>2
    <3> QED
      BY <1>8, <1>9, <2>1, <2>2, <3>1, <3>3 DEF Told
  <2>3. CASE b \notin NonZero
    <3>1. Group[b] = 0
      BY <2>3 DEF NonZero
    <3> QED
      BY <1>8, <1>9, <2>1, <2>3, <3>1 DEF Told
  <2> QED
    BY <2>2, <2>3
<1>16. Tells(src, f, size, i)
  BY <1>14, <1>15 DEF Tells
<1> QED
  BY <1>1, <1>4, <1>8, <1>9, <1>14, <1>16 DEF n

(* What a run tells, of which only the end of the source is left out       *)
LEMMA RunTold ==
  ASSUME Types, NEW h, NEW f, NEW n \in Nat, NEW g \in 1 .. 256, WithRun(h, f, n, g),
         n = 8 * g \/ run.from + n >= Len(src)
  PROVE  /\ run.at \in 0 .. MaxSize - 1 /\ h[run.at] = 255 /\ run.at + 1 < MaxSize
         /\ After(h, run.at) = run.at + 2 + 8 * g /\ Gain(h, run.at) = 8 * g
         /\ Tells(src, h, run.at, run.from)
<1> DEFINE a == run.at
           s == run.from
<1>1. a \in Nat /\ s \in Nat /\ MaxSize \in Nat /\ Len(src) \in Nat
  BY MaxSizeIs DEF Types, Runs
<1>2. /\ a + 2 + 8 * g <= MaxSize
      /\ h[a] = 255 /\ h[a + 1] = g - 1
      /\ \A k \in 0 .. 8 * g - 1 : h[a + 2 + k] = IF k < n THEN AtSource(s + k) ELSE 0
      /\ n = 8 * g \/ s + n >= Len(src)
  BY DEF WithRun
<1> HIDE DEF a, s
<1>3. Gain(h, a) = 8 * g
  <2>1. Gain(h, a) = 8 * ((g - 1) + 1)
    BY <1>2 DEF Gain
  <2> QED
    BY <2>1
<1>4. After(h, a) = a + 2 + 8 * g
  BY <1>2, <1>3 DEF After
<1>5. ASSUME NEW b \in 0 .. 8 * g - 1, s + b < Len(src) PROVE src[s + b + 1] = Told(h, a, b)
  <2>1. b < n
    BY <1>1, <1>2, <1>5
  <2>2. AtSource(s + b) = src[s + b + 1]
    BY <1>5 DEF AtSource
  <2> QED
    BY <1>2, <2>1, <2>2 DEF Told
<1>6. Tells(src, h, a, s)
  BY <1>3, <1>5 DEF Tells
<1>7. a \in 0 .. MaxSize - 1 /\ a + 1 < MaxSize
  <2>1. a + 2 + 8 * g <= MaxSize
    BY <1>2
  <2> QED
    BY <1>1, <2>1
<1> QED
  BY <1>2, <1>3, <1>4, <1>6, <1>7 DEF a, s
-----------------------------------------------------------------------------
(* What is packed stands for the source up to the open run, and unpack has *)
(* read it from its beginning on.                                          *)
Open == phase = "pack" /\ run.n > 0
End == IF Open THEN run.at ELSE size
Total == IF Open THEN run.from ELSE i

Coded ==
  /\ size <= MaxSize => Stands(src, buf, End, Total, pos, osize)
  /\ phase \in {"pack", "error"} => pos = 0 /\ osize = 0
  /\ phase # "invalid"
  /\ phase = "done" => osize = i /\ osize <= room

(* What has been read is in the buffer, if that is large enough.           *)
Read == osize <= room => \A p \in 1 .. Len(src) : p <= osize => out[p - 1] = src[p]

LEMMA StandsAtInit ==
  ASSUME NEW s, NEW f
  PROVE  Stands(s, f, 0, 0, 0, 0)
<1> DEFINE S == {0}
           d == [p \in S |-> 0]
<1>1. Parse(s, S, d, f, 0, 0)
  BY DEF Parse
<1>2. 0 \in S /\ d[0] = 0
  OBVIOUS
<1> HIDE DEF S, d
<1> QED
  BY <1>1, <1>2 DEF Stands

LEMMA InitCoded == Init => Coded /\ Read
<1> SUFFICES ASSUME Init PROVE Coded /\ Read
  OBVIOUS
<1>1. phase = "pack" /\ run.n = 0 /\ size = 0 /\ i = 0 /\ pos = 0 /\ osize = 0
  BY DEF Init, NoRun
<1>2. End = 0 /\ Total = 0
  BY <1>1 DEF End, Total, Open
<1>3. Stands(src, buf, End, Total, pos, osize)
  BY <1>1, <1>2, StandsAtInit
<1>4. \A p \in 1 .. Len(src) : ~ (p <= osize)
  BY <1>1
<1> QED
  BY <1>1, <1>3, <1>4 DEF Coded, Read

(* A stored group leaves what is before it alone                           *)
LEMMA StoredBehind ==
  ASSUME Types
  PROVE  \A p \in 0 .. MaxSize - 1 : p < size => Stored[p] = buf[p]
<1>1. \A p \in DOMAIN SegStored : p \in size .. MaxSize - 1
  BY SegIs
<1>2. size \in Nat /\ MaxSize \in Nat /\ buf \in [0 .. MaxSize - 1 -> Byte]
  BY MaxSizeIs DEF Types
<1>3. \A p \in 0 .. MaxSize - 1 : p < size => p \notin DOMAIN SegStored /\ p \in DOMAIN buf
  BY <1>1, <1>2
<1>4. \A p \in DOMAIN buf : p \notin DOMAIN SegStored => Over(SegStored, buf)[p] = buf[p]
  BY OverIs
<1> QED
  BY <1>3, <1>4 DEF Stored

(* A run that is written is told after what was there before it, and what  *)
(* is stored behind it may follow                                          *)
LEMMA RunWritten ==
  ASSUME Types, NEW f \in [0 .. MaxSize - 1 -> Byte], NEW b \in [0 .. MaxSize - 1 -> Byte],
         NEW n \in Nat, NEW g \in 1 .. 256, NEW h \in [0 .. MaxSize - 1 -> Byte],
         WithRun(h, f, n, g), n = 8 * g \/ run.from + n >= Len(src),
         \A p \in 0 .. MaxSize - 1 : p < run.at => f[p] = b[p],
         Stands(src, b, run.at, run.from, 0, 0)
  PROVE  Stands(src, h, run.at + 2 + 8 * g, run.from + 8 * g, 0, 0)
<1> DEFINE a == run.at
           s == run.from
<1>1. a \in Nat /\ s \in Nat /\ MaxSize \in Nat
  BY MaxSizeIs DEF Types, Runs
<1>2. /\ a \in 0 .. MaxSize - 1 /\ h[a] = 255 /\ a + 1 < MaxSize
      /\ After(h, a) = a + 2 + 8 * g /\ Gain(h, a) = 8 * g
      /\ Tells(src, h, a, s)
  BY RunTold
<1>3. \A p \in 0 .. MaxSize - 1 : p < a => h[p] = f[p]
  BY DEF WithRun
<1>4. \A p \in 0 .. MaxSize - 1 : p < a => f[p] = b[p]
  OBVIOUS
<1>5. Stands(src, b, a, s, 0, 0)
  OBVIOUS
<1>z. PICK z : z = src
  OBVIOUS
<1>6. PICK e \in 0 .. MaxSize - 1, t \in Nat, m \in Nat : e = a /\ t = s /\ m = MaxSize
  BY <1>1, <1>2
<1> HIDE DEF a, s
<1>7. \A p \in 0 .. e - 1 : p \in 0 .. MaxSize - 1 /\ p < a
  BY <1>1, <1>6
<1>8. \A p \in 0 .. e - 1 : h[p] = b[p]
  BY <1>3, <1>4, <1>7
<1>9. e \in 0 .. m /\ e \in 0 .. m - 1
  BY <1>6
<1>10. Stands(z, h, e, t, 0, 0)
  BY <1>z, <1>5, <1>6, <1>8, <1>9, StandsSame
<1>11. Stands(z, h, After(h, e), t + Gain(h, e), 0, 0)
  BY <1>z, <1>2, <1>6, <1>9, <1>10, StandsGrows
<1> QED
  BY <1>z, <1>2, <1>6, <1>11 DEF a, s

LEMMA GroupWritten ==
  ASSUME Types, ~Literal, size + Cardinality(NonZero) + 1 <= MaxSize,
         NEW f \in [0 .. MaxSize - 1 -> Byte],
         \A p \in 0 .. MaxSize - 1 : p >= size => f[p] = Stored[p],
         Stands(src, f, size, i, 0, 0)
  PROVE  Stands(src, f, size + Cardinality(NonZero) + 1, i + 8, 0, 0)
<1>1. /\ size \in 0 .. MaxSize - 1 /\ f[size] # 255
      /\ After(f, size) = size + Cardinality(NonZero) + 1 /\ Gain(f, size) = 8
      /\ Tells(src, f, size, i)
  BY GroupTold
<1>2. i \in Nat /\ MaxSize \in Nat
  BY MaxSizeIs DEF Types
<1>z. PICK z : z = src
  OBVIOUS
<1>3. PICK e \in 0 .. MaxSize - 1, t \in Nat, m \in Nat : e = size /\ t = i /\ m = MaxSize
  BY <1>1, <1>2
<1>4. Stands(z, f, After(f, e), t + Gain(f, e), 0, 0)
  BY <1>z, <1>1, <1>3, StandsGrows
<1> QED
  BY <1>z, <1>1, <1>3, <1>4
LEMMA PackGroupCoded ==
  ASSUME Types, RunPlaces, Coded, Read, PackGroup
  PROVE  Coded' /\ Read'
<1> DEFINE M == MaxSize
<1>1. /\ size \in Nat /\ i \in Nat /\ M \in Nat /\ Cardinality(NonZero) \in Nat
      /\ buf \in [0 .. M - 1 -> Byte] /\ run \in Runs /\ run.n \in Nat
  <2>1. Cardinality(NonZero) \in Nat
    BY RankIs, Counted
  <2> QED
    BY <2>1, MaxSizeIs DEF Types, Runs
<1>2. /\ phase = "pack" /\ phase' = "pack" /\ i' = i + 8 /\ src' = src /\ MaxSize' = M
      /\ pos' = pos /\ osize' = osize /\ out' = out /\ room' = room
  BY MaxSizeStays DEF PackGroup, source, unpacking
<1>3. pos = 0 /\ osize = 0 /\ pos' = 0 /\ osize' = 0
  BY <1>2 DEF Coded
<1>4. Read'
  <2>1. \A p \in 1 .. Len(src) : p <= osize => out[p - 1] = src[p]
    BY <1>3
  <2>2. Read' = (osize <= room => \A p \in 1 .. Len(src) : p <= osize => out[p - 1] = src[p])
    BY <1>2 DEF Read
  <2> QED
    BY <2>1, <2>2
<1>5. size <= size'
  BY <1>1, GroupCases DEF AsGroup, Closes, Opens, Joins, Fills
<1>6. ASSUME size' <= M PROVE Stands(src, buf', End', Total', 0, 0)
  <2>1. size <= M /\ size' \in Nat
    BY <1>1, <1>5, <1>6, GroupPlace
  <2>2. Stands(src, buf, End, Total, 0, 0)
    BY <1>3, <2>1 DEF Coded
  <2>3. run.n = 0 => End = size /\ Total = i
    BY DEF End, Total, Open
  <2>4. run.n > 0 => End = run.at /\ Total = run.from
    BY <1>2 DEF End, Total, Open
  <2>5. PICK f \in [0 .. M - 1 -> Byte] : f = Stored
    BY StoredIs
  <2>6. PICK b \in [0 .. M - 1 -> Byte] : b = buf
    BY <1>1
  <2>7. \A p \in 0 .. M - 1 : p < size => f[p] = b[p]
    BY <2>5, <2>6, StoredBehind
  <2>8. run.n > 0 => /\ run.n \in 1 .. 256 /\ run.at \in Nat /\ run.from \in Nat
                     /\ run.at + 2 + 8 * run.n = size /\ i = run.from + 8 * run.n
    BY Zenon, RunFits
  <2> DEFINE a == run.at
             s == run.from
  <2>9. run.n > 0 => a < size /\ a \in Nat /\ \A p \in 0 .. M - 1 : p < a => f[p] = b[p]
    <3>1. SUFFICES ASSUME run.n > 0
                   PROVE  a < size /\ a \in Nat /\ \A p \in 0 .. M - 1 : p < a => f[p] = b[p]
      OBVIOUS
    <3> DEFINE m == run.n
    <3>2. a \in Nat /\ m \in Nat /\ a + 2 + 8 * m = size
      BY <1>1, <2>8, <3>1
    <3> HIDE DEF a, m
    <3>3. a < size
      BY <1>1, <3>2
    <3> QED
      BY <1>1, <2>7, <3>2, <3>3
  <2>10. PICK sr : sr = src
    OBVIOUS
  <2>11. ASSUME NEW e \in 0 .. M, NEW t, Stands(sr, b, e, t, 0, 0), e <= size
         PROVE  Stands(sr, f, e, t, 0, 0)
    <3>1. \A p \in 0 .. e - 1 : f[p] = b[p]
      BY <1>1, <2>7, <2>11
    <3>2. PICK m \in Nat : m = M
      BY <1>1
    <3> QED
      BY <2>11, <3>1, <3>2, StandsSame
  <2>12. CASE AsGroup
    <3>1. /\ ~Literal /\ run.n = 0 /\ run'.n = 0 /\ size' = size + Cardinality(NonZero) + 1
          /\ buf' = f
      BY <2>5, <2>12 DEF AsGroup, NoRun
    <3>2. Stands(sr, f, size, i, 0, 0)
      <4>1. size \in 0 .. M /\ size <= size
        BY <1>1, <2>1
      <4> QED
        BY <2>2, <2>3, <2>6, <2>10, <2>11, <3>1, <4>1
    <3>3. Stands(src, f, size + Cardinality(NonZero) + 1, i + 8, 0, 0)
      BY <1>6, <2>5, <2>10, <3>1, <3>2, GroupWritten
    <3>4. End' = size' /\ Total' = i'
      BY <3>1 DEF End, Total, Open
    <3> QED
      BY <1>2, <3>1, <3>3, <3>4
  <2>13. CASE Opens
    <3>1. /\ run.n = 0 /\ run'.n = 1 /\ run'.at = size /\ run'.from = i /\ buf' = f
      BY <2>5, <2>13 DEF Opens
    <3>2. Stands(sr, f, size, i, 0, 0)
      <4>1. size \in 0 .. M /\ size <= size
        BY <1>1, <2>1
      <4> QED
        BY <2>2, <2>3, <2>6, <2>10, <2>11, <3>1, <4>1
    <3>3. End' = size /\ Total' = i
      BY <1>2, <3>1 DEF End, Total, Open
    <3> QED
      BY <2>10, <3>1, <3>2, <3>3
  <2>14. CASE Joins
    <3>1. run.n > 0 /\ run' = [run EXCEPT !.n = run.n + 1] /\ buf' = f
      BY <2>5, <2>14 DEF Joins
    <3>2. run'.n > 0 /\ run'.at = a /\ run'.from = s
      BY <1>1, <3>1 DEF Runs
    <3>3. Stands(sr, f, a, s, 0, 0)
      <4>1. a \in 0 .. M /\ a <= size
        BY <1>1, <2>1, <2>9, <3>1
      <4>2. Stands(sr, b, a, s, 0, 0)
        BY <2>2, <2>4, <2>6, <2>10, <3>1
      <4> QED
        BY <2>11, <4>1, <4>2
    <3>4. End' = a /\ Total' = s
      BY <1>2, <3>2 DEF End, Total, Open
    <3> QED
      BY <2>10, <3>1, <3>3, <3>4
  <2>15. CASE Closes
    <3>1. /\ ~Literal /\ run.n > 0 /\ run'.n = 0 /\ size' = size + Cardinality(NonZero) + 1
          /\ buf' = Over(Flush(run, 8 * run.n, size'), f)
      BY <2>5, <2>15 DEF Closes, NoRun
    <3>2. PICK g \in 1 .. 256 : g = run.n
      BY <2>8, <3>1
    <3>3. PICK n \in Nat : n = 8 * g
      OBVIOUS
    <3>4. PICK used \in Nat : used = size'
      BY <2>1
    <3>5. Aligned(n) = 8 * g /\ n > 0
      BY <3>3, AlignedIs
    <3>6. run.at + 2 + 8 * g = size /\ run.from + 8 * g = i /\ size <= used
      BY <1>5, <2>8, <3>1, <3>2, <3>4
    <3>7. run.at + 2 + 8 * g <= used /\ used <= M
      BY <1>6, <3>4, <3>6
    <3>8. PICK h : h = Over(Flush(run, n, used), f)
      OBVIOUS
    <3>9. h \in [0 .. M - 1 -> Byte] /\ WithRun(h, f, n, g)
      BY <3>5, <3>7, <3>8, FlushIs
    <3>10. Stands(src, b, run.at, run.from, 0, 0)
      BY <2>2, <2>4, <2>6, <3>1
    <3>11. \A p \in 0 .. M - 1 : p < run.at => f[p] = b[p]
      BY <2>9, <3>1
    <3>12. Stands(src, h, size, i, 0, 0)
      BY <3>3, <3>6, <3>9, <3>10, <3>11, RunWritten
    <3>13. \A p \in 0 .. M - 1 : p >= size => h[p] = Stored[p]
      BY <2>5, <3>6, <3>9 DEF WithRun
    <3>14. Stands(src, h, size + Cardinality(NonZero) + 1, i + 8, 0, 0)
      BY <1>6, <3>1, <3>9, <3>12, <3>13, GroupWritten
    <3>15. End' = size' /\ Total' = i'
      BY <3>1 DEF End, Total, Open
    <3> QED
      BY <1>2, <3>1, <3>2, <3>3, <3>4, <3>8, <3>14, <3>15
  <2>16. CASE Fills
    <3>1. /\ run.n > 0 /\ run'.n = 0 /\ size' = size + 8 /\ run.n + 1 = MaxRun
          /\ buf' = Over(Flush(run, 8 * (run.n + 1), size'), f)
      BY <2>5, <2>16 DEF Fills, NoRun
    <3>2. PICK k \in 1 .. 255 : k = run.n
      <4> DEFINE m == run.n
      <4>1. m \in Nat /\ m > 0 /\ m + 1 = MaxRun /\ MaxRun \in 2 .. 256
        BY <1>1, <3>1, PackAssumption
      <4> HIDE DEF m
      <4>2. m \in 1 .. 255
        BY <4>1
      <4> QED
        BY <4>2 DEF m
    <3>a. PICK g \in 1 .. 256 : g = k + 1
      OBVIOUS
    <3>3. PICK n \in Nat : n = 8 * g
      OBVIOUS
    <3>4. PICK used \in Nat : used = size'
      BY <2>1
    <3>5. Aligned(n) = 8 * g /\ n > 0
      BY <3>3, AlignedIs
    <3>6. run.at + 2 + 8 * g = used /\ run.from + 8 * g = i + 8
      <4>1. a + 2 + 8 * k = size /\ s + 8 * k = i /\ a \in Nat /\ s \in Nat /\ used = size + 8
        BY <2>8, <3>1, <3>2, <3>4
      <4> HIDE DEF a, s
      <4>2. a + 2 + 8 * g = used /\ s + 8 * g = i + 8
        BY <1>1, <3>a, <4>1
      <4> QED
        BY <4>2 DEF a, s
    <3>7. run.at + 2 + 8 * g <= used /\ used <= M
      BY <1>6, <3>4, <3>6
    <3>8. PICK h : h = Over(Flush(run, n, used), f)
      OBVIOUS
    <3>9. h \in [0 .. M - 1 -> Byte] /\ WithRun(h, f, n, g)
      BY <3>5, <3>7, <3>8, FlushIs
    <3>10. Stands(src, b, run.at, run.from, 0, 0)
      BY <2>2, <2>4, <2>6, <3>1
    <3>11. \A p \in 0 .. M - 1 : p < run.at => f[p] = b[p]
      BY <2>9, <3>1
    <3>12. Stands(src, h, used, i + 8, 0, 0)
      <4>1. Stands(src, h, run.at + 2 + 8 * g, run.from + 8 * g, 0, 0)
        BY <3>3, <3>9, <3>10, <3>11, RunWritten
      <4> QED
        BY <3>6, <4>1
    <3>13. End' = size' /\ Total' = i'
      BY <3>1 DEF End, Total, Open
    <3>14. buf' = h
      <4>1. 8 * (run.n + 1) = n
        BY <3>2, <3>a, <3>3
      <4> QED
        BY <3>1, <3>4, <3>8, <4>1
    <3> QED
      BY <1>2, <3>4, <3>12, <3>13, <3>14
  <2> QED
    BY <2>12, <2>13, <2>14, <2>15, <2>16, GroupCases
<1> QED
  BY <1>2, <1>3, <1>4, <1>6 DEF Coded

LEMMA PackEndCoded ==
  ASSUME Types, RunPlaces, Coded, Read, PackEnd
  PROVE  Coded' /\ Read'
<1> DEFINE M == MaxSize
<1>1. /\ size \in Nat /\ i \in Nat /\ M \in Nat /\ Len(src) \in Nat
      /\ buf \in [0 .. M - 1 -> Byte] /\ run.n \in Nat /\ run.from \in Nat
  BY MaxSizeIs DEF Types, Runs
<1>2. /\ phase = "pack" /\ phase' \in {"packed", "error"} /\ i' = i /\ size' = size /\ src' = src
      /\ MaxSize' = M /\ pos' = pos /\ osize' = osize /\ out' = out /\ room' = room /\ i >= Len(src)
  BY MaxSizeStays DEF PackEnd, source, unpacking
<1>3. pos = 0 /\ osize = 0
  BY <1>2 DEF Coded
<1>4. Read'
  <2>1. Read' = (osize <= room => \A p \in 1 .. Len(src) : p <= osize => out[p - 1] = src[p])
    BY <1>2 DEF Read
  <2> QED
    BY <2>1 DEF Read
<1>5. End' = size /\ Total' = i
  BY <1>2 DEF End, Total, Open
<1>6. ASSUME size <= M PROVE Stands(src, buf', size, i, 0, 0)
  <2>1. Stands(src, buf, End, Total, 0, 0)
    BY <1>3, <1>6 DEF Coded
  <2>2. CASE run.n = 0
    <3>1. End = size /\ Total = i
      BY <2>2 DEF End, Total, Open
    <3>2. Flush(run, Rest, size) = Fresh(0)
      BY <2>2 DEF Flush, Rest
    <3>3. buf' = buf
      BY <1>1, <3>2, OverNothing, PackEndIs
    <3> QED
      BY <2>1, <3>1, <3>3
  <2>3. CASE run.n > 0
    <3>1. End = run.at /\ Total = run.from
      BY <1>2, <2>3 DEF End, Total, Open
    <3>2. PICK g \in 1 .. 256 : g = run.n
      BY <2>3, RunFits
    <3>3. PICK n \in Nat : n = Rest /\ n > 0 /\ Aligned(n) = 8 * g
      BY <1>2, <2>3, <3>2, RestIs
    <3>4. run.at + 2 + 8 * g = size /\ run.from + 8 * g = i
      BY <2>3, <3>2, RunFits
    <3>5. PICK used \in Nat : used = size
      BY <1>1
    <3>6. PICK b \in [0 .. M - 1 -> Byte] : b = buf
      BY <1>1
    <3>7. PICK h : h = Over(Flush(run, n, used), b)
      OBVIOUS
    <3>8. h \in [0 .. M - 1 -> Byte] /\ WithRun(h, b, n, g)
      <4>1. run.at + 2 + 8 * g <= used /\ used <= M
        BY <1>1, <1>6, <3>4, <3>5
      <4> QED
        BY <3>3, <3>7, <4>1, FlushIs
    <3>9. n = 8 * g \/ run.from + n >= Len(src)
      <4> DEFINE m == run.n
                 s == run.from
      <4>1. n = IF m <= 1 THEN 8 * m ELSE Len(src) - s
        BY <3>3 DEF Rest
      <4>2. m = g /\ s \in Nat
        BY <1>1, <3>2
      <4> HIDE DEF m, s
      <4>3. n = 8 * g \/ s + n >= Len(src)
        BY <1>1, <4>1, <4>2
      <4> QED
        BY <4>3 DEF s
    <3>10. Stands(src, b, run.at, run.from, 0, 0)
      BY <2>1, <3>1, <3>6
    <3>11. Stands(src, h, run.at + 2 + 8 * g, run.from + 8 * g, 0, 0)
      BY <3>8, <3>9, <3>10, RunWritten
    <3>12. buf' = h
      BY <3>3, <3>5, <3>6, <3>7, PackEndIs
    <3> QED
      BY <3>4, <3>11, <3>12
  <2> QED
    BY <1>1, <2>2, <2>3
<1> QED
  BY <1>2, <1>3, <1>4, <1>5, <1>6 DEF Coded

(* What is at the place where unpack reads                                 *)
LEMMA AtIs ==
  ASSUME Types, RunPlaces, Coded, phase = "packed", pos < size
  PROVE  /\ pos \in 0 .. size - 1 /\ osize \in Nat /\ AtPacked(pos) = buf[pos]
         /\ (buf[pos] = 255 => pos + 1 < size /\ AtPacked(pos + 1) = buf[pos + 1])
         /\ After(buf, pos) \in 0 .. size
         /\ Tells(src, buf, pos, osize)
         /\ Stands(src, buf, size, i, After(buf, pos), osize + Gain(buf, pos))
<1>1. size \in Nat /\ pos \in Nat /\ size <= MaxSize
  BY DEF Types, RunPlaces
<1>2. Stands(src, buf, size, i, pos, osize)
  BY <1>1 DEF Coded, End, Total, Open
<1>3. PICK e \in Nat, x \in Nat : e = size /\ x = pos
  BY <1>1
<1>4. PICK s : \E f : s = src /\ f = buf
  OBVIOUS
<1>5. PICK f : s = src /\ f = buf
  BY <1>4
<1>6. x # e
  BY <1>1, <1>3
<1>7. /\ x \in 0 .. e - 1 /\ osize \in Nat /\ (f[x] = 255 => x + 1 < e)
      /\ After(f, x) \in 0 .. e
      /\ Tells(s, f, x, osize)
      /\ Stands(s, f, e, i, After(f, x), osize + Gain(f, x))
  BY <1>2, <1>3, <1>5, <1>6, StandsOnward
<1>8. AtPacked(x) = f[x] /\ (x + 1 < e => AtPacked(x + 1) = f[x + 1])
  <2>1. x + 1 \in Nat
    OBVIOUS
  <2> QED
    BY <1>3, <1>5, <1>7, <2>1 DEF AtPacked
<1> QED
  BY <1>3, <1>5, <1>7, <1>8

(* What is read is put behind what had been read                           *)
LEMMA ReadOn ==
  ASSUME Types, RunPlaces, Coded, Read, phase = "packed", pos < size,
         NEW n \in Nat, n = Gain(buf, pos), NEW w,
         \A p \in DOMAIN w : p \in Nat /\ p >= osize,
         osize + n <= room =>
           /\ DOMAIN w = osize .. osize + n - 1
           /\ \A b \in 0 .. n - 1 : w[osize + b] = Told(buf, pos, b),
         out' = Over(w, out), room' = room, src' = src, osize' = osize + n
  PROVE  Read'
<1>1. osize \in Nat /\ room \in Nat /\ out \in [0 .. room - 1 -> Byte] /\ Len(src) \in Nat
  BY MaxSizeIs DEF Types
<1>2. SUFFICES ASSUME osize + n <= room, NEW p \in 1 .. Len(src), p <= osize + n
               PROVE  Over(w, out)[p - 1] = src[p]
  BY DEF Read
<1>3. p \in Nat /\ p - 1 \in Nat /\ p - 1 \in DOMAIN out
  BY <1>1, <1>2
<1>6. /\ \A q \in DOMAIN w : Over(w, out)[q] = w[q]
      /\ \A q \in DOMAIN out : q \notin DOMAIN w => Over(w, out)[q] = out[q]
  BY OverIs
<1>4. CASE p <= osize
  <2>1. p - 1 \notin DOMAIN w
    BY <1>1, <1>3, <1>4
  <2>2. Over(w, out)[p - 1] = out[p - 1]
    BY <1>3, <1>6, <2>1
  <2>3. osize <= room
    BY <1>1, <1>2
  <2> QED
    BY <1>4, <2>2, <2>3 DEF Read
<1>5. CASE p > osize
  <2>1. PICK b \in 0 .. n - 1 : p = osize + b + 1
    <3>1. p - 1 - osize \in 0 .. n - 1 /\ p = osize + (p - 1 - osize) + 1
      BY <1>1, <1>2, <1>3, <1>5
    <3> QED
      BY <3>1
  <2>2. p - 1 = osize + b /\ osize + b \in osize .. osize + n - 1 /\ osize + b < Len(src)
    BY <1>1, <2>1
  <2>3. Over(w, out)[p - 1] = w[p - 1]
    BY <1>2, <1>6, <2>2
  <2>4. src[osize + b + 1] = Told(buf, pos, b)
    BY <2>2, AtIs DEF Tells
  <2> QED
    BY <1>2, <2>1, <2>2, <2>3, <2>4
<1> QED
  BY <1>1, <1>3, <1>4, <1>5

LEMMA UnpackRunCoded ==
  ASSUME Types, RunPlaces, Coded, Read, UnpackRun
  PROVE  Coded' /\ Read'
<1>1. phase = "packed" /\ pos < size /\ AtPacked(pos) = 255 /\ UNCHANGED <<source, packing>>
  BY DEF UnpackRun
<1>2. /\ pos \in 0 .. size - 1 /\ osize \in Nat /\ AtPacked(pos) = buf[pos]
      /\ (buf[pos] = 255 => pos + 1 < size /\ AtPacked(pos + 1) = buf[pos + 1])
      /\ After(buf, pos) \in 0 .. size
      /\ Tells(src, buf, pos, osize)
      /\ Stands(src, buf, size, i, After(buf, pos), osize + Gain(buf, pos))
  BY <1>1, AtIs
<1>3. /\ size \in Nat /\ pos \in Nat /\ room \in Nat /\ MaxSize \in Nat /\ size <= MaxSize
      /\ buf \in [0 .. MaxSize - 1 -> Byte]
  BY <1>1, MaxSizeIs DEF Types, RunPlaces
<1>4. PICK n \in Nat : n = Gain(buf, pos) /\ n = (AtPacked(pos + 1) + 1) * 8
  <2>1. AtPacked(pos + 1) \in Nat
    <3>1. PICK q \in Nat : q = pos + 1
      BY <1>3
    <3>2. AtPacked(q) \in Byte
      BY <1>1, PackedIs
    <3> QED
      BY <3>1, <3>2 DEF Byte
  <2>2. Gain(buf, pos) = 8 * (AtPacked(pos + 1) + 1)
    BY <1>1, <1>2 DEF Gain
  <2>3. \A k \in Nat : 8 * (k + 1) = (k + 1) * 8 /\ 8 * (k + 1) \in Nat
    OBVIOUS
  <2> QED
    BY <2>1, <2>2, <2>3
<1>5. After(buf, pos) = pos + 2 + n
  BY <1>1, <1>2, <1>4 DEF After
<1>6. ~ RunCut
  <2>1. pos + 2 + n <= size
    BY <1>2, <1>5
  <2>2. ~ (size - (pos + 1) < n + 1)
    BY <1>3, <2>1
  <2> QED
    BY <1>4, <2>2 DEF RunCut
<1>7. PICK w : ReadsRun(n, w)
  <2>1. PICK k \in Nat : \E w : ReadsRun(k, w)
    BY <1>6, UnpackRunIs
  <2>2. k = n
    BY <1>4, <2>1 DEF ReadsRun
  <2> QED
    BY <2>1, <2>2
<1>8. /\ DOMAIN w = IF osize + n > room THEN {} ELSE osize .. osize + n - 1
      /\ \A p \in DOMAIN w : w[p] = AtPacked(pos + 2 + (p - osize))
      /\ out' = Over(w, out)
      /\ pos' = pos + 2 + n /\ osize' = osize + n /\ phase' = phase /\ room' = room
  BY <1>7 DEF ReadsRun
<1>9. src' = src /\ buf' = buf /\ size' = size /\ i' = i /\ run' = run /\ MaxSize' = MaxSize
  BY <1>1, MaxSizeStays DEF source, packing
<1>10. \A p \in DOMAIN w : p \in Nat /\ p >= osize
  <2>1. \A p \in osize .. osize + n - 1 : p \in Nat /\ p >= osize
    BY <1>2
  <2> QED
    BY <1>8, <2>1
<1>11. ASSUME osize + n <= room
       PROVE  /\ DOMAIN w = osize .. osize + n - 1
              /\ \A b \in 0 .. n - 1 : w[osize + b] = Told(buf, pos, b)
  <2>1. DOMAIN w = osize .. osize + n - 1
    BY <1>2, <1>3, <1>8, <1>11
  <2>2. ASSUME NEW b \in 0 .. n - 1 PROVE w[osize + b] = Told(buf, pos, b)
    <3>1. osize + b \in DOMAIN w /\ (osize + b) - osize = b
      BY <1>2, <2>1
    <3>2. w[osize + b] = AtPacked(pos + 2 + b)
      BY <1>8, <3>1
    <3>3. pos + 2 + b \in Nat /\ pos + 2 + b < size
      BY <1>2, <1>3, <1>5
    <3>4. AtPacked(pos + 2 + b) = buf[pos + 2 + b]
      BY <3>3 DEF AtPacked
    <3> QED
      BY <1>1, <1>2, <3>2, <3>4 DEF Told
  <2> QED
    BY <2>1, <2>2
<1>12. Read'
  BY <1>1, <1>4, <1>8, <1>9, <1>10, <1>11, ReadOn
<1>13. Stands(src, buf, size, i, pos', osize')
  BY <1>2, <1>4, <1>5, <1>8
<1>14. End' = size' /\ Total' = i'
  BY <1>1, <1>8 DEF End, Total, Open
<1> QED
  BY <1>1, <1>8, <1>9, <1>12, <1>13, <1>14 DEF Coded

LEMMA UnpackGroupCoded ==
  ASSUME Types, RunPlaces, Coded, Read, UnpackGroup
  PROVE  Coded' /\ Read'
<1>1. phase = "packed" /\ pos < size /\ AtPacked(pos) # 255 /\ UNCHANGED <<source, packing>>
  BY DEF UnpackGroup
<1>2. /\ pos \in 0 .. size - 1 /\ osize \in Nat /\ AtPacked(pos) = buf[pos]
      /\ After(buf, pos) \in 0 .. size
      /\ Tells(src, buf, pos, osize)
      /\ Stands(src, buf, size, i, After(buf, pos), osize + Gain(buf, pos))
  BY <1>1, AtIs
<1>3. /\ size \in Nat /\ pos \in Nat /\ room \in Nat /\ MaxSize \in Nat /\ size <= MaxSize
  BY <1>1, MaxSizeIs DEF Types, RunPlaces
<1>4. PICK h \in Byte : h = buf[pos] /\ h = AtPacked(pos)
  BY <1>1, <1>2, <1>3, PackedIs
<1>5. /\ Gain(buf, pos) = 8 /\ After(buf, pos) = pos + 1 + Ones(h, 8)
      /\ h # 255
  BY <1>1, <1>2, <1>4 DEF Gain, After
<1>6. Place(h, 8) = After(buf, pos)
  BY <1>5 DEF Place
<1>7. \A b \in 0 .. 7 : Bit(h, b) = 1 => Place(h, b) \in Nat /\ Place(h, b) < size
  <2>1. \A b \in 0 .. 8 : Place(h, b) \in Nat
    BY PlaceIs
  <2>2. \A b \in 0 .. 7 : Bit(h, b) = 1 => Place(h, b) < Place(h, 8)
    BY PlaceIs
  <2>3. Place(h, 8) <= size
    BY <1>2, <1>6
  <2>4. Place(h, 8) \in Nat /\ \A b \in 0 .. 7 : Place(h, b) \in Nat
    BY <2>1
  <2> QED
    BY <1>3, <2>2, <2>3, <2>4
<1>8. ~ GroupCut
  <2>1. \A b \in 0 .. 7 : Bit(h, b) = 1 => ~ (Place(h, b) > size)
    BY <1>3, <1>7
  <2> QED
    BY <1>4, <2>1 DEF GroupCut
<1>9. PICK w : ReadsGroup(h, w)
  <2>1. PICK k \in Byte : \E w : ReadsGroup(k, w)
    BY <1>8, UnpackGroupIs
  <2>2. k = h
    BY <1>4, <2>1 DEF ReadsGroup
  <2> QED
    BY <2>1, <2>2
<1>10. /\ DOMAIN w = {q \in osize .. osize + 7 : q < room}
       /\ \A p \in DOMAIN w :
            w[p] = IF Bit(h, p - osize) = 1 THEN AtPacked(Place(h, p - osize)) ELSE 0
       /\ out' = Over(w, out)
       /\ pos' = Place(h, 8) /\ osize' = osize + 8 /\ phase' = phase /\ room' = room
  BY <1>9 DEF ReadsGroup
<1>11. src' = src /\ buf' = buf /\ size' = size /\ i' = i /\ run' = run /\ MaxSize' = MaxSize
  BY <1>1, MaxSizeStays DEF source, packing
<1>12. \A p \in DOMAIN w : p \in Nat /\ p >= osize
  <2>1. \A p \in osize .. osize + 7 : p \in Nat /\ p >= osize
    BY <1>2
  <2> QED
    BY <1>10, <2>1
<1>13. PICK n \in Nat : n = 8
  OBVIOUS
<1>14. ASSUME osize + n <= room
       PROVE  /\ DOMAIN w = osize .. osize + n - 1
              /\ \A b \in 0 .. n - 1 : w[osize + b] = Told(buf, pos, b)
  <2>1. DOMAIN w = osize .. osize + n - 1
    <3>1. \A q : q \in osize .. osize + n - 1 <=> q \in osize .. osize + 7 /\ q < room
      BY <1>2, <1>3, <1>13, <1>14
    <3> QED
      BY <1>10, <3>1
  <2>2. ASSUME NEW b \in 0 .. n - 1 PROVE w[osize + b] = Told(buf, pos, b)
    <3>1. osize + b \in DOMAIN w /\ (osize + b) - osize = b /\ b \in 0 .. 7
      BY <1>2, <1>13, <2>1
    <3>2. w[osize + b] = IF Bit(h, b) = 1 THEN AtPacked(Place(h, b)) ELSE 0
      BY <1>10, <3>1
    <3>3. Bit(h, b) = 1 => AtPacked(Place(h, b)) = buf[Place(h, b)]
      BY <1>7, <3>1 DEF AtPacked
    <3>4. Place(h, b) = pos + 1 + Ones(h, b)
      BY DEF Place
    <3> QED
      BY <1>4, <1>5, <3>2, <3>3, <3>4 DEF Told
  <2> QED
    BY <2>1, <2>2
<1>15. Read'
  <2>1. /\ n = Gain(buf, pos) /\ osize' = osize + n /\ room' = room /\ src' = src
        /\ out' = Over(w, out)
    BY <1>5, <1>10, <1>11, <1>13
  <2> QED
    BY <1>1, <1>12, <1>14, <2>1, ReadOn
<1>16. Stands(src, buf, size, i, pos', osize')
  BY <1>2, <1>5, <1>6, <1>10
<1>17. End' = size' /\ Total' = i'
  BY <1>1, <1>10 DEF End, Total, Open
<1> QED
  BY <1>1, <1>10, <1>11, <1>15, <1>16, <1>17 DEF Coded

LEMMA UnpackEndCoded ==
  ASSUME Types, RunPlaces, Coded, Read, UnpackEnd
  PROVE  Coded' /\ Read'
<1>1. phase = "packed" /\ pos >= size /\ UNCHANGED <<source, packing>>
  BY DEF UnpackEnd
<1>2. src' = src /\ buf' = buf /\ size' = size /\ i' = i
  BY <1>1 DEF source, packing
<1>3. size \in Nat /\ pos \in Nat /\ room \in Nat /\ osize \in Nat /\ size <= MaxSize
  BY <1>1 DEF Types, RunPlaces
<1>4. Stands(src, buf, size, i, pos, osize)
  BY <1>1, <1>3 DEF Coded, End, Total, Open
<1>5. /\ pos = size => osize = i
      /\ pos \in 0 .. size
      /\ Stands(src, buf, size, i, 0, 0)
  BY <1>4, StandsEnds
<1>6. osize = i
  BY <1>1, <1>3, <1>5
<1>7. CASE osize > room
  <2>1. pos' = 0 /\ osize' = 0 /\ phase' = "packed"
    BY <1>1, <1>7 DEF UnpackEnd
  <2>2. End' = size' /\ Total' = i'
    BY <2>1 DEF End, Total, Open
  <2>3. Coded'
    BY <1>2, <1>5, <2>1, <2>2 DEF Coded
  <2>4. Read'
    <3>1. \A p \in 1 .. Len(src)' : ~ (p <= osize')
      BY <2>1
    <3> QED
      BY <3>1 DEF Read
  <2> QED
    BY <2>3, <2>4
<1>8. CASE ~ (osize > room)
  <2>1. phase' = "done" /\ out' = out /\ room' = room /\ pos' = pos /\ osize' = osize
    BY <1>8 DEF UnpackEnd, unpacking
  <2>2. End' = size' /\ Total' = i'
    BY <2>1 DEF End, Total, Open
  <2>3. osize <= room
    BY <1>3, <1>8
  <2>4. Coded'
    BY <1>2, <1>4, <1>6, <2>1, <2>2, <2>3 DEF Coded
  <2>5. Read'
    <3>1. Read' = (osize <= room => \A p \in 1 .. Len(src) : p <= osize => out[p - 1] = src[p])
      BY <1>2, <2>1 DEF Read
    <3> QED
      BY <3>1 DEF Read
  <2> QED
    BY <2>4, <2>5
<1> QED
  BY <1>7, <1>8

LEMMA CodedStep == Sound /\ Coded /\ Read /\ [Next]_vars => Coded' /\ Read'
<1> SUFFICES ASSUME Sound, Coded, Read, [Next]_vars PROVE Coded' /\ Read'
  OBVIOUS
<1>0. Types /\ RunPlaces
  BY DEF Sound
<1>1. CASE UNCHANGED vars
  <2>1. MaxSize' = MaxSize
    BY <1>1, MaxSizeStays DEF vars, source
  <2>2. End' = End /\ Total' = Total
    BY <1>1 DEF End, Total, Open, vars, packing
  <2>3. Coded'
    BY <1>1, <2>1, <2>2 DEF Coded, vars, source, packing, unpacking
  <2>4. Read' = Read
    BY <1>1 DEF Read, vars, source, unpacking
  <2> QED
    BY <2>3, <2>4
<1> QED
  BY <1>0, <1>1, PackGroupCoded, PackEndCoded, UnpackRunCoded, UnpackGroupCoded, UnpackEndCoded
  DEF Next

(* The packed string is sound at every step, and what was read of it is    *)
(* the source                                                              *)
LEMMA AlwaysCoded == Spec => [](Sound /\ Coded /\ Read)
  BY InitSound, SoundStep, InitCoded, CodedStep, PTL DEF Spec

(* Unpack never meets an invalid string or reads beyond its end when it is *)
(* given what pack answered (sproto_pack, sproto_unpack).                  *)
THEOREM AlwaysStreamSound == Spec => []StreamSound
<1>1. Sound /\ Coded => StreamSound
  <2> SUFFICES ASSUME Sound, Coded PROVE StreamSound
    OBVIOUS
  <2>1. phase # "invalid" /\ size \in Nat /\ pos \in Nat
    BY DEF Sound, Types, Coded
  <2>2. CASE size <= MaxSize /\ phase # "pack"
    <3>1. Stands(src, buf, size, i, pos, osize)
      BY <2>2 DEF Coded, End, Total, Open
    <3>2. pos \in 0 .. size
      BY <3>1, StandsEnds
    <3> QED
      BY <2>1, <3>2 DEF StreamSound
  <2>3. CASE phase = "pack"
    BY <2>1, <2>3 DEF Coded, StreamSound
  <2>4. CASE phase = "error"
    BY <2>1, <2>4 DEF Coded, StreamSound
  <2> QED
    BY <2>1, <2>2, <2>3, <2>4 DEF Sound, Types, RunPlaces
<1> QED
  BY <1>1, AlwaysCoded, PTL

(* Whatever the source, the run lengths and the size of the first buffer,  *)
(* unpacking what was packed gives the source, filled up to whole groups   *)
(* (sproto_pack, sproto_unpack, lpack, lunpack).                           *)
THEOREM AlwaysRoundTrip == Spec => []RoundTrip
<1>1. Sound /\ Coded /\ Read => RoundTrip
  <2> SUFFICES ASSUME Sound, Coded, Read, phase = "done"
               PROVE  /\ osize = Aligned(Len(src))
                      /\ \A p \in 1 .. Len(src) : out[p - 1] = src[p]
    BY DEF RoundTrip
  <2>1. osize = i /\ osize <= room
    BY DEF Coded
  <2>2. /\ i \in Nat /\ Len(src) \in Nat
        /\ i % 8 = 0 /\ i < Len(src) + 8 /\ i >= Len(src)
    BY MaxSizeIs DEF Sound, Types, RunPlaces
  <2>3. Aligned(Len(src)) = i
    <3>1. \A n, l \in Nat : n % 8 = 0 /\ n < l + 8 /\ n >= l => ((l + 7) \div 8) * 8 = n
      OBVIOUS
    <3> QED
      BY <2>2, <3>1 DEF Aligned
  <2>4. \A p \in 1 .. Len(src) : p <= osize
    BY <2>1, <2>2
  <2> QED
    BY <2>1, <2>3, <2>4 DEF Read
<1> QED
  BY <1>1, AlwaysCoded, PTL
=============================================================================
