------------------------------ MODULE LuaTable ------------------------------
(* A Lua table (ltable.c): an array part for the keys 1 .. n and a hash    *)
(* part, a chained scatter table with Brent's variation whose free places  *)
(* are handed out downwards and whose keys stay when their value goes,     *)
(* until a rehash sizes both parts anew.  Next to it the traversal with    *)
(* next, the border, and the collector, which makes the keys of empty      *)
(* entries dead.                                                           *)
EXTENDS Integers, Sequences, FiniteSets, FiniteSetsExt

CONSTANTS
  Ints,       \* the number keys, all integers
  Strings,    \* the string keys
  Objects,    \* the keys hashed by address: tables, functions, userdata
  Values,     \* the values that are stored at each key
  Nil,
  Hash,       \* hash of a key: of the string, the address, or the number's words
  NewSizes,   \* sizes the constructor asks for each part
  MaxBits,    \* MAXBITS: no part has more than twoto(MaxBits) places
  MaxInt      \* MAX_INT, the bound of the search for a border

Keys == Ints \cup Strings \cup Objects
Collectable == Strings \cup Objects

(* twoto *)
TwoTo[lg \in 0 .. MaxBits] == IF lg = 0 THEN 1 ELSE 2 * TwoTo[lg - 1]

(* All the keys fit into one part, so that no table overflows.             *)
ASSUME KeysAssumption ==
  /\ Ints \subseteq Int /\ Collectable \cap Int = {} /\ Strings \cap Objects = {}
  /\ Nil \notin Keys /\ \A k \in Keys : Nil \notin Values[k]
  /\ Hash \in [Keys -> Nat] /\ (0 \in Ints => Hash[0] = 0)
  /\ MaxBits \in Nat /\ MaxInt \in Nat \ {0}
  /\ NewSizes \subseteq 0 .. TwoTo[MaxBits]
  /\ IsFiniteSet(Keys) /\ Cardinality(Keys) <= TwoTo[MaxBits]

VARIABLES
  t,       \* the table: array, node vector (empty for dummynode), lastfree
  on,      \* a traversal is under way
  at,      \* the key that it has got to, Nil at its beginning
  seen,    \* the keys it has answered
  owed     \* the keys that have had a value since it began

vars == <<t, on, at, seen, owed>>

EmptyNode == [key |-> Nil, dead |-> FALSE, val |-> Nil, next |-> -1]

(* F(v), with v evaluated once.                                            *)
With(v, F(_)) == CHOOSE r \in {F(x) : x \in {v}} : TRUE

SizeArray(tb) == Len(tb.array)
SizeNode(tb) == Cardinality(DOMAIN tb.node)

(* ceillog2 *)
CeilLog2(n) == Min({lg \in 0 .. MaxBits : TwoTo[lg] >= n})
-----------------------------------------------------------------------------
(* mainposition: strings by the low bits of their hash, the rest modulo an *)
(* odd size.                                                               *)
Odd(size) == IF size = 1 THEN 1 ELSE size - 1

MainPosition(tb, k) ==
  Hash[k] % (IF k \in Strings THEN SizeNode(tb) ELSE Odd(SizeNode(tb)))

InArray(tb, k) == k \in Ints /\ k \in 1 .. SizeArray(tb)

(* The first of the nodes S on the chain from i on, or -1 at its end.      *)
Search(tb, i, S) ==
  LET from[n \in 0 .. SizeNode(tb)] ==
        [j \in DOMAIN tb.node |->
           IF j \in S THEN j
           ELSE IF n = 0 \/ tb.node[j].next = -1 THEN -1 ELSE from[n - 1][tb.node[j].next]]
  IN  from[SizeNode(tb)][i]

Holding(tb, k) == {j \in DOMAIN tb.node : tb.node[j].key = k}

(* The node where a key is alive, and the one that holds it, dead or not.  *)
Node(tb, k) ==
  IF SizeNode(tb) = 0 THEN -1
  ELSE Search(tb, MainPosition(tb, k), Holding(tb, k) \ {j \in DOMAIN tb.node : tb.node[j].dead})

(* Mutant: a dead key is nobody's.                                         *)
HolderAlive(tb, k) == Node(tb, k)

Holder(tb, k) ==
  IF SizeNode(tb) = 0 THEN -1 ELSE Search(tb, MainPosition(tb, k), Holding(tb, k))

(* luaH_get, luaH_getnum, luaH_getstr                                      *)
Get(tb, k) ==
  IF InArray(tb, k) THEN tb.array[k]
  ELSE IF k \notin Keys THEN Nil
  ELSE LET i == Node(tb, k) IN IF i = -1 THEN Nil ELSE tb.node[i].val
-----------------------------------------------------------------------------
(* getfreepos: only a node that never had a key is free; lastfree -1 says  *)
(* that there was none.                                                    *)
FreePositions(tb) == {i \in 0 .. tb.lastfree - 1 : tb.node[i].key = Nil}

NewKey(k) == [EmptyNode EXCEPT !.key = k]

(* Mutant: the chain of the node that is taken over is dropped.            *)
InsertUnlinked(tb, k) ==
  LET mp == MainPosition(tb, k)
      n == Max(FreePositions(tb))
      othern == MainPosition(tb, tb.node[mp].key)
      previous == Search(tb, othern, {j \in DOMAIN tb.node : tb.node[j].next = mp})
  IN  IF SizeNode(tb) > 0 /\ tb.node[mp].val = Nil
      THEN [tb EXCEPT !.node[mp] = NewKey(k)]
      ELSE IF SizeNode(tb) = 0 \/ FreePositions(tb) = {}
      THEN [tb EXCEPT !.lastfree = -1]
      ELSE IF othern # mp
      THEN [tb EXCEPT !.lastfree = n, !.node[previous].next = n,
                      !.node[n] = tb.node[mp], !.node[mp] = NewKey(k)]
      ELSE [tb EXCEPT !.lastfree = n, !.node[mp].next = n,
                      !.node[n] = [NewKey(k) EXCEPT !.next = tb.node[mp].next]]

(* newkey up to the call of rehash.                                        *)
Insert(tb, k) ==
  LET mp == MainPosition(tb, k)
      n == Max(FreePositions(tb))
      othern == MainPosition(tb, tb.node[mp].key)
      previous == Search(tb, othern, {j \in DOMAIN tb.node : tb.node[j].next = mp})
  IN  IF SizeNode(tb) > 0 /\ tb.node[mp].val = Nil
      THEN [tb EXCEPT !.node[mp] = [NewKey(k) EXCEPT !.next = tb.node[mp].next]]
      ELSE IF SizeNode(tb) = 0 \/ FreePositions(tb) = {}
      THEN [tb EXCEPT !.lastfree = -1]
      ELSE IF othern # mp
      THEN [tb EXCEPT !.lastfree = n, !.node[previous].next = n,
                      !.node[n] = tb.node[mp], !.node[mp] = NewKey(k)]
      ELSE [tb EXCEPT !.lastfree = n, !.node[mp].next = n,
                      !.node[n] = [NewKey(k) EXCEPT !.next = tb.node[mp].next]]

Placed(tb) == tb.lastfree >= 0

Assign(tb, k, v) ==
  IF InArray(tb, k) THEN [tb EXCEPT !.array[k] = v]
  ELSE [tb EXCEPT !.node[Node(tb, k)].val = v]

(* luaH_set into a table that has a place for the key, with the value.     *)
Put(tb, k, v) ==
  IF ~Placed(tb) THEN tb
  ELSE IF InArray(tb, k) \/ Node(tb, k) # -1 THEN Assign(tb, k, v)
  ELSE LET new == Insert(tb, k) IN IF Placed(new) THEN Assign(new, k, v) ELSE new
-----------------------------------------------------------------------------
(* rehash *)

Slice(lg) == {i \in 1 .. TwoTo[lg] : i > TwoTo[lg] \div 2}

(* Mutant: the nodes are not counted.                                      *)
NumsOfArray(tb, ek) ==
  [lg \in 0 .. MaxBits |->
     Cardinality({i \in Slice(lg) : i <= SizeArray(tb) /\ tb.array[i] # Nil})
     + Cardinality({ek} \cap Slice(lg))]

(* nums: candidates for the array part, by the slice they are in.          *)
Nums(tb, ek) ==
  [lg \in 0 .. MaxBits |->
     Cardinality({i \in Slice(lg) : i <= SizeArray(tb) /\ tb.array[i] # Nil})
     + Cardinality({i \in DOMAIN tb.node : tb.node[i].val # Nil /\ tb.node[i].key \in Slice(lg)})
     + Cardinality({ek} \cap Slice(lg))]

UpTo(nums, lg) ==
  LET sum[i \in 0 .. lg] == IF i = 0 THEN nums[0] ELSE sum[i - 1] + nums[i]
  IN  sum[lg]

(* computesizes: the largest size of which more than half would be used.   *)
HalfUsed(nums) ==
  {lg \in 0 .. MaxBits :
     /\ TwoTo[lg] \div 2 < UpTo(nums, MaxBits)
     /\ nums[lg] > 0 /\ UpTo(nums, lg) > TwoTo[lg] \div 2}

NewArraySize(nums) == IF HalfUsed(nums) = {} THEN 0 ELSE TwoTo[Max(HalfUsed(nums))]

ToArray(nums) == IF HalfUsed(nums) = {} THEN 0 ELSE UpTo(nums, Max(HalfUsed(nums)))

InUse(tb) ==
  Cardinality({i \in 1 .. SizeArray(tb) : tb.array[i] # Nil})
  + Cardinality({i \in DOMAIN tb.node : tb.node[i].val # Nil})

(* setarrayvector and setnodevector *)
Sized(array, nasize, nhsize) ==
  LET size == IF nhsize = 0 THEN 0 ELSE TwoTo[CeilLog2(nhsize)]
  IN  [array |-> [i \in 1 .. nasize |-> IF i <= Len(array) THEN array[i] ELSE Nil],
       node |-> [i \in 0 .. size - 1 |-> EmptyNode], lastfree |-> size]

(* Mutant: the end of the array that vanishes is forgotten.                *)
MovedNodes(tb, nasize) ==
  [i \in 1 .. SizeNode(tb) |->
     [key |-> tb.node[SizeNode(tb) - i].key, val |-> tb.node[SizeNode(tb) - i].val]]

(* What resize puts in again, if it has a value: the end of the array that *)
(* vanishes, then the nodes from the last to the first.                    *)
Moved(tb, nasize) ==
  LET all == SizeArray(tb) + SizeNode(tb)
  IN  [i \in 1 .. all |->
         IF i > SizeArray(tb)
         THEN [key |-> tb.node[all - i].key, val |-> tb.node[all - i].val]
         ELSE [key |-> i, val |-> IF i > nasize THEN tb.array[i] ELSE Nil]]

Resize(tb, nasize, nhsize) ==
  LET moved == Moved(tb, nasize)
      into[n \in 0 .. Len(moved)] ==
        IF n = 0 THEN Sized(tb.array, nasize, nhsize)
        ELSE IF moved[n].val = Nil THEN into[n - 1]
        ELSE LET new == into[n - 1] IN Put(new, moved[n].key, moved[n].val)
  IN  into[Len(moved)]

(* Mutant: no room for the key itself.                                     *)
RehashFull(tb, ek) ==
  LET nums == Nums(tb, ek)
  IN  Resize(tb, NewArraySize(nums), InUse(tb) - ToArray(nums))

Rehash(tb, ek) ==
  LET nums == Nums(tb, ek)
  IN  Resize(tb, NewArraySize(nums), InUse(tb) + 1 - ToArray(nums))

(* luaH_set with the assignment of the value that follows it.              *)
SetValue(tb, k, v) ==
  LET new == Put(tb, k, v)
      big == Rehash(tb, k)
  IN  IF Placed(new) THEN new ELSE Put(big, k, v)
-----------------------------------------------------------------------------
(* luaH_next: array elements are numbered first, then the nodes.           *)
FindIndex(tb, k) ==
  IF k = Nil THEN -1 ELSE IF InArray(tb, k) THEN k - 1 ELSE SizeArray(tb) + Holder(tb, k)

ValueAt(tb, i) == IF i < SizeArray(tb) THEN tb.array[i + 1] ELSE tb.node[i - SizeArray(tb)].val

KeyAt(tb, i) == IF i < SizeArray(tb) THEN i + 1 ELSE tb.node[i - SizeArray(tb)].key

Following(tb, k) ==
  {i \in FindIndex(tb, k) + 1 .. SizeArray(tb) + SizeNode(tb) - 1 : ValueAt(tb, i) # Nil}
-----------------------------------------------------------------------------
(* luaH_getn: a binary search in the array part when its last element is   *)
(* nil, else unbound_search, which doubles its stride until it overflows.  *)
Between(tb, lo, hi) ==
  LET within[n \in 0 .. hi - lo] ==
        IF n = 0 THEN <<lo, hi>>
        ELSE LET i == within[n - 1][1]
                 j == within[n - 1][2]
                 m == (i + j) \div 2
             IN  IF j - i <= 1 THEN <<i, j>>
                 ELSE IF Get(tb, m) = Nil THEN <<i, m>> ELSE <<m, j>>
  IN  within[hi - lo][1]

LinearSearch(tb) == Min({i \in 1 .. Cardinality(Ints) + 1 : Get(tb, i) = Nil}) - 1

UnboundSearch(tb, from) ==
  LET double[n \in 0 .. MaxInt] ==
        IF n = 0 THEN <<from, from + 1>>
        ELSE LET j == double[n - 1][2]
             IN  IF Get(tb, j) = Nil \/ 2 * j > MaxInt THEN double[n - 1] ELSE <<j, 2 * j>>
      last == double[MaxInt]
  IN  IF Get(tb, last[2]) = Nil THEN Between(tb, last[1], last[2]) ELSE LinearSearch(tb)

(* Mutant: the nodes are not asked for what follows the array.             *)
GetNInArray(tb) ==
  LET j == SizeArray(tb)
  IN  IF j > 0 /\ tb.array[j] = Nil THEN Between(tb, 0, j) ELSE j

GetN(tb) ==
  LET j == SizeArray(tb)
  IN  IF j > 0 /\ tb.array[j] = Nil THEN Between(tb, 0, j)
      ELSE IF SizeNode(tb) = 0 THEN j ELSE UnboundSearch(tb, j)
-----------------------------------------------------------------------------
Init ==
  /\ \E narray, nhash \in NewSizes : t = Sized(<<>>, narray, nhash)
  /\ on = FALSE /\ at = Nil /\ seen = {} /\ owed = {}

(* t[k] = v, also nil; while a traversal is under way, only fields that    *)
(* have a value are assigned.                                              *)
Set ==
  \E k \in Keys : \E v \in Values[k] \cup {Nil} :
    /\ on => Get(t, k) # Nil
    /\ t' = SetValue(t, k, v)
    /\ owed' = IF v = Nil THEN owed \ {k} ELSE owed
    /\ UNCHANGED <<on, at, seen>>

(* luaH_resizearray, when a constructor stores a block of elements.        *)
ResizeArray ==
  /\ ~on
  /\ \E n \in NewSizes :
       /\ n > SizeArray(t)
       /\ t' = Resize(t, n, SizeNode(t))
  /\ UNCHANGED <<on, at, seen, owed>>

(* The collector meets the table: removeentry for every empty entry.       *)
Collect ==
  /\ t' = [t EXCEPT !.node = [i \in DOMAIN t.node |->
             [t.node[i] EXCEPT !.dead = @ \/ (t.node[i].val = Nil /\ t.node[i].key \in Collectable)]]]
  /\ UNCHANGED <<on, at, seen, owed>>

Begin ==
  /\ ~on /\ on' = TRUE /\ at' = Nil /\ seen' = {}
  /\ owed' = {k \in Keys : Get(t, k) # Nil}
  /\ UNCHANGED t

Visit ==
  /\ on /\ Following(t, at) # {}
  /\ at' = KeyAt(t, Min(Following(t, at)))
  /\ seen' = seen \cup {at'}
  /\ UNCHANGED <<t, on, owed>>

Finish ==
  /\ on /\ Following(t, at) = {}
  /\ on' = FALSE /\ at' = Nil /\ seen' = {} /\ owed' = {}
  /\ UNCHANGED t

Next == Set \/ ResizeArray \/ Collect \/ Begin \/ Visit \/ Finish

Spec == Init /\ [][Next]_vars
-----------------------------------------------------------------------------
Live(i) == t.node[i].val # Nil

(* Every live node is on the chain of its key, no chain is a cycle, and,   *)
(* as the head of ltable.c says, a live node that is not in its main       *)
(* position has been put off by one that is in its own.                    *)
ChainsSound ==
  \A i \in DOMAIN t.node :
    /\ Search(t, i, {}) = -1
    /\ Live(i) =>
         LET mp == MainPosition(t, t.node[i].key)
         IN  /\ Search(t, mp, {i}) = i
             /\ MainPosition(t, t.node[mp].key) = mp

(* A rehash makes room for everything it puts in again and for the key it  *)
(* was called for: no insertion inside it calls rehash again.              *)
RoomForAll == Placed(t)

(* next finds the key it is given, also one whose field was cleared during *)
(* the traversal and whose key the collector has made dead since, so that  *)
(* it never raises "invalid key to 'next'" (findindex).                    *)
KeyFound == on /\ at # Nil => InArray(t, at) \/ Holder(t, at) # -1

AtMost(S, n) == Cardinality({k \in S : k <= n})

(* Whatever key is to be inserted, a rehash gives the array part a size of *)
(* which at least half is used, with no larger power of two of which more  *)
(* than half is, and the node vector what is left, with the key (rehash,   *)
(* computesizes).  When exactly half is used either size will do: there    *)
(* the header of ltable.c (12-13) and its code (198) disagree.             *)
ArrayFits ==
  \A k \in {e \in Keys : Get(t, e) = Nil} :
    LET all == {e \in Keys : Get(t, e) # Nil} \cup {k}
        indices == {e \in all \cap Ints : e > 0}
    IN  With(Nums(t, k), LAMBDA nums :
          LET size == NewArraySize(nums)
          IN  /\ 2 * AtMost(indices, size) >= size
              /\ \A lg \in 0 .. MaxBits :
                   TwoTo[lg] > size => 2 * AtMost(indices, TwoTo[lg]) <= TwoTo[lg]
              /\ InUse(t) + 1 - ToArray(nums) = Cardinality(all \ 1 .. size))

(* The length operator answers a border: an index with a value, or 0, that *)
(* is followed by nil, wherever its searches cross from the array part to  *)
(* the nodes (luaH_getn, unbound_search).                                  *)
LengthIsBorder ==
  LET n == GetN(t) IN (n = 0 \/ Get(t, n) # Nil) /\ Get(t, n + 1) = Nil

(* Read through luaH_get, the table is the map, and its traversals answer  *)
(* every surviving key once, whatever was cleared on the way.              *)
Map == INSTANCE LuaMap WITH map <- [k \in Keys |-> Get(t, k)]

IsAMap == Map!Spec
=============================================================================
