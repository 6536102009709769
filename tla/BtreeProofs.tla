------------------------------ MODULE BtreeProofs ------------------------------
(***************************************************************************)
(* That inserting into the B-tree of btree/btree.c leaves a search tree,   *)
(* for every number of slots in a node and every set of keys.  The first   *)
(* part is about one node: the two searches for a length, the search for   *)
(* a position, the insertion of a key with its children and the split.     *)
(***************************************************************************)
EXTENDS Btree, NatFacts, SequenceTheorems

-----------------------------------------------------------------------------
(* Searching an array *)

\* The first number below m that is in P, or m.
LEMMA FirstOf ==
  ASSUME NEW m \in Nat, NEW P
  PROVE  \E len \in 0 .. m : (\A i \in 0 .. len - 1 : i \notin P) /\ (len < m => len \in P)
<1> DEFINE Found == \E len \in 0 .. m :
                      (\A i \in 0 .. len - 1 : i \notin P) /\ (len < m => len \in P)
           T == {l \in Nat : l <= m => (Found \/ \A i \in 0 .. l - 1 : i \notin P)}
<1>1. 0 \in T
  OBVIOUS
<1>2. ASSUME NEW l \in Nat, l \in T PROVE l + 1 \in T
  <2>1. SUFFICES ASSUME l + 1 <= m, ~Found PROVE \A i \in 0 .. (l + 1) - 1 : i \notin P
    OBVIOUS
  <2>2. \A i \in 0 .. l - 1 : i \notin P
    BY <1>2, <2>1
  <2>3. l \notin P
    BY <2>1, <2>2
  <2>4. QED
    BY <2>2, <2>3
<1>3. m \in T
  <2>1. \A l \in Nat : l \in T
    <3> HIDE DEF T
    <3>1. QED
      BY <1>1, <1>2, Induction
  <2>2. QED
    BY <2>1
<1>4. QED
  BY <1>3

\* len is the number of keys of n.
KeysEndAt(n, len) ==
    /\ len \in 0 .. M
    /\ \A i \in 0 .. len - 1 : n.key[i] # 0
    /\ len < M => n.key[len] = 0

\* KeyLen stops at the first zero key.
LEMMA KeyLenIs ==
  ASSUME NEW n
  PROVE  KeysEndAt(n, KeyLen(n)) /\ \A len : KeysEndAt(n, len) => len = KeyLen(n)
<1>1. M \in Nat
  BY MAssumption
<1>2. \E len \in 0 .. M : KeysEndAt(n, len)
  <2> DEFINE P == {i \in Slots : n.key[i] = 0}
  <2>1. PICK len \in 0 .. M : (\A i \in 0 .. len - 1 : i \notin P) /\ (len < M => len \in P)
    <3> HIDE DEF P
    <3>1. QED
      BY <1>1, FirstOf
  <2>2. KeysEndAt(n, len)
    BY <1>1, <2>1 DEF KeysEndAt, Slots
  <2>3. QED
    BY <2>2
<1>3. KeysEndAt(n, KeyLen(n))
  BY <1>2 DEF KeyLen, KeysEndAt
<1>4. ASSUME NEW len, KeysEndAt(n, len) PROVE len = KeyLen(n)
  <2> DEFINE l == KeyLen(n)
  <2>1. KeysEndAt(n, l)
    BY <1>3
  <2> HIDE DEF l
  <2>2. l \in 0 .. M /\ len \in 0 .. M
    BY <1>4, <2>1 DEF KeysEndAt
  <2>3. ~(l < len)
    BY <1>1, <1>4, <2>1, <2>2 DEF KeysEndAt
  <2>4. ~(len < l)
    BY <1>1, <1>4, <2>1, <2>2 DEF KeysEndAt
  <2>5. len = l
    BY <1>1, <2>2, <2>3, <2>4
  <2>6. QED
    BY <2>5 DEF l
<1>5. QED
  BY <1>3, <1>4

\* len is the number of children of n.
ChildrenEndAt(n, len) ==
    /\ len \in 0 .. M + 1
    /\ \A i \in 0 .. len - 1 : n.child[i] # NULL
    /\ len <= M => n.child[len] = NULL

\* ChildLen stops at the first null pointer.
LEMMA ChildLenIs ==
  ASSUME NEW n
  PROVE  ChildrenEndAt(n, ChildLen(n)) /\ \A len : ChildrenEndAt(n, len) => len = ChildLen(n)
<1> DEFINE C == M + 1
<1>1. M \in Nat /\ C \in Nat
  BY MAssumption
<1>2. \E len \in 0 .. M + 1 : ChildrenEndAt(n, len)
  <2> DEFINE P == {i \in Links : n.child[i] = NULL}
  <2>1. PICK len \in 0 .. C : (\A i \in 0 .. len - 1 : i \notin P) /\ (len < C => len \in P)
    <3> HIDE DEF P, C
    <3>1. QED
      BY <1>1, FirstOf
  <2>2. ChildrenEndAt(n, len)
    BY <1>1, <2>1 DEF ChildrenEndAt, Links
  <2>3. QED
    BY <2>2
<1>3. ChildrenEndAt(n, ChildLen(n))
  BY <1>2 DEF ChildLen, ChildrenEndAt
<1>4. ASSUME NEW len, ChildrenEndAt(n, len) PROVE len = ChildLen(n)
  <2> DEFINE l == ChildLen(n)
  <2>1. ChildrenEndAt(n, l)
    BY <1>3
  <2> HIDE DEF l
  <2>2. l \in 0 .. M + 1 /\ len \in 0 .. M + 1
    BY <1>4, <2>1 DEF ChildrenEndAt
  <2>3. ~(l < len)
    BY <1>1, <1>4, <2>1, <2>2 DEF ChildrenEndAt
  <2>4. ~(len < l)
    BY <1>1, <1>4, <2>1, <2>2 DEF ChildrenEndAt
  <2>5. len = l
    BY <1>1, <2>2, <2>3, <2>4
  <2>6. QED
    BY <2>5 DEF l
<1>5. QED
  BY <1>3, <1>4

\* FindPos stops at the first key that is not below k.
LEMMA FindPosIs ==
  ASSUME NEW n, \A i \in Slots : n.key[i] \in Nat, NEW k \in Nat
  PROVE  /\ FindPos(n, k) \in 0 .. KeyLen(n)
         /\ \A i \in 0 .. FindPos(n, k) - 1 : n.key[i] < k
         /\ FindPos(n, k) < KeyLen(n) => n.key[FindPos(n, k)] >= k
<1> DEFINE len == KeyLen(n)
           P == {i \in Slots : n.key[i] >= k}
<1>1. M \in Nat /\ len \in 0 .. M
  BY MAssumption, KeyLenIs DEF KeysEndAt
<1>2. PICK pos \in 0 .. len : (\A i \in 0 .. pos - 1 : i \notin P) /\ (pos < len => pos \in P)
  <2> HIDE DEF P, len
  <2>1. len \in Nat
    BY <1>1
  <2>2. QED
    BY <2>1, FirstOf
<1>3. \A i \in 0 .. pos - 1 : i \in Slots /\ n.key[i] < k
  <2> HIDE DEF len
  <2>1. QED
    BY <1>1, <1>2 DEF Slots
<1>4. \E p \in 0 .. len : (\A i \in 0 .. p - 1 : n.key[i] < k) /\ (p < len => n.key[p] >= k)
  BY <1>2, <1>3
<1>5. QED
  BY <1>4, Zenon DEF FindPos
-----------------------------------------------------------------------------
(* Nodes in order *)

\* The first len slots of n hold keys in rising order and the others nothing.
Packed(n, len) ==
    /\ len \in 0 .. M
    /\ n.key \in [Slots -> Nat]
    /\ \A i \in Slots : (i < len => n.key[i] # 0) /\ (len <= i => n.key[i] = 0)
    /\ \A i, j \in Slots : (i < j /\ j < len) => n.key[i] < n.key[j]

\* Around its len keys n has children of C and no others.
Hung(n, len, C) ==
    \A i \in Links : (i <= len => n.child[i] \in C) /\ (len < i => n.child[i] = NULL)

\* The children of a leaf, or those of an inner node.
Uniform(C) == C = {NULL} \/ NULL \notin C

LEMMA PackedReads ==
  ASSUME NEW n, NEW len, Packed(n, len)
  PROVE  /\ KeyLen(n) = len
         /\ \A i \in Slots : Key(n, i) = n.key[i] /\ n.key[i] \in Nat
         /\ \A i : i \notin 0 .. len - 1 => Key(n, i) = 0
<1>1. M \in Nat
  BY MAssumption
<1>2. KeysEndAt(n, len)
  BY <1>1 DEF Packed, KeysEndAt, Slots
<1>3. KeyLen(n) = len
  BY <1>2, KeyLenIs
<1>4. QED
  BY <1>1, <1>3 DEF Packed, Key, Slots

LEMMA HungReads ==
  ASSUME NEW n, NEW len \in 0 .. M, NEW C, Hung(n, len, C), Uniform(C)
  PROVE  /\ C = {NULL} => ChildLen(n) = 0
         /\ C # {NULL} => ChildLen(n) = len + 1
         /\ IsLeaf(n) <=> C = {NULL}
         /\ \A i \in Links : Child(n, i) = n.child[i]
         /\ \A i : i \notin Links => Child(n, i) = NULL
<1>1. M \in Nat
  BY MAssumption
<1>2. CASE C = {NULL}
  <2>1. \A i \in Links : n.child[i] = NULL
    BY <1>1, <1>2 DEF Hung, Links
  <2>2. ChildrenEndAt(n, 0)
    BY <1>1, <2>1 DEF ChildrenEndAt, Links
  <2>3. ChildLen(n) = 0
    BY <2>2, ChildLenIs
  <2>4. QED
    BY <1>2, <2>1, <2>3 DEF IsLeaf, Child
<1>3. CASE C # {NULL}
  <2>1. NULL \notin C
    BY <1>3 DEF Uniform
  <2>2. ChildrenEndAt(n, len + 1)
    BY <1>1, <2>1 DEF ChildrenEndAt, Links, Hung
  <2>3. ChildLen(n) = len + 1
    BY <2>2, ChildLenIs
  <2>4. QED
    BY <1>1, <1>3, <2>3 DEF IsLeaf, Child, Hung, Links
<1>4. QED
  BY <1>2, <1>3

\* k can stand between the keys around child i of a node with len keys.
Between(n, len, i, k) == (0 < i => n.key[i - 1] < k) /\ (i < len => k < n.key[i])

\* The search stops at k or at the child k belongs below.
LEMMA PositionOf ==
  ASSUME NEW n, NEW len, Packed(n, len), NEW k \in Nat \ {0}
  PROVE  /\ FindPos(n, k) \in 0 .. len
         /\ Key(n, FindPos(n, k)) = k =>
              FindPos(n, k) \in Slots /\ FindPos(n, k) < len /\ n.key[FindPos(n, k)] = k
         /\ Key(n, FindPos(n, k)) # k =>
              Between(n, len, FindPos(n, k), k) /\ \A i \in Slots : n.key[i] # k
<1> DEFINE pos == FindPos(n, k)
<1>1. M \in Nat /\ len \in 0 .. M
  BY MAssumption DEF Packed
<1>2. \A i \in Slots : n.key[i] \in Nat /\ Key(n, i) = n.key[i]
  BY PackedReads
<1>3. KeyLen(n) = len /\ \A i : i \notin 0 .. len - 1 => Key(n, i) = 0
  BY PackedReads
<1>4. /\ pos \in 0 .. len
      /\ \A i \in 0 .. pos - 1 : n.key[i] < k
      /\ pos < len => n.key[pos] >= k
  BY <1>2, <1>3, FindPosIs
<1> HIDE DEF pos
<1>5. CASE Key(n, pos) = k
  <2>1. pos \in 0 .. len - 1
    BY <1>3, <1>5
  <2>2. pos \in Slots
    BY <1>1, <2>1 DEF Slots
  <2>3. QED
    BY <1>1, <1>2, <1>4, <1>5, <2>1, <2>2 DEF pos
<1>6. CASE Key(n, pos) # k
  <2>1. pos < len => pos \in Slots /\ k < n.key[pos]
    BY <1>1, <1>2, <1>4, <1>6 DEF Slots
  <2>2. 0 < pos => pos - 1 \in Slots /\ n.key[pos - 1] < k
    BY <1>1, <1>4 DEF Slots
  <2>3. ASSUME NEW i \in Slots PROVE n.key[i] # k
    <3>1. CASE i < pos
      <4>1. i \in 0 .. pos - 1
        BY <1>1, <1>4, <3>1 DEF Slots
      <4>2. QED
        BY <1>2, <1>4, <4>1
    <3>2. CASE pos <= i /\ i < len
      <4>1. pos < len
        BY <1>1, <1>4, <3>2 DEF Slots
      <4>2. i = pos \/ n.key[pos] < n.key[i]
        <5>1. \A a, b \in Slots : (a < b /\ b < len) => n.key[a] < n.key[b]
          BY DEF Packed
        <5>2. i = pos \/ pos < i
          BY <1>1, <1>4, <3>2 DEF Slots
        <5>3. QED
          BY <2>1, <3>2, <4>1, <5>1, <5>2
      <4>3. QED
        BY <1>2, <2>1, <4>1, <4>2
    <3>3. CASE len <= i
      BY <3>3 DEF Packed
    <3>4. QED
      BY <1>1, <1>4, <3>1, <3>2, <3>3 DEF Slots
  <2>4. QED
    BY <1>4, <1>6, <2>1, <2>2, <2>3 DEF Between, pos
<1>7. QED
  BY <1>4, <1>5, <1>6 DEF pos

\* A value belongs below one child only, and is none of the keys.
LEMMA OneBetween ==
  ASSUME NEW n, NEW len, Packed(n, len), NEW k \in Nat, NEW i \in 0 .. len, Between(n, len, i, k)
  PROVE  /\ \A j \in Slots : j < len => n.key[j] # k /\ (j < i <=> n.key[j] < k)
         /\ \A j \in 0 .. len : Between(n, len, j, k) => j = i
<1>1. M \in Nat /\ len \in 0 .. M
  BY MAssumption DEF Packed
<1>2. \A j \in Slots : n.key[j] \in Nat
  BY DEF Packed
<1>3. ASSUME NEW j \in Slots, j < len PROVE n.key[j] # k /\ (j < i <=> n.key[j] < k)
  <2>1. CASE j < i
    <3>1. i - 1 \in Slots /\ 0 < i /\ n.key[i - 1] < k
      BY <1>1, <1>3, <2>1 DEF Between, Slots
    <3>2. j = i - 1 \/ n.key[j] < n.key[i - 1]
      BY <1>1, <1>3, <2>1, <3>1 DEF Packed, Slots
    <3>3. QED
      BY <1>2, <2>1, <3>1, <3>2
  <2>2. CASE i <= j
    <3>1. i \in Slots /\ i < len /\ k < n.key[i]
      BY <1>1, <1>3, <2>2 DEF Between, Slots
    <3>2. j = i \/ n.key[i] < n.key[j]
      BY <1>1, <1>3, <2>2, <3>1 DEF Packed, Slots
    <3>3. ~(j < i)
      BY <2>2 DEF Slots
    <3>4. QED
      BY <1>2, <3>1, <3>2, <3>3
  <2>3. QED
    BY <1>1, <1>3, <2>1, <2>2 DEF Slots
<1>4. ASSUME NEW j \in 0 .. len, Between(n, len, j, k) PROVE j = i
  <2>1. CASE j < i
    <3>1. j \in Slots /\ j < len /\ k < n.key[j]
      BY <1>1, <1>4, <2>1 DEF Between, Slots
    <3>2. n.key[j] < k
      BY <1>3, <2>1, <3>1
    <3>3. QED
      BY <1>2, <3>1, <3>2
  <2>2. CASE i < j
    <3>1. j - 1 \in Slots /\ j - 1 < len /\ n.key[j - 1] < k /\ ~(j - 1 < i)
      BY <1>1, <1>4, <2>2 DEF Between, Slots
    <3>2. QED
      BY <1>3, <3>1
  <2>3. QED
    BY <1>1, <2>1, <2>2
<1>5. QED
  BY <1>3, <1>4
-----------------------------------------------------------------------------
(* Inserting *)

\* n with key k at pos between the children l and r; what stood there moves up,
\* and what does not fit is dropped.
InsertAt(n, pos, k, l, r) ==
    [key   |-> [i \in Slots |-> IF i < pos THEN n.key[i]
                                ELSE IF i = pos THEN k ELSE n.key[i - 1]],
     child |-> [i \in Links |-> IF i < pos THEN n.child[i]
                                ELSE IF i = pos THEN l
                                ELSE IF i = pos + 1 THEN r ELSE n.child[i - 1]]]

\* The keys of a node after an insert.
Grown(len) == IF len < M THEN len + 1 ELSE M

LEMMA InsertAtPacked ==
  ASSUME NEW n, NEW len, Packed(n, len), NEW k \in Nat \ {0}, NEW pos \in 0 .. len,
         Between(n, len, pos, k), NEW l, NEW r
  PROVE  Packed(InsertAt(n, pos, k, l, r), Grown(len))
<1> DEFINE m == InsertAt(n, pos, k, l, r)
<1>1. M \in Nat /\ len \in 0 .. M /\ Grown(len) \in 0 .. M /\ \A i \in Slots : n.key[i] \in Nat
  BY MAssumption DEF Packed, Grown
<1>2. \A i \in Slots : m.key[i] = IF i < pos THEN n.key[i] ELSE IF i = pos THEN k ELSE n.key[i - 1]
  BY DEF InsertAt
<1>3. \A i \in Slots : i # pos /\ ~(i < pos) => i - 1 \in Slots /\ pos <= i - 1
  BY <1>1 DEF Slots
<1>4. m.key \in [Slots -> Nat]
  <2>1. m.key = [i \in Slots |-> m.key[i]]
    BY DEF InsertAt
  <2>2. \A i \in Slots : m.key[i] \in Nat
    BY <1>1, <1>2, <1>3
  <2> HIDE DEF m
  <2>3. QED
    BY <2>1, <2>2
<1>5. \A j \in Slots : j < len => (j < pos <=> n.key[j] < k) /\ n.key[j] # k
  BY OneBetween
<1> HIDE DEF m
<1>6. ASSUME NEW i \in Slots
      PROVE  (i < Grown(len) => m.key[i] # 0) /\ (Grown(len) <= i => m.key[i] = 0)
  <2>1. CASE i < pos
    <3>1. i < len /\ ~(Grown(len) <= i) /\ m.key[i] = n.key[i]
      BY <1>1, <1>2, <2>1 DEF Grown, Slots
    <3>2. QED
      BY <3>1 DEF Packed
  <2>2. CASE i = pos
    BY <1>1, <1>2, <2>2 DEF Grown, Slots
  <2>3. CASE ~(i < pos) /\ i # pos
    <3>1. i - 1 \in Slots /\ m.key[i] = n.key[i - 1]
      BY <1>2, <1>3, <2>3
    <3>2. /\ i - 1 < len => n.key[i - 1] # 0
          /\ len <= i - 1 => n.key[i - 1] = 0
      BY <3>1 DEF Packed
    <3>3. i \in Nat /\ i < M
      BY <1>1 DEF Slots
    <3>4. (i < Grown(len) => i - 1 < len) /\ (Grown(len) <= i => len <= i - 1)
      BY <1>1, <3>3 DEF Grown
    <3>5. QED
      BY <3>1, <3>2, <3>4
  <2>4. QED
    BY <2>1, <2>2, <2>3
<1>7. ASSUME NEW i \in Slots, NEW j \in Slots, i < j, j < Grown(len)
      PROVE  m.key[i] < m.key[j]
  <2>1. CASE j < pos
    BY <1>1, <1>2, <1>7, <2>1 DEF Packed, Slots
  <2>2. CASE j = pos
    <3>1. i < pos /\ i < len /\ n.key[i] < k
      BY <1>1, <1>5, <1>7, <2>2 DEF Slots
    <3>2. QED
      BY <1>2, <2>2, <3>1 DEF Slots
  <2>3. CASE ~(j < pos) /\ j # pos
    <3>1. j - 1 \in Slots /\ pos <= j - 1 /\ j - 1 < len /\ m.key[j] = n.key[j - 1]
      BY <1>1, <1>2, <1>3, <1>7, <2>3 DEF Grown, Slots
    <3>2. CASE i < pos
      <4>1. i < j - 1
        BY <1>1, <3>1, <3>2 DEF Slots
      <4>2. QED
        BY <1>2, <3>1, <3>2, <4>1 DEF Packed
    <3>3. CASE i = pos
      <4>1. ~(j - 1 < pos)
        BY <3>1 DEF Slots
      <4>2. n.key[j - 1] # k /\ ~(n.key[j - 1] < k) /\ n.key[j - 1] \in Nat
        BY <1>1, <1>5, <3>1, <4>1
      <4>3. QED
        BY <1>2, <3>1, <3>3, <4>2
    <3>4. CASE ~(i < pos) /\ i # pos
      <4>1. i - 1 \in Slots /\ m.key[i] = n.key[i - 1] /\ i - 1 < j - 1
        BY <1>2, <1>3, <1>7, <3>4 DEF Slots
      <4>2. QED
        BY <3>1, <4>1 DEF Packed
    <3>5. QED
      BY <3>2, <3>3, <3>4
  <2>4. QED
    BY <2>1, <2>2, <2>3
<1>8. QED
  BY <1>1, <1>4, <1>6, <1>7 DEF Packed, m

LEMMA InsertAtHung ==
  ASSUME NEW n, NEW len \in 0 .. M, NEW C, Hung(n, len, C), NEW k, NEW pos \in 0 .. len,
         NEW l \in C, NEW r \in C
  PROVE  Hung(InsertAt(n, pos, k, l, r), Grown(len), C)
<1> DEFINE m == InsertAt(n, pos, k, l, r)
<1>1. M \in Nat
  BY MAssumption
<1>2. \A i \in Links : m.child[i] = IF i < pos THEN n.child[i]
                                    ELSE IF i = pos THEN l
                                    ELSE IF i = pos + 1 THEN r ELSE n.child[i - 1]
  BY DEF InsertAt
<1> HIDE DEF m
<1>3. SUFFICES ASSUME NEW i \in Links
               PROVE  (i <= Grown(len) => m.child[i] \in C) /\ (Grown(len) < i => m.child[i] = NULL)
  BY DEF Hung, m
<1>4. CASE i <= pos + 1
  BY <1>1, <1>2, <1>4 DEF Hung, Links, Grown
<1>5. CASE pos + 1 < i
  <2>1. i - 1 \in Links /\ m.child[i] = n.child[i - 1]
    BY <1>1, <1>2, <1>5 DEF Links
  <2>2. QED
    BY <1>1, <1>5, <2>1 DEF Hung, Links, Grown
<1>6. QED
  BY <1>1, <1>4, <1>5 DEF Links

\* The insert into a leaf.
LEMMA LeafInsertIs ==
  ASSUME NEW S, NEW n \in Node(S), NEW len, Packed(n, len), Hung(n, len, {NULL}),
         NEW k \in Nat \ {0}, NEW pos \in 0 .. len
  PROVE  LeafInsert(n, pos, k) = InsertAt(n, pos, k, NULL, NULL)
<1> DEFINE m == LeafInsert(n, pos, k)
           t == InsertAt(n, pos, k, NULL, NULL)
<1>1. M \in Nat /\ len \in 0 .. M /\ KeyLen(n) = len
  BY MAssumption, PackedReads DEF Packed
<1>2. \A i \in Links : n.child[i] = NULL /\ Child(n, i) = NULL
  <2>1. Uniform({NULL})
    BY DEF Uniform
  <2>2. \A i \in Links : Child(n, i) = n.child[i]
    BY <1>1, <2>1, HungReads
  <2>3. QED
    BY <1>1, <2>2 DEF Hung, Links
<1>3. \A i \in Links : t.child[i] = NULL
  <2>1. \A i \in Links : i - 1 \in Links \/ i = 0
    BY <1>1 DEF Links
  <2>2. QED
    BY <1>1, <1>2, <2>1 DEF InsertAt
<1>4. t = [key |-> [i \in Slots |-> t.key[i]], child |-> [i \in Links |-> NULL]]
  BY <1>3 DEF InsertAt
<1>5. \A i \in Slots : len <= i => n.key[i] = 0
  BY DEF Packed
<1>6. CASE pos = len
  <2>1. m = SetKey(n, pos, k)
    BY <1>1, <1>6 DEF LeafInsert
  <2>2. n = [key |-> [i \in Slots |-> n.key[i]], child |-> [i \in Links |-> NULL]]
    BY <1>2 DEF Node
  <2>3. m = [key |-> [i \in Slots |-> IF i = pos THEN k ELSE n.key[i]],
             child |-> [i \in Links |-> NULL]]
    BY <2>1, <2>2 DEF SetKey
  <2>4. \A i \in Slots : t.key[i] = IF i = pos THEN k ELSE n.key[i]
    <3>1. \A i \in Slots : ~(i < pos) /\ i # pos => i - 1 \in Slots /\ len <= i - 1 /\ len <= i
      BY <1>1, <1>6 DEF Slots
    <3>2. QED
      BY <1>5, <3>1 DEF InsertAt
  <2>5. QED
    BY <1>4, <2>3, <2>4
<1>7. CASE pos < len
  <2>1. m = RightShift(n, pos, k, NULL) /\ pos \in 0 .. len - 1
    BY <1>1, <1>7 DEF LeafInsert
  <2>2. m = [key |-> [i \in Slots |-> IF i = pos THEN k
                                      ELSE IF i \in pos + 1 .. len THEN n.key[i - 1]
                                      ELSE n.key[i]],
             child |-> [i \in Links |-> NULL]]
    <3>1. \A i \in Links : i \in pos + 2 .. len + 1 => i - 1 \in Links
      BY <1>1 DEF Links
    <3>2. QED
      BY <1>1, <1>2, <2>1, <3>1 DEF RightShift
  <2>3. \A i \in Slots : t.key[i] = IF i = pos THEN k
                                    ELSE IF i \in pos + 1 .. len THEN n.key[i - 1]
                                    ELSE n.key[i]
    <3>1. \A i \in Slots : i \in pos + 1 .. len \/ i < pos \/ i = pos \/ len < i
      BY <1>1 DEF Slots
    <3>2. \A i \in Slots : len < i => i - 1 \in Slots /\ len <= i - 1
      BY <1>1 DEF Slots
    <3>3. \A i \in Slots : t.key[i] = IF i < pos THEN n.key[i]
                                      ELSE IF i = pos THEN k ELSE n.key[i - 1]
      BY DEF InsertAt
    <3> HIDE DEF t
    <3>4. \A i \in Slots : len < i => t.key[i] = 0 /\ n.key[i] = 0
      <4>1. \A i \in Slots : len < i => ~(i < pos) /\ i # pos /\ len <= i
        BY <1>1, <1>7 DEF Slots
      <4>2. QED
        BY <1>5, <3>2, <3>3, <4>1
    <3>5. \A i \in Slots : i < pos => i \notin pos + 1 .. len
      BY <1>1 DEF Slots
    <3>6. \A i \in Slots : i \in pos + 1 .. len => ~(i < pos) /\ i # pos
      BY <1>1 DEF Slots
    <3>7. \A i \in Slots : len < i => i # pos /\ i \notin pos + 1 .. len
      BY <1>1, <1>7 DEF Slots
    <3>8. QED
      BY <3>1, <3>3, <3>4, <3>5, <3>6, <3>7
  <2>4. QED
    BY <1>4, <2>2, <2>3
<1>8. QED
  BY <1>1, <1>6, <1>7

\* Two nodes with the same entries are one.
LEMMA SameNode ==
  ASSUME NEW m, m = [key |-> [i \in Slots |-> m.key[i]], child |-> [i \in Links |-> m.child[i]]],
         NEW t, t = [key |-> [i \in Slots |-> t.key[i]], child |-> [i \in Links |-> t.child[i]]],
         \A i \in Slots : m.key[i] = t.key[i],
         \A i \in Links : m.child[i] = t.child[i]
  PROVE  m = t
<1>1. [i \in Slots |-> m.key[i]] = [i \in Slots |-> t.key[i]]
  OBVIOUS
<1>2. [i \in Links |-> m.child[i]] = [i \in Links |-> t.child[i]]
  OBVIOUS
<1>3. QED
  BY <1>1, <1>2, Zenon

\* Another child at pos.
LEMMA SetChildIs ==
  ASSUME NEW S, NEW n \in Node(S), NEW len, Packed(n, len), NEW C, Hung(n, len, C),
         NEW pos \in 0 .. len, NEW c \in C
  PROVE  /\ SetChild(n, pos, c).key = n.key
         /\ SetChild(n, pos, c) \in Node(S \cup C)
         /\ \A i \in Links : SetChild(n, pos, c).child[i] = IF i = pos THEN c ELSE n.child[i]
         /\ Packed(SetChild(n, pos, c), len)
         /\ Hung(SetChild(n, pos, c), len, C)
<1> DEFINE m == SetChild(n, pos, c)
<1>1. M \in Nat /\ len \in 0 .. M /\ pos \in Links
  BY MAssumption DEF Packed, Links
<1>2. m = [key |-> n.key, child |-> [i \in Links |-> IF i = pos THEN c ELSE n.child[i]]]
  BY <1>1 DEF SetChild, Node
<1>3. \A i \in Links : n.child[i] \in S
  BY DEF Node
<1>4. m \in Node(S \cup C)
  BY <1>2, <1>3 DEF Node
<1>5. m.key = n.key /\ \A i \in Links : m.child[i] = IF i = pos THEN c ELSE n.child[i]
  BY <1>2
<1> HIDE DEF m
<1>6. Packed(m, len)
  BY <1>5 DEF Packed
<1>7. Hung(m, len, C)
  BY <1>1, <1>5 DEF Hung, Links
<1>8. QED
  BY <1>4, <1>5, <1>6, <1>7 DEF m

\* The insert of a key whose two neighbours are the halves of the child at pos.
LEMMA NodeInsertIs ==
  ASSUME NEW S, NEW n \in Node(S), NEW len, Packed(n, len), NEW C, Hung(n, len, C), NULL \notin C,
         NEW k \in Nat \ {0}, NEW pos \in 0 .. len, NEW l \in C, NEW r \in C,
         NEW room, room = IF pos = len THEN SetChild(n, pos, l)
                          ELSE RightShift(SetChild(n, pos, l), pos, k, r)
  PROVE  NodeInsert(room, pos, k, l, r) = InsertAt(n, pos, k, l, r)
<1> DEFINE here == SetChild(n, pos, l)
           m == NodeInsert(room, pos, k, l, r)
           t == InsertAt(n, pos, k, l, r)
<1>1. M \in Nat /\ len \in 0 .. M
  BY MAssumption DEF Packed
<1>2. /\ here.key = n.key
      /\ here \in Node(S \cup C)
      /\ \A i \in Links : here.child[i] = IF i = pos THEN l ELSE n.child[i]
      /\ Packed(here, len)
      /\ Hung(here, len, C)
  BY SetChildIs
<1>3. \A i \in Slots : t.key[i] = IF i < pos THEN n.key[i] ELSE IF i = pos THEN k ELSE n.key[i - 1]
  BY DEF InsertAt
<1>4. \A i \in Links : t.child[i] = IF i < pos THEN n.child[i]
                                    ELSE IF i = pos THEN l
                                    ELSE IF i = pos + 1 THEN r ELSE n.child[i - 1]
  BY DEF InsertAt
<1>5. t = [key |-> [i \in Slots |-> t.key[i]], child |-> [i \in Links |-> t.child[i]]]
  BY DEF InsertAt
<1>6. l # NULL /\ r # NULL /\ k # 0
  OBVIOUS
<1>7. \A i \in Slots : len <= i => n.key[i] = 0
  BY DEF Packed
<1>8. \A i \in Links : len < i => n.child[i] = NULL
  BY DEF Hung
<1>9. \A i \in Slots : i < pos \/ i = pos \/ (pos <= i - 1 /\ i - 1 \in Slots)
  BY <1>1 DEF Slots
<1>10. \A i \in Links : i < pos \/ i = pos \/ i = pos + 1 \/ (pos + 1 < i /\ i - 1 \in Links)
  BY <1>1 DEF Links
<1> HIDE DEF here, t
<1>11. CASE pos = len
  <2>1. room = here
    BY <1>11 DEF here
  <2>2. CASE pos \in Slots
    <3>1. m = [key |-> [here.key EXCEPT ![pos] = k],
               child |-> [i \in Links |-> IF i = pos THEN l
                                          ELSE IF i = pos + 1 THEN r ELSE here.child[i]]]
      BY <1>6, <2>1, <2>2 DEF NodeInsert
    <3>2. here.key = [i \in Slots |-> n.key[i]]
      BY <1>2 DEF Node
    <3>3. m = [key |-> [i \in Slots |-> IF i = pos THEN k ELSE n.key[i]],
               child |-> [i \in Links |-> IF i = pos THEN l
                                          ELSE IF i = pos + 1 THEN r ELSE n.child[i]]]
      BY <1>2, <3>1, <3>2
    <3>4. \A i \in Slots : t.key[i] = IF i = pos THEN k ELSE n.key[i]
      <4>1. \A i \in Slots : (pos <= i - 1 /\ i - 1 \in Slots) => n.key[i] = 0 /\ n.key[i - 1] = 0
        BY <1>1, <1>7, <1>11 DEF Slots
      <4>2. QED
        BY <1>3, <1>9, <4>1
    <3>5. \A i \in Links : t.child[i] = IF i = pos THEN l
                                        ELSE IF i = pos + 1 THEN r ELSE n.child[i]
      <4>1. \A i \in Links : (pos + 1 < i /\ i - 1 \in Links) =>
                               n.child[i] = NULL /\ n.child[i - 1] = NULL
        BY <1>1, <1>8, <1>11 DEF Links
      <4>2. \A i \in Links : i < pos => i # pos /\ i # pos + 1
        BY <1>1 DEF Links
      <4>3. \A i \in Links : pos + 1 < i => i # pos /\ i # pos + 1 /\ ~(i < pos)
        BY <1>1 DEF Links
      <4>4. \A i \in Links : i = pos + 1 => i # pos /\ ~(i < pos)
        BY <1>1 DEF Links
      <4>5. QED
        BY <1>4, <1>10, <4>1, <4>2, <4>3, <4>4
    <3>6. /\ m = [key |-> [i \in Slots |-> m.key[i]], child |-> [i \in Links |-> m.child[i]]]
          /\ \A i \in Slots : m.key[i] = t.key[i]
          /\ \A i \in Links : m.child[i] = t.child[i]
      BY <3>3, <3>4, <3>5
    <3> HIDE DEF m
    <3>7. m = t
      BY <1>5, <3>6, SameNode
    <3>8. QED
      BY <3>7 DEF m, t
  <2>3. CASE pos \notin Slots
    <3>1. pos = M /\ \A i \in Slots : i < pos
      BY <1>1, <2>3 DEF Slots
    <3>2. m = here
      BY <2>1, <2>3 DEF NodeInsert
    <3>3. here = [key |-> [i \in Slots |-> n.key[i]],
                  child |-> [i \in Links |-> IF i = pos THEN l ELSE n.child[i]]]
      BY <1>2 DEF Node
    <3>4. \A i \in Links : i < pos \/ i = pos
      BY <1>1, <3>1 DEF Links
    <3>5. \A i \in Links : i < pos => i # pos
      BY <1>1 DEF Links
    <3>6. /\ m = [key |-> [i \in Slots |-> m.key[i]], child |-> [i \in Links |-> m.child[i]]]
          /\ \A i \in Slots : m.key[i] = t.key[i]
          /\ \A i \in Links : m.child[i] = t.child[i]
      BY <1>3, <1>4, <3>1, <3>2, <3>3, <3>4, <3>5
    <3> HIDE DEF m
    <3>7. m = t
      BY <1>5, <3>6, SameNode
    <3>8. QED
      BY <3>7 DEF m, t
  <2>4. QED
    BY <2>2, <2>3
<1>12. CASE pos < len
  <2>1. room = RightShift(here, pos, k, r) /\ pos \in 0 .. len - 1 /\ pos \in Slots
    BY <1>1, <1>12 DEF here, Slots
  <2>2. KeyLen(here) = len
    BY <1>2, PackedReads
  <2>3. \A i \in Links : Child(here, i) = here.child[i]
    <3>1. Uniform(C)
      BY DEF Uniform
    <3>2. QED
      BY <1>1, <1>2, <3>1, HungReads
  <2>4. room = [key |-> [i \in Slots |-> IF i = pos THEN k
                                         ELSE IF i \in pos + 1 .. len THEN n.key[i - 1]
                                         ELSE n.key[i]],
                child |-> [i \in Links |-> IF i = pos + 1 THEN r
                                           ELSE IF i \in pos + 2 .. len + 1
                                           THEN Child(here, i - 1)
                                           ELSE here.child[i]]]
    BY <1>2, <1>6, <2>1, <2>2 DEF RightShift
  <2>5. m = [key |-> [room.key EXCEPT ![pos] = k],
             child |-> [i \in Links |-> IF i = pos THEN l
                                        ELSE IF i = pos + 1 THEN r ELSE room.child[i]]]
    BY <1>6, <2>1 DEF NodeInsert
  <2>6. \A i \in Slots : m.key[i] = IF i = pos THEN k ELSE room.key[i]
    BY <2>1, <2>4, <2>5
  <2>7. \A i \in Links : m.child[i] = IF i = pos THEN l
                                      ELSE IF i = pos + 1 THEN r ELSE room.child[i]
    BY <2>5
  <2>8. m = [key |-> [i \in Slots |-> m.key[i]], child |-> [i \in Links |-> m.child[i]]]
    <3>1. room.key = [i \in Slots |-> room.key[i]]
      BY <2>4
    <3>2. QED
      BY <2>5, <3>1
  <2>9. \A i \in Slots : room.key[i] = IF i = pos THEN k
                                       ELSE IF i \in pos + 1 .. len THEN n.key[i - 1]
                                       ELSE n.key[i]
    BY <2>4
  <2>10. \A i \in Links : room.child[i] = IF i = pos + 1 THEN r
                                          ELSE IF i \in pos + 2 .. len + 1
                                          THEN Child(here, i - 1)
                                          ELSE here.child[i]
    BY <2>4
  <2> HIDE DEF m
  <2>11. ASSUME NEW i \in Slots PROVE m.key[i] = t.key[i]
    <3>1. CASE i < pos
      <4>1. i # pos /\ i \notin pos + 1 .. len
        BY <1>1, <3>1 DEF Slots
      <4>2. QED
        BY <1>3, <2>6, <2>9, <3>1, <4>1
    <3>2. CASE i = pos
      <4>1. ~(i < pos)
        BY <3>2 DEF Slots
      <4>2. QED
        BY <1>3, <2>6, <3>2, <4>1
    <3>3. CASE pos <= i - 1 /\ i - 1 \in Slots
      <4>1. ~(i < pos) /\ i # pos
        BY <1>1, <3>3 DEF Slots
      <4>2. i \in pos + 1 .. len \/ (n.key[i] = 0 /\ n.key[i - 1] = 0)
        BY <1>1, <1>7, <3>3 DEF Slots
      <4>3. QED
        BY <1>3, <2>6, <2>9, <4>1, <4>2
    <3>4. QED
      BY <1>9, <3>1, <3>2, <3>3
  <2>12. ASSUME NEW i \in Links PROVE m.child[i] = t.child[i]
    <3>1. CASE i < pos
      <4>1. i # pos /\ i # pos + 1 /\ i \notin pos + 2 .. len + 1
        BY <1>1, <3>1 DEF Links
      <4>2. QED
        BY <1>2, <1>4, <2>7, <2>10, <3>1, <4>1
    <3>2. CASE i = pos \/ i = pos + 1
      <4>1. ~(i < pos) /\ (i = pos + 1 => i # pos)
        BY <1>1, <3>2 DEF Links
      <4>2. QED
        BY <1>4, <2>7, <3>2, <4>1
    <3>3. CASE pos + 1 < i /\ i - 1 \in Links
      <4>1. ~(i < pos) /\ i # pos /\ i # pos + 1 /\ i - 1 # pos
        BY <1>1, <3>3 DEF Links
      <4>2. i \in pos + 2 .. len + 1 \/ (n.child[i] = NULL /\ n.child[i - 1] = NULL)
        BY <1>1, <1>8, <3>3 DEF Links
      <4>3. Child(here, i - 1) = n.child[i - 1] /\ here.child[i] = n.child[i]
        BY <1>2, <2>3, <3>3, <4>1
      <4>4. QED
        BY <1>4, <2>7, <2>10, <4>1, <4>2, <4>3
    <3>4. QED
      BY <1>10, <3>1, <3>2, <3>3
  <2>13. m = t
    BY <1>5, <2>8, <2>11, <2>12, SameNode
  <2>14. QED
    BY <2>13 DEF m, t
<1>13. QED
  BY <1>1, <1>11, <1>12 DEF t

-----------------------------------------------------------------------------
(* Splitting *)

\* The keys of the right half, which is the fewest a split leaves in a node.
Half == (M - 1) \div 2

LEMMA Halves ==
  /\ M \in Nat /\ Mid \in 1 .. M - 2 /\ Half \in 1 .. M - 2
  /\ M - Mid - 1 = Half /\ Half <= Mid
  BY MAssumption DEF Mid, Half

\* The halves of a full node, around the key that goes up.
LEMMA SplitIs ==
  ASSUME NEW n, Packed(n, M), NEW C, Hung(n, M, C), Uniform(C)
  PROVE  /\ Packed(SplitLeft(n), Mid) /\ Hung(SplitLeft(n), Mid, C)
         /\ Packed(SplitRight(n), Half) /\ Hung(SplitRight(n), Half, C)
         /\ \A i \in Slots : i < Mid => SplitLeft(n).key[i] = n.key[i]
         /\ \A i \in Links : i <= Mid => SplitLeft(n).child[i] = n.child[i]
         /\ \A i \in Slots : i < Half => i + Mid + 1 \in Slots /\ SplitRight(n).key[i] = n.key[i + Mid + 1]
         /\ \A i \in Links : i <= Half => i + Mid + 1 \in Links /\ SplitRight(n).child[i] = n.child[i + Mid + 1]
         /\ Mid \in Slots /\ SplitKey(n) = n.key[Mid] /\ SplitKey(n) \in Nat \ {0}
<1> DEFINE l == SplitLeft(n)
           r == SplitRight(n)
<1>1. M \in Nat /\ Mid \in 1 .. M - 2 /\ Half \in 1 .. M - 2 /\ M - Mid - 1 = Half
  BY Halves
<1>2. /\ \A i \in Slots : n.key[i] \in Nat /\ n.key[i] # 0
      /\ \A i, j \in Slots : i < j => n.key[i] < n.key[j]
  <2>1. \A i \in Slots : i < M
    BY <1>1 DEF Slots
  <2>2. QED
    BY <2>1 DEF Packed
<1>3. \A i \in Links : n.child[i] \in C /\ Child(n, i) = n.child[i]
  <2>1. \A i \in Links : i <= M
    BY <1>1 DEF Links
  <2>2. M \in 0 .. M
    BY <1>1
  <2>3. \A i \in Links : Child(n, i) = n.child[i]
    BY <2>2, HungReads
  <2>4. QED
    BY <2>1, <2>3 DEF Hung
<1>4. l.key = [i \in Slots |-> IF i < Mid THEN n.key[i] ELSE 0]
  BY DEF SplitLeft
<1>5. l.child = [i \in Links |-> IF i <= Mid THEN n.child[i] ELSE NULL]
  BY DEF SplitLeft
<1>6. r.key = [i \in Slots |-> IF i + Mid + 1 < M THEN n.key[i + Mid + 1] ELSE 0]
  BY DEF SplitRight
<1>7. r.child = [i \in Links |-> IF i + Mid + 1 <= M THEN Child(n, i + Mid + 1) ELSE NULL]
  BY DEF SplitRight
<1> HIDE DEF l, r
<1>8. Packed(l, Mid)
  BY <1>1, <1>2, <1>4 DEF Packed, Slots
<1>9. Hung(l, Mid, C)
  BY <1>1, <1>3, <1>5 DEF Hung, Links
<1>10. \A i \in Slots : /\ i + Mid + 1 < M <=> i < Half
                        /\ i < Half => i + Mid + 1 \in Slots
  BY <1>1 DEF Slots
<1>11. \A i \in Links : /\ i + Mid + 1 <= M <=> i <= Half
                        /\ i <= Half => i + Mid + 1 \in Links
  BY <1>1 DEF Links
<1>12. \A i \in Slots : r.key[i] = IF i < Half THEN n.key[i + Mid + 1] ELSE 0
  BY <1>6, <1>10
<1>13. \A i \in Links : r.child[i] = IF i <= Half THEN n.child[i + Mid + 1] ELSE NULL
  BY <1>3, <1>7, <1>11
<1>14. Packed(r, Half)
  <2>1. r.key \in [Slots -> Nat]
    <3>1. \A i \in Slots : r.key[i] \in Nat
      BY <1>2, <1>10, <1>12
    <3>2. QED
      BY <1>6, <3>1
  <2>2. \A i \in Slots : (i < Half => r.key[i] # 0) /\ (Half <= i => r.key[i] = 0)
    <3>1. \A i \in Slots : Half <= i => ~(i < Half)
      BY <1>1 DEF Slots
    <3>2. QED
      BY <1>2, <1>10, <1>12, <3>1
  <2>3. ASSUME NEW i \in Slots, NEW j \in Slots, i < j, j < Half PROVE r.key[i] < r.key[j]
    <3>1. i < Half /\ i + Mid + 1 \in Slots /\ j + Mid + 1 \in Slots /\ i + Mid + 1 < j + Mid + 1
      BY <1>1, <1>10, <2>3 DEF Slots
    <3>2. QED
      BY <1>2, <1>12, <2>3, <3>1
  <2>4. QED
    BY <1>1, <2>1, <2>2, <2>3 DEF Packed
<1>15. Hung(r, Half, C)
  <2>1. \A i \in Links : Half < i => ~(i <= Half)
    BY <1>1 DEF Links
  <2>2. QED
    BY <1>3, <1>11, <1>13, <2>1 DEF Hung
<1>16. Mid \in Slots /\ SplitKey(n) = n.key[Mid] /\ SplitKey(n) \in Nat \ {0}
  <2>1. Mid \in Slots
    BY <1>1 DEF Slots
  <2>2. QED
    BY <1>2, <2>1 DEF SplitKey
<1>17. \A i \in Slots : i < Mid => l.key[i] = n.key[i]
  BY <1>4
<1>18. \A i \in Links : i <= Mid => l.child[i] = n.child[i]
  BY <1>5
<1>19. \A i \in Slots : i < Half => i + Mid + 1 \in Slots /\ r.key[i] = n.key[i + Mid + 1]
  BY <1>10, <1>12
<1>20. \A i \in Links : i <= Half => i + Mid + 1 \in Links /\ r.child[i] = n.child[i + Mid + 1]
  BY <1>11, <1>13
<1>21. QED
  BY <1>8, <1>9, <1>14, <1>15, <1>16, <1>17, <1>18, <1>19, <1>20 DEF l, r

-----------------------------------------------------------------------------
(* Whatever the arrays hold, the operations keep their sizes. *)

LEMMA GettersTyped ==
  ASSUME NEW S, NULL \in S, NEW n \in Node(S)
  PROVE  /\ KeyLen(n) \in 0 .. M /\ ChildLen(n) \in 0 .. M + 1
         /\ \A i : Key(n, i) \in Nat
         /\ \A i : Child(n, i) \in S
         /\ \A i : i \notin Links => Child(n, i) = NULL
         /\ \A i \in Links : Child(n, i) = NULL \/ Child(n, i) = n.child[i]
<1>1. M \in Nat
  BY MAssumption
<1>2. KeyLen(n) \in 0 .. M /\ ChildLen(n) \in 0 .. M + 1
  BY KeyLenIs, ChildLenIs DEF KeysEndAt, ChildrenEndAt
<1>3. \A i : i \in 0 .. KeyLen(n) - 1 => i \in Slots
  BY <1>1, <1>2 DEF Slots
<1>4. \A i : i \in 0 .. ChildLen(n) - 1 => i \in Links
  BY <1>1, <1>2 DEF Links
<1>5. (\A i \in Slots : n.key[i] \in Nat) /\ (\A i \in Links : n.child[i] \in S)
  BY DEF Node
<1>6. QED
  BY <1>2, <1>3, <1>4, <1>5 DEF Key, Child

LEMMA SettersTyped ==
  ASSUME NEW S, NEW n \in Node(S)
  PROVE  /\ \A i : \A k \in Nat : SetKey(n, i, k) \in Node(S)
         /\ \A i : \A c \in S : SetChild(n, i, c) \in Node(S)
<1>1. ASSUME NEW i, NEW k \in Nat PROVE SetKey(n, i, k) \in Node(S)
  BY DEF SetKey, Node
<1>2. ASSUME NEW i, NEW c \in S PROVE SetChild(n, i, c) \in Node(S)
  BY DEF SetChild, Node
<1>3. QED
  BY <1>1, <1>2

LEMMA RightShiftTyped ==
  ASSUME NEW S, NULL \in S, NEW n \in Node(S), NEW index, NEW k \in Nat, NEW c \in S
  PROVE  RightShift(n, index, k, c) \in Node(S)
<1> DEFINE len == KeyLen(n)
           a == [i \in Slots |-> IF i = index THEN k
                                 ELSE IF i \in index + 1 .. len THEN n.key[i - 1]
                                 ELSE n.key[i]]
           b == [i \in Links |-> IF i = index + 1 THEN c
                                 ELSE IF i \in index + 2 .. len + 1 THEN Child(n, i - 1)
                                 ELSE n.child[i]]
<1>1. M \in Nat /\ len \in 0 .. M /\ \A i : Child(n, i) \in S
  BY MAssumption, GettersTyped
<1>2. (\A i \in Slots : n.key[i] \in Nat) /\ (\A i \in Links : n.child[i] \in S)
  BY DEF Node
<1>3. CASE k = 0 \/ index \notin 0 .. len - 1
  BY <1>3 DEF RightShift
<1>4. CASE ~(k = 0 \/ index \notin 0 .. len - 1)
  <2>1. RightShift(n, index, k, c) = [key |-> a, child |-> b]
    BY <1>4 DEF RightShift
  <2>2. index \in 0 .. len - 1
    BY <1>4
  <2> HIDE DEF len
  <2>3. a \in [Slots -> Nat]
    <3>1. \A i \in Slots : i \in index + 1 .. len => i - 1 \in Slots
      BY <1>1, <2>2 DEF Slots
    <3>2. QED
      BY <1>2, <3>1
  <2>4. b \in [Links -> S]
    BY <1>1, <1>2
  <2> HIDE DEF a, b
  <2>5. QED
    BY <2>1, <2>3, <2>4 DEF Node
<1>5. QED
  BY <1>3, <1>4

LEMMA NodeInsertTyped ==
  ASSUME NEW S, NEW n \in Node(S), NEW index, NEW k \in Nat, NEW l \in S, NEW r \in S
  PROVE  NodeInsert(n, index, k, l, r) \in Node(S)
<1> DEFINE b == [i \in Links |-> IF i = index /\ l # NULL THEN l
                                 ELSE IF i = index + 1 /\ r # NULL THEN r
                                 ELSE n.child[i]]
<1>1. b \in [Links -> S]
  BY DEF Node
<1>2. \A i : [n.key EXCEPT ![i] = k] \in [Slots -> Nat]
  BY DEF Node
<1>3. CASE k = 0 \/ index \notin Slots
  BY <1>3 DEF NodeInsert
<1>4. CASE ~(k = 0 \/ index \notin Slots)
  <2>1. NodeInsert(n, index, k, l, r) = [key |-> [n.key EXCEPT ![index] = k], child |-> b]
    BY <1>4 DEF NodeInsert
  <2> HIDE DEF b
  <2>2. QED
    BY <1>1, <1>2, <2>1 DEF Node
<1>5. QED
  BY <1>3, <1>4

LEMMA LeafInsertTyped ==
  ASSUME NEW S, NULL \in S, NEW n \in Node(S), NEW pos, NEW k \in Nat
  PROVE  LeafInsert(n, pos, k) \in Node(S)
  BY SettersTyped, RightShiftTyped DEF LeafInsert

LEMMA SplitTyped ==
  ASSUME NEW S, NULL \in S, NEW n \in Node(S)
  PROVE  SplitLeft(n) \in Node(S) /\ SplitRight(n) \in Node(S) /\ SplitKey(n) \in Nat
<1>1. M \in Nat /\ Mid \in 1 .. M - 2
  BY Halves
<1>2. (\A i \in Slots : n.key[i] \in Nat) /\ (\A i \in Links : n.child[i] \in S)
  BY DEF Node
<1>3. \A i : Child(n, i) \in S
  BY GettersTyped
<1>4. \A i \in Slots : i + Mid + 1 < M => i + Mid + 1 \in Slots
  BY <1>1 DEF Slots
<1>5. Mid \in Slots
  BY <1>1 DEF Slots
<1>6. SplitLeft(n) \in Node(S)
  BY <1>2 DEF SplitLeft, Node
<1>7. SplitRight(n) \in Node(S)
  BY <1>2, <1>3, <1>4 DEF SplitRight, Node
<1>8. QED
  BY <1>2, <1>5, <1>6, <1>7 DEF SplitKey

LEMMA NewNodeIs ==
  /\ \A S : NULL \in S => NewNode \in Node(S)
  /\ Packed(NewNode, 0) /\ Hung(NewNode, 0, {NULL})
<1>1. M \in Nat
  BY MAssumption
<1>2. \A S : NULL \in S => NewNode \in Node(S)
  BY DEF NewNode, Node
<1>3. Packed(NewNode, 0) /\ Hung(NewNode, 0, {NULL})
  BY <1>1 DEF NewNode, Packed, Hung, Slots, Links
<1>4. QED
  BY <1>2, <1>3

-----------------------------------------------------------------------------
(* Trees *)

\* The trees of one level more.
Higher(T) == {NULL} \cup Node(T)

\* The first sets of trees up to height n.
Levelled(g, n) ==
    /\ g[0] = {NULL}
    /\ \A i \in 0 .. n - 1 : g[i + 1] = Higher(g[i])

LEMMA LevelledAgree ==
  ASSUME NEW n \in Nat, NEW m \in Nat, NEW g, NEW f, Levelled(g, n), Levelled(f, m)
  PROVE  \A i \in Nat : (i <= n /\ i <= m) => g[i] = f[i]
<1> DEFINE T == {i \in Nat : (i <= n /\ i <= m) => g[i] = f[i]}
<1>1. 0 \in T
  BY DEF Levelled
<1>2. ASSUME NEW i \in Nat, i \in T PROVE i + 1 \in T
  <2>1. SUFFICES ASSUME i + 1 <= n, i + 1 <= m PROVE g[i + 1] = f[i + 1]
    OBVIOUS
  <2>2. i \in 0 .. n - 1 /\ i \in 0 .. m - 1 /\ g[i] = f[i]
    BY <1>2, <2>1
  <2>3. g[i + 1] = Higher(g[i]) /\ f[i + 1] = Higher(f[i])
    BY <2>2 DEF Levelled
  <2>4. QED
    BY <2>2, <2>3
<1>3. \A i \in Nat : i \in T
  <2> HIDE DEF T
  <2>1. QED
    BY <1>1, <1>2, Induction
<1>4. QED
  BY <1>3

\* The sets of trees are what their recursion says.
LEMMA TreeIs == Tree[0] = {NULL} /\ \A h \in Nat : Tree[h + 1] = Higher(Tree[h])
<1> DEFINE T == {n \in Nat : \E g : Levelled(g, n)}
           F(f) == [h \in Nat |-> IF h = 0 THEN {NULL} ELSE {NULL} \cup Node(f[h - 1])]
<1>1. 0 \in T
  <2> DEFINE g == [i \in {0} |-> {NULL}]
  <2>1. Levelled(g, 0)
    BY DEF Levelled
  <2>2. QED
    BY <2>1
<1>2. ASSUME NEW n \in Nat, n \in T PROVE n + 1 \in T
  <2>1. PICK g : Levelled(g, n)
    BY <1>2
  <2> DEFINE f == [i \in 0 .. n + 1 |-> IF i = n + 1 THEN Higher(g[n]) ELSE g[i]]
  <2>2. f[0] = {NULL}
    BY <2>1 DEF Levelled
  <2>3. ASSUME NEW i \in 0 .. (n + 1) - 1 PROVE f[i + 1] = Higher(f[i])
    <3>1. CASE i = n
      <4>1. f[n + 1] = Higher(g[n]) /\ f[n] = g[n]
        OBVIOUS
      <4>2. QED
        BY <3>1, <4>1
    <3>2. CASE i # n
      <4>1. i \in 0 .. n - 1 /\ i + 1 # n + 1 /\ i # n + 1 /\ i + 1 \in 0 .. n + 1
        BY <3>2
      <4>2. f[i + 1] = g[i + 1] /\ f[i] = g[i]
        BY <4>1
      <4>3. QED
        BY <2>1, <4>1, <4>2 DEF Levelled
    <3>3. QED
      BY <3>1, <3>2
  <2> HIDE DEF f
  <2>4. Levelled(f, n + 1)
    BY <2>2, <2>3 DEF Levelled
  <2>5. QED
    BY <2>4
<1>3. \A n \in Nat : \E g : Levelled(g, n)
  <2>1. \A n \in Nat : n \in T
    <3> HIDE DEF T
    <3>1. QED
      BY <1>1, <1>2, Induction
  <2>2. QED
    BY <2>1
<1> DEFINE a == [n \in Nat |-> CHOOSE g : Levelled(g, n)]
           f == [n \in Nat |-> a[n][n]]
<1>4. \A n \in Nat : Levelled(a[n], n)
  BY <1>3, Zenon
<1> HIDE DEF a
<1>5. f[0] = {NULL}
  BY <1>4 DEF Levelled
<1>6. ASSUME NEW n \in Nat PROVE f[n + 1] = Higher(f[n])
  <2> DEFINE m == n + 1
  <2>1. m \in Nat /\ n <= n /\ n <= m /\ n \in 0 .. m - 1
    OBVIOUS
  <2>2. Levelled(a[n], n) /\ Levelled(a[m], m)
    BY <1>4, <2>1
  <2>3. a[m][n + 1] = Higher(a[m][n])
    BY <2>1, <2>2 DEF Levelled
  <2> HIDE DEF m
  <2>4. a[n][n] = a[m][n]
    BY <2>1, <2>2, LevelledAgree
  <2>5. f[m] = a[m][m] /\ f[n] = a[n][n]
    BY <2>1
  <2>6. QED
    BY <2>3, <2>4, <2>5 DEF m
<1>7. f = F(f)
  <2>1. \A h \in Nat : f[h] = IF h = 0 THEN {NULL} ELSE {NULL} \cup Node(f[h - 1])
    <3> TAKE h \in Nat
    <3>1. CASE h = 0
      BY <1>5, <3>1
    <3>2. CASE h # 0
      <4> DEFINE i == h - 1
      <4>1. i \in Nat /\ h = i + 1
        BY <3>2
      <4> HIDE DEF f, i
      <4>2. f[i + 1] = Higher(f[i])
        BY <1>6, <4>1
      <4>3. QED
        BY <3>2, <4>1, <4>2 DEF Higher, i
    <3>3. QED
      BY <3>1, <3>2
  <2>2. f = [h \in Nat |-> f[h]]
    OBVIOUS
  <2> HIDE DEF f
  <2>3. QED
    BY <2>1, <2>2, Zenon
<1> HIDE DEF f
<1>8. Tree = F(Tree)
  <2>1. Tree = CHOOSE g : g = F(g)
    BY Zenon DEF Tree
  <2> HIDE DEF F
  <2>2. QED
    BY <1>7, <2>1, Zenon
<1>9. \A h \in Nat : Tree[h] = IF h = 0 THEN {NULL} ELSE {NULL} \cup Node(Tree[h - 1])
  BY <1>8, Zenon
<1>10. \A h \in Nat : h + 1 \in Nat /\ h + 1 # 0 /\ (h + 1) - 1 = h
  OBVIOUS
<1>11. QED
  BY <1>9, <1>10 DEF Higher

\* A tree of h levels is null or a node over trees of one level less, and is a
\* tree of more levels, too.
LEMMA TreeFacts ==
  /\ \A h \in Nat : NULL \in Tree[h]
  /\ \A h \in Nat : Tree[h] \subseteq Tree[h + 1]
  /\ \A h \in Nat : \A n \in Tree[h + 1] : n = NULL \/ n \in Node(Tree[h])
  /\ \A h \in Nat : Node(Tree[h]) \subseteq Tree[h + 1]
  /\ \A h \in 0 .. MaxHeight : Tree[h] \subseteq Trees
  /\ NULL \notin Node(Trees)
<1> DEFINE T == {h \in Nat : Tree[h] \subseteq Tree[h + 1]}
           H == MaxHeight
<1>1. Tree[0] = {NULL} /\ \A h \in Nat : Tree[h + 1] = {NULL} \cup Node(Tree[h])
  BY TreeIs DEF Higher
<1>2. \A h \in Nat : NULL \in Tree[h]
  <2>1. \A h \in Nat : h = 0 \/ (h - 1 \in Nat /\ (h - 1) + 1 = h)
    OBVIOUS
  <2>2. QED
    BY <1>1, <2>1
<1>3. \A h \in Nat : Tree[h] \subseteq Tree[h + 1]
  <2>1. 0 \in T
    BY <1>1
  <2>2. ASSUME NEW h \in Nat, h \in T PROVE h + 1 \in T
    <3> DEFINE g == h + 1
    <3>1. g \in Nat /\ Tree[h] \subseteq Tree[g]
      BY <2>2
    <3>2. Tree[g] = {NULL} \cup Node(Tree[h])
      BY <1>1
    <3> HIDE DEF g
    <3>3. Tree[g + 1] = {NULL} \cup Node(Tree[g])
      BY <1>1, <3>1
    <3>4. Node(Tree[h]) \subseteq Node(Tree[g])
      BY <3>1 DEF Node
    <3>5. QED
      BY <3>1, <3>2, <3>3, <3>4 DEF g
  <2>3. \A h \in Nat : h \in T
    <3> HIDE DEF T
    <3>1. QED
      BY <2>1, <2>2, Induction
  <2>4. QED
    BY <2>3
<1>4. H \in Nat
  BY BoundsAssumption
<1>5. \A h \in 0 .. H : Tree[h] \subseteq Tree[H]
  <2> DEFINE D == {d \in Nat : d <= H => Tree[H - d] \subseteq Tree[H]}
  <2>1. 0 \in D
    BY <1>4
  <2>2. ASSUME NEW d \in Nat, d \in D PROVE d + 1 \in D
    <3>1. SUFFICES ASSUME d + 1 <= H PROVE Tree[H - (d + 1)] \subseteq Tree[H]
      OBVIOUS
    <3> DEFINE h == H - (d + 1)
    <3>2. h \in Nat /\ h + 1 = H - d /\ d <= H
      BY <1>4, <3>1
    <3>3. Tree[H - d] \subseteq Tree[H]
      BY <2>2, <3>2
    <3>4. Tree[h + 1] \subseteq Tree[H]
      BY <3>2, <3>3
    <3> HIDE DEF h
    <3>5. Tree[h] \subseteq Tree[H]
      BY <1>3, <3>2, <3>4
    <3>6. QED
      BY <3>5 DEF h
  <2>3. \A d \in Nat : d \in D
    <3> HIDE DEF D
    <3>1. QED
      BY <2>1, <2>2, Induction
  <2>4. ASSUME NEW h \in 0 .. H PROVE Tree[h] \subseteq Tree[H]
    <3> DEFINE d == H - h
    <3>1. d \in Nat /\ d <= H /\ H - d = h
      BY <1>4
    <3>2. d \in D
      BY <2>3, <3>1
    <3>3. Tree[H - d] \subseteq Tree[H]
      BY <3>1, <3>2
    <3> HIDE DEF d
    <3>4. QED
      BY <3>1, <3>3
  <2>5. QED
    BY <2>4
<1> HIDE DEF H
<1>6. \A h \in 0 .. MaxHeight : Tree[h] \subseteq Trees
  BY <1>5 DEF Trees, H
<1>7. QED
  BY <1>1, <1>2, <1>3, <1>6, NullAssumption

\* The pointers a call on tree n may follow.
Below(n) == IF n = NULL THEN {} ELSE {NULL} \cup {n.child[i] : i \in Links}

LEMMA ChildBelow ==
  ASSUME NEW n \in Trees, n # NULL
  PROVE  /\ n \in Node(Trees)
         /\ \A i : Child(n, i) \in Below(n) \cap Trees
         /\ Below(n) \subseteq Trees
<1> DEFINE h == MaxHeight - 1
<1>1. h \in Nat /\ h \in 0 .. MaxHeight /\ h + 1 = MaxHeight
  BY BoundsAssumption
<1> HIDE DEF h
<1>2. n \in Tree[h + 1]
  BY <1>1 DEF Trees
<1>3. n \in Node(Tree[h])
  BY <1>1, <1>2, TreeFacts
<1>4. Tree[h] \subseteq Trees /\ NULL \in Tree[h]
  BY <1>1, TreeFacts
<1>5. n \in Node(Trees)
  BY <1>3, <1>4 DEF Node
<1>6. \A i : Child(n, i) \in Trees
  BY <1>4, <1>5, GettersTyped
<1>7. \A i : Child(n, i) \in Below(n)
  <2>1. \A i : Child(n, i) = NULL \/ (i \in Links /\ Child(n, i) = n.child[i])
    BY <1>4, <1>5, GettersTyped
  <2>2. QED
    BY <2>1 DEF Below
<1>8. Below(n) \subseteq Trees
  BY <1>4, <1>5 DEF Below, Node
<1>9. QED
  BY <1>5, <1>6, <1>7, <1>8

\* A function on the trees that goes by step.
TreeSolves(f, R, step) == f \in [Trees -> R] /\ \A n \in Trees : f[n] = step[<<n, f>>]

\* A recursion over the trees has a solution if step asks for nothing but what
\* the function gives for the pointers below.
LEMMA TreeRecursion ==
  ASSUME NEW R, NEW r \in R, NEW step \in [Trees \X [Trees -> R] -> R],
         \A n \in Trees : \A f, g \in [Trees -> R] :
           (\A c \in Below(n) : f[c] = g[c]) => step[<<n, f>>] = step[<<n, g>>]
  PROVE  \E f : TreeSolves(f, R, step)
<1> DEFINE F == [Trees -> R]
           once == [p \in F \X Nat |-> [n \in Trees |-> step[<<n, p[1]>>]]]
           start == [n \in Trees |-> r]
<1>1. once \in [F \X Nat -> F]
  OBVIOUS
<1>2. start \in F
  OBVIOUS
<1>3. PICK G : Solves(G, F, start, once)
  <2> HIDE DEF F, once, start
  <2>1. QED
    BY <1>1, <1>2, Recursion
<1>4. \A i \in Nat : G[i] \in [Trees -> R] /\ i + 1 \in Nat
  BY <1>3 DEF Solves
<1>5. \A i \in Nat : \A n \in Trees : G[i + 1][n] = step[<<n, G[i]>>]
  <2>1. \A i \in Nat : G[i] \in F /\ G[i + 1] = once[<<G[i], i>>]
    BY <1>3 DEF Solves
  <2> HIDE DEF F
  <2>2. \A i \in Nat : G[i + 1] = [n \in Trees |-> step[<<n, G[i]>>]]
    BY <2>1
  <2>3. ASSUME NEW i \in Nat, NEW n \in Trees PROVE G[i + 1][n] = step[<<n, G[i]>>]
    <3>1. G[i + 1] = [m \in Trees |-> step[<<m, G[i]>>]]
      BY <2>2
    <3>2. QED
      BY <3>1
  <2>4. QED
    BY <2>3
<1> HIDE DEF F, once, start
<1> DEFINE Settled(h) == \A n \in Tree[h] : \A i, j \in Nat :
                           (h <= i /\ h <= j) => G[i + 1][n] = G[j + 1][n]
           T == {h \in Nat : h <= MaxHeight => Settled(h)}
<1>6. MaxHeight \in Nat
  BY BoundsAssumption
<1>7. 0 \in T
  <2>1. Tree[0] = {NULL} /\ NULL \in Trees
    BY <1>6, TreeIs, TreeFacts
  <2>2. Below(NULL) = {}
    BY DEF Below
  <2>3. ASSUME NEW i \in Nat, NEW j \in Nat PROVE G[i + 1][NULL] = G[j + 1][NULL]
    <3>1. G[i] \in [Trees -> R] /\ G[j] \in [Trees -> R]
      BY <1>4
    <3>2. step[<<NULL, G[i]>>] = step[<<NULL, G[j]>>]
      BY <2>1, <2>2, <3>1
    <3>3. QED
      BY <1>5, <2>1, <3>2
  <2>4. QED
    BY <2>1, <2>3
<1>8. ASSUME NEW h \in Nat, h \in T PROVE h + 1 \in T
  <2>1. SUFFICES ASSUME h + 1 <= MaxHeight, NEW n \in Tree[h + 1], NEW i \in Nat, NEW j \in Nat,
                        h + 1 <= i, h + 1 <= j
                 PROVE  G[i + 1][n] = G[j + 1][n]
    OBVIOUS
  <2>2. Settled(h) /\ h + 1 \in 0 .. MaxHeight
    BY <1>6, <1>8, <2>1
  <2>3. n \in Trees
    BY <2>1, <2>2, TreeFacts
  <2> DEFINE a == i - 1
             b == j - 1
  <2>4. a \in Nat /\ b \in Nat /\ h <= a /\ h <= b /\ a + 1 = i /\ b + 1 = j
    BY <2>1
  <2> HIDE DEF a, b
  <2>5. Below(n) \subseteq Tree[h]
    BY <2>1, TreeFacts DEF Below, Node
  <2>6. \A c \in Below(n) : G[a + 1][c] = G[b + 1][c]
    BY <2>2, <2>4, <2>5
  <2>7. \A c \in Below(n) : G[i][c] = G[j][c]
    BY <2>4, <2>6
  <2>8. step[<<n, G[i]>>] = step[<<n, G[j]>>]
    BY <1>4, <2>3, <2>7
  <2>9. QED
    BY <1>5, <2>3, <2>8
<1>9. \A h \in Nat : h \in T
  <2> HIDE DEF T
  <2>1. QED
    BY <1>7, <1>8, Induction
<1> DEFINE N == MaxHeight
           f == G[N + 1]
<1>10. N \in Nat /\ N + 1 \in Nat /\ N <= N + 1 /\ N <= N /\ Settled(N) /\ Tree[N] = Trees
  BY <1>6, <1>9, SMTT(40) DEF Trees
<1> HIDE DEF N
<1>11. \A n \in Trees : f[n] = G[(N + 1) + 1][n]
  BY <1>10
<1>12. \A n \in Trees : G[(N + 1) + 1][n] = step[<<n, f>>]
  BY <1>5, <1>10
<1>13. f \in [Trees -> R]
  BY <1>4, <1>10
<1> HIDE DEF f
<1>14. TreeSolves(f, R, step)
  BY <1>11, <1>12, <1>13 DEF TreeSolves
<1>15. QED
  BY <1>14

\* What holds of the null pointer, and of a node when it holds of the pointers
\* below, holds of every tree.
LEMMA TreeInduction ==
  ASSUME NEW S, NULL \in S,
         \A n \in Trees : (n # NULL /\ n \in Node(Trees) /\ Below(n) \subseteq S) => n \in S
  PROVE  Trees \subseteq S
<1> DEFINE T == {h \in Nat : h <= MaxHeight => Tree[h] \subseteq S}
<1>1. MaxHeight \in Nat
  BY BoundsAssumption
<1>2. 0 \in T
  BY TreeIs
<1>3. ASSUME NEW h \in Nat, h \in T PROVE h + 1 \in T
  <2>1. SUFFICES ASSUME h + 1 <= MaxHeight, NEW n \in Tree[h + 1], n # NULL PROVE n \in S
    OBVIOUS
  <2>2. h + 1 \in 0 .. MaxHeight /\ Tree[h] \subseteq S
    BY <1>1, <1>3, <2>1
  <2>3. n \in Trees
    BY <2>1, <2>2, TreeFacts
  <2>4. n \in Node(Tree[h]) /\ n \in Node(Trees)
    BY <2>1, <2>3, TreeFacts, ChildBelow
  <2>5. Below(n) \subseteq Tree[h]
    BY <2>1, <2>4, TreeFacts DEF Below, Node
  <2>6. QED
    BY <2>1, <2>2, <2>3, <2>4, <2>5
<1>4. \A h \in Nat : h \in T
  <2> HIDE DEF T
  <2>1. QED
    BY <1>2, <1>3, Induction
<1>5. QED
  BY <1>1, <1>4 DEF Trees

-----------------------------------------------------------------------------
(* Lookup *)

Look(m, k, f) ==
    LET i == FindPos(m, k) IN
    IF m = NULL THEN 0 ELSE IF Key(m, i) = k THEN k ELSE f[Child(m, i)]

\* The recursion of lke_btree_lookup.
LEMMA LookupIs ==
  ASSUME NEW k \in Nat
  PROVE  /\ Lookup(NULL, k) = 0
         /\ \A n \in Trees : n # NULL =>
              Lookup(n, k) = IF Key(n, FindPos(n, k)) = k THEN k
                             ELSE Lookup(Child(n, FindPos(n, k)), k)
<1> DEFINE F(f) == [m \in Trees |-> Look(m, k, f)]
           step == [p \in Trees \X [Trees -> Nat] |-> Look(p[1], k, p[2])]
           look == CHOOSE f : f = F(f)
<1>1. \A n \in Trees : Lookup(n, k) = look[n]
  BY Zenon DEF Lookup, Look
<1>2. ASSUME NEW n \in Trees, NEW f \in [Trees -> Nat] PROVE Look(n, k, f) \in Nat
  BY ChildBelow DEF Look
<1>3. step \in [Trees \X [Trees -> Nat] -> Nat]
  <2>1. \A p \in Trees \X [Trees -> Nat] : p[1] \in Trees /\ p[2] \in [Trees -> Nat]
    OBVIOUS
  <2>2. QED
    BY <1>2, <2>1
<1>4. ASSUME NEW n \in Trees, NEW f \in [Trees -> Nat], NEW g \in [Trees -> Nat],
             \A c \in Below(n) : f[c] = g[c]
      PROVE  step[<<n, f>>] = step[<<n, g>>]
  <2>1. Look(n, k, f) = Look(n, k, g)
    BY <1>4, ChildBelow DEF Look
  <2>2. QED
    BY <2>1
<1>5. PICK f : TreeSolves(f, Nat, step)
  <2> HIDE DEF step
  <2>1. 0 \in Nat
    OBVIOUS
  <2>2. QED
    BY <1>3, <1>4, <2>1, TreeRecursion
<1>6. f = F(f)
  <2>1. f \in [Trees -> Nat] /\ \A n \in Trees : f[n] = Look(n, k, f)
    BY <1>5 DEF TreeSolves
  <2>2. QED
    BY <2>1
<1>7. look = F(look)
  <2> HIDE DEF F
  <2>1. QED
    BY <1>6
<1>8. \A n \in Trees : look[n] = Look(n, k, look)
  <2> HIDE DEF look
  <2>1. QED
    BY <1>7
<1>9. NULL \in Trees
  BY TreeFacts, BoundsAssumption
<1> HIDE DEF look
<1>10. Lookup(NULL, k) = 0
  BY <1>1, <1>8, <1>9 DEF Look
<1>11. ASSUME NEW n \in Trees, n # NULL
       PROVE  Lookup(n, k) = IF Key(n, FindPos(n, k)) = k THEN k
                             ELSE Lookup(Child(n, FindPos(n, k)), k)
  <2>1. Child(n, FindPos(n, k)) \in Trees
    BY <1>11, ChildBelow
  <2>2. QED
    BY <1>1, <1>8, <1>11, <2>1 DEF Look
<1>12. QED
  BY <1>10, <1>11

-----------------------------------------------------------------------------
(* Search trees *)

\* The keys of a tree.
KeysOf(n) ==
    LET keys[m \in Trees] ==
            IF m = NULL THEN {}
            ELSE {m.key[i] : i \in 0 .. KeyLen(m) - 1} \cup UNION {keys[Child(m, i)] : i \in Links}
    IN  keys[n]

\* Every key below the child at i lies between the keys around it.
Separated(n, len) ==
    \A i \in Links : i <= len => \A x \in KeysOf(n.child[i]) : Between(n, len, i, x)

WellMade(n, len, C) == Packed(n, len) /\ Hung(n, len, C) /\ Separated(n, len)

\* The trees of C that may hang below a node: with no fewer keys than a split
\* leaves and with at most hi.
Kids(C, hi) == {c \in C : c = NULL \/ KeyLen(c) \in Half .. hi}

\* Sound(hi)[h] has the search trees whose leaves are all at depth h and whose
\* nodes but the root have at most hi keys.
Sound(hi) ==
    LET sound[h \in Nat] ==
            IF h = 0 THEN {NULL}
            ELSE {n \in Trees \ {NULL} : \E len \in 0 .. M : WellMade(n, len, Kids(sound[h - 1], hi))}
    IN  sound

LEMMA KeysOfIs ==
  /\ KeysOf(NULL) = {}
  /\ \A n \in Trees : KeysOf(n) \subseteq Nat
  /\ \A n \in Trees : n # NULL =>
       KeysOf(n) = {n.key[i] : i \in 0 .. KeyLen(n) - 1} \cup UNION {KeysOf(Child(n, i)) : i \in Links}
<1> DEFINE R == SUBSET Nat
           E(m, f) == IF m = NULL THEN {}
                      ELSE {m.key[i] : i \in 0 .. KeyLen(m) - 1} \cup UNION {f[Child(m, i)] : i \in Links}
           F(f) == [m \in Trees |-> E(m, f)]
           step == [p \in Trees \X [Trees -> R] |-> E(p[1], p[2])]
           keys == CHOOSE f : f = F(f)
<1>1. \A n \in Trees : KeysOf(n) = keys[n]
  BY Zenon DEF KeysOf
<1>2. ASSUME NEW n \in Trees, n # NULL PROVE {n.key[i] : i \in 0 .. KeyLen(n) - 1} \subseteq Nat
  <2>1. n \in Node(Trees) /\ NULL \in Trees
    BY <1>2, ChildBelow, TreeFacts, BoundsAssumption
  <2>2. KeyLen(n) \in 0 .. M /\ M \in Nat
    BY <2>1, GettersTyped, MAssumption
  <2>3. \A i \in 0 .. KeyLen(n) - 1 : i \in Slots
    BY <2>2 DEF Slots
  <2>4. QED
    BY <2>1, <2>3 DEF Node
<1>3. ASSUME NEW n \in Trees, NEW f \in [Trees -> R] PROVE E(n, f) \in R
  <2>1. CASE n = NULL
    BY <2>1
  <2>2. CASE n # NULL
    <3>1. \A i : Child(n, i) \in Trees
      BY <2>2, ChildBelow
    <3>2. QED
      BY <1>2, <2>2, <3>1
  <2>3. QED
    BY <2>1, <2>2
<1>4. step \in [Trees \X [Trees -> R] -> R]
  <2>1. \A p \in Trees \X [Trees -> R] : p[1] \in Trees /\ p[2] \in [Trees -> R]
    OBVIOUS
  <2> HIDE DEF R, E
  <2>2. QED
    BY <1>3, <2>1
<1>5. ASSUME NEW n \in Trees, NEW f \in [Trees -> R], NEW g \in [Trees -> R],
             \A c \in Below(n) : f[c] = g[c]
      PROVE  step[<<n, f>>] = step[<<n, g>>]
  <2>1. E(n, f) = E(n, g)
    <3>1. CASE n = NULL
      BY <3>1
    <3>2. CASE n # NULL
      <4>1. \A i : Child(n, i) \in Below(n)
        BY <3>2, ChildBelow
      <4>2. {f[Child(n, i)] : i \in Links} = {g[Child(n, i)] : i \in Links}
        BY <1>5, <4>1
      <4>3. QED
        BY <4>2
    <3>3. QED
      BY <3>1, <3>2
  <2> HIDE DEF R, E
  <2>2. QED
    BY <2>1
<1>6. PICK f : TreeSolves(f, R, step)
  <2>1. {} \in R
    OBVIOUS
  <2> HIDE DEF step, R
  <2>2. QED
    BY <1>4, <1>5, <2>1, TreeRecursion
<1>7. f = F(f)
  <2> HIDE DEF E, R
  <2>1. f \in [Trees -> R] /\ \A n \in Trees : f[n] = E(n, f)
    BY <1>6 DEF TreeSolves
  <2>2. QED
    BY <2>1
<1>8. keys = F(keys)
  <2> HIDE DEF F
  <2>1. QED
    BY <1>7
<1>9. \A n \in Trees : keys[n] = E(n, keys)
  <2> HIDE DEF keys, E
  <2>1. QED
    BY <1>8
<1>10. NULL \in Trees
  BY TreeFacts, BoundsAssumption
<1> HIDE DEF keys
<1>11. KeysOf(NULL) = {}
  BY <1>1, <1>9, <1>10
<1>12. ASSUME NEW n \in Trees, n # NULL
       PROVE  KeysOf(n) = {n.key[i] : i \in 0 .. KeyLen(n) - 1} \cup UNION {KeysOf(Child(n, i)) : i \in Links}
  <2>1. \A i : Child(n, i) \in Trees
    BY <1>12, ChildBelow
  <2>2. {keys[Child(n, i)] : i \in Links} = {KeysOf(Child(n, i)) : i \in Links}
    BY <1>1, <2>1
  <2>3. QED
    BY <1>1, <1>9, <1>12, <2>2
<1>13. \A n \in Trees : KeysOf(n) \subseteq Nat
  <2> DEFINE S == {n \in Trees : KeysOf(n) \subseteq Nat}
  <2>1. NULL \in S
    BY <1>10, <1>11
  <2>2. ASSUME NEW n \in Trees, n # NULL, Below(n) \subseteq S PROVE n \in S
    <3>1. \A i : Child(n, i) \in S
      BY <2>2, ChildBelow
    <3>2. QED
      BY <1>2, <1>12, <2>2, <3>1
  <2>3. Trees \subseteq S
    <3> HIDE DEF S
    <3>1. QED
      BY <2>1, <2>2, TreeInduction
  <2>4. QED
    BY <2>3
<1>14. QED
  BY <1>11, <1>12, <1>13

LEMMA SoundIs ==
  ASSUME NEW hi
  PROVE  /\ Sound(hi)[0] = {NULL}
         /\ \A h \in Nat : Sound(hi)[h + 1] =
              {n \in Trees \ {NULL} : \E len \in 0 .. M : WellMade(n, len, Kids(Sound(hi)[h], hi))}
<1> DEFINE R == SUBSET Trees
           More(C) == {n \in Trees \ {NULL} : \E len \in 0 .. M : WellMade(n, len, Kids(C, hi))}
           E(h, f) == IF h = 0 THEN {NULL} ELSE More(f[h - 1])
           F(f) == [h \in Nat |-> E(h, f)]
           step == [p \in R \X Nat |-> More(p[1])]
           sound == CHOOSE f : f = F(f)
<1>1. Sound(hi) = sound
  BY Zenon DEF Sound
<1>2. step \in [R \X Nat -> R]
  OBVIOUS
<1>3. {NULL} \in R
  BY TreeFacts, BoundsAssumption
<1>4. PICK f : Solves(f, R, {NULL}, step)
  <2> HIDE DEF R, step
  <2>1. QED
    BY <1>2, <1>3, Recursion
<1>5. f = F(f)
  <2>1. f \in [Nat -> R] /\ f[0] = {NULL} /\ \A h \in Nat : f[h + 1] = step[<<f[h], h>>]
    BY <1>4 DEF Solves
  <2> HIDE DEF More, R
  <2>2. \A h \in Nat : f[h + 1] = More(f[h])
    BY <2>1
  <2>3. \A h \in Nat : h = 0 \/ (h - 1 \in Nat /\ (h - 1) + 1 = h)
    OBVIOUS
  <2>4. \A h \in Nat : f[h] = E(h, f)
    BY <2>1, <2>2, <2>3
  <2>5. f = [h \in Nat |-> f[h]]
    BY <2>1
  <2> HIDE DEF E
  <2>6. QED
    BY <2>4, <2>5
<1>6. sound = F(sound)
  <2> HIDE DEF F
  <2>1. QED
    BY <1>5
<1>7. \A h \in Nat : sound[h] = E(h, sound)
  <2> HIDE DEF sound, E
  <2>1. QED
    BY <1>6
<1> HIDE DEF sound
<1>8. sound[0] = {NULL}
  BY <1>7
<1>9. \A h \in Nat : sound[h + 1] = More(sound[h])
  <2> HIDE DEF More
  <2>1. \A h \in Nat : h + 1 \in Nat /\ h + 1 # 0 /\ (h + 1) - 1 = h
    OBVIOUS
  <2>2. QED
    BY <1>7, <2>1
<1>10. QED
  BY <1>1, <1>8, <1>9

\* The keys of a node: its own and those of its children.
LEMMA KeysOfNode ==
  ASSUME NEW n \in Trees, n # NULL, NEW len, NEW C, Packed(n, len), Hung(n, len, C), Uniform(C)
  PROVE  \A x : x \in KeysOf(n) <=> \/ \E i \in Slots : i < len /\ x = n.key[i]
                                    \/ \E i \in Links : i <= len /\ x \in KeysOf(n.child[i])
<1>1. M \in Nat /\ len \in 0 .. M
  BY MAssumption DEF Packed
<1>2. KeyLen(n) = len
  BY PackedReads
<1>3. \A i \in Links : Child(n, i) = n.child[i]
  BY <1>1, HungReads
<1>4. \A i \in Links : len < i => KeysOf(n.child[i]) = {}
  BY KeysOfIs DEF Hung
<1>5. \A i \in Links : i <= len \/ len < i
  BY <1>1 DEF Links
<1>6. \A i : i \in 0 .. len - 1 <=> (i \in Slots /\ i < len)
  BY <1>1 DEF Slots
<1>7. KeysOf(n) = {n.key[i] : i \in 0 .. len - 1} \cup UNION {KeysOf(Child(n, i)) : i \in Links}
  BY <1>2, KeysOfIs
<1>8. QED
  BY <1>3, <1>4, <1>5, <1>6, <1>7

\* What the definition says of a node of a sound tree.
LEMMA SoundNode ==
  ASSUME NEW hi, NEW h \in Nat, NEW n \in Sound(hi)[h + 1]
  PROVE  /\ n \in Trees /\ n # NULL /\ n \in Node(Trees) /\ KeyLen(n) \in 0 .. M
         /\ WellMade(n, KeyLen(n), Kids(Sound(hi)[h], hi))
<1>1. /\ n \in Trees /\ n # NULL
      /\ \E len \in 0 .. M : WellMade(n, len, Kids(Sound(hi)[h], hi))
  BY SoundIs
<1>2. PICK len \in 0 .. M : WellMade(n, len, Kids(Sound(hi)[h], hi))
  BY <1>1
<1>3. KeyLen(n) = len
  BY <1>2, PackedReads DEF WellMade
<1>4. QED
  BY <1>1, <1>2, <1>3, ChildBelow

LEMMA KidsUniform ==
  ASSUME NEW hi, NEW h \in Nat
  PROVE  /\ Uniform(Kids(Sound(hi)[h], hi)) /\ Kids(Sound(hi)[h], hi) \subseteq Sound(hi)[h]
         /\ Sound(hi)[h] \subseteq Trees
         /\ h = 0 => Kids(Sound(hi)[h], hi) = {NULL}
         /\ h # 0 => NULL \notin Kids(Sound(hi)[h], hi) /\ NULL \notin Sound(hi)[h]
<1>1. CASE h = 0
  <2>1. NULL \in Trees
    BY TreeFacts, BoundsAssumption
  <2>2. QED
    BY <1>1, <2>1, SoundIs DEF Kids, Uniform
<1>2. CASE h # 0
  <2> DEFINE g == h - 1
  <2>1. g \in Nat /\ h = g + 1
    BY <1>2
  <2> HIDE DEF g
  <2>2. NULL \notin Sound(hi)[h] /\ Sound(hi)[h] \subseteq Trees
    BY <2>1, SoundIs
  <2>3. QED
    BY <1>2, <2>2 DEF Kids, Uniform
<1>3. QED
  BY <1>1, <1>2

\* In a search tree a key is stored below the child at its position or nowhere.
LEMMA KeyGoesBelow ==
  ASSUME NEW n \in Trees, n # NULL, NEW len, NEW C, WellMade(n, len, C), Uniform(C),
         NEW k \in Nat \ {0}, NEW pos \in 0 .. len, Between(n, len, pos, k)
  PROVE  pos \in Links /\ (k \in KeysOf(n) <=> k \in KeysOf(n.child[pos]))
<1>1. M \in Nat /\ len \in 0 .. M
  BY MAssumption DEF WellMade, Packed
<1>2. pos \in Links
  BY <1>1 DEF Links
<1>3. \A x : x \in KeysOf(n) <=> \/ \E i \in Slots : i < len /\ x = n.key[i]
                                 \/ \E i \in Links : i <= len /\ x \in KeysOf(n.child[i])
  BY KeysOfNode DEF WellMade
<1>4. /\ \A j \in Slots : j < len => n.key[j] # k
      /\ \A j \in 0 .. len : Between(n, len, j, k) => j = pos
  BY OneBetween DEF WellMade
<1>5. \A i \in Links : (i <= len /\ k \in KeysOf(n.child[i])) => i = pos
  <2>1. \A i \in Links : i <= len => i \in 0 .. len
    BY <1>1 DEF Links
  <2>2. QED
    BY <1>4, <2>1 DEF WellMade, Separated
<1>6. pos <= len
  BY <1>1
<1>7. QED
  BY <1>2, <1>3, <1>4, <1>5, <1>6

\* A lookup finds the keys of a search tree and no others.
LEMMA LookupFinds ==
  ASSUME NEW hi, NEW k \in Nat \ {0}
  PROVE  \A h \in Nat : \A n \in Sound(hi)[h] : Lookup(n, k) = IF k \in KeysOf(n) THEN k ELSE 0
<1> DEFINE T == {h \in Nat : \A n \in Sound(hi)[h] : Lookup(n, k) = IF k \in KeysOf(n) THEN k ELSE 0}
<1>1. 0 \in T
  BY SoundIs, LookupIs, KeysOfIs
<1>2. ASSUME NEW h \in Nat, h \in T PROVE h + 1 \in T
  <2>1. SUFFICES ASSUME NEW n \in Sound(hi)[h + 1]
                 PROVE  Lookup(n, k) = IF k \in KeysOf(n) THEN k ELSE 0
    OBVIOUS
  <2> DEFINE len == KeyLen(n)
             C == Kids(Sound(hi)[h], hi)
             pos == FindPos(n, k)
  <2>2. n \in Trees /\ n # NULL /\ WellMade(n, len, C) /\ Packed(n, len) /\ Hung(n, len, C)
    BY SoundNode DEF WellMade
  <2>3. len \in 0 .. M /\ M \in Nat /\ Uniform(C) /\ C \subseteq Sound(hi)[h]
    BY <2>2, KidsUniform, MAssumption DEF Packed
  <2> HIDE DEF len, C
  <2>4. /\ pos \in 0 .. len
        /\ Key(n, pos) = k => pos \in Slots /\ pos < len /\ n.key[pos] = k
        /\ Key(n, pos) # k => Between(n, len, pos, k)
    BY <2>2, PositionOf
  <2>5. Lookup(n, k) = IF Key(n, pos) = k THEN k ELSE Lookup(Child(n, pos), k)
    BY <2>2, LookupIs
  <2> HIDE DEF pos
  <2>6. CASE Key(n, pos) = k
    <3>1. k \in KeysOf(n)
      BY <2>2, <2>3, <2>4, <2>6, KeysOfNode
    <3>2. QED
      BY <2>5, <2>6, <3>1
  <2>7. CASE Key(n, pos) # k
    <3>1. pos \in Links /\ (k \in KeysOf(n) <=> k \in KeysOf(n.child[pos]))
      BY <2>2, <2>3, <2>4, <2>7, KeyGoesBelow
    <3>2. Child(n, pos) = n.child[pos]
      BY <2>2, <2>3, <3>1, HungReads
    <3>3. n.child[pos] \in C
      BY <2>2, <2>3, <2>4, <3>1 DEF Hung
    <3>4. Lookup(n.child[pos], k) = IF k \in KeysOf(n.child[pos]) THEN k ELSE 0
      BY <1>2, <2>3, <3>3
    <3>5. QED
      BY <2>5, <2>7, <3>1, <3>2, <3>4
  <2>8. QED
    BY <2>6, <2>7
<1>3. \A h \in Nat : h \in T
  <2> HIDE DEF T
  <2>1. QED
    BY <1>1, <1>2, Induction
<1>4. QED
  BY <1>3

-----------------------------------------------------------------------------
(* Search trees stay search trees *)

\* What hangs below the child at pos, and k, fit between the keys around it.
LEMMA BelowBetween ==
  ASSUME NEW n, NEW len, NEW C, WellMade(n, len, C), NEW k, NEW pos \in 0 .. len,
         Between(n, len, pos, k)
  PROVE  \A x \in KeysOf(n.child[pos]) \cup {k} : Between(n, len, pos, x)
<1>1. pos \in Links /\ pos <= len
  BY MAssumption DEF WellMade, Packed, Links
<1>2. QED
  BY <1>1 DEF WellMade, Separated

\* A key with its two neighbours takes the place of the child at pos.
LEMMA InsertAtKeys ==
  ASSUME NEW n \in Trees, n # NULL, NEW len, NEW C, WellMade(n, len, C), Uniform(C),
         NEW k \in Nat \ {0}, NEW pos \in 0 .. len, Between(n, len, pos, k),
         NEW up \in Nat \ {0}, NEW l \in C, NEW r \in C,
         \A x \in KeysOf(l) : x < up, \A x \in KeysOf(r) : up < x,
         KeysOf(l) \cup {up} \cup KeysOf(r) \subseteq KeysOf(n.child[pos]) \cup {k},
         NEW m \in Trees, m # NULL, m = InsertAt(n, pos, up, l, r)
  PROVE  /\ WellMade(m, Grown(len), C)
         /\ KeysOf(m) \subseteq KeysOf(n) \cup {k}
         /\ (len < M /\ KeysOf(l) \cup {up} \cup KeysOf(r) = KeysOf(n.child[pos]) \cup {k})
              => KeysOf(m) = KeysOf(n) \cup {k}
<1> DEFINE g == Grown(len)
           U == KeysOf(l) \cup {up} \cup KeysOf(r)
           V == KeysOf(n.child[pos]) \cup {k}
<1>1. /\ M \in Nat /\ len \in 0 .. M /\ g \in 0 .. M /\ g <= len + 1
      /\ (len < M => g = len + 1) /\ (len = M => g = M)
  BY MAssumption DEF WellMade, Packed, Grown
<1>2. \A x \in U : Between(n, len, pos, x)
  BY BelowBetween
<1>3. Packed(n, len) /\ Hung(n, len, C) /\ Separated(n, len)
  BY DEF WellMade
<1>4. Packed(m, g) /\ Hung(m, g, C)
  <2>1. Between(n, len, pos, up)
    BY <1>2
  <2>2. Packed(InsertAt(n, pos, up, l, r), Grown(len))
    BY <1>3, <2>1, InsertAtPacked
  <2>3. Hung(InsertAt(n, pos, up, l, r), Grown(len), C)
    BY <1>1, <1>3, InsertAtHung
  <2>4. QED
    BY <2>2, <2>3
<1>5. \A i \in Slots : m.key[i] = IF i < pos THEN n.key[i] ELSE IF i = pos THEN up ELSE n.key[i - 1]
  BY DEF InsertAt
<1>6. \A i \in Links : m.child[i] = IF i < pos THEN n.child[i]
                                    ELSE IF i = pos THEN l
                                    ELSE IF i = pos + 1 THEN r ELSE n.child[i - 1]
  BY DEF InsertAt
<1>7. \A x : x \in KeysOf(n) <=> \/ \E i \in Slots : i < len /\ x = n.key[i]
                                 \/ \E i \in Links : i <= len /\ x \in KeysOf(n.child[i])
  BY <1>3, KeysOfNode
<1> HIDE DEF g
<1>8. \A x : x \in KeysOf(m) <=> \/ \E i \in Slots : i < g /\ x = m.key[i]
                                 \/ \E i \in Links : i <= g /\ x \in KeysOf(m.child[i])
  BY <1>4, KeysOfNode
<1>9. Separated(m, g)
  <2>1. SUFFICES ASSUME NEW i \in Links, i <= g, NEW x \in KeysOf(m.child[i])
                 PROVE  (0 < i => m.key[i - 1] < x) /\ (i < g => x < m.key[i])
    BY DEF Separated, Between
  <2>2. CASE i < pos
    <3>1. m.child[i] = n.child[i] /\ i <= len
      BY <1>1, <1>6, <2>2 DEF Links
    <3>2. (0 < i => n.key[i - 1] < x) /\ (i < len => x < n.key[i])
      BY <1>3, <2>1, <3>1 DEF Separated, Between
    <3>3. (0 < i => i - 1 \in Slots /\ i - 1 < pos) /\ i \in Slots /\ i < len
      BY <1>1, <2>2 DEF Links, Slots
    <3>4. QED
      BY <1>5, <2>2, <3>2, <3>3
  <2>3. CASE i = pos
    <3>1. m.child[i] = l
      BY <1>1, <1>6, <2>3 DEF Links
    <3>2. x < up /\ (0 < i => n.key[i - 1] < x)
      BY <1>2, <2>1, <2>3, <3>1 DEF Between
    <3>3. (0 < i => i - 1 \in Slots /\ i - 1 < pos) /\ (i < g => i \in Slots /\ ~(i < pos))
      BY <1>1, <2>3 DEF Links, Slots
    <3>4. QED
      BY <1>5, <2>3, <3>2, <3>3
  <2>4. CASE i = pos + 1
    <3>1. m.child[i] = r
      BY <1>1, <1>6, <2>4 DEF Links
    <3>2. up < x /\ (pos < len => x < n.key[pos])
      BY <1>2, <2>1, <3>1 DEF Between
    <3>3. i - 1 \in Slots /\ i - 1 = pos /\ ~(i - 1 < pos)
      BY <1>1, <2>1, <2>4 DEF Links, Slots
    <3>4. i < g => i \in Slots /\ ~(i < pos) /\ i # pos /\ pos < len
      BY <1>1, <2>4 DEF Links, Slots
    <3>5. m.key[i - 1] = up /\ (i < g => m.key[i] = n.key[pos])
      BY <1>5, <3>3, <3>4
    <3>6. QED
      BY <3>2, <3>4, <3>5
  <2>5. CASE pos + 1 < i
    <3> DEFINE j == i - 1
    <3>1. j \in Links /\ j <= len /\ 0 < j /\ j - 1 \in Slots /\ j \in Slots /\ ~(i < pos) /\ i # pos /\ i # pos + 1 /\ ~(j < pos) /\ j # pos
      BY <1>1, <2>1, <2>5 DEF Links, Slots
    <3>2. m.child[i] = n.child[j]
      BY <1>6, <3>1
    <3>3. n.key[j - 1] < x /\ (j < len => x < n.key[j])
      BY <1>3, <2>1, <3>1, <3>2 DEF Separated, Between
    <3>4. i < g => i \in Slots /\ j < len
      BY <1>1 DEF Links, Slots
    <3>5. m.key[i - 1] = n.key[j - 1] /\ (i < g => m.key[i] = n.key[j])
      BY <1>5, <3>1, <3>4
    <3>6. QED
      BY <3>3, <3>4, <3>5
  <2>6. QED
    BY <1>1, <2>2, <2>3, <2>4, <2>5 DEF Links
<1>10. KeysOf(m) \subseteq KeysOf(n) \cup {k}
  <2>1. U \subseteq KeysOf(n) \cup {k}
    <3>1. pos \in Links /\ pos <= len
      BY <1>1 DEF Links
    <3>2. KeysOf(n.child[pos]) \subseteq KeysOf(n)
      BY <1>7, <3>1
    <3>3. QED
      BY <3>2
  <2>2. ASSUME NEW i \in Slots, i < g PROVE m.key[i] \in KeysOf(n) \cup {k}
    <3>1. i < pos => i < len
      BY <1>1 DEF Slots
    <3>2. i < pos \/ i = pos \/ (i - 1 \in Slots /\ i - 1 < len /\ ~(i < pos) /\ i # pos)
      BY <1>1, <2>2 DEF Slots
    <3>3. i = pos => ~(i < pos)
      BY DEF Slots
    <3>4. QED
      BY <1>5, <1>7, <2>1, <3>1, <3>2, <3>3
  <2>3. ASSUME NEW i \in Links, i <= g PROVE KeysOf(m.child[i]) \subseteq KeysOf(n) \cup {k}
    <3>1. CASE i < pos
      <4>1. i <= len /\ m.child[i] = n.child[i]
        BY <1>1, <1>6, <3>1 DEF Links
      <4>2. QED
        BY <1>7, <4>1
    <3>2. CASE i = pos \/ i = pos + 1
      <4>1. m.child[i] = l \/ m.child[i] = r
        BY <1>1, <1>6, <3>2 DEF Links
      <4>2. QED
        BY <2>1, <4>1
    <3>3. CASE pos + 1 < i
      <4>1. i - 1 \in Links /\ i - 1 <= len /\ m.child[i] = n.child[i - 1]
        BY <1>1, <1>6, <2>3, <3>3 DEF Links
      <4>2. QED
        BY <1>7, <4>1
    <3>4. QED
      BY <1>1, <3>1, <3>2, <3>3 DEF Links
  <2>4. QED
    BY <1>8, <2>2, <2>3
<1>11. ASSUME len < M, U = V PROVE KeysOf(m) = KeysOf(n) \cup {k}
  <2>1. g = len + 1 /\ pos \in Slots /\ pos \in Links /\ pos + 1 \in Links /\ pos < g /\ pos + 1 <= g /\ pos <= g
    BY <1>1, <1>11 DEF Slots, Links
  <2>2. U \subseteq KeysOf(m)
    <3>1. m.key[pos] = up /\ m.child[pos] = l /\ m.child[pos + 1] = r
      BY <1>5, <1>6, <2>1
    <3>2. up \in KeysOf(m)
      BY <1>8, <2>1, <3>1
    <3>3. KeysOf(l) \subseteq KeysOf(m) /\ KeysOf(r) \subseteq KeysOf(m)
      BY <1>8, <2>1, <3>1
    <3>4. QED
      BY <3>2, <3>3
  <2>3. ASSUME NEW i \in Slots, i < len PROVE n.key[i] \in KeysOf(m)
    <3>1. CASE i < pos
      <4>1. m.key[i] = n.key[i] /\ i < g
        BY <1>1, <1>5, <2>1, <2>3, <3>1 DEF Slots
      <4>2. QED
        BY <1>8, <4>1
    <3>2. CASE pos <= i
      <4>1. i + 1 \in Slots /\ i + 1 < g /\ ~(i + 1 < pos) /\ i + 1 # pos /\ (i + 1) - 1 = i
        BY <1>1, <1>11, <2>1, <2>3, <3>2 DEF Slots
      <4>2. m.key[i + 1] = n.key[i]
        BY <1>5, <4>1
      <4>3. QED
        BY <1>8, <4>1, <4>2
    <3>3. QED
      BY <1>1, <3>1, <3>2 DEF Slots
  <2>4. ASSUME NEW i \in Links, i <= len PROVE KeysOf(n.child[i]) \subseteq KeysOf(m)
    <3>1. CASE i < pos
      <4>1. m.child[i] = n.child[i] /\ i <= g
        BY <1>1, <1>6, <2>1, <2>4, <3>1 DEF Links
      <4>2. QED
        BY <1>8, <4>1
    <3>2. CASE i = pos
      BY <1>11, <2>2, <3>2
    <3>3. CASE pos < i
      <4>1. i + 1 \in Links /\ i + 1 <= g /\ ~(i + 1 < pos) /\ i + 1 # pos /\ i + 1 # pos + 1 /\ (i + 1) - 1 = i
        BY <1>1, <1>11, <2>1, <2>4, <3>3 DEF Links
      <4>2. m.child[i + 1] = n.child[i]
        BY <1>6, <4>1
      <4>3. QED
        BY <1>8, <4>1, <4>2
    <3>4. QED
      BY <1>1, <3>1, <3>2, <3>3 DEF Links
  <2>5. KeysOf(n) \subseteq KeysOf(m)
    BY <1>7, <2>3, <2>4
  <2>6. k \in KeysOf(m)
    BY <1>11, <2>2
  <2>7. QED
    BY <1>10, <2>5, <2>6
<1>12. QED
  BY <1>4, <1>9, <1>10, <1>11 DEF WellMade, g

\* Another child at pos, with the keys of the old one and k.
LEMMA SetChildKeys ==
  ASSUME NEW n \in Trees, n # NULL, NEW len, NEW C, WellMade(n, len, C), Uniform(C),
         NEW k \in Nat \ {0}, NEW pos \in 0 .. len, Between(n, len, pos, k), NEW c \in C,
         KeysOf(c) \subseteq KeysOf(n.child[pos]) \cup {k},
         NEW m \in Trees, m # NULL, m = SetChild(n, pos, c)
  PROVE  /\ WellMade(m, len, C)
         /\ KeysOf(m) \subseteq KeysOf(n) \cup {k}
         /\ KeysOf(c) = KeysOf(n.child[pos]) \cup {k} => KeysOf(m) = KeysOf(n) \cup {k}
<1>1. M \in Nat /\ len \in 0 .. M /\ pos \in Links /\ pos <= len
  BY MAssumption DEF WellMade, Packed, Links
<1>2. \A x \in KeysOf(c) : Between(n, len, pos, x)
  BY BelowBetween
<1>3. Packed(n, len) /\ Hung(n, len, C) /\ Separated(n, len)
  BY DEF WellMade
<1>4. /\ m.key = n.key
      /\ \A i \in Links : m.child[i] = IF i = pos THEN c ELSE n.child[i]
      /\ Packed(m, len) /\ Hung(m, len, C)
  <2>1. n \in Node(Trees)
    BY ChildBelow
  <2>2. /\ SetChild(n, pos, c).key = n.key
        /\ SetChild(n, pos, c) \in Node(Trees \cup C)
        /\ \A i \in Links : SetChild(n, pos, c).child[i] = IF i = pos THEN c ELSE n.child[i]
        /\ Packed(SetChild(n, pos, c), len)
        /\ Hung(SetChild(n, pos, c), len, C)
    BY <1>3, <2>1, SetChildIs
  <2>3. QED
    BY <2>2, Zenon
<1>5. \A x : x \in KeysOf(n) <=> \/ \E i \in Slots : i < len /\ x = n.key[i]
                                 \/ \E i \in Links : i <= len /\ x \in KeysOf(n.child[i])
  BY <1>3, KeysOfNode
<1>6. \A x : x \in KeysOf(m) <=> \/ \E i \in Slots : i < len /\ x = m.key[i]
                                 \/ \E i \in Links : i <= len /\ x \in KeysOf(m.child[i])
  BY <1>4, KeysOfNode
<1>7. Separated(m, len)
  BY <1>2, <1>3, <1>4 DEF Separated, Between
<1>8. KeysOf(m) \subseteq KeysOf(n) \cup {k}
  BY <1>1, <1>4, <1>5, <1>6
<1>9. ASSUME KeysOf(c) = KeysOf(n.child[pos]) \cup {k} PROVE KeysOf(m) = KeysOf(n) \cup {k}
  <2>1. KeysOf(c) \subseteq KeysOf(m)
    BY <1>1, <1>4, <1>6
  <2>2. KeysOf(n) \subseteq KeysOf(m)
    BY <1>4, <1>5, <1>6, <1>9, <2>1
  <2>3. QED
    BY <1>8, <1>9, <2>1, <2>2
<1>10. QED
  BY <1>4, <1>7, <1>8, <1>9 DEF WellMade

\* The two halves of a full node share its keys with the key that goes up.
LEMMA SplitKeys ==
  ASSUME NEW n \in Trees, n # NULL, NEW C, WellMade(n, M, C), Uniform(C),
         NEW l \in Trees, l # NULL, l = SplitLeft(n), NEW r \in Trees, r # NULL, r = SplitRight(n)
  PROVE  /\ WellMade(l, Mid, C) /\ WellMade(r, Half, C)
         /\ SplitKey(n) \in Nat \ {0}
         /\ \A x \in KeysOf(l) : x < SplitKey(n)
         /\ \A x \in KeysOf(r) : SplitKey(n) < x
         /\ KeysOf(l) \cup {SplitKey(n)} \cup KeysOf(r) = KeysOf(n)
<1> DEFINE up == SplitKey(n)
<1>1. M \in Nat /\ Mid \in 1 .. M - 2 /\ Half \in 1 .. M - 2 /\ M - Mid - 1 = Half
  BY Halves
<1>2. Packed(n, M) /\ Hung(n, M, C) /\ Separated(n, M)
  BY DEF WellMade
<1>3. /\ Packed(l, Mid) /\ Hung(l, Mid, C) /\ Packed(r, Half) /\ Hung(r, Half, C)
      /\ \A i \in Slots : i < Mid => l.key[i] = n.key[i]
      /\ \A i \in Links : i <= Mid => l.child[i] = n.child[i]
      /\ \A i \in Slots : i < Half => i + Mid + 1 \in Slots /\ r.key[i] = n.key[i + Mid + 1]
      /\ \A i \in Links : i <= Half => i + Mid + 1 \in Links /\ r.child[i] = n.child[i + Mid + 1]
      /\ Mid \in Slots /\ up = n.key[Mid] /\ up \in Nat \ {0}
  BY <1>2, SplitIs
<1>4. \A x : x \in KeysOf(n) <=> \/ \E i \in Slots : x = n.key[i]
                                 \/ \E i \in Links : x \in KeysOf(n.child[i])
  <2>1. (\A i \in Slots : i < M) /\ (\A i \in Links : i <= M)
    BY <1>1 DEF Slots, Links
  <2>2. QED
    BY <1>2, <2>1, KeysOfNode
<1>5. \A x : x \in KeysOf(l) <=> \/ \E i \in Slots : i < Mid /\ x = l.key[i]
                                 \/ \E i \in Links : i <= Mid /\ x \in KeysOf(l.child[i])
  BY <1>3, KeysOfNode
<1>6. \A x : x \in KeysOf(r) <=> \/ \E i \in Slots : i < Half /\ x = r.key[i]
                                 \/ \E i \in Links : i <= Half /\ x \in KeysOf(r.child[i])
  BY <1>3, KeysOfNode
<1> HIDE DEF up
<1>7. \A i \in Links : \A x \in KeysOf(n.child[i]) :
        (0 < i => n.key[i - 1] < x) /\ (i < M => x < n.key[i])
  <2>1. \A i \in Links : i <= M
    BY <1>1 DEF Links
  <2>2. QED
    BY <1>2, <2>1 DEF Separated, Between
<1>8. (\A i \in Slots : n.key[i] \in Nat) /\ \A x \in KeysOf(n) : x \in Nat
  BY <1>2, KeysOfIs DEF Packed
<1>9. \A i, j \in Slots : i < j => n.key[i] < n.key[j]
  <2>1. \A i \in Slots : i < M
    BY <1>1 DEF Slots
  <2>2. QED
    BY <1>2, <2>1 DEF Packed
<1>10. ASSUME NEW x \in KeysOf(l) PROVE x < up /\ x \in KeysOf(n)
  <2>1. CASE \E i \in Slots : i < Mid /\ x = l.key[i]
    BY <1>3, <1>4, <1>9, <2>1
  <2>2. CASE \E i \in Links : i <= Mid /\ x \in KeysOf(l.child[i])
    <3>1. PICK i \in Links : i <= Mid /\ x \in KeysOf(n.child[i])
      BY <1>3, <2>2
    <3>2. i < M /\ i \in Slots
      BY <1>1, <3>1 DEF Links, Slots
    <3>3. x < n.key[i] /\ x \in KeysOf(n)
      BY <1>4, <1>7, <3>1, <3>2
    <3>4. i = Mid \/ n.key[i] < n.key[Mid]
      BY <1>1, <1>3, <1>9, <3>1, <3>2 DEF Links
    <3>5. QED
      BY <1>3, <1>8, <3>2, <3>3, <3>4
  <2>3. QED
    BY <1>5, <2>1, <2>2
<1>11. ASSUME NEW x \in KeysOf(r) PROVE up < x /\ x \in KeysOf(n)
  <2>1. CASE \E i \in Slots : i < Half /\ x = r.key[i]
    <3>1. PICK i \in Slots : i < Half /\ x = r.key[i]
      BY <2>1
    <3>2. i + Mid + 1 \in Slots /\ x = n.key[i + Mid + 1] /\ Mid < i + Mid + 1
      BY <1>1, <1>3, <3>1 DEF Slots
    <3>3. QED
      BY <1>3, <1>4, <1>9, <3>2
  <2>2. CASE \E i \in Links : i <= Half /\ x \in KeysOf(r.child[i])
    <3>1. PICK i \in Links : i <= Half /\ x \in KeysOf(r.child[i])
      BY <2>2
    <3> DEFINE j == i + Mid + 1
    <3>2. j \in Links /\ x \in KeysOf(n.child[j]) /\ 0 < j /\ j - 1 \in Slots /\ Mid <= j - 1
      BY <1>1, <1>3, <3>1 DEF Links, Slots
    <3> HIDE DEF j
    <3>3. n.key[j - 1] < x /\ x \in KeysOf(n)
      BY <1>4, <1>7, <3>2
    <3>4. Mid = j - 1 \/ n.key[Mid] < n.key[j - 1]
      BY <1>1, <1>3, <1>9, <3>2 DEF Slots
    <3>5. QED
      BY <1>3, <1>8, <3>2, <3>3, <3>4
  <2>3. QED
    BY <1>6, <2>1, <2>2
<1>12. up \in KeysOf(n)
  BY <1>3, <1>4
<1>13. ASSUME NEW x \in KeysOf(n) PROVE x \in KeysOf(l) \/ x = up \/ x \in KeysOf(r)
  <2>1. ASSUME NEW i \in Slots, x = n.key[i] PROVE x \in KeysOf(l) \/ x = up \/ x \in KeysOf(r)
    <3>1. CASE i < Mid
      BY <1>3, <1>5, <2>1, <3>1
    <3>2. CASE i = Mid
      BY <1>3, <2>1, <3>2
    <3>3. CASE Mid < i
      <4> DEFINE j == i - Mid - 1
      <4>1. j \in Slots /\ j < Half /\ j + Mid + 1 = i
        BY <1>1, <3>3 DEF Slots
      <4> HIDE DEF j
      <4>2. QED
        BY <1>3, <1>6, <2>1, <4>1
    <3>4. QED
      BY <1>1, <3>1, <3>2, <3>3 DEF Slots
  <2>2. ASSUME NEW i \in Links, x \in KeysOf(n.child[i]) PROVE x \in KeysOf(l) \/ x \in KeysOf(r)
    <3>1. CASE i <= Mid
      BY <1>3, <1>5, <2>2, <3>1
    <3>2. CASE Mid < i
      <4> DEFINE j == i - Mid - 1
      <4>1. j \in Links /\ j <= Half /\ j + Mid + 1 = i
        BY <1>1, <3>2 DEF Links
      <4> HIDE DEF j
      <4>2. QED
        BY <1>3, <1>6, <2>2, <4>1
    <3>3. QED
      BY <1>1, <3>1, <3>2 DEF Links
  <2>3. QED
    BY <1>4, <2>1, <2>2
<1>14. Separated(l, Mid)
  <2>1. SUFFICES ASSUME NEW i \in Links, i <= Mid, NEW x \in KeysOf(l.child[i])
                 PROVE  (0 < i => l.key[i - 1] < x) /\ (i < Mid => x < l.key[i])
    BY DEF Separated, Between
  <2>2. l.child[i] = n.child[i] /\ i < M /\ (0 < i => i - 1 \in Slots /\ i - 1 < Mid) /\ i \in Slots
    BY <1>1, <1>3, <2>1 DEF Links, Slots
  <2>3. (0 < i => n.key[i - 1] < x) /\ x < n.key[i]
    BY <1>7, <2>1, <2>2
  <2>4. QED
    BY <1>3, <2>2, <2>3
<1>15. Separated(r, Half)
  <2>1. SUFFICES ASSUME NEW i \in Links, i <= Half, NEW x \in KeysOf(r.child[i])
                 PROVE  (0 < i => r.key[i - 1] < x) /\ (i < Half => x < r.key[i])
    BY DEF Separated, Between
  <2> DEFINE j == i + Mid + 1
  <2>2. /\ j \in Links /\ r.child[i] = n.child[j] /\ 0 < j /\ (j < M <=> i < Half)
        /\ 0 < i => i - 1 \in Slots /\ i - 1 < Half /\ (i - 1) + Mid + 1 = j - 1
        /\ i < Half => i \in Slots
    BY <1>1, <1>3, <2>1 DEF Links, Slots
  <2>3. n.key[j - 1] < x /\ (i < Half => x < n.key[j])
    BY <1>7, <2>1, <2>2
  <2>4. (0 < i => r.key[i - 1] = n.key[j - 1]) /\ (i < Half => r.key[i] = n.key[j])
    BY <1>3, <2>2
  <2>5. QED
    BY <2>3, <2>4
<1>16. QED
  BY <1>3, <1>10, <1>11, <1>12, <1>13, <1>14, <1>15 DEF WellMade, up

-----------------------------------------------------------------------------
(* The recursion of the insert *)

\* The answers about trees of T.
Answers(T) ==
    [node : T, rtval : {"done", "split", "exists", "nomem", "oops"}, allocated : Nat,
     upkey : Nat, right : T]

\* The answer for m when f gives those for its children.
Into(m, depth, k, failing, f) ==
    LET pos == FindPos(m, k) IN
    IF m = NULL THEN Answer(m, "oops")
    ELSE IF Key(m, pos) = k THEN Answer(m, "exists")
    ELSE IF IsLeaf(m) THEN SplitIfFull(LeafInsert(m, pos, k), 0, depth \in failing)
    ELSE InsertAbove(m, pos, f[Child(m, pos)][depth + 1], depth \in failing)

\* f is the recursive insert of k.
Inserts(f, k, failing) ==
    /\ \A n \in Trees : InsertInto(n, k, failing) = f[n][1]
    /\ \A h \in 0 .. MaxHeight : \A m \in Tree[h] : \A depth \in Nat :
         /\ f[m][depth] \in Answers(Tree[h])
         /\ f[m][depth] = Into(m, depth, k, failing, f)

LEMMA SplitIfFullTyped ==
  ASSUME NEW S, NULL \in S, NEW n \in Node(S), NEW allocated \in Nat, NEW nomem
  PROVE  SplitIfFull(n, allocated, nomem) \in Answers(Higher(S))
<1>1. SplitLeft(n) \in Node(S) /\ SplitRight(n) \in Node(S) /\ SplitKey(n) \in Nat
  BY SplitTyped
<1>2. \A rtval \in {"done", "nomem"} :
        [Answer(n, rtval) EXCEPT !.allocated = allocated] \in Answers(Higher(S))
  BY DEF Answer, Answers, Higher
<1>3. [node |-> SplitLeft(n), rtval |-> "split", allocated |-> allocated + 1,
       upkey |-> SplitKey(n), right |-> SplitRight(n)] \in Answers(Higher(S))
  BY <1>1 DEF Answers, Higher
<1>4. QED
  BY <1>2, <1>3 DEF SplitIfFull

LEMMA AdoptTyped ==
  ASSUME NEW S, NULL \in S, NEW n \in Node(S), NEW pos, NEW sub \in Answers(S)
  PROVE  Adopt(n, pos, sub) \in Node(S)
<1>1. sub.node \in S /\ sub.right \in S /\ sub.upkey \in Nat
  BY DEF Answers
<1>2. RightShift(n, pos, sub.upkey, sub.right) \in Node(S)
  BY <1>1, RightShiftTyped
<1> DEFINE room == IF pos = KeyLen(n) THEN n ELSE RightShift(n, pos, sub.upkey, sub.right)
<1>3. room \in Node(S)
  BY <1>2
<1> HIDE DEF room
<1>4. NodeInsert(room, pos, sub.upkey, sub.node, sub.right) \in Node(S)
  BY <1>1, <1>3, NodeInsertTyped
<1>5. QED
  BY <1>4 DEF Adopt, room

LEMMA IntoTyped ==
  ASSUME NEW k \in Nat, NEW failing, NEW f, NEW S, NULL \in S, NEW m \in Node(S), m # NULL,
         NEW depth \in Nat,
         \A c \in Below(m) : \A d \in Nat : f[c][d] \in Answers(S)
  PROVE  Into(m, depth, k, failing, f) \in Answers(Higher(S))
<1> DEFINE pos == FindPos(m, k)
           nomem == depth \in failing
           sub == f[Child(m, pos)][depth + 1]
           here == WithChild(m, pos, sub.node)
<1>1. Answer(m, "exists") \in Answers(Higher(S)) /\ Answer(m, "oops") \in Answers(Higher(S))
  BY DEF Answer, Answers, Higher
<1>2. SplitIfFull(LeafInsert(m, pos, k), 0, nomem) \in Answers(Higher(S))
  <2>1. LeafInsert(m, pos, k) \in Node(S)
    BY LeafInsertTyped
  <2>2. 0 \in Nat
    OBVIOUS
  <2> HIDE DEF nomem
  <2>3. QED
    BY <2>1, <2>2, SplitIfFullTyped
<1>3. InsertAbove(m, pos, sub, nomem) \in Answers(Higher(S))
  <2>1. sub \in Answers(S)
    <3>1. Child(m, pos) \in Below(m)
      <4>1. Child(m, pos) = NULL \/ (pos \in Links /\ Child(m, pos) = m.child[pos])
        BY GettersTyped
      <4>2. QED
        BY <4>1 DEF Below
    <3>2. depth + 1 \in Nat
      OBVIOUS
    <3>3. QED
      BY <3>1, <3>2
  <2> HIDE DEF sub, pos, nomem
  <2>2. here \in Node(S)
    <3>1. sub.node \in S
      BY <2>1 DEF Answers
    <3>2. SetChild(m, pos, sub.node) \in Node(S)
      BY <3>1, SettersTyped
    <3>3. QED
      BY <3>2 DEF WithChild
  <2>3. sub.allocated \in Nat
    BY <2>1 DEF Answers
  <2> HIDE DEF here
  <2>4. SplitIfFull(here, sub.allocated, nomem) \in Answers(Higher(S))
    BY <2>2, <2>3, SplitIfFullTyped
  <2>5. SplitIfFull(Adopt(here, pos, sub), sub.allocated, nomem) \in Answers(Higher(S))
    <3>1. Adopt(here, pos, sub) \in Node(S)
      BY <2>1, <2>2, AdoptTyped
    <3>2. QED
      BY <2>3, <3>1, SplitIfFullTyped
  <2>6. QED
    BY <1>1, <2>4, <2>5 DEF InsertAbove, here
<1>4. Into(m, depth, k, failing, f) =
        IF Key(m, pos) = k THEN Answer(m, "exists")
        ELSE IF IsLeaf(m) THEN SplitIfFull(LeafInsert(m, pos, k), 0, nomem)
        ELSE InsertAbove(m, pos, sub, nomem)
  BY DEF Into
<1> HIDE DEF pos, nomem, sub
<1>5. QED
  BY <1>1, <1>2, <1>3, <1>4

\* A function that goes by Into wherever that stays among the answers does so everywhere.
LEMMA IntoSettles ==
  ASSUME NEW k \in Nat, NEW failing, NEW f,
         \A n \in Trees : [d \in Nat |-> Into(n, d, k, failing, f)] \in [Nat -> Answers(Trees)]
                            => f[n] = [d \in Nat |-> Into(n, d, k, failing, f)]
  PROVE  \A h \in 0 .. MaxHeight : \A m \in Tree[h] : \A depth \in Nat :
           /\ f[m][depth] \in Answers(Tree[h])
           /\ f[m][depth] = Into(m, depth, k, failing, f)
<1> DEFINE Good(h) == \A m \in Tree[h] : \A depth \in Nat :
                        /\ f[m][depth] \in Answers(Tree[h])
                        /\ f[m][depth] = Into(m, depth, k, failing, f)
           T == {h \in Nat : h <= MaxHeight => Good(h)}
<1>1. MaxHeight \in Nat
  BY BoundsAssumption
<1>2. ASSUME NEW h \in 0 .. MaxHeight, NEW m \in Tree[h],
             \A depth \in Nat : Into(m, depth, k, failing, f) \in Answers(Tree[h])
      PROVE  \A depth \in Nat : /\ f[m][depth] \in Answers(Tree[h])
                                /\ f[m][depth] = Into(m, depth, k, failing, f)
  <2>1. Tree[h] \subseteq Trees
    BY TreeFacts
  <2>2. \A depth \in Nat : Into(m, depth, k, failing, f) \in Answers(Trees)
    BY <1>2, <2>1 DEF Answers
  <2>3. f[m] = [d \in Nat |-> Into(m, d, k, failing, f)]
    BY <2>1, <2>2
  <2>4. QED
    BY <1>2, <2>3
<1>3. \A depth \in Nat : Into(NULL, depth, k, failing, f) = Answer(NULL, "oops")
  BY DEF Into
<1>4. \A h \in Nat : Answer(NULL, "oops") \in Answers(Tree[h])
  BY TreeFacts DEF Answer, Answers
<1>5. 0 \in T
  <2>1. Tree[0] = {NULL} /\ 0 \in 0 .. MaxHeight /\ 0 \in Nat
    BY <1>1, TreeIs
  <2>2. QED
    BY <1>2, <1>3, <1>4, <2>1
<1>6. ASSUME NEW h \in Nat, h \in T PROVE h + 1 \in T
  <2>1. SUFFICES ASSUME h + 1 <= MaxHeight, NEW m \in Tree[h + 1]
                 PROVE  \A depth \in Nat : /\ f[m][depth] \in Answers(Tree[h + 1])
                                           /\ f[m][depth] = Into(m, depth, k, failing, f)
    OBVIOUS
  <2>2. Good(h) /\ h + 1 \in 0 .. MaxHeight /\ h + 1 \in Nat
    BY <1>1, <1>6, <2>1
  <2>3. CASE m = NULL
    BY <1>2, <1>3, <1>4, <2>2, <2>3
  <2>4. CASE m # NULL
    <3>1. m \in Node(Tree[h]) /\ NULL \in Tree[h]
      BY <2>1, <2>4, TreeFacts
    <3>2. Below(m) \subseteq Tree[h]
      BY <2>4, <3>1 DEF Below, Node
    <3>3. \A c \in Below(m) : \A d \in Nat : f[c][d] \in Answers(Tree[h])
      BY <2>2, <3>2
    <3>4. \A depth \in Nat : Into(m, depth, k, failing, f) \in Answers(Higher(Tree[h]))
      BY <2>4, <3>1, <3>3, IntoTyped
    <3>5. Higher(Tree[h]) = Tree[h + 1]
      BY TreeIs
    <3>6. QED
      BY <1>2, <2>2, <3>4, <3>5
  <2>5. QED
    BY <2>3, <2>4
<1>7. \A h \in Nat : h \in T
  <2> HIDE DEF T
  <2>1. QED
    BY <1>5, <1>6, Induction
<1>8. QED
  BY <1>1, <1>7

LEMMA InsertIntoIs ==
  ASSUME NEW k \in Nat, NEW failing
  PROVE  \E f : Inserts(f, k, failing)
<1> DEFINE R == [Nat -> Answers(Trees)]
           E(m, f) == [depth \in Nat |-> Into(m, depth, k, failing, f)]
           F(f) == [m \in Trees |-> E(m, f)]
           any == [depth \in Nat |-> Answer(NULL, "oops")]
           step == [p \in Trees \X [Trees -> R] |-> IF E(p[1], p[2]) \in R THEN E(p[1], p[2]) ELSE any]
           into == CHOOSE f : f = F(f)
<1>1. \A n \in Trees : InsertInto(n, k, failing) = into[n][1]
  BY Zenon DEF InsertInto, Into
<1>2. any \in R
  BY TreeFacts, BoundsAssumption DEF Answer, Answers
<1>3. step \in [Trees \X [Trees -> R] -> R]
  <2> HIDE DEF R, E, any
  <2>1. QED
    BY <1>2
<1>4. ASSUME NEW n \in Trees, NEW f \in [Trees -> R], NEW g \in [Trees -> R],
             \A c \in Below(n) : f[c] = g[c]
      PROVE  step[<<n, f>>] = step[<<n, g>>]
  <2>1. \A depth \in Nat : Into(n, depth, k, failing, f) = Into(n, depth, k, failing, g)
    <3>1. CASE n = NULL
      BY <3>1 DEF Into
    <3>2. CASE n # NULL
      <4>1. Child(n, FindPos(n, k)) \in Below(n)
        BY <3>2, ChildBelow
      <4>2. f[Child(n, FindPos(n, k))] = g[Child(n, FindPos(n, k))]
        BY <1>4, <4>1
      <4>3. QED
        BY <4>2, Zenon DEF Into
    <3>3. QED
      BY <3>1, <3>2
  <2>2. E(n, f) = E(n, g)
    BY <2>1
  <2> HIDE DEF R, E, any
  <2>3. QED
    BY <2>2
<1>5. PICK f : TreeSolves(f, R, step)
  <2> HIDE DEF step, R, any
  <2>1. QED
    BY <1>2, <1>3, <1>4, TreeRecursion
<1>6. f = F(f)
  <2>1. f \in [Trees -> R] /\ \A n \in Trees : f[n] = IF E(n, f) \in R THEN E(n, f) ELSE any
    <3> HIDE DEF E, R, any
    <3>1. QED
      BY <1>5 DEF TreeSolves
  <2>2. \A n \in Trees : E(n, f) \in R => f[n] = E(n, f)
    <3> HIDE DEF E, R, any
    <3>1. QED
      BY <2>1
  <2>3. \A n \in Trees : \A depth \in Nat : /\ f[n][depth] \in Answers(Trees)
                                            /\ f[n][depth] = Into(n, depth, k, failing, f)
    <3>1. MaxHeight \in 0 .. MaxHeight
      BY BoundsAssumption
    <3>2. \A h \in 0 .. MaxHeight : \A m \in Tree[h] : \A depth \in Nat :
            f[m][depth] \in Answers(Tree[h]) /\ f[m][depth] = Into(m, depth, k, failing, f)
      BY <2>2, IntoSettles
    <3>3. QED
      BY <3>1, <3>2 DEF Trees
  <2>4. \A n \in Trees : E(n, f) \in R
    BY <2>3
  <2>5. \A n \in Trees : f[n] = E(n, f)
    BY <2>2, <2>4
  <2> HIDE DEF E
  <2>6. QED
    BY <2>1, <2>5
<1>7. into = F(into)
  <2> HIDE DEF F
  <2>1. QED
    BY <1>6
<1>8. \A n \in Trees : into[n] = E(n, into)
  <2> HIDE DEF into, E
  <2>1. QED
    BY <1>7
<1> HIDE DEF into
<1>9. PICK g : g = into
  OBVIOUS
<1>10. \A n \in Trees : E(n, g) \in R => g[n] = E(n, g)
  BY <1>8, <1>9
<1>11. \A h \in 0 .. MaxHeight : \A m \in Tree[h] : \A depth \in Nat :
         g[m][depth] \in Answers(Tree[h]) /\ g[m][depth] = Into(m, depth, k, failing, g)
  BY <1>10, IntoSettles
<1>12. Inserts(g, k, failing)
  BY <1>1, <1>9, <1>11 DEF Inserts
<1>13. QED
  BY <1>12

-----------------------------------------------------------------------------
(* The insert keeps a search tree *)

\* The trees that are not null are the nodes over trees of one level less.
Low == Tree[MaxHeight - 1]

LEMMA TreesAre ==
  /\ NULL \in Low /\ NULL \notin Node(Low) /\ Low \subseteq Trees
  /\ \A n : n \in Trees <=> (n = NULL \/ n \in Node(Low))
<1> DEFINE h == MaxHeight - 1
<1>1. h \in Nat /\ h \in 0 .. MaxHeight /\ h + 1 = MaxHeight
  BY BoundsAssumption
<1>2. Low = Tree[h]
  BY DEF Low
<1> HIDE DEF h
<1>3. Trees = {NULL} \cup Node(Low)
  <2>1. Tree[h + 1] = {NULL} \cup Node(Tree[h])
    BY <1>1, TreeIs DEF Higher
  <2>2. QED
    BY <1>1, <1>2, <2>1 DEF Trees
<1>4. NULL \in Low /\ Low \subseteq Trees /\ NULL \notin Node(Trees)
  BY <1>1, <1>2, TreeFacts
<1>5. Node(Low) \subseteq Node(Trees)
  BY <1>4 DEF Node
<1>6. QED
  BY <1>3, <1>4, <1>5

\* An answer that stands for the keys of K: one sound node with at least len of
\* them at hand, or the two halves around the key that goes up.
Fine(a, K, len, hi, h) ==
    /\ a.rtval # "oops"
    /\ a.rtval # "split" =>
         a.node \in Sound(hi)[h] /\ KeyLen(a.node) \in len .. hi /\ KeysOf(a.node) = K
    /\ a.rtval = "split" =>
         /\ a.node \in Kids(Sound(hi)[h], hi) /\ a.right \in Kids(Sound(hi)[h], hi)
         /\ a.upkey \in Nat \ {0}
         /\ \A x \in KeysOf(a.node) : x < a.upkey
         /\ \A x \in KeysOf(a.right) : a.upkey < x
         /\ KeysOf(a.node) \cup {a.upkey} \cup KeysOf(a.right) = K

\* An answer to the insert of k into m: nothing but k is new, and nothing is
\* lost where nodes are not filled to the last slot.
Inserted(a, m, k, hi, h) ==
    \E K, len : /\ Fine(a, K, len, hi, h)
                /\ len \in Nat /\ KeyLen(m) <= len /\ (h = 1 => 1 <= len)
                /\ K \subseteq KeysOf(m) \cup {k}
                /\ hi < M => K = KeysOf(m) \cup {k}

\* A node split because it is full.
LEMMA SplitSound ==
  ASSUME NEW hi \in {M - 1, M}, NEW h \in Nat, NEW n \in Trees, n # NULL, NEW len \in 0 .. M,
         WellMade(n, len, Kids(Sound(hi)[h], hi)), NEW allocated \in Nat, NEW nomem,
         hi < M => ~nomem
  PROVE  Fine(SplitIfFull(n, allocated, nomem), KeysOf(n), len, hi, h + 1)
<1> DEFINE C == Kids(Sound(hi)[h], hi)
           l == SplitLeft(n)
           r == SplitRight(n)
<1>1. M \in Nat /\ Mid \in 1 .. M - 2 /\ Half \in 1 .. M - 2 /\ Half <= Mid
  BY Halves
<1>2. KeyLen(n) = len
  BY PackedReads DEF WellMade
<1>3. n \in Sound(hi)[h + 1]
  BY SoundIs
<1>4. CASE len # M \/ nomem
  <2>1. \E rtval \in {"done", "nomem"} :
          SplitIfFull(n, allocated, nomem) = [Answer(n, rtval) EXCEPT !.allocated = allocated]
    BY <1>2, <1>4 DEF SplitIfFull
  <2>2. len <= hi
    BY <1>1, <1>4
  <2>3. len \in len .. hi
    BY <1>1, <2>2
  <2>4. QED
    BY <1>2, <1>3, <2>1, <2>3 DEF Fine, Answer
<1>5. CASE len = M /\ ~nomem
  <2>1. SplitIfFull(n, allocated, nomem) =
          [node |-> l, rtval |-> "split", allocated |-> allocated + 1,
           upkey |-> SplitKey(n), right |-> r]
    BY <1>2, <1>5 DEF SplitIfFull
  <2>2. l \in Trees /\ l # NULL /\ r \in Trees /\ r # NULL
    <3>1. n \in Node(Low)
      BY TreesAre
    <3>2. l \in Node(Low) /\ r \in Node(Low)
      BY <3>1, TreesAre, SplitTyped
    <3>3. QED
      BY <3>2, TreesAre
  <2>3. Uniform(C) /\ WellMade(n, M, C)
    BY <1>5, KidsUniform
  <2> HIDE DEF C
  <2>4. /\ WellMade(l, Mid, C) /\ WellMade(r, Half, C)
        /\ SplitKey(n) \in Nat \ {0}
        /\ \A x \in KeysOf(l) : x < SplitKey(n)
        /\ \A x \in KeysOf(r) : SplitKey(n) < x
        /\ KeysOf(l) \cup {SplitKey(n)} \cup KeysOf(r) = KeysOf(n)
    BY <2>2, <2>3, SplitKeys
  <2> HIDE DEF l, r
  <2>5. KeyLen(l) = Mid /\ KeyLen(r) = Half
    BY <2>4, PackedReads DEF WellMade
  <2>6. Mid \in 0 .. M /\ Half \in 0 .. M /\ Mid \in Half .. hi /\ Half \in Half .. hi
    BY <1>1
  <2>7. l \in Sound(hi)[h + 1] /\ r \in Sound(hi)[h + 1]
    BY <2>2, <2>4, <2>6, SoundIs DEF C
  <2>8. l \in Kids(Sound(hi)[h + 1], hi) /\ r \in Kids(Sound(hi)[h + 1], hi)
    BY <2>5, <2>6, <2>7 DEF Kids
  <2>9. QED
    BY <2>1, <2>4, <2>8 DEF Fine
<1>6. QED
  BY <1>4, <1>5

\* A key that is there already.
LEMMA ExistsSound ==
  ASSUME NEW hi \in {M - 1, M}, NEW h \in Nat, NEW m \in Sound(hi)[h + 1], KeyLen(m) <= hi,
         NEW k \in Nat \ {0}, Key(m, FindPos(m, k)) = k
  PROVE  Inserted(Answer(m, "exists"), m, k, hi, h + 1)
<1> DEFINE len == KeyLen(m)
           C == Kids(Sound(hi)[h], hi)
<1>1. M \in Nat /\ len \in 0 .. M /\ m \in Trees /\ m # NULL /\ WellMade(m, len, C) /\ Uniform(C)
  BY SoundNode, KidsUniform, MAssumption
<1> HIDE DEF len, C
<1>2. \E i \in Slots : i < len /\ k = m.key[i]
  BY <1>1, PositionOf DEF WellMade
<1>3. k \in KeysOf(m)
  BY <1>1, <1>2, KeysOfNode DEF WellMade
<1>4. 1 <= len /\ len <= hi
  BY <1>1, <1>2 DEF Slots, len
<1>5. Fine(Answer(m, "exists"), KeysOf(m), len, hi, h + 1)
  <2>1. len \in len .. hi
    BY <1>1, <1>4
  <2>2. KeyLen(m) = len
    BY DEF len
  <2>3. QED
    BY <2>1, <2>2 DEF Fine, Answer
<1>6. KeyLen(m) <= len /\ len \in Nat
  BY <1>1 DEF len
<1>7. KeysOf(m) = KeysOf(m) \cup {k}
  BY <1>3
<1>8. QED
  BY <1>4, <1>5, <1>6, <1>7 DEF Inserted

\* The insert into a leaf.
LEMMA LeafSound ==
  ASSUME NEW hi \in {M - 1, M}, NEW m \in Sound(hi)[1], KeyLen(m) <= hi,
         NEW k \in Nat \ {0}, NEW nomem, hi < M => ~nomem, Key(m, FindPos(m, k)) # k
  PROVE  /\ IsLeaf(m)
         /\ Inserted(SplitIfFull(LeafInsert(m, FindPos(m, k), k), 0, nomem), m, k, hi, 1)
<1> DEFINE len == KeyLen(m)
           C == Kids(Sound(hi)[0], hi)
           pos == FindPos(m, k)
           t == InsertAt(m, pos, k, NULL, NULL)
<1>1. m \in Trees /\ m # NULL /\ len \in 0 .. M /\ WellMade(m, len, C) /\ Uniform(C)
  <2>1. 0 \in Nat /\ 0 + 1 = 1
    OBVIOUS
  <2>2. QED
    BY <2>1, SoundNode, KidsUniform
<1>2. C = {NULL}
  BY KidsUniform
<1>3. M \in Nat
  BY MAssumption
<1>4. Packed(m, len) /\ Hung(m, len, {NULL}) /\ Uniform({NULL})
  BY <1>1, <1>2 DEF WellMade
<1>5. m \in Node(Low)
  BY <1>1, TreesAre
<1>6. len <= hi
  OBVIOUS
<1> HIDE DEF len
<1>7. pos \in 0 .. len /\ Between(m, len, pos, k)
  BY <1>4, PositionOf
<1> HIDE DEF pos
<1>8. IsLeaf(m)
  BY <1>1, <1>4, HungReads
<1>9. LeafInsert(m, pos, k) = t
  BY <1>4, <1>5, <1>7, LeafInsertIs
<1>10. t \in Trees /\ t # NULL
  <2>1. LeafInsert(m, pos, k) \in Node(Low)
    BY <1>5, TreesAre, LeafInsertTyped
  <2>2. QED
    BY <1>9, <2>1, TreesAre
<1>11. /\ WellMade(t, Grown(len), C)
       /\ KeysOf(t) \subseteq KeysOf(m) \cup {k}
       /\ len < M => KeysOf(t) = KeysOf(m) \cup {k}
  <2>1. m.child[pos] = NULL
    <3>1. pos \in Links /\ pos <= len
      BY <1>1, <1>3, <1>7 DEF Links
    <3>2. QED
      BY <1>4, <3>1 DEF Hung
  <2>2. KeysOf(NULL) = {} /\ NULL \in C
    BY <1>2, KeysOfIs
  <2>3. KeysOf(NULL) \cup {k} \cup KeysOf(NULL) = KeysOf(m.child[pos]) \cup {k}
    BY <2>1, <2>2
  <2>4. (\A x \in KeysOf(NULL) : x < k) /\ (\A x \in KeysOf(NULL) : k < x)
    BY <2>2
  <2>5. \E s \in Trees : s # NULL /\ s = t
    BY <1>10
  <2> HIDE DEF C, t
  <2>6. PICK s \in Trees : s # NULL /\ s = t
    BY <2>5
  <2>7. s = InsertAt(m, pos, k, NULL, NULL)
    BY <2>6 DEF t
  <2>8. /\ WellMade(s, Grown(len), C)
        /\ KeysOf(s) \subseteq KeysOf(m) \cup {k}
        /\ len < M => KeysOf(s) = KeysOf(m) \cup {k}
    BY <1>1, <1>7, <2>2, <2>3, <2>4, <2>6, <2>7, InsertAtKeys
  <2>9. QED
    BY <2>6, <2>8
<1>12. Grown(len) \in 0 .. M /\ 1 <= Grown(len) /\ len <= Grown(len)
  BY <1>1, <1>3, MAssumption DEF Grown
<1> HIDE DEF t
<1>13. Fine(SplitIfFull(t, 0, nomem), KeysOf(t), Grown(len), hi, 1)
  <2> DEFINE zero == 0
  <2>1. zero \in Nat /\ zero + 1 = 1
    OBVIOUS
  <2>2. C = Kids(Sound(hi)[zero], hi)
    OBVIOUS
  <2> HIDE DEF zero, C
  <2>3. Fine(SplitIfFull(t, zero, nomem), KeysOf(t), Grown(len), hi, zero + 1)
    BY <1>10, <1>11, <1>12, <2>1, <2>2, SplitSound
  <2>4. QED
    BY <2>1, <2>3 DEF zero
<1>14. hi < M => len < M
  BY <1>1, <1>3, <1>6
<1>15. Inserted(SplitIfFull(t, 0, nomem), m, k, hi, 1)
  BY <1>11, <1>12, <1>13, <1>14 DEF Inserted, len
<1>16. QED
  BY <1>8, <1>9, <1>15 DEF pos

\* The insert into an inner node, after the insert into its child.
LEMMA InnerSound ==
  ASSUME NEW hi \in {M - 1, M}, NEW h \in Nat \ {0}, NEW m \in Sound(hi)[h + 1], KeyLen(m) <= hi,
         NEW k \in Nat \ {0}, NEW nomem, hi < M => ~nomem, Key(m, FindPos(m, k)) # k,
         NEW sub \in Answers(Low),
         Child(m, FindPos(m, k)) \in Kids(Sound(hi)[h], hi)
           => Inserted(sub, Child(m, FindPos(m, k)), k, hi, h)
  PROVE  /\ ~IsLeaf(m)
         /\ Inserted(InsertAbove(m, FindPos(m, k), sub, nomem), m, k, hi, h + 1)
<1> DEFINE len == KeyLen(m)
           C == Kids(Sound(hi)[h], hi)
           pos == FindPos(m, k)
           child == m.child[pos]
           here == SetChild(m, pos, sub.node)
<1>1. m \in Trees /\ m # NULL /\ len \in 0 .. M /\ WellMade(m, len, C) /\ Uniform(C) /\ len <= hi
  BY SoundNode, KidsUniform
<1>2. NULL \notin C /\ C # {NULL}
  BY KidsUniform
<1>3. M \in Nat /\ Half \in Nat /\ hi \in Nat
  BY MAssumption, Halves
<1>4. Packed(m, len) /\ Hung(m, len, C)
  BY <1>1 DEF WellMade
<1>5. m \in Node(Low)
  BY <1>1, TreesAre
<1>6. hi < M => len < M
  BY <1>1, <1>3
<1>7. KeyLen(m) = len
  OBVIOUS
<1> HIDE DEF len
<1>8. pos \in 0 .. len /\ Between(m, len, pos, k)
  BY <1>4, PositionOf
<1>9. pos \in Links /\ pos <= len
  BY <1>1, <1>3, <1>8 DEF Links
<1> HIDE DEF pos
<1>10. child \in C /\ child # NULL
  BY <1>2, <1>4, <1>9 DEF Hung
<1>11. Child(m, pos) = child /\ ~IsLeaf(m)
  <2>1. Hung(m, len, C) /\ Uniform(C) /\ len \in 0 .. M
    BY <1>1, <1>4
  <2>2. QED
    BY <1>2, <1>9, <2>1, HungReads
<1>12. Inserted(sub, child, k, hi, h)
  BY <1>10, <1>11 DEF pos
<1>13. child \in Sound(hi)[h] /\ KeyLen(child) \in Half .. hi
  BY <1>10 DEF C, Kids
<1>14. sub.node \in Low /\ sub.right \in Low /\ sub.allocated \in Nat
  BY DEF Answers
<1>15. here \in Node(Low) /\ here \in Trees /\ here # NULL
  <2>1. here \in Node(Low)
    BY <1>5, <1>14, SettersTyped
  <2>2. QED
    BY <2>1, TreesAre
<1>16. WithChild(m, pos, sub.node) = here
  BY <1>10, <1>11 DEF WithChild
<1> HIDE DEF C, child
<1>17. PICK K, low : /\ Fine(sub, K, low, hi, h)
                     /\ low \in Nat /\ KeyLen(child) <= low
                     /\ K \subseteq KeysOf(child) \cup {k}
                     /\ hi < M => K = KeysOf(child) \cup {k}
  BY <1>12 DEF Inserted
<1>18. sub.rtval # "oops"
  BY <1>17 DEF Fine
<1>19. ASSUME NEW t \in Trees, t # NULL, NEW g \in 0 .. M, WellMade(t, g, C), len <= g,
              KeysOf(t) \subseteq KeysOf(m) \cup {k},
              hi < M => KeysOf(t) = KeysOf(m) \cup {k}
       PROVE  Inserted(SplitIfFull(t, sub.allocated, nomem), m, k, hi, h + 1)
  <2>1. Fine(SplitIfFull(t, sub.allocated, nomem), KeysOf(t), g, hi, h + 1)
    BY <1>14, <1>19, SplitSound DEF C
  <2>2. KeyLen(m) <= g /\ g \in Nat /\ h + 1 # 1
    BY <1>7, <1>19
  <2>3. QED
    BY <1>19, <2>1, <2>2 DEF Inserted
<1>20. CASE sub.rtval # "split"
  <2>1. sub.node \in Sound(hi)[h] /\ KeyLen(sub.node) \in low .. hi /\ KeysOf(sub.node) = K
    BY <1>17, <1>20 DEF Fine
  <2>2. sub.node \in C
    <3>1. KeyLen(sub.node) \in Half .. hi
      BY <1>3, <1>13, <1>17, <2>1
    <3>2. QED
      BY <2>1, <3>1 DEF C, Kids
  <2>3. PICK t : t = here
    OBVIOUS
  <2>4. t \in Trees /\ t # NULL /\ t = SetChild(m, pos, sub.node)
    BY <1>15, <2>3
  <2>5. KeysOf(sub.node) \subseteq KeysOf(m.child[pos]) \cup {k}
    BY <1>17, <2>1 DEF child
  <2> HIDE DEF here
  <2>6. /\ WellMade(t, len, C)
        /\ KeysOf(t) \subseteq KeysOf(m) \cup {k}
        /\ KeysOf(sub.node) = KeysOf(m.child[pos]) \cup {k} => KeysOf(t) = KeysOf(m) \cup {k}
    BY <1>1, <1>8, <2>2, <2>4, <2>5, SetChildKeys
  <2>7. hi < M => KeysOf(t) = KeysOf(m) \cup {k}
    BY <1>17, <2>1, <2>6 DEF child
  <2>8. len <= len
    BY <1>1
  <2>9. Inserted(SplitIfFull(t, sub.allocated, nomem), m, k, hi, h + 1)
    BY <1>1, <1>19, <2>4, <2>6, <2>7, <2>8
  <2>10. InsertAbove(m, pos, sub, nomem) = SplitIfFull(t, sub.allocated, nomem)
    BY <1>16, <1>18, <1>20, <2>3 DEF InsertAbove
  <2>11. QED
    BY <1>11, <2>9, <2>10 DEF pos
<1>21. CASE sub.rtval = "split"
  <2> DEFINE up == sub.upkey
             l == sub.node
             r == sub.right
             room == IF pos = len THEN here ELSE RightShift(here, pos, up, r)
  <2>1. /\ l \in C /\ r \in C /\ up \in Nat \ {0}
        /\ \A x \in KeysOf(l) : x < up
        /\ \A x \in KeysOf(r) : up < x
        /\ KeysOf(l) \cup {up} \cup KeysOf(r) = K
    BY <1>17, <1>21 DEF Fine, C
  <2>2. KeyLen(here) = len
    <3>1. Packed(here, len)
      BY <1>4, <1>5, <1>8, <2>1, SetChildIs
    <3>2. QED
      BY <3>1, PackedReads
  <2>3. Adopt(here, pos, sub) = NodeInsert(room, pos, up, l, r)
    BY <2>2, Zenon DEF Adopt
  <2>4. NodeInsert(room, pos, up, l, r) = InsertAt(m, pos, up, l, r)
    <3>1. PICK q : q = room
      OBVIOUS
    <3>2. q = IF pos = len THEN SetChild(m, pos, l) ELSE RightShift(SetChild(m, pos, l), pos, up, r)
      BY <3>1
    <3> HIDE DEF room, up, l, r, here
    <3>3. NodeInsert(q, pos, up, l, r) = InsertAt(m, pos, up, l, r)
      BY <1>2, <1>4, <1>5, <1>8, <2>1, <3>2, NodeInsertIs
    <3>4. QED
      BY <3>1, <3>3
  <2>5. Adopt(here, pos, sub) \in Node(Low)
    BY <1>15, TreesAre, AdoptTyped
  <2>6. PICK t : t = InsertAt(m, pos, up, l, r)
    OBVIOUS
  <2>7. t \in Trees /\ t # NULL /\ t = Adopt(here, pos, sub)
    BY <2>3, <2>4, <2>5, <2>6, TreesAre
  <2>8. KeysOf(l) \cup {up} \cup KeysOf(r) \subseteq KeysOf(m.child[pos]) \cup {k}
    BY <1>17, <2>1 DEF child
  <2>9. hi < M => KeysOf(l) \cup {up} \cup KeysOf(r) = KeysOf(m.child[pos]) \cup {k}
    BY <1>17, <2>1 DEF child
  <2> HIDE DEF room, here, up, l, r
  <2>10. /\ WellMade(t, Grown(len), C)
         /\ KeysOf(t) \subseteq KeysOf(m) \cup {k}
         /\ (len < M /\ KeysOf(l) \cup {up} \cup KeysOf(r) = KeysOf(m.child[pos]) \cup {k})
              => KeysOf(t) = KeysOf(m) \cup {k}
    <3>1. m \in Trees /\ m # NULL /\ WellMade(m, len, C) /\ Uniform(C)
      BY <1>1
    <3>2. pos \in 0 .. len /\ Between(m, len, pos, k)
      BY <1>8
    <3>3. l \in C /\ r \in C /\ up \in Nat \ {0}
      BY <2>1
    <3>4. (\A x \in KeysOf(l) : x < up) /\ (\A x \in KeysOf(r) : up < x)
      BY <2>1
    <3>5. t \in Trees /\ t # NULL
      BY <2>7
    <3>6. QED
      BY <3>1, <3>2, <3>3, <3>4, <3>5, <2>6, <2>8, InsertAtKeys
  <2>11. hi < M => KeysOf(t) = KeysOf(m) \cup {k}
    BY <1>6, <2>9, <2>10
  <2>12. Grown(len) \in 0 .. M /\ len <= Grown(len)
    BY <1>1, <1>3 DEF Grown
  <2>13. Inserted(SplitIfFull(t, sub.allocated, nomem), m, k, hi, h + 1)
    BY <1>19, <2>7, <2>10, <2>11, <2>12
  <2>14. InsertAbove(m, pos, sub, nomem) = SplitIfFull(t, sub.allocated, nomem)
    BY <1>16, <1>18, <1>21, <2>7 DEF InsertAbove
  <2>15. QED
    BY <1>11, <2>13, <2>14 DEF pos
<1>22. QED
  BY <1>20, <1>21

\* What the recursive insert makes of a sound tree.
LEMMA InsertSound ==
  ASSUME NEW hi \in {M - 1, M}, NEW k \in Nat \ {0}, NEW failing, hi < M => failing = {},
         NEW f, Inserts(f, k, failing)
  PROVE  \A h \in Nat : \A m \in Sound(hi)[h + 1] : KeyLen(m) <= hi =>
           \A depth \in Nat : Inserted(f[m][depth], m, k, hi, h + 1)
<1> DEFINE T == {h \in Nat : \A m \in Sound(hi)[h + 1] : KeyLen(m) <= hi =>
                               \A depth \in Nat : Inserted(f[m][depth], m, k, hi, h + 1)}
           g == MaxHeight - 1
<1>1. /\ \A m \in Trees : \A depth \in Nat : f[m][depth] = Into(m, depth, k, failing, f)
      /\ \A m \in Low : \A depth \in Nat : f[m][depth] \in Answers(Low)
  <2>1. g \in 0 .. MaxHeight /\ MaxHeight \in 0 .. MaxHeight
    BY BoundsAssumption
  <2>2. QED
    BY <2>1 DEF Inserts, Trees, Low
<1>2. \A depth : hi < M => ~(depth \in failing)
  OBVIOUS
<1>3. 0 \in T
  <2>1. SUFFICES ASSUME NEW m \in Sound(hi)[1], KeyLen(m) <= hi, NEW depth \in Nat
                 PROVE  Inserted(f[m][depth], m, k, hi, 1)
    BY DEF T
  <2>2. m \in Trees /\ m # NULL /\ f[m][depth] = Into(m, depth, k, failing, f)
    <3>1. 0 \in Nat /\ 0 + 1 = 1
      OBVIOUS
    <3>2. m \in Trees /\ m # NULL
      BY <3>1, SoundNode
    <3>3. QED
      BY <1>1, <3>2
  <2>3. CASE Key(m, FindPos(m, k)) = k
    <3> DEFINE zero == 0
    <3>1. zero \in Nat /\ zero + 1 = 1
      OBVIOUS
    <3>2. m \in Sound(hi)[zero + 1]
      BY <3>1
    <3> HIDE DEF zero
    <3>3. Inserted(Answer(m, "exists"), m, k, hi, zero + 1)
      BY <2>1, <2>3, <3>1, <3>2, ExistsSound
    <3>4. QED
      BY <2>2, <2>3, <3>1, <3>3 DEF Into
  <2>4. CASE Key(m, FindPos(m, k)) # k
    <3> DEFINE nomem == depth \in failing
    <3>1. hi < M => ~nomem
      BY <1>2
    <3> HIDE DEF nomem
    <3>2. /\ IsLeaf(m)
          /\ Inserted(SplitIfFull(LeafInsert(m, FindPos(m, k), k), 0, nomem), m, k, hi, 1)
      BY <2>1, <2>4, <3>1, LeafSound
    <3>3. f[m][depth] = SplitIfFull(LeafInsert(m, FindPos(m, k), k), 0, nomem)
      BY <2>2, <2>4, <3>2 DEF Into, nomem
    <3>4. QED
      BY <3>2, <3>3
  <2>5. QED
    BY <2>3, <2>4
<1>4. ASSUME NEW h \in Nat, h \in T PROVE h + 1 \in T
  <2> DEFINE j == h + 1
  <2>1. j \in Nat \ {0}
    OBVIOUS
  <2>2. \A c \in Sound(hi)[j] : KeyLen(c) <= hi =>
          \A depth \in Nat : Inserted(f[c][depth], c, k, hi, j)
    BY <1>4
  <2> HIDE DEF j
  <2>3. SUFFICES ASSUME NEW m \in Sound(hi)[j + 1], KeyLen(m) <= hi, NEW depth \in Nat
                 PROVE  Inserted(f[m][depth], m, k, hi, j + 1)
    BY <2>1 DEF j
  <2>4. m \in Trees /\ m # NULL /\ f[m][depth] = Into(m, depth, k, failing, f)
    <3>1. m \in Trees /\ m # NULL
      BY <2>1, <2>3, SoundNode
    <3>2. QED
      BY <1>1, <3>1
  <2>5. CASE Key(m, FindPos(m, k)) = k
    <3>1. Inserted(Answer(m, "exists"), m, k, hi, j + 1)
      BY <2>1, <2>3, <2>5, ExistsSound
    <3>2. QED
      BY <2>4, <2>5, <3>1 DEF Into
  <2>6. CASE Key(m, FindPos(m, k)) # k
    <3> DEFINE nomem == depth \in failing
               c == Child(m, FindPos(m, k))
               sub == f[c][depth + 1]
    <3>1. hi < M => ~nomem
      BY <1>2
    <3>2. depth + 1 \in Nat
      OBVIOUS
    <3>3. c \in Low
      BY <2>4, TreesAre, GettersTyped
    <3>4. sub \in Answers(Low)
      BY <1>1, <3>2, <3>3
    <3>5. c \in Kids(Sound(hi)[j], hi) => Inserted(sub, c, k, hi, j)
      <4>1. ASSUME c \in Kids(Sound(hi)[j], hi) PROVE c \in Sound(hi)[j] /\ KeyLen(c) <= hi
        <5>1. c \in Sound(hi)[j] /\ c # NULL
          BY <2>1, <4>1, KidsUniform, ZenonT(40) DEF Kids
        <5>2. KeyLen(c) \in Half .. hi
          BY <4>1, <5>1 DEF Kids
        <5>3. QED
          BY <5>1, <5>2, Halves
      <4>2. QED
        BY <2>2, <3>2, <4>1
    <3> HIDE DEF nomem, sub
    <3>6. /\ ~IsLeaf(m)
          /\ Inserted(InsertAbove(m, FindPos(m, k), sub, nomem), m, k, hi, j + 1)
      BY <2>1, <2>3, <2>6, <3>1, <3>4, <3>5, InnerSound
    <3>7. f[m][depth] = InsertAbove(m, FindPos(m, k), sub, nomem)
      BY <2>4, <2>6, <3>6 DEF Into, nomem, sub
    <3>8. QED
      BY <3>6, <3>7
  <2>7. QED
    BY <2>5, <2>6
<1>5. \A h \in Nat : h \in T
  <2> HIDE DEF T
  <2>1. QED
    BY <1>3, <1>4, Induction
<1>6. QED
  BY <1>5

-----------------------------------------------------------------------------
(* The root *)

\* The root of a search tree; an empty tree has none.
GoodRoot(hi, r) == r = NULL \/ \E h \in Nat : r \in Sound(hi)[h + 1] /\ KeyLen(r) \in 1 .. hi

LEMMA GoodRootTyped ==
  ASSUME NEW hi, NEW r, GoodRoot(hi, r)
  PROVE  r \in Trees
  BY SoundNode, TreesAre DEF GoodRoot

\* The first node of a tree.
LEMMA NewNodeSound ==
  ASSUME NEW hi
  PROVE  NewNode \in Sound(hi)[1] /\ KeyLen(NewNode) = 0 /\ KeysOf(NewNode) = {}
<1>1. NewNode \in Trees /\ NewNode # NULL
  BY NewNodeIs, TreesAre
<1>2. Packed(NewNode, 0) /\ Hung(NewNode, 0, {NULL}) /\ Uniform({NULL})
  BY NewNodeIs DEF Uniform
<1>3. 0 \in Nat /\ 0 \in 0 .. M /\ M \in Nat
  BY MAssumption
<1>4. \A i \in Links : KeysOf(NewNode.child[i]) = {}
  BY KeysOfIs DEF NewNode
<1>5. WellMade(NewNode, 0, {NULL})
  BY <1>2, <1>4 DEF WellMade, Separated
<1>6. Kids(Sound(hi)[0], hi) = {NULL}
  BY <1>3, KidsUniform
<1>7. NewNode \in Sound(hi)[1]
  <2>1. PICK zero : zero = 0
    OBVIOUS
  <2>2. zero \in Nat /\ zero + 1 = 1
    BY <2>1
  <2>3. WellMade(NewNode, 0, Kids(Sound(hi)[zero], hi))
    BY <1>5, <1>6, <2>1
  <2>4. NewNode \in Sound(hi)[zero + 1]
    BY <1>1, <1>3, <2>2, <2>3, SoundIs
  <2>5. QED
    BY <2>2, <2>4
<1>8. KeysOf(NewNode) = {}
  <2>1. \A i \in Slots : ~(i < 0)
    BY <1>3 DEF Slots
  <2>2. \A x : x \in KeysOf(NewNode) <=> \/ \E i \in Slots : i < 0 /\ x = NewNode.key[i]
                                         \/ \E i \in Links : i <= 0 /\ x \in KeysOf(NewNode.child[i])
    BY <1>1, <1>2, KeysOfNode
  <2>3. QED
    BY <1>4, <2>1, <2>2
<1>9. QED
  BY <1>2, <1>7, <1>8, PackedReads

\* A node with a key has it among the keys of its tree.
LEMMA HasKey ==
  ASSUME NEW hi, NEW h \in Nat, NEW n \in Sound(hi)[h + 1], 1 <= KeyLen(n)
  PROVE  \E x : x \in KeysOf(n)
<1> DEFINE len == KeyLen(n)
           C == Kids(Sound(hi)[h], hi)
<1>1. n \in Trees /\ n # NULL /\ len \in 0 .. M /\ WellMade(n, len, C) /\ Uniform(C) /\ 1 <= len
  BY SoundNode, KidsUniform
<1> HIDE DEF len, C
<1>2. 0 \in Slots /\ 0 < len
  BY <1>1, MAssumption DEF Slots
<1>3. n.key[0] \in KeysOf(n)
  BY <1>1, <1>2, KeysOfNode DEF WellMade
<1>4. QED
  BY <1>3

\* The new root above the two halves of the old one.
LEMMA NewRootSound ==
  ASSUME NEW hi \in {M - 1, M}, NEW h \in Nat \ {0}, NEW l \in Kids(Sound(hi)[h], hi) \cap Low,
         NEW r \in Kids(Sound(hi)[h], hi) \cap Low, NEW up \in Nat \ {0},
         \A x \in KeysOf(l) : x < up, \A x \in KeysOf(r) : up < x
  PROVE  LET t == NodeInsert(NewNode, 0, up, l, r)
         IN  /\ t \in Sound(hi)[h + 1] /\ KeyLen(t) = 1
             /\ KeysOf(t) = KeysOf(l) \cup {up} \cup KeysOf(r)
<1> DEFINE C == Kids(Sound(hi)[h], hi)
           t == NodeInsert(NewNode, 0, up, l, r)
<1>1. M \in Nat /\ 2 <= M /\ 0 \in Slots /\ 0 \in Links /\ 1 \in Links
  BY MAssumption DEF Slots, Links
<1>2. l # NULL /\ r # NULL /\ up # 0 /\ Uniform(C) /\ l \in C /\ r \in C
  BY KidsUniform
<1>3. t = [key |-> [NewNode.key EXCEPT ![0] = up],
           child |-> [i \in Links |-> IF i = 0 THEN l ELSE IF i = 1 THEN r ELSE NULL]]
  BY <1>1, <1>2 DEF NodeInsert, NewNode
<1>4. NewNode.key = [i \in Slots |-> 0]
  BY DEF NewNode
<1>5. t.key = [i \in Slots |-> IF i = 0 THEN up ELSE 0]
  BY <1>3, <1>4
<1>6. \A i \in Links : t.child[i] = IF i = 0 THEN l ELSE IF i = 1 THEN r ELSE NULL
  BY <1>3
<1>7. t \in Node(Low) /\ t \in Trees /\ t # NULL
  <2>1. NewNode \in Node(Low)
    BY NewNodeIs, TreesAre
  <2>2. t \in Node(Low)
    BY <2>1, NodeInsertTyped
  <2>3. QED
    BY <2>2, TreesAre
<1>8. PICK s : s = t
  OBVIOUS
<1> HIDE DEF t, C
<1>9. s \in Trees /\ s # NULL
  BY <1>7, <1>8
<1>10. Packed(s, 1)
  BY <1>1, <1>5, <1>8 DEF Packed, Slots
<1>11. Hung(s, 1, C)
  BY <1>1, <1>2, <1>6, <1>8 DEF Hung, Links
<1>12. \A x : x \in KeysOf(s) <=> \/ \E i \in Slots : i < 1 /\ x = s.key[i]
                                  \/ \E i \in Links : i <= 1 /\ x \in KeysOf(s.child[i])
  BY <1>2, <1>9, <1>10, <1>11, KeysOfNode
<1>13. \A i \in Slots : i < 1 <=> i = 0
  BY <1>1 DEF Slots
<1>14. \A i \in Links : i <= 1 <=> (i = 0 \/ i = 1)
  BY <1>1 DEF Links
<1>15. s.key[0] = up /\ s.child[0] = l /\ s.child[1] = r
  BY <1>1, <1>5, <1>6, <1>8
<1>16. KeysOf(s) = KeysOf(l) \cup {up} \cup KeysOf(r)
  BY <1>1, <1>12, <1>13, <1>14, <1>15
<1>17. Separated(s, 1)
  BY <1>14, <1>15 DEF Separated, Between
<1>18. WellMade(s, 1, C) /\ 1 \in 0 .. M
  BY <1>1, <1>10, <1>11, <1>17 DEF WellMade
<1>19. s \in Sound(hi)[h + 1]
  BY <1>9, <1>18, SoundIs DEF C
<1>20. KeyLen(s) = 1
  BY <1>10, PackedReads
<1>21. QED
  BY <1>8, <1>16, <1>19, <1>20 DEF t

\* What the recursive insert answers at the root.
LEMMA AnswerAtRoot ==
  ASSUME NEW hi \in {M - 1, M}, NEW k \in Nat \ {0}, NEW failing, hi < M => failing = {},
         NEW h \in Nat, NEW n \in Sound(hi)[h + 1], KeyLen(n) <= hi
  PROVE  /\ Inserted(InsertInto(n, k, failing), n, k, hi, h + 1)
         /\ n \in Low => InsertInto(n, k, failing) \in Answers(Low)
<1>1. PICK f : Inserts(f, k, failing)
  BY InsertIntoIs
<1>2. n \in Trees /\ n # NULL
  BY SoundNode
<1>3. InsertInto(n, k, failing) = f[n][1]
  BY <1>1, <1>2 DEF Inserts
<1>4. Inserted(f[n][1], n, k, hi, h + 1)
  BY <1>1, InsertSound
<1>5. n \in Low => f[n][1] \in Answers(Low)
  <2>1. MaxHeight - 1 \in 0 .. MaxHeight
    BY BoundsAssumption
  <2>2. QED
    BY <1>1, <2>1 DEF Inserts, Low
<1>6. QED
  BY <1>3, <1>4, <1>5

\* An insert on a search tree leaves one, with the key.
LEMMA InsertKeeps ==
  ASSUME NEW hi \in {M - 1, M}, GoodRoot(hi, root), NEW k \in Nat \ {0}, NEW failing,
         hi < M => failing = {}, InsertWith(k, failing)
  PROVE  /\ head' = "ready" /\ rotated' = rotated /\ last' = <<"insert", k>>
         /\ GoodRoot(hi, root')
         /\ KeysOf(root') \subseteq KeysOf(root) \cup {k}
         /\ hi < M => KeysOf(root') = KeysOf(root) \cup {k}
<1> DEFINE start == IF root = NULL THEN NewNode ELSE root
           answer == InsertInto(start, k, failing)
           grows == answer.rtval = "split"
<1>1. M \in Nat /\ hi \in Nat /\ Half \in Nat /\ 1 <= Half /\ 1 <= hi
  BY MAssumption, Halves
<1>2. PICK h \in Nat : /\ start \in Sound(hi)[h + 1] /\ KeyLen(start) <= hi
                       /\ KeysOf(start) = KeysOf(root)
                       /\ root = NULL => h = 0
                       /\ root # NULL => 1 <= KeyLen(start)
  <2>1. CASE root = NULL
    <3>1. 0 \in Nat /\ 0 + 1 = 1 /\ 0 <= hi
      BY <1>1
    <3>2. QED
      BY <2>1, <3>1, NewNodeSound, KeysOfIs
  <2>2. CASE root # NULL
    <3>1. PICK h \in Nat : root \in Sound(hi)[h + 1] /\ KeyLen(root) \in 1 .. hi
      BY <2>2 DEF GoodRoot
    <3>2. KeyLen(root) <= hi /\ 1 <= KeyLen(root)
      BY <1>1, <3>1
    <3>3. QED
      BY <2>2, <3>1, <3>2
  <2>3. QED
    BY <2>1, <2>2
<1> HIDE DEF start
<1>3. Inserted(answer, start, k, hi, h + 1) /\ (start \in Low => answer \in Answers(Low))
  BY <1>2, AnswerAtRoot
<1>4. /\ IF answer.rtval = "oops" THEN Oops("insert", k)
         ELSE /\ head' = "ready"
              /\ last' = <<"insert", k>>
              /\ rotated' = rotated
              /\ IF grows /\ 0 \in failing
                 THEN root' = answer.node
                 ELSE root' = IF grows THEN NewRoot(answer) ELSE answer.node
      /\ root \in Low
  BY Zenon DEF InsertWith, start, Low
<1> HIDE DEF answer
<1>5. PICK K, len : /\ Fine(answer, K, len, hi, h + 1)
                    /\ len \in Nat /\ KeyLen(start) <= len /\ (h + 1 = 1 => 1 <= len)
                    /\ K \subseteq KeysOf(start) \cup {k}
                    /\ hi < M => K = KeysOf(start) \cup {k}
  BY <1>3 DEF Inserted
<1>6. /\ head' = "ready" /\ last' = <<"insert", k>> /\ rotated' = rotated
      /\ IF grows /\ 0 \in failing
         THEN root' = answer.node
         ELSE root' = IF grows THEN NewRoot(answer) ELSE answer.node
  BY <1>4, <1>5 DEF Fine
<1>7. KeyLen(start) \in Nat
  <2>1. KeyLen(start) \in 0 .. M
    BY <1>2, SoundNode
  <2>2. QED
    BY <1>1, <2>1
<1>8. 1 <= len
  BY <1>2, <1>5, <1>7
<1>9. CASE ~grows
  <2>1. answer.node \in Sound(hi)[h + 1] /\ KeyLen(answer.node) \in len .. hi /\ KeysOf(answer.node) = K
    BY <1>5, <1>9 DEF Fine
  <2>2. root' = answer.node /\ KeyLen(answer.node) \in 1 .. hi
    BY <1>1, <1>5, <1>6, <1>8, <1>9, <2>1
  <2>3. QED
    BY <1>2, <1>5, <1>6, <2>1, <2>2 DEF GoodRoot
<1>10. CASE grows
  <2> DEFINE l == answer.node
             r == answer.right
             up == answer.upkey
             C == Kids(Sound(hi)[h + 1], hi)
  <2>1. /\ l \in C /\ r \in C
        /\ up \in Nat \ {0}
        /\ \A x \in KeysOf(l) : x < up
        /\ \A x \in KeysOf(r) : up < x
        /\ KeysOf(l) \cup {up} \cup KeysOf(r) = K
    BY <1>5, <1>10 DEF Fine
  <2>2. h + 1 \in Nat /\ h + 1 # 0
    OBVIOUS
  <2>3. l \in Sound(hi)[h + 1] /\ KeyLen(l) \in Half .. hi
    <3>1. C \subseteq Sound(hi)[h + 1] /\ NULL \notin C
      BY <2>2, KidsUniform
    <3>2. QED
      BY <2>1, <3>1 DEF Kids
  <2>4. 1 <= KeyLen(l) /\ KeyLen(l) \in 1 .. hi
    BY <1>1, <2>3
  <2>5. CASE 0 \in failing
    <3>1. root' = l
      BY <1>6, <1>10, <2>5
    <3>2. GoodRoot(hi, root')
      BY <2>3, <2>4, <3>1 DEF GoodRoot
    <3>3. KeysOf(root') \subseteq KeysOf(root) \cup {k}
      BY <1>2, <1>5, <2>1, <3>1
    <3>4. ~(hi < M)
      BY <2>5
    <3>5. QED
      BY <1>6, <3>2, <3>3, <3>4
  <2>6. CASE 0 \notin failing
    <3>1. root' = NodeInsert(NewNode, 0, up, l, r)
      BY <1>6, <1>10, <2>6 DEF NewRoot
    <3>2. start \in Low
      <4>1. CASE root = NULL
        <5>1. KeysOf(start) = {}
          BY <1>2, <4>1, KeysOfIs
        <5>2. PICK x : x \in KeysOf(l)
          BY <2>3, <2>4, HasKey
        <5>3. x = k /\ up = k /\ x < up
          BY <1>5, <2>1, <5>1, <5>2
        <5>4. QED
          BY <5>3
      <4>2. CASE root # NULL
        BY <1>4, <4>2 DEF start
      <4>3. QED
        BY <4>1, <4>2
    <3>3. l \in Low /\ r \in Low
      BY <1>3, <3>2 DEF Answers
    <3>4. PICK g : g = h + 1
      OBVIOUS
    <3>5. g \in Nat \ {0} /\ l \in Kids(Sound(hi)[g], hi) \cap Low /\ r \in Kids(Sound(hi)[g], hi) \cap Low
      BY <2>1, <2>2, <3>3, <3>4
    <3> HIDE DEF l, r, up
    <3>6. (\A x \in KeysOf(l) : x < up) /\ (\A x \in KeysOf(r) : up < x) /\ up \in Nat \ {0}
      BY <2>1
    <3>7. /\ root' \in Sound(hi)[g + 1] /\ KeyLen(root') = 1
          /\ KeysOf(root') = KeysOf(l) \cup {up} \cup KeysOf(r)
      BY <3>1, <3>5, <3>6, NewRootSound
    <3>8. 1 \in 1 .. hi
      BY <1>1
    <3>9. GoodRoot(hi, root')
      BY <3>5, <3>7, <3>8 DEF GoodRoot
    <3>10. KeysOf(root') = K
      BY <2>1, <3>7
    <3>11. QED
      BY <1>2, <1>5, <1>6, <3>9, <3>10
  <2>7. QED
    BY <2>5, <2>6
<1>11. QED
  BY <1>9, <1>10

\* The nodes of a tree.
LEMMA NodesIs ==
  /\ Nodes(NULL) = {}
  /\ \A n \in Trees : Nodes(n) \subseteq Trees
  /\ \A n \in Trees : n # NULL =>
       Nodes(n) = {n} \cup UNION {Nodes(Child(n, i)) : i \in 0 .. ChildLen(n) - 1}
<1> DEFINE R == SUBSET Trees
           E(m, f) == IF m = NULL THEN {}
                      ELSE {m} \cup UNION {f[Child(m, i)] : i \in 0 .. ChildLen(m) - 1}
           F(f) == [m \in Trees |-> E(m, f)]
           step == [p \in Trees \X [Trees -> R] |-> E(p[1], p[2])]
           nodes == CHOOSE f : f = F(f)
<1>1. \A n \in Trees : Nodes(n) = nodes[n]
  BY Zenon DEF Nodes
<1>2. ASSUME NEW n \in Trees, NEW f \in [Trees -> R] PROVE E(n, f) \in R
  <2>1. CASE n = NULL
    BY <2>1
  <2>2. CASE n # NULL
    <3>1. \A i : Child(n, i) \in Trees
      BY <2>2, ChildBelow
    <3>2. QED
      BY <2>2, <3>1
  <2>3. QED
    BY <2>1, <2>2
<1>3. step \in [Trees \X [Trees -> R] -> R]
  <2>1. \A p \in Trees \X [Trees -> R] : p[1] \in Trees /\ p[2] \in [Trees -> R]
    OBVIOUS
  <2> HIDE DEF R, E
  <2>2. QED
    BY <1>2, <2>1
<1>4. ASSUME NEW n \in Trees, NEW f \in [Trees -> R], NEW g \in [Trees -> R],
             \A c \in Below(n) : f[c] = g[c]
      PROVE  step[<<n, f>>] = step[<<n, g>>]
  <2>1. E(n, f) = E(n, g)
    <3>1. CASE n = NULL
      BY <3>1
    <3>2. CASE n # NULL
      <4>1. \A i : Child(n, i) \in Below(n)
        BY <3>2, ChildBelow
      <4>2. {f[Child(n, i)] : i \in 0 .. ChildLen(n) - 1} = {g[Child(n, i)] : i \in 0 .. ChildLen(n) - 1}
        BY <1>4, <4>1
      <4>3. QED
        BY <4>2
    <3>3. QED
      BY <3>1, <3>2
  <2> HIDE DEF R, E
  <2>2. QED
    BY <2>1
<1>5. PICK f : TreeSolves(f, R, step)
  <2>1. {} \in R
    OBVIOUS
  <2> HIDE DEF step, R
  <2>2. QED
    BY <1>3, <1>4, <2>1, TreeRecursion
<1>6. f = F(f)
  <2> HIDE DEF E, R
  <2>1. f \in [Trees -> R] /\ \A n \in Trees : f[n] = E(n, f)
    BY <1>5 DEF TreeSolves
  <2>2. QED
    BY <2>1
<1>7. nodes = F(nodes)
  <2> HIDE DEF F
  <2>1. QED
    BY <1>6
<1>8. \A n \in Trees : nodes[n] = E(n, nodes)
  <2> HIDE DEF nodes, E
  <2>1. QED
    BY <1>7
<1>9. NULL \in Trees
  BY TreesAre
<1> HIDE DEF nodes
<1>10. Nodes(NULL) = {}
  BY <1>1, <1>8, <1>9
<1>11. ASSUME NEW n \in Trees, n # NULL
       PROVE  Nodes(n) = {n} \cup UNION {Nodes(Child(n, i)) : i \in 0 .. ChildLen(n) - 1}
  <2>1. \A i : Child(n, i) \in Trees
    BY <1>11, ChildBelow
  <2>2. {nodes[Child(n, i)] : i \in 0 .. ChildLen(n) - 1} = {Nodes(Child(n, i)) : i \in 0 .. ChildLen(n) - 1}
    BY <1>1, <2>1
  <2>3. QED
    BY <1>1, <1>8, <1>11, <2>2
<1>12. \A n \in Trees : Nodes(n) \subseteq Trees
  <2> DEFINE S == {n \in Trees : Nodes(n) \subseteq Trees}
  <2>1. NULL \in S
    BY <1>9, <1>10
  <2>2. ASSUME NEW n \in Trees, n # NULL, Below(n) \subseteq S PROVE n \in S
    <3>1. \A i : Child(n, i) \in S
      BY <2>2, ChildBelow
    <3>2. QED
      BY <1>11, <2>2, <3>1
  <2>3. Trees \subseteq S
    <3> HIDE DEF S
    <3>1. QED
      BY <2>1, <2>2, TreeInduction
  <2>4. QED
    BY <2>3
<1>13. QED
  BY <1>10, <1>11, <1>12

\* Every node of a sound tree is sound.
LEMMA NodesSound ==
  ASSUME NEW hi
  PROVE  \A h \in Nat : \A n \in Sound(hi)[h] : \A x \in Nodes(n) :
           \E g \in Nat : x \in Sound(hi)[g + 1]
<1> DEFINE T == {h \in Nat : \A n \in Sound(hi)[h] : \A x \in Nodes(n) :
                               \E g \in Nat : x \in Sound(hi)[g + 1]}
<1>1. 0 \in T
  BY SoundIs, NodesIs
<1>2. ASSUME NEW h \in Nat, h \in T PROVE h + 1 \in T
  <2>1. SUFFICES ASSUME NEW n \in Sound(hi)[h + 1], NEW x \in Nodes(n)
                 PROVE  \E g \in Nat : x \in Sound(hi)[g + 1]
    OBVIOUS
  <2> DEFINE len == KeyLen(n)
             C == Kids(Sound(hi)[h], hi)
  <2>2. n \in Trees /\ n # NULL /\ len \in 0 .. M /\ WellMade(n, len, C) /\ Uniform(C)
    BY SoundNode, KidsUniform
  <2>3. C \subseteq Sound(hi)[h]
    BY KidsUniform
  <2> HIDE DEF len, C
  <2>4. CASE x = n
    BY <2>1, <2>4
  <2>5. CASE x # n
    <3>1. PICK i \in 0 .. ChildLen(n) - 1 : x \in Nodes(Child(n, i))
      BY <2>2, <2>5, NodesIs
    <3>2. i \in 0 .. len /\ i \in Links
      BY <2>2, <3>1, HungReads, MAssumption DEF WellMade, Links
    <3>3. Child(n, i) \in C
      BY <2>2, <3>2, HungReads DEF WellMade, Hung
    <3>4. Child(n, i) \in Sound(hi)[h]
      BY <2>3, <3>3
    <3>5. QED
      BY <1>2, <3>1, <3>4
  <2>6. QED
    BY <2>4, <2>5
<1>3. \A h \in Nat : h \in T
  <2> HIDE DEF T
  <2>1. QED
    BY <1>1, <1>2, Induction
<1>4. QED
  BY <1>3

\* The nodes of a sound tree have neither too few keys nor too many.
LEMMA SoundOccupancy ==
  ASSUME GoodRoot(M - 1, root)
  PROVE  Occupancy
<1> DEFINE hi == M - 1
<1>1. SUFFICES ASSUME root # NULL
               PROVE  /\ KeyLen(root) \in 1 .. hi
                      /\ \A n \in Nodes(root) : \A i \in 0 .. ChildLen(n) - 1 :
                           KeyLen(Child(n, i)) \in Half .. hi
  BY DEF Occupancy, Half
<1>2. PICK h \in Nat : root \in Sound(hi)[h + 1] /\ KeyLen(root) \in 1 .. hi
  BY <1>1 DEF GoodRoot
<1> HIDE DEF hi
<1>3. ASSUME NEW n \in Nodes(root), NEW i \in 0 .. ChildLen(n) - 1
      PROVE  KeyLen(Child(n, i)) \in Half .. hi
  <2>1. PICK j : j = h + 1
    OBVIOUS
  <2>2. j \in Nat /\ root \in Sound(hi)[j]
    BY <1>2, <2>1
  <2>3. PICK g \in Nat : n \in Sound(hi)[g + 1]
    BY <2>2, NodesSound
  <2> DEFINE len == KeyLen(n)
             C == Kids(Sound(hi)[g], hi)
  <2>4. n \in Trees /\ n # NULL /\ len \in 0 .. M /\ WellMade(n, len, C) /\ Uniform(C)
    BY <2>3, SoundNode, KidsUniform
  <2>5. \A c \in C : c # NULL => KeyLen(c) \in Half .. hi
    BY DEF Kids
  <2>6. NULL \in C => C = {NULL}
    BY KidsUniform
  <2> HIDE DEF len, C
  <2>7. Hung(n, len, C)
    BY <2>4 DEF WellMade
  <2>8. C # {NULL} /\ i \in Links /\ i <= len
    <3>1. i \in 0 .. ChildLen(n) - 1
      OBVIOUS
    <3>2. C # {NULL}
      <4>1. len \in 0 .. M /\ Uniform(C)
        BY <2>4
      <4>2. C = {NULL} => ChildLen(n) = 0
        BY <2>7, <4>1, HungReads
      <4>3. ChildLen(n) = 0 => FALSE
        BY <3>1
      <4>4. QED
        BY <4>2, <4>3
    <3>3. ChildLen(n) = len + 1
      BY <2>4, <2>7, <3>2, HungReads
    <3>4. QED
      BY <2>4, <3>1, <3>2, <3>3, MAssumption DEF Links
  <2>9. Child(n, i) = n.child[i] /\ n.child[i] \in C
    BY <2>4, <2>7, <2>8, HungReads DEF Hung
  <2>10. QED
    BY <2>5, <2>6, <2>8, <2>9
<1>4. QED
  BY <1>2, <1>3

\* Lookups find the keys of the tree.
LEMMA GoodRootFinds ==
  ASSUME NEW hi, NEW r, GoodRoot(hi, r)
  PROVE  \A k \in Keys : Lookup(r, k) = k <=> k \in KeysOf(r)
<1>1. PICK h \in Nat : r \in Sound(hi)[h]
  <2>1. CASE r = NULL
    BY <2>1, SoundIs
  <2>2. CASE r # NULL
    <3>1. \A h \in Nat : h + 1 \in Nat
      OBVIOUS
    <3>2. QED
      BY <2>2, <3>1 DEF GoodRoot
  <2>3. QED
    BY <2>1, <2>2
<1>2. ASSUME NEW k \in Keys PROVE Lookup(r, k) = k <=> k \in KeysOf(r)
  <2>1. k \in Nat \ {0}
    BY KeysAssumption
  <2>2. Lookup(r, k) = IF k \in KeysOf(r) THEN k ELSE 0
    BY <1>1, <2>1, LookupFinds
  <2>3. QED
    BY <2>1, <2>2
<1>3. QED
  BY <1>2

-----------------------------------------------------------------------------
(* Trees that only grow *)

\* The inductive invariant: a search tree whose keys callers handed over.  hi is
\* the most keys a call may leave in a node.
Growing(hi) ==
    /\ head \in {"absent", "fresh", "ready"}
    /\ head # "ready" => root = NULL
    /\ rotated = FALSE
    /\ GoodRoot(hi, root)
    /\ KeysOf(root) \subseteq Keys

\* What a step of the callers does to the keys of the tree.
KeysStep(hi) ==
    \/ root' = NULL /\ last' \in {<<"new", 0>>, <<"destroy", 0>>}
    \/ root' = root /\ (\/ last' = <<"insert", 0>>
                        \/ \E k \in Keys : last' = <<"nomem", k>>)
    \/ \E k \in Keys : /\ last' = <<"insert", k>>
                       /\ hi < M => KeysOf(root') = KeysOf(root) \cup {k}
    \/ UNCHANGED vars

LEMMA GrowingInit ==
  ASSUME NEW hi, Init
  PROVE  Growing(hi)
  BY KeysOfIs DEF Init, Growing, GoodRoot

LEMMA GrowingInsert ==
  ASSUME NEW hi \in {M - 1, M}, Growing(hi), NEW k \in Keys, NEW failing, hi < M => failing = {},
         InsertWith(k, failing)
  PROVE  Growing(hi)' /\ KeysStep(hi)
<1>1. k \in Nat \ {0} /\ GoodRoot(hi, root)
  BY KeysAssumption DEF Growing
<1>2. /\ head' = "ready" /\ rotated' = rotated /\ last' = <<"insert", k>>
      /\ GoodRoot(hi, root')
      /\ KeysOf(root') \subseteq KeysOf(root) \cup {k}
      /\ hi < M => KeysOf(root') = KeysOf(root) \cup {k}
  BY <1>1, InsertKeeps
<1>3. Growing(hi)'
  BY <1>2 DEF Growing
<1>4. QED
  BY <1>2, <1>3 DEF KeysStep

LEMMA GrowingNext ==
  ASSUME NEW hi \in {M - 1, M}, Growing(hi), [NextInsertOnly]_vars
  PROVE  Growing(hi)' /\ KeysStep(hi)
<1>1. KeysOf(NULL) = {} /\ GoodRoot(hi, NULL)
  BY KeysOfIs DEF GoodRoot
<1>2. CASE HeadAlloc
  BY <1>1, <1>2 DEF HeadAlloc, Growing, KeysStep
<1>3. CASE InitHead
  BY <1>1, <1>3 DEF InitHead, Growing, KeysStep
<1>4. CASE InsertKeyZero
  BY <1>4 DEF InsertKeyZero, Returns, Growing, KeysStep
<1>5. ASSUME NEW k \in Keys, InsertNoMempool(k) PROVE Growing(hi)' /\ KeysStep(hi)
  BY <1>5 DEF InsertNoMempool, Returns, Growing, KeysStep
<1>6. ASSUME NEW k \in Keys, InsertNoRoot(k) PROVE Growing(hi)' /\ KeysStep(hi)
  BY <1>6 DEF InsertNoRoot, Returns, Growing, KeysStep
<1>7. ASSUME NEW k \in Keys, Insert(k) PROVE Growing(hi)' /\ KeysStep(hi)
  BY <1>7, GrowingInsert DEF Insert
<1>8. CASE Destroy
  BY <1>1, <1>8 DEF Destroy, Growing, KeysStep
<1>9. CASE UNCHANGED vars
  BY <1>9 DEF vars, Growing, KeysStep
<1>10. QED
  BY <1>2, <1>3, <1>4, <1>5, <1>6, <1>7, <1>8, <1>9 DEF NextInsertOnly

LEMMA AlwaysGrowing == SpecInsertOnly => []Growing(M - 1)
<1>1. M - 1 \in {M - 1, M}
  OBVIOUS
<1>2. Init => Growing(M - 1)
  BY GrowingInit
<1>3. Growing(M - 1) /\ [NextInsertOnly]_vars => Growing(M - 1)'
  BY <1>1, GrowingNext
<1>4. QED
  BY <1>2, <1>3, PTL DEF SpecInsertOnly

\* When memory is there and nothing is removed, the root has between 1 and M-1
\* keys and every other node between (M-1)/2 and M-1, whatever the keys are and
\* in whatever order lke_btree_insert gets them.
THEOREM NodesWellFilled == SpecInsertOnly => []Occupancy
<1>1. Growing(M - 1) => Occupancy
  BY SoundOccupancy DEF Growing
<1>2. QED
  BY <1>1, AlwaysGrowing, PTL

\* The lookups of a tree that only grows are those of the set of keys handed
\* over since the head was made: no insert loses a key, adds another one, or
\* hides one from lke_btree_lookup, through any number of splits.
THEOREM GrowingTreeIsKeySet == SpecInsertOnly => ImplementsKeySetFully
<1>1. \A r : GoodRoot(M - 1, r) =>
        {k \in Keys : Lookup(r, k) = k} = Keys \cap KeysOf(r)
  BY GoodRootFinds
<1>2. Init => KS!Init
  <2>1. SUFFICES ASSUME Init PROVE KS!Init
    OBVIOUS
  <2>2. GoodRoot(M - 1, root) /\ KeysOf(root) = {}
    BY <2>1, KeysOfIs DEF Init, GoodRoot
  <2>3. Stored = {}
    BY <1>1, <2>2 DEF Stored
  <2>4. QED
    BY <2>1, <2>3 DEF Init, KS!Init
<1>3. Growing(M - 1) /\ [NextInsertOnly]_vars => [KS!Next]_(KS!vars)
  <2>1. SUFFICES ASSUME Growing(M - 1), [NextInsertOnly]_vars PROVE [KS!Next]_(KS!vars)
    OBVIOUS
  <2>2. Growing(M - 1)' /\ KeysStep(M - 1)
    BY <2>1, GrowingNext
  <2>3. Stored = KeysOf(root)
    BY <1>1, <2>1 DEF Growing, Stored
  <2>4. Stored' = KeysOf(root')
    BY <1>1, <2>2 DEF Growing, Stored
  <2>5. CASE root' = NULL /\ last' \in {<<"new", 0>>, <<"destroy", 0>>}
    <3>1. Stored' = {}
      BY <2>4, <2>5, KeysOfIs
    <3>2. QED
      BY <2>5, <3>1 DEF KS!Next, KS!New, KS!Clear
  <2>6. CASE root' = root /\ (\/ last' = <<"insert", 0>>
                              \/ \E k \in Keys : last' = <<"nomem", k>>)
    <3>1. Stored' = Stored
      BY <2>3, <2>4, <2>6
    <3>2. QED
      BY <2>6, <3>1 DEF KS!Next, KS!Refuse
  <2>7. ASSUME NEW k \in Keys, last' = <<"insert", k>>,
               M - 1 < M => KeysOf(root') = KeysOf(root) \cup {k}
        PROVE  KS!Next
    <3>1. M - 1 < M
      BY MAssumption
    <3>2. Stored' = Stored \cup {k}
      BY <2>3, <2>4, <2>7, <3>1
    <3>3. QED
      BY <2>7, <3>2 DEF KS!Next, KS!Insert
  <2>8. CASE UNCHANGED vars
    <3>1. Stored' = Stored /\ last' = last
      BY <2>3, <2>4, <2>8 DEF vars
    <3>2. QED
      BY <3>1 DEF KS!vars
  <2>9. QED
    BY <2>2, <2>5, <2>6, <2>7, <2>8 DEF KeysStep
<1>4. QED
  BY <1>2, <1>3, AlwaysGrowing, PTL DEF SpecInsertOnly, ImplementsKeySetFully, KS!Spec

-----------------------------------------------------------------------------
(* The shape of a tree *)

LEMMA EvenHeightIs ==
  /\ EvenHeight(NULL) = 0
  /\ \A n \in Trees : EvenHeight(n) \in Nat
  /\ \A n \in Trees : n # NULL =>
       EvenHeight(n) =
         LET below == {EvenHeight(Child(n, i)) : i \in 0 .. ChildLen(n) - 1} IN
         IF IsLeaf(n) THEN 1
         ELSE IF ChildLen(n) = KeyLen(n) + 1 /\ 0 \notin below /\ (\A h, g \in below : h = g)
         THEN 1 + (CHOOSE h \in below : TRUE)
         ELSE 0
<1> DEFINE H(m, S) == IF m = NULL THEN 0
                      ELSE IF IsLeaf(m) THEN 1
                      ELSE IF ChildLen(m) = KeyLen(m) + 1 /\ 0 \notin S /\ (\A h, g \in S : h = g)
                      THEN 1 + (CHOOSE h \in S : TRUE)
                      ELSE 0
           S(m, f) == {f[Child(m, i)] : i \in 0 .. ChildLen(m) - 1}
           E(m, f) == H(m, S(m, f))
           F(f) == [m \in Trees |-> E(m, f)]
           step == [p \in Trees \X [Trees -> Nat] |-> E(p[1], p[2])]
           height == CHOOSE f : f = F(f)
<1>1. \A n \in Trees : EvenHeight(n) = height[n]
  BY Zenon DEF EvenHeight
<1>2. ASSUME NEW n \in Trees, NEW f \in [Trees -> Nat] PROVE E(n, f) \in Nat
  <2>1. CASE n = NULL \/ IsLeaf(n)
    BY <2>1
  <2>2. CASE n # NULL /\ ~IsLeaf(n)
    <3>1. \A i : Child(n, i) \in Trees
      BY <2>2, ChildBelow
    <3>2. ChildLen(n) \in Nat
      BY <2>2, ChildBelow, GettersTyped, TreesAre, MAssumption
    <3>3. 0 \in 0 .. ChildLen(n) - 1
      BY <2>2, <3>2 DEF IsLeaf
    <3>4. S(n, f) \subseteq Nat /\ S(n, f) # {}
      BY <3>1, <3>3
    <3> HIDE DEF S
    <3>5. (CHOOSE h \in S(n, f) : TRUE) \in Nat
      BY <3>4
    <3>6. QED
      BY <2>2, <3>5
  <2>3. QED
    BY <2>1, <2>2
<1>3. step \in [Trees \X [Trees -> Nat] -> Nat]
  <2>1. \A p \in Trees \X [Trees -> Nat] : p[1] \in Trees /\ p[2] \in [Trees -> Nat]
    OBVIOUS
  <2> HIDE DEF E
  <2>2. QED
    BY <1>2, <2>1
<1>4. ASSUME NEW n \in Trees, NEW f \in [Trees -> Nat], NEW g \in [Trees -> Nat],
             \A c \in Below(n) : f[c] = g[c]
      PROVE  step[<<n, f>>] = step[<<n, g>>]
  <2>1. E(n, f) = E(n, g)
    <3>1. CASE n = NULL
      BY <3>1
    <3>2. CASE n # NULL
      <4>1. \A i : Child(n, i) \in Below(n)
        BY <3>2, ChildBelow
      <4>2. S(n, f) = S(n, g)
        BY <1>4, <4>1
      <4> HIDE DEF H, S
      <4>3. QED
        BY <4>2
    <3>3. QED
      BY <3>1, <3>2
  <2> HIDE DEF E
  <2>2. QED
    BY <2>1
<1>5. PICK f : TreeSolves(f, Nat, step)
  <2>1. 0 \in Nat
    OBVIOUS
  <2> HIDE DEF step
  <2>2. QED
    BY <1>3, <1>4, <2>1, TreeRecursion
<1>6. f = F(f)
  <2> HIDE DEF E
  <2>1. f \in [Trees -> Nat] /\ \A n \in Trees : f[n] = E(n, f)
    BY <1>5 DEF TreeSolves
  <2>2. QED
    BY <2>1
<1>7. height = F(height)
  <2> HIDE DEF F
  <2>1. QED
    BY <1>6
<1>8. \A n \in Trees : height[n] = E(n, height)
  <2> HIDE DEF height, E
  <2>1. QED
    BY <1>7
<1>9. NULL \in Trees
  BY TreesAre
<1> HIDE DEF height
<1>10. EvenHeight(NULL) = 0
  BY <1>1, <1>8, <1>9
<1>11. ASSUME NEW n \in Trees, n # NULL
       PROVE  EvenHeight(n) = H(n, {EvenHeight(Child(n, i)) : i \in 0 .. ChildLen(n) - 1})
  <2>1. \A i : Child(n, i) \in Trees
    BY <1>11, ChildBelow
  <2>2. S(n, height) = {EvenHeight(Child(n, i)) : i \in 0 .. ChildLen(n) - 1}
    BY <1>1, <2>1
  <2> HIDE DEF S, H
  <2>3. QED
    BY <1>1, <1>8, <2>2
<1>12. \A n \in Trees : EvenHeight(n) \in Nat
  <2>1. height \in [Trees -> Nat]
    <3> DEFINE T == {n \in Trees : height[n] \in Nat}
    <3>1. NULL \in T
      BY <1>8, <1>9
    <3>2. ASSUME NEW n \in Trees, n # NULL, Below(n) \subseteq T PROVE n \in T
      <4> DEFINE f2 == [m \in Trees |-> IF m \in T THEN height[m] ELSE 0]
      <4>1. f2 \in [Trees -> Nat]
        OBVIOUS
      <4>2. \A i : Child(n, i) \in Below(n) /\ Child(n, i) \in Trees
        BY <3>2, ChildBelow
      <4>3. \A i : f2[Child(n, i)] = height[Child(n, i)]
        BY <3>2, <4>2
      <4>4. S(n, f2) = S(n, height)
        BY <4>3
      <4>5. E(n, f2) \in Nat
        BY <1>2, <4>1
      <4> HIDE DEF S, H, f2
      <4>6. QED
        BY <1>8, <4>4, <4>5
    <3>3. Trees \subseteq T
      <4> HIDE DEF T
      <4>1. QED
        BY <3>1, <3>2, TreeInduction
    <3>4. height = [m \in Trees |-> height[m]]
      BY <1>7
    <3>5. QED
      BY <3>3, <3>4
  <2>2. QED
    BY <1>1, <2>1
<1>13. QED
  BY <1>10, <1>11, <1>12

\* A sound tree has one height.
LEMMA SoundHeight ==
  ASSUME NEW hi
  PROVE  \A h \in Nat : \A n \in Sound(hi)[h] : EvenHeight(n) = h
<1> DEFINE T == {h \in Nat : \A n \in Sound(hi)[h] : EvenHeight(n) = h}
<1>1. 0 \in T
  BY SoundIs, EvenHeightIs
<1>2. ASSUME NEW h \in Nat, h \in T PROVE h + 1 \in T
  <2>1. SUFFICES ASSUME NEW n \in Sound(hi)[h + 1] PROVE EvenHeight(n) = h + 1
    OBVIOUS
  <2> DEFINE len == KeyLen(n)
             C == Kids(Sound(hi)[h], hi)
             below == {EvenHeight(Child(n, i)) : i \in 0 .. ChildLen(n) - 1}
  <2>2. n \in Trees /\ n # NULL /\ len \in 0 .. M /\ Uniform(C)
    BY SoundNode, KidsUniform
  <2>3. Hung(n, len, C)
    BY SoundNode DEF WellMade
  <2>4. /\ C \subseteq Sound(hi)[h]
        /\ h = 0 => C = {NULL}
        /\ h # 0 => NULL \notin C
    BY KidsUniform
  <2>5. EvenHeight(n) =
         IF IsLeaf(n) THEN 1
         ELSE IF ChildLen(n) = len + 1 /\ 0 \notin below /\ (\A x, y \in below : x = y)
         THEN 1 + (CHOOSE x \in below : TRUE)
         ELSE 0
    BY <2>2, EvenHeightIs
  <2>6. \A c \in C : EvenHeight(c) = h
    BY <1>2, <2>4
  <2> HIDE DEF C, len
  <2>7. CASE C = {NULL}
    <3>1. IsLeaf(n) /\ h = 0
      BY <2>2, <2>3, <2>4, <2>7, HungReads
    <3>2. QED
      BY <2>5, <3>1
  <2>8. CASE C # {NULL}
    <3>1. ~IsLeaf(n) /\ ChildLen(n) = len + 1 /\ h # 0
      BY <2>2, <2>3, <2>4, <2>8, HungReads
    <3>2. \A i \in 0 .. ChildLen(n) - 1 : i \in Links /\ i <= len
      BY <2>2, <3>1, MAssumption DEF Links
    <3>3. \A i \in 0 .. ChildLen(n) - 1 : Child(n, i) \in C
      BY <2>2, <2>3, <3>2, HungReads DEF Hung
    <3>4. 0 \in 0 .. ChildLen(n) - 1
      BY <2>2, <3>1
    <3>5. below = {h}
      BY <2>6, <3>3, <3>4
    <3> HIDE DEF below
    <3>6. (CHOOSE x \in below : TRUE) = h
      BY <3>5
    <3>7. QED
      BY <2>5, <3>1, <3>5, <3>6
  <2>9. QED
    BY <2>7, <2>8
<1>3. \A h \in Nat : h \in T
  <2> HIDE DEF T
  <2>1. QED
    BY <1>1, <1>2, Induction
<1>4. QED
  BY <1>3

LEMMA GoodRootBalanced ==
  ASSUME NEW hi, GoodRoot(hi, root)
  PROVE  Balanced
<1>1. SUFFICES ASSUME root # NULL PROVE EvenHeight(root) > 0
  BY DEF Balanced
<1>2. PICK h \in Nat : root \in Sound(hi)[h + 1]
  BY <1>1 DEF GoodRoot
<1>3. PICK j : j = h + 1
  OBVIOUS
<1>4. j \in Nat /\ j > 0 /\ root \in Sound(hi)[j]
  BY <1>2, <1>3
<1>5. EvenHeight(root) = j
  BY <1>4, SoundHeight
<1>6. QED
  BY <1>4, <1>5

-----------------------------------------------------------------------------
(* The traversal *)

\* s has the numbers of S in rising order.
Lists(s, S) == s \in Seq(Nat) /\ Ascending(s) /\ {s[i] : i \in DOMAIN s} = S

\* Two rising lists around a number between them.
LEMMA ListsJoined ==
  ASSUME NEW s, NEW A, Lists(s, A), NEW t, NEW B, Lists(t, B), NEW k \in Nat,
         \A x \in A : x < k, \A x \in B : k < x
  PROVE  Lists(s \o <<k>> \o t, A \cup {k} \cup B)
<1> DEFINE w == s \o <<k>> \o t
<1>1. s \in Seq(Nat) /\ t \in Seq(Nat) /\ <<k>> \in Seq(Nat)
  BY DEF Lists
<1>2. Len(s) \in Nat /\ Len(t) \in Nat
  BY <1>1
<1>3. /\ w \in Seq(Nat) /\ Len(w) = Len(s) + 1 + Len(t)
      /\ \A i \in 1 .. Len(s) : w[i] = s[i]
      /\ w[Len(s) + 1] = k
      /\ \A i \in 1 .. Len(t) : w[Len(s) + 1 + i] = t[i]
  <2> DEFINE v == s \o <<k>>
  <2>1. /\ v \in Seq(Nat) /\ Len(v) = Len(s) + 1
        /\ \A i \in 1 .. Len(s) : v[i] = s[i]
        /\ v[Len(s) + 1] = k
    BY <1>1
  <2>2. w = v \o t
    OBVIOUS
  <2> HIDE DEF v, w
  <2>3. /\ w \in Seq(Nat) /\ Len(w) = Len(v) + Len(t)
        /\ \A i \in 1 .. Len(v) : w[i] = v[i]
        /\ \A i \in 1 .. Len(t) : w[Len(v) + i] = t[i]
    <3>1. t \in Seq(Nat) /\ v \in Seq(Nat) /\ Len(v) \in Nat /\ Len(t) \in Nat
      BY <1>1, <1>2, <2>1
    <3>2. /\ w \in Seq(Nat) /\ Len(w) = Len(v) + Len(t)
          /\ \A i \in 1 .. Len(v) + Len(t) : w[i] = IF i <= Len(v) THEN v[i] ELSE t[i - Len(v)]
      BY <2>2, <3>1, ConcatProperties
    <3>3. \A i \in 1 .. Len(v) : i \in 1 .. Len(v) + Len(t) /\ i <= Len(v)
      BY <3>1
    <3>4. \A i \in 1 .. Len(t) : /\ Len(v) + i \in 1 .. Len(v) + Len(t)
                               /\ ~(Len(v) + i <= Len(v)) /\ (Len(v) + i) - Len(v) = i
      BY <3>1
    <3>5. QED
      BY <3>2, <3>3, <3>4
  <2>4. QED
    BY <1>2, <2>1, <2>3
<1>4. /\ \A i \in 1 .. Len(s) : s[i] \in A
      /\ \A i \in 1 .. Len(t) : t[i] \in B
      /\ \A x \in A : \E i \in 1 .. Len(s) : s[i] = x
      /\ \A x \in B : \E i \in 1 .. Len(t) : t[i] = x
  <2>1. DOMAIN s = 1 .. Len(s) /\ DOMAIN t = 1 .. Len(t)
    BY <1>1
  <2>2. {s[i] : i \in DOMAIN s} = A /\ {t[i] : i \in DOMAIN t} = B
    BY DEF Lists
  <2>3. QED
    BY <2>1, <2>2
<1>5. /\ \A i \in 1 .. Len(s) - 1 : s[i] < s[i + 1]
      /\ \A i \in 1 .. Len(t) - 1 : t[i] < t[i + 1]
  BY DEF Lists, Ascending
<1> HIDE DEF w
<1>6. ASSUME NEW i \in 1 .. Len(w) - 1 PROVE w[i] < w[i + 1]
  <2>1. CASE i < Len(s)
    <3>1. i \in 1 .. Len(s) /\ i + 1 \in 1 .. Len(s) /\ i \in 1 .. Len(s) - 1
      BY <1>2, <2>1
    <3>2. QED
      BY <1>3, <1>5, <3>1
  <2>2. CASE i = Len(s)
    <3>1. i \in 1 .. Len(s)
      BY <1>2, <2>2
    <3>2. w[i] = s[i] /\ w[i + 1] = k
      BY <1>3, <2>2, <3>1
    <3>3. QED
      BY <1>4, <3>1, <3>2
  <2>3. CASE i = Len(s) + 1
    <3>1. 1 \in 1 .. Len(t)
      BY <1>2, <1>3, <2>3
    <3>2. w[i] = k /\ w[i + 1] = t[1]
      BY <1>3, <2>3, <3>1
    <3>3. QED
      BY <1>4, <3>1, <3>2
  <2>4. CASE i > Len(s) + 1
    <3> DEFINE j == i - (Len(s) + 1)
    <3>1. /\ j \in 1 .. Len(t) /\ j + 1 \in 1 .. Len(t) /\ j \in 1 .. Len(t) - 1
          /\ i = Len(s) + 1 + j /\ i + 1 = Len(s) + 1 + (j + 1)
      BY <1>2, <1>3, <2>4, SMTT(40)
    <3> HIDE DEF j
    <3>2. w[i] = t[j] /\ w[i + 1] = t[j + 1]
      BY <1>3, <3>1
    <3>3. QED
      BY <1>5, <3>1, <3>2
  <2>5. QED
    BY <1>2, <2>1, <2>2, <2>3, <2>4
<1>7. \A i \in 1 .. Len(w) : w[i] \in A \cup {k} \cup B
  <2> TAKE i \in 1 .. Len(w)
  <2>1. CASE i <= Len(s)
    BY <1>2, <1>3, <1>4, <2>1, SMTT(40)
  <2>2. CASE i = Len(s) + 1
    BY <1>3, <2>2
  <2>3. CASE i > Len(s) + 1
    <3> DEFINE j == i - (Len(s) + 1)
    <3>1. j \in 1 .. Len(t) /\ i = Len(s) + 1 + j
      BY <1>2, <1>3, <2>3
    <3> HIDE DEF j
    <3>2. QED
      BY <1>3, <1>4, <3>1
  <2>4. QED
    BY <1>2, <2>1, <2>2, <2>3
<1>8. \A x \in A \cup {k} \cup B : \E i \in 1 .. Len(w) : w[i] = x
  <2> TAKE x \in A \cup {k} \cup B
  <2>1. CASE x \in A
    <3>1. PICK i \in 1 .. Len(s) : s[i] = x
      BY <1>4, <2>1
    <3>2. i \in 1 .. Len(w) /\ w[i] = x
      BY <1>2, <1>3, <3>1
    <3>3. QED
      BY <3>2
  <2>2. CASE x = k
    <3>1. Len(s) + 1 \in 1 .. Len(w)
      BY <1>2, <1>3
    <3>2. QED
      BY <1>3, <2>2, <3>1
  <2>3. CASE x \in B
    <3>1. PICK i \in 1 .. Len(t) : t[i] = x
      BY <1>4, <2>3
    <3>2. Len(s) + 1 + i \in 1 .. Len(w) /\ w[Len(s) + 1 + i] = x
      BY <1>2, <1>3, <3>1
    <3>3. QED
      BY <3>2
  <2>4. QED
    BY <2>1, <2>2, <2>3
<1>9. DOMAIN w = 1 .. Len(w)
  BY <1>3
<1>10. {w[i] : i \in DOMAIN w} = A \cup {k} \cup B
  BY <1>7, <1>8, <1>9
<1>11. w \in Seq(Nat) /\ Ascending(w)
  BY <1>3, <1>6 DEF Ascending
<1>12. QED
  BY <1>10, <1>11 DEF Lists, w

\* What the loop of lke_btree_value_traversal over the children of n gives if
\* the calls on the children give f.
Joined(m, f) ==
    LET upto[i \in 0 .. KeyLen(m)] ==
            IF i = 0 THEN f[Child(m, 0)]
            ELSE upto[i - 1] \o <<m.key[i - 1]>> \o f[Child(m, i)]
    IN  upto[KeyLen(m)]

\* u has what the loop collected before each of its turns.
Joins(u, m, f) ==
    /\ u \in [0 .. KeyLen(m) -> Seq(Nat)]
    /\ u[0] = f[Child(m, 0)]
    /\ \A i \in 0 .. KeyLen(m) - 1 : u[i + 1] = u[i] \o <<m.key[i]>> \o f[Child(m, i + 1)]

LEMMA JoinedIs ==
  ASSUME NEW m \in Trees, m # NULL, NEW f, \A i : f[Child(m, i)] \in Seq(Nat)
  PROVE  \E u : Joins(u, m, f) /\ Joined(m, f) = u[KeyLen(m)]
<1> DEFINE len == KeyLen(m)
           more == [p \in Seq(Nat) \X Nat |->
                      IF p[2] < len THEN p[1] \o <<m.key[p[2]]>> \o f[Child(m, p[2] + 1)] ELSE p[1]]
           start == f[Child(m, 0)]
           F(u) == [i \in 0 .. KeyLen(m) |->
                      IF i = 0 THEN f[Child(m, 0)]
                      ELSE u[i - 1] \o <<m.key[i - 1]>> \o f[Child(m, i)]]
           upto == CHOOSE u : u = F(u)
<1>1. Joined(m, f) = upto[KeyLen(m)]
  BY Zenon DEF Joined
<1>2. len \in Nat /\ len <= M /\ M \in Nat
  BY ChildBelow, GettersTyped, TreesAre, MAssumption
<1>3. \A i \in 0 .. len - 1 : m.key[i] \in Nat
  <2>1. \A i \in 0 .. len - 1 : i \in Slots
    BY <1>2 DEF Slots
  <2>2. QED
    BY <2>1, ChildBelow DEF Node
<1> HIDE DEF len
<1>4. more \in [Seq(Nat) \X Nat -> Seq(Nat)]
  <2>1. ASSUME NEW p \in Seq(Nat) \X Nat, p[2] < len
        PROVE  p[1] \o <<m.key[p[2]]>> \o f[Child(m, p[2] + 1)] \in Seq(Nat)
    <3>1. p[1] \in Seq(Nat) /\ p[2] \in 0 .. len - 1
      BY <1>2, <2>1
    <3>2. <<m.key[p[2]]>> \in Seq(Nat) /\ f[Child(m, p[2] + 1)] \in Seq(Nat)
      BY <1>3, <3>1
    <3>3. QED
      BY <3>1, <3>2
  <2>2. QED
    BY <2>1
<1>5. start \in Seq(Nat)
  OBVIOUS
<1>6. PICK g : Solves(g, Seq(Nat), start, more)
  <2> HIDE DEF more, start
  <2>1. Seq(Nat) = Seq(Nat)
    OBVIOUS
  <2>2. QED
    BY <1>4, <1>5, Recursion
<1> DEFINE h == [i \in 0 .. len |-> g[i]]
<1>7. g \in [Nat -> Seq(Nat)] /\ g[0] = start /\ \A i \in Nat : g[i + 1] = more[<<g[i], i>>]
  BY <1>6 DEF Solves
<1>8. \A i \in 0 .. len - 1 : g[i + 1] = g[i] \o <<m.key[i]>> \o f[Child(m, i + 1)]
  <2> TAKE i \in 0 .. len - 1
  <2>1. i \in Nat /\ i < len /\ g[i] \in Seq(Nat)
    BY <1>2, <1>7
  <2>2. g[i + 1] = more[<<g[i], i>>]
    BY <1>7, <2>1
  <2>3. more[<<g[i], i>>] = g[i] \o <<m.key[i]>> \o f[Child(m, i + 1)]
    BY <2>1
  <2>4. QED
    BY <2>2, <2>3
<1> HIDE DEF more
<1>9. h = F(h)
  <2>1. ASSUME NEW i \in 0 .. len
        PROVE  h[i] = IF i = 0 THEN f[Child(m, 0)]
                      ELSE h[i - 1] \o <<m.key[i - 1]>> \o f[Child(m, i)]
    <3>1. CASE i = 0
      BY <1>2, <1>7, <3>1
    <3>2. CASE i # 0
      <4>1. PICK j : j = i - 1
        OBVIOUS
      <4>2. j \in 0 .. len - 1 /\ j \in 0 .. len /\ j + 1 = i
        BY <1>2, <3>2, <4>1
      <4>3. g[j + 1] = g[j] \o <<m.key[j]>> \o f[Child(m, j + 1)]
        BY <1>8, <4>2
      <4>4. h[i] = g[i] /\ h[j] = g[j]
        BY <4>2
      <4> HIDE DEF h
      <4>5. h[i] = h[j] \o <<m.key[j]>> \o f[Child(m, i)]
        BY <4>2, <4>3, <4>4
      <4>6. QED
        BY <3>2, <4>1, <4>5
    <3>3. QED
      BY <3>1, <3>2
  <2>2. h = [i \in 0 .. len |-> h[i]]
    OBVIOUS
  <2> HIDE DEF h
  <2>3. QED
    BY <2>1, <2>2 DEF len
<1>10. upto = F(upto)
  <2> HIDE DEF F, h
  <2>1. QED
    BY <1>9
<1> HIDE DEF upto
<1>11. /\ DOMAIN upto = 0 .. len
       /\ \A i \in 0 .. len : upto[i] = IF i = 0 THEN f[Child(m, 0)]
                                        ELSE upto[i - 1] \o <<m.key[i - 1]>> \o f[Child(m, i)]
  BY <1>10 DEF len
<1>12. upto[0] = f[Child(m, 0)]
  BY <1>2, <1>11, SMTT(30)
<1>13. \A i \in 0 .. len - 1 : upto[i + 1] = upto[i] \o <<m.key[i]>> \o f[Child(m, i + 1)]
  <2>1. \A i \in 0 .. len - 1 : i + 1 \in 0 .. len /\ i + 1 # 0 /\ (i + 1) - 1 = i
    BY <1>2
  <2>2. QED
    BY <1>11, <2>1
<1>14. \A i \in Nat : i <= len => upto[i] \in Seq(Nat)
  <2> DEFINE T == {i \in Nat : i <= len => upto[i] \in Seq(Nat)}
  <2>1. 0 \in T
    BY <1>12
  <2>2. ASSUME NEW i \in Nat, i \in T PROVE i + 1 \in T
    <3>1. SUFFICES ASSUME i + 1 <= len PROVE upto[i + 1] \in Seq(Nat)
      OBVIOUS
    <3>2. i \in 0 .. len - 1 /\ i <= len
      BY <1>2, <3>1
    <3>3. upto[i] \in Seq(Nat) /\ <<m.key[i]>> \in Seq(Nat) /\ f[Child(m, i + 1)] \in Seq(Nat)
      BY <1>3, <2>2, <3>2
    <3>4. upto[i] \o <<m.key[i]>> \o f[Child(m, i + 1)] \in Seq(Nat)
      BY <3>3
    <3>5. QED
      BY <1>13, <3>2, <3>4
  <2>3. \A i \in Nat : i \in T
    <3> HIDE DEF T
    <3>1. QED
      BY <2>1, <2>2, Induction
  <2>4. QED
    BY <2>3
<1>15. upto \in [0 .. len -> Seq(Nat)]
  <2>1. upto = [i \in 0 .. len |-> upto[i]]
    BY <1>10 DEF len
  <2>2. \A i \in 0 .. len : upto[i] \in Seq(Nat)
    BY <1>2, <1>14
  <2>3. QED
    BY <2>1, <2>2
<1>16. Joins(upto, m, f)
  BY <1>12, <1>13, <1>15 DEF Joins, len
<1>17. QED
  BY <1>1, <1>16

\* f and g give the same for the children of m.
SameBelow(m, f, g) == \A i : f[Child(m, i)] = g[Child(m, i)]

\* Two collections from the same lists are one.
LEMMA JoinsAgree ==
  ASSUME NEW m \in Trees, m # NULL, NEW f, NEW g, SameBelow(m, f, g),
         NEW u, NEW v, Joins(u, m, f), Joins(v, m, g)
  PROVE  u[KeyLen(m)] = v[KeyLen(m)]
<1> DEFINE len == KeyLen(m)
           T == {i \in Nat : i <= len => u[i] = v[i]}
<1>1. len \in Nat
  BY ChildBelow, GettersTyped, TreesAre, MAssumption
<1>2. 0 \in T
  BY DEF Joins, SameBelow
<1>3. ASSUME NEW i \in Nat, i \in T PROVE i + 1 \in T
  <2>1. SUFFICES ASSUME i + 1 <= len PROVE u[i + 1] = v[i + 1]
    OBVIOUS
  <2>2. i \in 0 .. len - 1 /\ u[i] = v[i]
    BY <1>1, <1>3, <2>1
  <2>3. u[i + 1] = u[i] \o <<m.key[i]>> \o f[Child(m, i + 1)]
    BY <2>2 DEF Joins
  <2>4. v[i + 1] = v[i] \o <<m.key[i]>> \o g[Child(m, i + 1)]
    BY <2>2 DEF Joins
  <2>5. f[Child(m, i + 1)] = g[Child(m, i + 1)]
    BY DEF SameBelow
  <2>6. QED
    BY <2>2, <2>3, <2>4, <2>5
<1>4. \A i \in Nat : i \in T
  <2> HIDE DEF T
  <2>1. QED
    BY <1>2, <1>3, Induction
<1> HIDE DEF len
<1>5. len \in T /\ len <= len
  BY <1>1, <1>4
<1>6. QED
  BY <1>5 DEF len

Walk(m, f) ==
    IF m = NULL THEN << >>
    ELSE IF IsLeaf(m) THEN [i \in 1 .. KeyLen(m) |-> m.key[i - 1]]
    ELSE IF KeyLen(m) # ChildLen(m) - 1 THEN << >>
    ELSE Joined(m, f)

\* The recursion of lke_btree_value_traversal.
LEMMA TraversalIs ==
  /\ ValueTraversal(NULL) = << >>
  /\ \A n \in Trees : ValueTraversal(n) \in Seq(Nat)
  /\ \A n \in Trees : (n # NULL /\ IsLeaf(n)) =>
       ValueTraversal(n) = [i \in 1 .. KeyLen(n) |-> n.key[i - 1]]
  /\ \A n \in Trees : (n # NULL /\ ~IsLeaf(n) /\ ChildLen(n) = KeyLen(n) + 1) =>
       \E u : /\ ValueTraversal(n) = u[KeyLen(n)]
              /\ u[0] = ValueTraversal(Child(n, 0))
              /\ \A i \in 0 .. KeyLen(n) - 1 :
                   u[i + 1] = u[i] \o <<n.key[i]>> \o ValueTraversal(Child(n, i + 1))
<1> DEFINE R == Seq(Nat)
           F(f) == [m \in Trees |-> Walk(m, f)]
           step == [p \in Trees \X [Trees -> R] |-> Walk(p[1], p[2])]
           walk == CHOOSE f : f = F(f)
<1>1. \A n \in Trees : ValueTraversal(n) = walk[n]
  BY Zenon DEF ValueTraversal, Walk, Joined
<1>2. ASSUME NEW n \in Trees, n # NULL
      PROVE  /\ \A i : Child(n, i) \in Trees /\ Child(n, i) \in Below(n)
             /\ KeyLen(n) \in Nat /\ ChildLen(n) \in Nat
             /\ \A i \in 1 .. KeyLen(n) : n.key[i - 1] \in Nat
  <2>1. n \in Node(Trees) /\ \A i : Child(n, i) \in Trees /\ Child(n, i) \in Below(n)
    BY <1>2, ChildBelow
  <2>2. KeyLen(n) \in 0 .. M /\ ChildLen(n) \in 0 .. M + 1 /\ M \in Nat
    BY <2>1, GettersTyped, TreesAre, MAssumption
  <2>3. \A i \in 1 .. KeyLen(n) : i - 1 \in Slots
    BY <2>2 DEF Slots
  <2>4. QED
    BY <2>1, <2>2, <2>3 DEF Node
<1>3. ASSUME NEW n \in Trees, NEW f, n # NULL => \A i : f[Child(n, i)] \in R
      PROVE  Walk(n, f) \in R
  <2>1. CASE n = NULL \/ (~IsLeaf(n) /\ KeyLen(n) # ChildLen(n) - 1)
    BY <2>1 DEF Walk
  <2>2. CASE n # NULL /\ IsLeaf(n)
    <3>1. Walk(n, f) = [i \in 1 .. KeyLen(n) |-> n.key[i - 1]]
      BY <2>2 DEF Walk
    <3>2. KeyLen(n) \in Nat /\ \A i \in 1 .. KeyLen(n) : n.key[i - 1] \in Nat
      BY <1>2, <2>2
    <3>3. [i \in 1 .. KeyLen(n) |-> n.key[i - 1]] \in [1 .. KeyLen(n) -> Nat]
      BY <3>2
    <3>4. QED
      BY <3>1, <3>2, <3>3
  <2>3. CASE n # NULL /\ ~IsLeaf(n) /\ KeyLen(n) = ChildLen(n) - 1
    <3>1. Walk(n, f) = Joined(n, f)
      BY <2>3 DEF Walk
    <3>2. PICK u : Joins(u, n, f) /\ Joined(n, f) = u[KeyLen(n)]
      BY <1>3, <2>3, JoinedIs
    <3>3. KeyLen(n) \in 0 .. KeyLen(n)
      BY <1>2, <2>3
    <3>4. QED
      BY <3>1, <3>2, <3>3 DEF Joins
  <2>4. QED
    BY <2>1, <2>2, <2>3
<1>4. step \in [Trees \X [Trees -> R] -> R]
  <2>1. \A p \in Trees \X [Trees -> R] : p[1] \in Trees /\ p[2] \in [Trees -> R]
    OBVIOUS
  <2>2. \A p \in Trees \X [Trees -> R] : Walk(p[1], p[2]) \in R
    <3> TAKE p \in Trees \X [Trees -> R]
    <3>1. p[1] # NULL => \A i : Child(p[1], i) \in Trees
      BY <1>2, <2>1
    <3>2. p[1] # NULL => \A i : p[2][Child(p[1], i)] \in R
      BY <2>1, <3>1
    <3> HIDE DEF R
    <3>3. QED
      BY <1>3, <2>1, <3>2
  <2> HIDE DEF R
  <2>3. QED
    BY <2>2
<1>5. ASSUME NEW n \in Trees, NEW f \in [Trees -> R], NEW g \in [Trees -> R],
             \A c \in Below(n) : f[c] = g[c]
      PROVE  step[<<n, f>>] = step[<<n, g>>]
  <2>1. Walk(n, f) = Walk(n, g)
    <3>1. CASE n = NULL \/ IsLeaf(n) \/ KeyLen(n) # ChildLen(n) - 1
      BY <3>1 DEF Walk
    <3>2. CASE n # NULL /\ ~IsLeaf(n) /\ KeyLen(n) = ChildLen(n) - 1
      <4>1. \A i : Child(n, i) \in Below(n) /\ Child(n, i) \in Trees
        BY <1>2, <3>2
      <4>2. \A i : f[Child(n, i)] \in R /\ g[Child(n, i)] \in R /\ f[Child(n, i)] = g[Child(n, i)]
        BY <1>5, <4>1
      <4>3. PICK u : Joins(u, n, f) /\ Joined(n, f) = u[KeyLen(n)]
        BY <3>2, <4>2, JoinedIs
      <4>4. PICK v : Joins(v, n, g) /\ Joined(n, g) = v[KeyLen(n)]
        BY <3>2, <4>2, JoinedIs
      <4>5. u[KeyLen(n)] = v[KeyLen(n)]
        <5>1. n # NULL
          BY <3>2
        <5>2. SameBelow(n, f, g)
          BY <4>2 DEF SameBelow
        <5>3. Joins(u, n, f)
          BY <4>3
        <5>4. Joins(v, n, g)
          BY <4>4
        <5>5. QED
          BY <5>1, <5>2, <5>3, <5>4, JoinsAgree
      <4>6. QED
        BY <3>2, <4>3, <4>4, <4>5 DEF Walk
    <3>3. QED
      BY <3>1, <3>2
  <2> HIDE DEF R
  <2>2. QED
    BY <2>1
<1>6. PICK f : TreeSolves(f, R, step)
  <2>1. << >> \in R
    OBVIOUS
  <2> HIDE DEF step, R
  <2>2. QED
    BY <1>4, <1>5, <2>1, TreeRecursion
<1>7. f = F(f)
  <2> HIDE DEF R
  <2>1. f \in [Trees -> R] /\ \A n \in Trees : f[n] = Walk(n, f)
    BY <1>6 DEF TreeSolves
  <2>2. QED
    BY <2>1
<1>8. walk = F(walk)
  <2> HIDE DEF F
  <2>1. QED
    BY <1>7
<1>9. \A n \in Trees : walk[n] = Walk(n, walk)
  <2> HIDE DEF walk
  <2>1. QED
    BY <1>8
<1>10. NULL \in Trees
  BY TreesAre
<1> HIDE DEF walk
<1>11. ValueTraversal(NULL) = << >>
  BY <1>1, <1>9, <1>10 DEF Walk
<1>12. \A n \in Trees : walk[n] \in R
  <2> DEFINE S == {n \in Trees : walk[n] \in R}
  <2>1. NULL \in S
    BY <1>3, <1>9, <1>10
  <2>2. ASSUME NEW n \in Trees, n # NULL, Below(n) \subseteq S PROVE n \in S
    <3>1. \A i : Child(n, i) \in S
      BY <2>2, ChildBelow
    <3>2. \A i : walk[Child(n, i)] \in R
      BY <3>1
    <3> HIDE DEF R
    <3>3. Walk(n, walk) \in R
      BY <1>3, <2>2, <3>2
    <3>4. QED
      BY <1>9, <2>2, <3>3
  <2>3. Trees \subseteq S
    <3> HIDE DEF S
    <3>1. QED
      BY <2>1, <2>2, TreeInduction
  <2>4. QED
    BY <2>3
<1>13. ASSUME NEW n \in Trees, n # NULL, IsLeaf(n)
       PROVE  ValueTraversal(n) = [i \in 1 .. KeyLen(n) |-> n.key[i - 1]]
  BY <1>1, <1>9, <1>13 DEF Walk
<1>14. ASSUME NEW n \in Trees, n # NULL, ~IsLeaf(n), ChildLen(n) = KeyLen(n) + 1
       PROVE  \E u : /\ ValueTraversal(n) = u[KeyLen(n)]
                     /\ u[0] = ValueTraversal(Child(n, 0))
                     /\ \A i \in 0 .. KeyLen(n) - 1 :
                          u[i + 1] = u[i] \o <<n.key[i]>> \o ValueTraversal(Child(n, i + 1))
  <2>1. \A i : Child(n, i) \in Trees
    BY <1>2, <1>14
  <2>2. \A i : walk[Child(n, i)] \in R /\ walk[Child(n, i)] = ValueTraversal(Child(n, i))
    BY <1>1, <1>12, <2>1
  <2>3. PICK u : Joins(u, n, walk) /\ Joined(n, walk) = u[KeyLen(n)]
    BY <1>14, <2>2, JoinedIs
  <2>4. KeyLen(n) = ChildLen(n) - 1
    BY <1>2, <1>14
  <2>5. ValueTraversal(n) = u[KeyLen(n)]
    BY <1>1, <1>9, <1>14, <2>3, <2>4 DEF Walk
  <2>6. u[0] = ValueTraversal(Child(n, 0))
    BY <2>2, <2>3 DEF Joins
  <2>7. \A i \in 0 .. KeyLen(n) - 1 :
          u[i + 1] = u[i] \o <<n.key[i]>> \o ValueTraversal(Child(n, i + 1))
    BY <2>2, <2>3 DEF Joins
  <2>8. QED
    BY <2>5, <2>6, <2>7
<1>15. \A n \in Trees : ValueTraversal(n) \in Seq(Nat)
  BY <1>1, <1>12
<1>16. QED
  BY <1>11, <1>13, <1>14, <1>15

\* The traversal of a sound tree lists its keys in rising order.
LEMMA SoundListed ==
  ASSUME NEW hi
  PROVE  \A h \in Nat : \A n \in Sound(hi)[h] : Lists(ValueTraversal(n), KeysOf(n))
<1> DEFINE T == {h \in Nat : \A n \in Sound(hi)[h] : Lists(ValueTraversal(n), KeysOf(n))}
<1>1. 0 \in T
  <2>1. Ascending(<< >>) /\ << >> \in Seq(Nat) /\ {(<< >>)[i] : i \in DOMAIN << >>} = {}
    BY DEF Ascending
  <2>2. Lists(<< >>, {})
    BY <2>1 DEF Lists
  <2>3. QED
    BY <2>2, SoundIs, KeysOfIs, TraversalIs
<1>2. ASSUME NEW h \in Nat, h \in T PROVE h + 1 \in T
  <2>1. SUFFICES ASSUME NEW n \in Sound(hi)[h + 1] PROVE Lists(ValueTraversal(n), KeysOf(n))
    OBVIOUS
  <2> DEFINE len == KeyLen(n)
             C == Kids(Sound(hi)[h], hi)
  <2>2. n \in Trees /\ n # NULL /\ len \in 0 .. M /\ Uniform(C) /\ n \in Node(Trees)
    BY SoundNode, KidsUniform
  <2>3. Hung(n, len, C) /\ Packed(n, len) /\ Separated(n, len)
    BY SoundNode DEF WellMade
  <2>4. C \subseteq Sound(hi)[h] /\ M \in Nat
    BY KidsUniform, MAssumption
  <2>5. \A c \in C : Lists(ValueTraversal(c), KeysOf(c))
    BY <1>2, <2>4
  <2>6. \A i \in 0 .. len - 1 : i \in Slots /\ n.key[i] \in Nat /\ n.key[i] # 0
    BY <2>2, <2>3, <2>4 DEF Packed, Slots
  <2> HIDE DEF C
  <2>7. \A x : x \in KeysOf(n) <=> \/ \E i \in Slots : i < len /\ x = n.key[i]
                                   \/ \E i \in Links : i <= len /\ x \in KeysOf(n.child[i])
    <3>1. Hung(n, len, C) /\ Packed(n, len) /\ Uniform(C)
      BY <2>2, <2>3
    <3>2. QED
      BY <2>2, <3>1, KeysOfNode
  <2> DEFINE own(i) == {n.key[j] : j \in 0 .. i - 1}
             hung(i) == UNION {KeysOf(n.child[j]) : j \in 0 .. i}
  <2>8. KeysOf(n) = own(len) \cup hung(len)
    <3>1. \A i : i \in 0 .. len - 1 <=> (i \in Slots /\ i < len)
      BY <2>2, <2>4 DEF Slots
    <3>2. \A i : i \in 0 .. len <=> (i \in Links /\ i <= len)
      BY <2>2, <2>4 DEF Links
    <3>3. \A x : x \in own(len) <=> \E i \in Slots : i < len /\ x = n.key[i]
      BY <3>1
    <3>4. \A x : x \in hung(len) <=> \E i \in Links : i <= len /\ x \in KeysOf(n.child[i])
      BY <3>2
    <3> HIDE DEF own, hung, len
    <3>5. QED
      BY <2>7, <3>3, <3>4
  <2>9. CASE C = {NULL}
    <3>1. IsLeaf(n)
      BY <2>2, <2>3, <2>9, HungReads
    <3>2. ValueTraversal(n) = [i \in 1 .. len |-> n.key[i - 1]]
      BY <2>2, <3>1, TraversalIs
    <3> DEFINE w == [i \in 1 .. len |-> n.key[i - 1]]
    <3>3. \A i \in 1 .. len : i - 1 \in 0 .. len - 1 /\ w[i] = n.key[i - 1]
      BY <2>2
    <3>4. w \in [1 .. len -> Nat] /\ w \in Seq(Nat) /\ Len(w) = len /\ DOMAIN w = 1 .. len
      <4>1. \A i \in 1 .. len : n.key[i - 1] \in Nat
        BY <2>6, <3>3
      <4>2. w \in [1 .. len -> Nat] /\ DOMAIN w = 1 .. len
        BY <4>1
      <4> HIDE DEF w
      <4>3. w \in Seq(Nat) /\ Len(w) = len
        BY <2>2, <4>2
      <4>4. QED
        BY <4>2, <4>3
    <3> HIDE DEF w
    <3>5. Ascending(w)
      <4>1. ASSUME NEW i \in 1 .. Len(w) - 1 PROVE w[i] < w[i + 1]
        <5>1. PICK j : j = i - 1
          OBVIOUS
        <5>2. /\ i \in 1 .. len /\ i + 1 \in 1 .. len /\ j \in Slots /\ i \in Slots
              /\ j < i /\ i < len /\ (i + 1) - 1 = i
          BY <2>2, <2>4, <3>4, <5>1 DEF Slots
        <5>3. n.key[j] < n.key[i]
          BY <2>3, <5>2 DEF Packed
        <5>4. w[i] = n.key[j] /\ w[i + 1] = n.key[i]
          BY <3>3, <5>1, <5>2
        <5>5. QED
          BY <5>3, <5>4
      <4>2. QED
        BY <4>1 DEF Ascending
    <3>6. {w[i] : i \in DOMAIN w} = own(len)
      <4>1. \A j \in 0 .. len - 1 : j + 1 \in 1 .. len /\ (j + 1) - 1 = j
        BY <2>2
      <4>2. \A j \in 0 .. len - 1 : w[j + 1] = n.key[j]
        BY <3>3, <4>1
      <4>3. \A x : x \in own(len) <=> \E i \in 1 .. len : x = w[i]
        BY <3>3, <4>1, <4>2
      <4> HIDE DEF own
      <4>4. QED
        BY <3>4, <4>3
    <3>7. hung(len) = {}
      <4>1. \A j \in 0 .. len : n.child[j] = NULL
        BY <2>2, <2>3, <2>4, <2>9 DEF Hung, Links
      <4>2. QED
        BY <4>1, KeysOfIs
    <3> HIDE DEF own, hung
    <3>8. Lists(w, KeysOf(n))
      BY <2>8, <3>4, <3>5, <3>6, <3>7 DEF Lists
    <3>9. QED
      BY <3>2, <3>8 DEF w
  <2>10. CASE C # {NULL}
    <3>1. ~IsLeaf(n) /\ ChildLen(n) = len + 1
      BY <2>2, <2>3, <2>10, HungReads
    <3>2. PICK u : /\ ValueTraversal(n) = u[len]
                   /\ u[0] = ValueTraversal(Child(n, 0))
                   /\ \A i \in 0 .. len - 1 :
                        u[i + 1] = u[i] \o <<n.key[i]>> \o ValueTraversal(Child(n, i + 1))
      BY <2>2, <3>1, TraversalIs
    <3>3. \A i \in 0 .. len : i \in Links /\ Child(n, i) = n.child[i] /\ n.child[i] \in C
      <4>1. \A i \in 0 .. len : i \in Links /\ i <= len
        BY <2>2, <2>4 DEF Links
      <4>2. QED
        BY <2>2, <2>3, <4>1, HungReads DEF Hung
    <3>4. \A i \in 0 .. len : Lists(ValueTraversal(Child(n, i)), KeysOf(n.child[i]))
      BY <2>5, <3>3
    <3> DEFINE I == {i \in Nat : i <= len => Lists(u[i], own(i) \cup hung(i))}
    <3>5. 0 \in I
      <4>1. own(0) = {} /\ hung(0) = KeysOf(n.child[0])
        OBVIOUS
      <4>2. 0 \in 0 .. len
        BY <2>2
      <4> HIDE DEF own, hung
      <4>3. Lists(u[0], own(0) \cup hung(0))
        BY <3>2, <3>4, <4>1, <4>2
      <4>4. QED
        BY <4>3
    <3>6. ASSUME NEW i \in Nat, i \in I PROVE i + 1 \in I
      <4>1. SUFFICES ASSUME i + 1 <= len PROVE Lists(u[i + 1], own(i + 1) \cup hung(i + 1))
        OBVIOUS
      <4>2. PICK j : j = i + 1
        OBVIOUS
      <4>3. i \in 0 .. len - 1 /\ j \in 0 .. len /\ i < len /\ j <= len /\ i < j
        BY <2>2, <4>1, <4>2
      <4> DEFINE A == own(i) \cup hung(i)
                 B == KeysOf(n.child[j])
                 k == n.key[i]
                 s == u[i]
                 t == ValueTraversal(Child(n, j))
      <4>4. Lists(s, A) /\ Lists(t, B) /\ k \in Nat
        <5>1. Lists(s, A)
          <6> HIDE DEF own, hung
          <6>1. i <= len
            BY <2>2, <4>3
          <6>2. QED
            BY <3>6, <6>1
        <5>2. Lists(t, B)
          BY <3>4, <4>3
        <5>3. QED
          BY <2>6, <4>3, <5>1, <5>2
      <4>5. own(j) = own(i) \cup {k}
        <5>1. \A x : x \in 0 .. j - 1 <=> (x \in 0 .. i - 1 \/ x = i)
          BY <4>2
        <5>2. QED
          BY <5>1
      <4>6. hung(j) = hung(i) \cup B
        <5>1. \A x : x \in 0 .. j <=> (x \in 0 .. i \/ x = j)
          BY <4>2
        <5>2. QED
          BY <5>1
      <4>7. \A x \in B : k < x
        <5>1. \A x \in B : Between(n, len, j, x)
          BY <2>3, <3>3, <4>3 DEF Separated
        <5>2. 0 < j /\ j - 1 = i
          BY <4>2
        <5>3. QED
          BY <5>1, <5>2 DEF Between
      <4>8. \A x \in A : x < k
        <5>1. ASSUME NEW x \in own(i) PROVE x < k
          <6>1. PICK a \in 0 .. i - 1 : x = n.key[a]
            BY <5>1
          <6>2. a \in Slots /\ i \in Slots /\ a < i /\ i < len
            BY <2>6, <4>3, <6>1, <2>2
          <6>3. QED
            BY <2>3, <6>1, <6>2 DEF Packed
        <5>2. ASSUME NEW x \in hung(i) PROVE x < k
          <6>1. PICK a \in 0 .. i : x \in KeysOf(n.child[a])
            BY <5>2
          <6>2. a \in Links /\ a <= len /\ a < len /\ a \in Slots /\ i \in Slots /\ a <= i /\ a \in 0 .. len - 1
            BY <2>6, <3>3, <4>3, <6>1, <2>2
          <6>3. Between(n, len, a, x)
            BY <2>3, <6>1, <6>2 DEF Separated
          <6>4. x < n.key[a] /\ n.key[a] \in Nat /\ n.key[i] \in Nat
            BY <2>6, <4>3, <6>2, <6>3 DEF Between
          <6>5. n.key[a] <= n.key[i]
            <7>1. CASE a = i
              BY <6>4, <7>1
            <7>2. CASE a # i
              <8>1. a < i
                BY <6>2, <7>2
              <8>2. n.key[a] < n.key[i]
                BY <2>3, <4>3, <6>2, <8>1 DEF Packed
              <8>3. QED
                BY <6>4, <8>2
            <7>3. QED
              BY <7>1, <7>2
          <6>6. x \in Nat
            <7>1. n.child[a] \in Trees
              BY <2>2, <6>2 DEF Node
            <7>2. QED
              BY <6>1, <7>1, KeysOfIs
          <6>7. QED
            BY <6>4, <6>5, <6>6
        <5>3. QED
          BY <5>1, <5>2
      <4>9. u[j] = s \o <<k>> \o t
        BY <3>2, <4>2, <4>3
      <4> HIDE DEF A, B, k, s, t
      <4>10. Lists(s \o <<k>> \o t, A \cup {k} \cup B)
        BY <4>4, <4>7, <4>8, ListsJoined
      <4>11. own(j) \cup hung(j) = A \cup {k} \cup B
        <5> HIDE DEF own, hung
        <5>1. QED
          BY <4>5, <4>6 DEF A
      <4> HIDE DEF own, hung
      <4>12. Lists(u[j], own(j) \cup hung(j))
        BY <4>9, <4>10, <4>11
      <4>13. QED
        BY <4>2, <4>12
    <3>7. \A i \in Nat : i \in I
      <4> HIDE DEF I
      <4>1. QED
        BY <3>5, <3>6, Induction
    <3>8. len \in Nat /\ len <= len
      BY <2>2
    <3>9. Lists(u[len], own(len) \cup hung(len))
      BY <3>7, <3>8
    <3> HIDE DEF own, hung
    <3>10. QED
      BY <2>8, <3>2, <3>9
  <2>11. QED
    BY <2>9, <2>10
<1>3. \A h \in Nat : h \in T
  <2> HIDE DEF T
  <2>1. QED
    BY <1>1, <1>2, Induction
<1>4. QED
  BY <1>3

LEMMA GoodRootTraversed ==
  ASSUME NEW hi, GoodRoot(hi, root), KeysOf(root) \subseteq Keys
  PROVE  TraversalIsStored
<1>1. PICK h \in Nat : root \in Sound(hi)[h]
  <2>1. CASE root = NULL
    BY <2>1, SoundIs
  <2>2. CASE root # NULL
    <3>1. \A h \in Nat : h + 1 \in Nat
      OBVIOUS
    <3>2. QED
      BY <2>2, <3>1 DEF GoodRoot
  <2>3. QED
    BY <2>1, <2>2
<1>2. Lists(ValueTraversal(root), KeysOf(root))
  BY <1>1, SoundListed
<1>3. Stored = KeysOf(root)
  BY GoodRootFinds DEF Stored
<1>4. QED
  BY <1>2, <1>3 DEF Lists, TraversalIsStored

-----------------------------------------------------------------------------
(* Trees that grow while memory runs out *)

LEMMA AlwaysGrowingShort == SpecShortOfMemory => []Growing(M)
<1>1. M \in {M - 1, M}
  OBVIOUS
<1>2. Init => Growing(M)
  BY GrowingInit
<1>3. Growing(M) /\ [NextShortOfMemory]_vars => Growing(M)'
  <2>1. SUFFICES ASSUME Growing(M), [NextShortOfMemory]_vars PROVE Growing(M)'
    OBVIOUS
  <2>2. CASE [NextInsertOnly]_vars
    BY <1>1, <2>1, <2>2, GrowingNext
  <2>3. ASSUME NEW k \in Keys, InsertShortOfMemory(k) PROVE Growing(M)'
    <3>1. PICK failing : InsertWith(k, failing)
      BY <2>3 DEF InsertShortOfMemory
    <3>2. ~(M < M)
      BY MAssumption
    <3>3. QED
      BY <1>1, <2>1, <3>1, <3>2, GrowingInsert
  <2>4. QED
    BY <2>1, <2>2, <2>3 DEF NextShortOfMemory
<1>4. QED
  BY <1>2, <1>3, PTL DEF SpecShortOfMemory

\* Whatever allocations fail at whatever depths, all leaves are equally deep and
\* every inner node has one child more than keys: a split that could not be done
\* leaves an over-full node, never a torn one.
THEOREM ShapeOutlivesNoMemory == SpecShortOfMemory => []Balanced
<1>1. Growing(M) => Balanced
  BY GoodRootBalanced DEF Growing
<1>2. QED
  BY <1>1, AlwaysGrowingShort, PTL

\* No insert into a tree that failed allocations left goes down to a child that is
\* not there.
THEOREM InsertsReturn == SpecShortOfMemory => []CallsReturn
<1>1. Growing(M) => CallsReturn
  BY DEF Growing, CallsReturn
<1>2. QED
  BY <1>1, AlwaysGrowingShort, PTL

\* Nor does a failed allocation make the traversal of readdir differ from what
\* lookups find: it gives each stored key once, in rising order.
THEOREM TraversalOutlivesNoMemory == SpecShortOfMemory => []TraversalIsStored
<1>1. Growing(M) => TraversalIsStored
  BY GoodRootTraversed DEF Growing
<1>2. QED
  BY <1>1, AlwaysGrowingShort, PTL
=============================================================================
