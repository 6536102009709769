--------------------------- MODULE BtreeRemoveProofs ---------------------------
(***************************************************************************)
(* That removing a key from the B-tree of btree/btree.c leaves a search    *)
(* tree with the other keys, until the first rotation.                     *)
(***************************************************************************)
EXTENDS BtreeProofs

-----------------------------------------------------------------------------
(* Nodes that lose a key *)

\* The number of keys is a matter of the keys.
LEMMA KeyLenSame ==
  ASSUME NEW n, NEW m, n.key = m.key
  PROVE  KeyLen(n) = KeyLen(m)
  BY DEF KeyLen

\* A node without the key at pos, c taking the place of the two children around it.
RemoveAt(n, len, pos, c) ==
    [key   |-> [i \in Slots |-> IF i < pos THEN n.key[i]
                                ELSE IF i < len - 1 THEN n.key[i + 1] ELSE 0],
     child |-> [i \in Links |-> IF i < pos THEN n.child[i]
                                ELSE IF i = pos THEN c
                                ELSE IF i < len THEN n.child[i + 1] ELSE NULL]]

LEMMA RemoveAtPacked ==
  ASSUME NEW n, NEW len, Packed(n, len), NEW pos \in 0 .. len - 1, NEW c
  PROVE  Packed(RemoveAt(n, len, pos, c), len - 1)
<1> DEFINE m == RemoveAt(n, len, pos, c)
<1>1. M \in Nat /\ len \in 1 .. M /\ len - 1 \in 0 .. M /\ pos \in 0 .. len - 1
  BY MAssumption DEF Packed
<1>2. /\ \A i \in Slots : n.key[i] \in Nat
      /\ \A i \in Slots : i < len => n.key[i] # 0
      /\ \A i, j \in Slots : (i < j /\ j < len) => n.key[i] < n.key[j]
  BY DEF Packed
<1>3. \A i \in Slots : m.key[i] = IF i < pos THEN n.key[i]
                                  ELSE IF i < len - 1 THEN n.key[i + 1] ELSE 0
  BY DEF RemoveAt
<1>4. m.key = [i \in Slots |-> m.key[i]]
  BY DEF RemoveAt
<1> HIDE DEF m
<1>5. \A i \in Slots : i < len - 1 => i + 1 \in Slots /\ i + 1 < len /\ i \in Nat
  BY <1>1 DEF Slots
<1>6. \A i \in Slots : i < pos => i < len - 1 /\ i < len
  BY <1>1 DEF Slots
<1>7. \A i \in Slots : m.key[i] \in Nat
  BY <1>2, <1>3, <1>5
<1>8. \A i \in Slots : (i < len - 1 => m.key[i] # 0) /\ (len - 1 <= i => m.key[i] = 0)
  <2>1. \A i \in Slots : len - 1 <= i => ~(i < pos) /\ ~(i < len - 1)
    BY <1>1 DEF Slots
  <2>2. QED
    BY <1>2, <1>3, <1>5, <1>6, <2>1
<1>9. ASSUME NEW i \in Slots, NEW j \in Slots, i < j, j < len - 1 PROVE m.key[i] < m.key[j]
  <2>1. i \in Nat /\ j \in Nat /\ i < len - 1 /\ i < len /\ i + 1 < j + 1 /\ i < j + 1
    BY <1>1, <1>9 DEF Slots
  <2>2. /\ i + 1 \in Slots /\ i + 1 < len /\ j + 1 \in Slots /\ j + 1 < len
        /\ j < pos => i < pos /\ j < len
    BY <1>1, <1>5, <1>9, <2>1
  <2>3. CASE j < pos
    BY <1>2, <1>3, <1>9, <2>2, <2>3
  <2>4. CASE ~(j < pos) /\ i < pos
    <3>1. m.key[i] = n.key[i] /\ m.key[j] = n.key[j + 1]
      BY <1>3, <1>9, <2>4
    <3>2. n.key[i] < n.key[j + 1]
      BY <1>2, <2>1, <2>2
    <3>3. QED
      BY <3>1, <3>2
  <2>5. CASE ~(j < pos) /\ ~(i < pos)
    <3>1. m.key[i] = n.key[i + 1] /\ m.key[j] = n.key[j + 1]
      BY <1>3, <1>9, <2>1, <2>5
    <3>2. n.key[i + 1] < n.key[j + 1]
      BY <1>2, <2>1, <2>2
    <3>3. QED
      BY <3>1, <3>2
  <2>6. QED
    BY <2>3, <2>4, <2>5
<1>10. Packed(m, len - 1)
  BY <1>1, <1>4, <1>7, <1>8, <1>9 DEF Packed
<1>11. QED
  BY <1>10 DEF m

LEMMA RemoveAtHung ==
  ASSUME NEW n, NEW len \in 1 .. M, NEW pos \in 0 .. len - 1, NEW C, NEW c \in C,
         \A i \in Links : (i <= len /\ i # pos /\ i # pos + 1) => n.child[i] \in C
  PROVE  Hung(RemoveAt(n, len, pos, c), len - 1, C)
<1> DEFINE m == RemoveAt(n, len, pos, c)
<1>1. M \in Nat
  BY MAssumption
<1>2. \A i \in Links : m.child[i] = IF i < pos THEN n.child[i]
                                    ELSE IF i = pos THEN c
                                    ELSE IF i < len THEN n.child[i + 1] ELSE NULL
  BY DEF RemoveAt
<1> HIDE DEF m
<1>3. ASSUME NEW i \in Links, i <= len - 1 PROVE m.child[i] \in C
  <2>1. CASE i < pos
    <3>1. i <= len /\ i # pos /\ i # pos + 1
      BY <1>1, <1>3, <2>1 DEF Links
    <3>2. QED
      BY <1>2, <2>1, <3>1
  <2>2. CASE i = pos
    BY <1>2, <2>2
  <2>3. CASE pos < i
    <3>1. /\ i + 1 \in Links /\ i + 1 <= len /\ i + 1 # pos /\ i + 1 # pos + 1
          /\ ~(i < pos) /\ i # pos /\ i < len
      BY <1>1, <1>3, <2>3 DEF Links
    <3>2. m.child[i] = n.child[i + 1]
      BY <1>2, <3>1
    <3>3. QED
      BY <3>1, <3>2
  <2>4. QED
    BY <1>1, <2>1, <2>2, <2>3 DEF Links
<1>4. ASSUME NEW i \in Links, len - 1 < i PROVE m.child[i] = NULL
  <2>1. ~(i < pos) /\ i # pos /\ ~(i < len)
    BY <1>1, <1>4 DEF Links
  <2>2. QED
    BY <1>2, <2>1
<1>5. QED
  BY <1>3, <1>4 DEF Hung, m

\* Removing a key from a leaf.
LEMMA LeafLeftShiftIs ==
  ASSUME NEW S, NEW n \in Node(S), NEW len, Packed(n, len), Hung(n, len, {NULL}),
         NEW pos \in 0 .. len - 1
  PROVE  LeafLeftShift(n, pos) = RemoveAt(n, len, pos, NULL)
<1> DEFINE m == LeafLeftShift(n, pos)
           t == RemoveAt(n, len, pos, NULL)
<1>1. M \in Nat /\ len \in 1 .. M /\ KeyLen(n) = len
  <2>1. KeyLen(n) = len
    BY PackedReads
  <2>2. M \in Nat /\ len \in 0 .. M
    BY MAssumption DEF Packed
  <2>3. QED
    BY <2>1, <2>2
<1>2. IsLeaf(n) /\ \A i \in Links : n.child[i] = NULL
  <2>1. Uniform({NULL}) /\ len \in 0 .. M
    BY <1>1 DEF Uniform
  <2>2. QED
    BY <1>1, <2>1, HungReads DEF Hung, Links
<1>3. m = [n EXCEPT !.key = [i \in Slots |-> IF i \in pos .. len - 2 THEN n.key[i + 1]
                                             ELSE IF i = len - 1 THEN 0 ELSE n.key[i]]]
  BY <1>1, <1>2 DEF LeafLeftShift
<1>4. n = [key |-> n.key, child |-> n.child] /\ n.child = [i \in Links |-> n.child[i]]
  BY DEF Node
<1>5. m = [key |-> [i \in Slots |-> IF i \in pos .. len - 2 THEN n.key[i + 1]
                                    ELSE IF i = len - 1 THEN 0 ELSE n.key[i]],
           child |-> n.child]
  BY <1>3, <1>4
<1>6. ASSUME NEW i \in Slots PROVE m.key[i] = t.key[i]
  <2>1. m.key[i] = IF i \in pos .. len - 2 THEN n.key[i + 1] ELSE IF i = len - 1 THEN 0 ELSE n.key[i]
    BY <1>5
  <2>2. t.key[i] = IF i < pos THEN n.key[i] ELSE IF i < len - 1 THEN n.key[i + 1] ELSE 0
    BY DEF RemoveAt
  <2>3. i \in Nat /\ (len <= i => n.key[i] = 0)
    BY <1>1 DEF Packed, Slots
  <2> HIDE DEF m, t
  <2>4. CASE i < pos
    BY <1>1, <2>1, <2>2, <2>3, <2>4
  <2>5. CASE pos <= i /\ i < len - 1
    BY <1>1, <2>1, <2>2, <2>3, <2>5
  <2>6. CASE len - 1 <= i
    BY <1>1, <2>1, <2>2, <2>3, <2>6
  <2>7. QED
    BY <1>1, <2>3, <2>4, <2>5, <2>6
<1>7. ASSUME NEW i \in Links PROVE m.child[i] = t.child[i]
  <2>1. m.child[i] = NULL
    BY <1>2, <1>5
  <2>2. t.child[i] = NULL
    <3>1. (i < pos => n.child[i] = NULL) /\ (i < len => i + 1 \in Links)
      BY <1>1, <1>2 DEF Links
    <3>2. i < len => n.child[i + 1] = NULL
      BY <1>2, <3>1
    <3>3. QED
      BY <3>1, <3>2 DEF RemoveAt
  <2>3. QED
    BY <2>1, <2>2
<1>8. m = [key |-> [i \in Slots |-> m.key[i]], child |-> [i \in Links |-> m.child[i]]]
  BY <1>4, <1>5
<1>9. t = [key |-> [i \in Slots |-> t.key[i]], child |-> [i \in Links |-> t.child[i]]]
  BY DEF RemoveAt
<1> HIDE DEF m, t
<1>10. m = t
  BY <1>6, <1>7, <1>8, <1>9, SameNode
<1>11. QED
  BY <1>10 DEF m, t

-----------------------------------------------------------------------------
(* Merging two neighbours *)

\* What two neighbours and the key between them become.
LEMMA MergedChildIs ==
  ASSUME NEW l, NEW ll, Packed(l, ll), NEW r, NEW rl, Packed(r, rl), ll + rl + 1 < M,
         NEW C, Hung(l, ll, C), Hung(r, rl, C), Uniform(C), NEW k \in Nat \ {0},
         \A i \in Slots : (i < ll => l.key[i] < k) /\ (i < rl => k < r.key[i])
  PROVE  LET c == MergedChild(l, k, r)
         IN  /\ Packed(c, ll + rl + 1) /\ Hung(c, ll + rl + 1, C)
             /\ \A i \in Slots : i < ll => c.key[i] = l.key[i]
             /\ ll \in Slots /\ c.key[ll] = k
             /\ \A i \in Slots : i < rl => i + ll + 1 \in Slots /\ c.key[i + ll + 1] = r.key[i]
             /\ \A i \in Links : i <= ll => c.child[i] = l.child[i]
             /\ \A i \in Links : i <= rl => i + ll + 1 \in Links /\ c.child[i + ll + 1] = r.child[i]
<1> DEFINE c == MergedChild(l, k, r)
<1>1. M \in Nat /\ ll \in 0 .. M /\ rl \in 0 .. M /\ ll + rl + 1 < M
  BY MAssumption DEF Packed
<1>2. KeyLen(l) = ll /\ KeyLen(r) = rl
  BY PackedReads
<1>3. \A i \in Links : Child(r, i) = r.child[i]
  BY <1>1, HungReads
<1>4. c = [key |-> [i \in Slots |-> IF i = ll THEN k
                                    ELSE IF i \in ll + 1 .. ll + rl THEN r.key[i - ll - 1]
                                    ELSE l.key[i]],
           child |-> [i \in Links |-> IF i \in ll + 1 .. ll + rl + 1 THEN Child(r, i - ll - 1)
                                      ELSE l.child[i]]]
  BY <1>2 DEF MergedChild
<1>5. \A i \in Slots : c.key[i] = IF i = ll THEN k
                                  ELSE IF i \in ll + 1 .. ll + rl THEN r.key[i - ll - 1]
                                  ELSE l.key[i]
  BY <1>4
<1>6. \A i \in Links : c.child[i] = IF i \in ll + 1 .. ll + rl + 1 THEN Child(r, i - ll - 1)
                                    ELSE l.child[i]
  BY <1>4
<1>7. c.key = [i \in Slots |-> c.key[i]]
  BY <1>4
<1> HIDE DEF c
<1>8. /\ \A i \in Slots : l.key[i] \in Nat /\ r.key[i] \in Nat
      /\ \A i \in Slots : (i < ll => l.key[i] # 0) /\ (ll <= i => l.key[i] = 0)
      /\ \A i \in Slots : i < rl => r.key[i] # 0
  BY DEF Packed
<1>9. /\ \A i, j \in Slots : (i < j /\ j < ll) => l.key[i] < l.key[j]
      /\ \A i, j \in Slots : (i < j /\ j < rl) => r.key[i] < r.key[j]
  BY DEF Packed
<1>10. \A i \in Slots : i < ll => c.key[i] = l.key[i]
  <2>1. \A i \in Slots : i < ll => i # ll /\ i \notin ll + 1 .. ll + rl
    BY <1>1 DEF Slots
  <2>2. QED
    BY <1>5, <2>1
<1>11. ll \in Slots /\ c.key[ll] = k
  <2>1. ll \in Slots
    BY <1>1 DEF Slots
  <2>2. QED
    BY <1>5, <2>1
<1>12. \A i \in Slots : i < rl => i + ll + 1 \in Slots /\ c.key[i + ll + 1] = r.key[i]
  <2>1. \A i \in Slots : i < rl => /\ i + ll + 1 \in Slots /\ i + ll + 1 # ll
                                   /\ i + ll + 1 \in ll + 1 .. ll + rl /\ (i + ll + 1) - ll - 1 = i
    BY <1>1 DEF Slots
  <2>2. QED
    BY <1>5, <2>1
<1>13. \A i \in Links : i <= ll => c.child[i] = l.child[i]
  <2>1. \A i \in Links : i <= ll => i \notin ll + 1 .. ll + rl + 1
    BY <1>1 DEF Links
  <2>2. QED
    BY <1>6, <2>1
<1>14. \A i \in Links : i <= rl => i + ll + 1 \in Links /\ c.child[i + ll + 1] = r.child[i]
  <2>1. \A i \in Links : i <= rl => /\ i + ll + 1 \in Links
                                    /\ i + ll + 1 \in ll + 1 .. ll + rl + 1 /\ (i + ll + 1) - ll - 1 = i
    BY <1>1 DEF Links
  <2>2. QED
    BY <1>3, <1>6, <2>1
<1>15. \A i \in Slots : \/ i < ll
                        \/ i = ll
                        \/ ll < i /\ i <= ll + rl /\ i - ll - 1 \in Slots /\ i - ll - 1 < rl
                           /\ c.key[i] = r.key[i - ll - 1]
                        \/ ll + rl < i /\ c.key[i] = 0
  <2>1. ASSUME NEW i \in Slots, ll < i, i <= ll + rl
        PROVE  i - ll - 1 \in Slots /\ i - ll - 1 < rl /\ i # ll /\ i \in ll + 1 .. ll + rl
    BY <1>1, <2>1 DEF Slots
  <2>2. ASSUME NEW i \in Slots, ll + rl < i
        PROVE  i # ll /\ i \notin ll + 1 .. ll + rl /\ ll <= i
    BY <1>1, <2>2 DEF Slots
  <2>3. \A i \in Slots : ll + rl < i => c.key[i] = 0
    BY <1>5, <1>8, <2>2
  <2>4. \A i \in Slots : (ll < i /\ i <= ll + rl) => c.key[i] = r.key[i - ll - 1]
    BY <1>5, <2>1
  <2>5. \A i \in Slots : i \in Nat
    BY <1>1 DEF Slots
  <2>6. QED
    BY <1>1, <2>1, <2>3, <2>4, <2>5
<1>16. \A i \in Slots : c.key[i] \in Nat
  BY <1>8, <1>10, <1>11, <1>15
<1>17. \A i \in Slots : (i < ll + rl + 1 => c.key[i] # 0) /\ (ll + rl + 1 <= i => c.key[i] = 0)
  <2>1. ASSUME NEW i \in Slots, i < ll + rl + 1 PROVE c.key[i] # 0
    <3>1. i \in Nat /\ i <= ll + rl
      BY <1>1, <2>1 DEF Slots
    <3>2. QED
      BY <1>1, <1>8, <1>10, <1>11, <1>15, <3>1
  <2>2. ASSUME NEW i \in Slots, ll + rl + 1 <= i PROVE c.key[i] = 0
    <3>1. i \in Nat /\ ~(i < ll) /\ i # ll /\ ~(i <= ll + rl)
      BY <1>1, <2>2 DEF Slots
    <3>2. QED
      BY <1>15, <3>1
  <2>3. QED
    BY <2>1, <2>2
<1>18. ASSUME NEW i \in Slots, NEW j \in Slots, i < j, j < ll + rl + 1 PROVE c.key[i] < c.key[j]
  <2>1. i \in Nat /\ j \in Nat /\ j <= ll + rl /\ l.key[i] \in Nat
    BY <1>1, <1>8, <1>18 DEF Slots
  <2>2. CASE j < ll
    <3>1. i < ll
      BY <1>1, <1>18, <2>1, <2>2
    <3>2. QED
      BY <1>9, <1>10, <1>18, <2>2, <3>1
  <2>3. CASE j = ll
    <3>1. i < ll
      BY <1>1, <1>18, <2>1, <2>3
    <3>2. c.key[j] = k /\ c.key[i] = l.key[i]
      BY <1>10, <1>11, <2>3, <3>1
    <3>3. QED
      BY <3>1, <3>2
  <2>4. CASE ll < j
    <3> DEFINE jj == j - ll - 1
    <3>1. jj \in Slots /\ jj < rl /\ c.key[j] = r.key[jj]
      BY <1>1, <1>15, <2>1, <2>4
    <3>2. k < r.key[jj] /\ r.key[jj] \in Nat
      BY <1>8, <3>1
    <3>3. CASE i < ll
      <4>1. l.key[i] < k /\ c.key[i] = l.key[i]
        BY <1>10, <3>3
      <4> HIDE DEF jj
      <4>2. QED
        BY <2>1, <3>1, <3>2, <4>1
    <3>4. CASE i = ll
      BY <1>11, <3>1, <3>2, <3>4
    <3>5. CASE ll < i
      <4> DEFINE ii == i - ll - 1
      <4>1. i <= ll + rl /\ ii < jj
        BY <1>1, <1>18, <2>1
      <4>2. ii \in Slots /\ c.key[i] = r.key[ii]
        BY <1>1, <1>15, <2>1, <3>5, <4>1
      <4> HIDE DEF ii, jj
      <4>3. QED
        BY <1>9, <3>1, <4>1, <4>2
    <3>6. QED
      BY <1>1, <2>1, <3>3, <3>4, <3>5
  <2>5. QED
    BY <1>1, <2>1, <2>2, <2>3, <2>4
<1>19. c.key \in [Slots -> Nat]
  <2>1. [i \in Slots |-> c.key[i]] \in [Slots -> Nat]
    BY <1>16
  <2>2. QED
    BY <1>7, <2>1
<1>20. Packed(c, ll + rl + 1)
  <2>1. ll + rl + 1 \in 0 .. M
    BY <1>1
  <2>2. QED
    BY <1>17, <1>18, <1>19, <2>1 DEF Packed
<1>21. Hung(c, ll + rl + 1, C)
  <2>1. \A i \in Links : (i <= ll => l.child[i] \in C) /\ (ll < i => l.child[i] = NULL)
    BY DEF Hung
  <2>2. \A i \in Links : i <= rl => r.child[i] \in C
    BY DEF Hung
  <2>3. ASSUME NEW i \in Links, i <= ll + rl + 1 PROVE c.child[i] \in C
    <3>1. CASE i <= ll
      BY <1>13, <2>1, <3>1
    <3>2. CASE ll < i
      <4> DEFINE ii == i - ll - 1
      <4>1. ii \in Links /\ ii <= rl /\ i \in ll + 1 .. ll + rl + 1
        BY <1>1, <2>3, <3>2 DEF Links
      <4>2. c.child[i] = r.child[ii]
        BY <1>3, <1>6, <4>1
      <4>3. QED
        BY <2>2, <4>1, <4>2
    <3>3. QED
      BY <1>1, <3>1, <3>2 DEF Links
  <2>4. ASSUME NEW i \in Links, ll + rl + 1 < i PROVE c.child[i] = NULL
    <3>1. i \notin ll + 1 .. ll + rl + 1 /\ ll < i
      BY <1>1, <2>4 DEF Links
    <3>2. QED
      BY <1>6, <2>1, <3>1
  <2>5. QED
    BY <2>3, <2>4 DEF Hung
<1>22. QED
  BY <1>10, <1>11, <1>12, <1>13, <1>14, <1>20, <1>21 DEF c

\* Merging takes a key out of the node and puts one child in the place of two.
LEMMA MergeIs ==
  ASSUME NEW S, NEW n \in Node(S), NEW len, Packed(n, len), NEW C, Hung(n, len, C), NULL \notin C,
         NEW pos \in 0 .. len - 1, Fits(Child(n, pos), Child(n, pos + 1))
  PROVE  /\ CanRearrange(n, pos)
         /\ Merge(n, pos) =
              RemoveAt(n, len, pos, MergedChild(n.child[pos], n.key[pos], n.child[pos + 1]))
<1> DEFINE c == MergedChild(n.child[pos], n.key[pos], n.child[pos + 1])
           m == Merge(n, pos)
           t == RemoveAt(n, len, pos, c)
<1>1. M \in Nat /\ len \in 1 .. M
  <2>1. M \in Nat /\ len \in 0 .. M
    BY MAssumption DEF Packed
  <2>2. QED
    BY <2>1
<1>2. KeyLen(n) = len
  BY PackedReads
<1>3. ~IsLeaf(n) /\ \A i \in Links : Child(n, i) = n.child[i]
  <2>1. Uniform(C) /\ len \in 0 .. M /\ C # {NULL}
    BY <1>1 DEF Uniform
  <2>2. QED
    BY <2>1, HungReads
<1>4. pos \in Links /\ pos + 1 \in Links
  BY <1>1 DEF Links
<1>5. CanRearrange(n, pos)
  BY <1>2, <1>3 DEF CanRearrange
<1>6. m = [key   |-> [i \in Slots |-> IF i \in pos .. len - 2 THEN n.key[i + 1]
                                      ELSE IF i = len - 1 THEN 0
                                      ELSE n.key[i]],
           child |-> [i \in Links |-> IF i = pos THEN c
                                      ELSE IF i \in pos + 1 .. len - 1 THEN Child(n, i + 1)
                                      ELSE IF i = len THEN NULL
                                      ELSE n.child[i]]]
  BY <1>2, <1>3, <1>4, <1>5 DEF Merge
<1>7. ASSUME NEW i \in Slots PROVE m.key[i] = t.key[i]
  <2>1. m.key[i] = IF i \in pos .. len - 2 THEN n.key[i + 1]
                   ELSE IF i = len - 1 THEN 0 ELSE n.key[i]
    BY <1>6
  <2>2. t.key[i] = IF i < pos THEN n.key[i] ELSE IF i < len - 1 THEN n.key[i + 1] ELSE 0
    BY DEF RemoveAt
  <2>3. i \in Nat /\ (len <= i => n.key[i] = 0)
    BY <1>1 DEF Packed, Slots
  <2> HIDE DEF m, t
  <2>4. CASE i < pos
    BY <1>1, <2>1, <2>2, <2>3, <2>4
  <2>5. CASE pos <= i /\ i < len - 1
    BY <1>1, <2>1, <2>2, <2>3, <2>5
  <2>6. CASE len - 1 <= i
    BY <1>1, <2>1, <2>2, <2>3, <2>6
  <2>7. QED
    BY <1>1, <2>3, <2>4, <2>5, <2>6
<1>8. ASSUME NEW i \in Links PROVE m.child[i] = t.child[i]
  <2>1. m.child[i] = IF i = pos THEN c
                     ELSE IF i \in pos + 1 .. len - 1 THEN Child(n, i + 1)
                     ELSE IF i = len THEN NULL ELSE n.child[i]
    BY <1>6
  <2>2. t.child[i] = IF i < pos THEN n.child[i]
                     ELSE IF i = pos THEN c ELSE IF i < len THEN n.child[i + 1] ELSE NULL
    BY DEF RemoveAt
  <2>3. i \in Nat /\ (len < i => n.child[i] = NULL)
    BY <1>1 DEF Hung, Links
  <2> HIDE DEF m, t, c
  <2>4. CASE i < pos
    BY <1>1, <2>1, <2>2, <2>3, <2>4
  <2>5. CASE i = pos
    BY <2>1, <2>2, <2>5, <1>1
  <2>6. CASE pos < i /\ i < len
    <3>1. Child(n, i + 1) = n.child[i + 1]
      BY <1>1, <1>3, <2>6 DEF Links
    <3>2. QED
      BY <1>1, <2>1, <2>2, <2>3, <2>6, <3>1
  <2>7. CASE pos < i /\ len <= i
    BY <1>1, <2>1, <2>2, <2>3, <2>7
  <2>8. QED
    BY <1>1, <2>3, <2>4, <2>5, <2>6, <2>7
<1>9. m = [key |-> [i \in Slots |-> m.key[i]], child |-> [i \in Links |-> m.child[i]]]
  BY <1>6
<1>10. t = [key |-> [i \in Slots |-> t.key[i]], child |-> [i \in Links |-> t.child[i]]]
  BY DEF RemoveAt
<1> HIDE DEF m, t
<1>11. m = t
  BY <1>7, <1>8, <1>9, <1>10, SameNode
<1>12. QED
  BY <1>5, <1>11 DEF m, t

-----------------------------------------------------------------------------
(* Types, for any tree *)

LEMMA LeafLeftShiftTyped ==
  ASSUME NEW S, NEW n \in Node(S), NEW index
  PROVE  LeafLeftShift(n, index) \in Node(S)
<1> DEFINE len == KeyLen(n)
           a == [i \in Slots |-> IF i \in index .. len - 2 THEN n.key[i + 1]
                                 ELSE IF i = len - 1 THEN 0
                                 ELSE n.key[i]]
<1>1. M \in Nat /\ len \in 0 .. M
  BY MAssumption, KeyLenIs DEF KeysEndAt
<1>2. \A i \in Slots : n.key[i] \in Nat
  BY DEF Node
<1>3. CASE index \in 0 .. len - 1
  <2> HIDE DEF len
  <2>1. \A i \in Slots : i \in index .. len - 2 => i + 1 \in Slots
    BY <1>1, <1>3 DEF Slots
  <2>2. a \in [Slots -> Nat]
    BY <1>2, <2>1
  <2> HIDE DEF a
  <2>3. [n EXCEPT !.key = a] \in Node(S)
    BY <2>2 DEF Node
  <2>4. LeafLeftShift(n, index) = n \/ LeafLeftShift(n, index) = [n EXCEPT !.key = a]
    BY DEF LeafLeftShift, a, len
  <2>5. QED
    BY <2>3, <2>4
<1>4. CASE index \notin 0 .. len - 1
  BY <1>4 DEF LeafLeftShift
<1>5. QED
  BY <1>3, <1>4

LEMMA MergedChildTyped ==
  ASSUME NEW S, NULL \in S, NEW l \in Node(S), NEW r \in Node(S), NEW k \in Nat
  PROVE  MergedChild(l, k, r) \in Node(S)
<1> DEFINE ll == KeyLen(l)
           rl == KeyLen(r)
           a == [i \in Slots |-> IF i = ll THEN k
                                 ELSE IF i \in ll + 1 .. ll + rl THEN r.key[i - ll - 1]
                                 ELSE l.key[i]]
           b == [i \in Links |-> IF i \in ll + 1 .. ll + rl + 1 THEN Child(r, i - ll - 1)
                                 ELSE l.child[i]]
<1>1. M \in Nat /\ ll \in 0 .. M /\ rl \in 0 .. M
  BY MAssumption, GettersTyped
<1>2. /\ \A i \in Slots : l.key[i] \in Nat /\ r.key[i] \in Nat
      /\ \A i \in Links : l.child[i] \in S
      /\ \A i : Child(r, i) \in S
  BY GettersTyped DEF Node
<1>3. MergedChild(l, k, r) = [key |-> a, child |-> b]
  BY DEF MergedChild
<1> HIDE DEF ll, rl
<1>4. \A i \in Slots : i \in ll + 1 .. ll + rl => i - ll - 1 \in Slots
  BY <1>1 DEF Slots
<1>5. a \in [Slots -> Nat] /\ b \in [Links -> S]
  BY <1>2, <1>4
<1> HIDE DEF a, b
<1>6. QED
  BY <1>3, <1>5 DEF Node

LEMMA MergeTyped ==
  ASSUME NEW T, NULL \in T, NEW S, NULL \in S, Node(T) \subseteq S, NEW n \in Node(S), NEW pos,
         Child(n, pos) \in Node(T), Child(n, pos + 1) \in Node(T)
  PROVE  Merge(n, pos) \in Node(S)
<1> DEFINE len == KeyLen(n)
           c == MergedChild(Child(n, pos), n.key[pos], Child(n, pos + 1))
           a == [i \in Slots |-> IF i \in pos .. len - 2 THEN n.key[i + 1]
                                 ELSE IF i = len - 1 THEN 0
                                 ELSE n.key[i]]
           b == [i \in Links |-> IF i = pos THEN c
                                 ELSE IF i \in pos + 1 .. len - 1 THEN Child(n, i + 1)
                                 ELSE IF i = len THEN NULL
                                 ELSE n.child[i]]
<1>1. M \in Nat /\ len \in 0 .. M /\ \A i : Child(n, i) \in S
  BY MAssumption, GettersTyped
<1>2. (\A i \in Slots : n.key[i] \in Nat) /\ (\A i \in Links : n.child[i] \in S)
  BY DEF Node
<1>3. CASE pos \in 0 .. len - 1
  <2> HIDE DEF len
  <2>1. pos \in Slots /\ \A i \in Slots : i \in pos .. len - 2 => i + 1 \in Slots
    BY <1>1, <1>3 DEF Slots
  <2>2. c \in S
    BY <1>2, <2>1, MergedChildTyped
  <2> HIDE DEF c
  <2>3. a \in [Slots -> Nat] /\ b \in [Links -> S]
    BY <1>1, <1>2, <2>1, <2>2
  <2> HIDE DEF a, b
  <2>4. [key |-> a, child |-> b] \in Node(S)
    BY <2>3 DEF Node
  <2>5. Merge(n, pos) = n \/ Merge(n, pos) = [key |-> a, child |-> b]
    BY DEF Merge, a, b, c, len
  <2>6. QED
    BY <2>4, <2>5
<1>4. CASE pos \notin 0 .. len - 1
  BY <1>4 DEF Merge, CanRearrange
<1>5. QED
  BY <1>3, <1>4

LEMMA LeftRotateTyped ==
  ASSUME NEW T, NULL \in T, NEW S, NULL \in S, Node(T) \subseteq S, NEW n \in Node(S), NEW pos,
         Child(n, pos) \in Node(T), Child(n, pos + 1) \in Node(T)
  PROVE  LeftRotate(n, pos) \in Node(S)
<1> DEFINE left == Child(n, pos)
           right == Child(n, pos + 1)
           ll == KeyLen(left)
           last_ == IF KeyLen(right) = 0 THEN 0 ELSE KeyLen(right) - 1
           newLeft == SetChild(SetKey(left, ll, n.key[pos]), ll + 1, Child(right, 0))
           a == [i \in Slots |-> IF i < last_ THEN right.key[i + 1]
                                 ELSE IF i = last_ THEN 0
                                 ELSE right.key[i]]
           b == [i \in Links |-> IF i <= last_ THEN Child(right, i + 1)
                                 ELSE IF i = last_ + 1 THEN NULL
                                 ELSE right.child[i]]
           newRight == [key |-> a, child |-> b]
           t == [key |-> [n.key EXCEPT ![pos] = Key(right, 0)],
                 child |-> [n.child EXCEPT ![pos] = newLeft, ![pos + 1] = newRight]]
<1>1. M \in Nat /\ KeyLen(n) \in 0 .. M /\ KeyLen(right) \in 0 .. M
  BY MAssumption, GettersTyped
<1>2. /\ \A i \in Slots : n.key[i] \in Nat /\ right.key[i] \in Nat
      /\ \A i \in Links : right.child[i] \in T
      /\ \A i : Child(right, i) \in T
      /\ Key(right, 0) \in Nat
  BY GettersTyped DEF Node
<1>3. CASE pos \in 0 .. KeyLen(n) - 1
  <2>1. last_ \in 0 .. M
    BY <1>1
  <2>2. LeftRotate(n, pos) = n \/ LeftRotate(n, pos) = t
    BY DEF LeftRotate
  <2>3. newLeft \in S
    <3>1. pos \in Slots
      BY <1>1, <1>3 DEF Slots
    <3>2. SetKey(left, ll, n.key[pos]) \in Node(T)
      BY <1>2, <3>1, SettersTyped
    <3>3. newLeft \in Node(T)
      BY <1>2, <3>2, SettersTyped
    <3>4. QED
      BY <3>3
  <2> HIDE DEF newLeft
  <2>4. newRight \in S
    <3>1. \A i \in Slots : i < last_ => i + 1 \in Slots
      <4>1. last_ <= M - 1
        BY <1>1, MAssumption
      <4> HIDE DEF last_
      <4>2. QED
        BY <1>1, <2>1, <4>1 DEF Slots
    <3> HIDE DEF last_
    <3>2. a \in [Slots -> Nat] /\ b \in [Links -> T]
      BY <1>2, <3>1
    <3> HIDE DEF a, b
    <3>3. newRight \in Node(T)
      BY <3>2 DEF Node
    <3>4. QED
      BY <3>3
  <2> HIDE DEF newRight
  <2>5. t \in Node(S)
    <3>1. [n.key EXCEPT ![pos] = Key(right, 0)] \in [Slots -> Nat]
      BY <1>2 DEF Node
    <3>2. [n.child EXCEPT ![pos] = newLeft, ![pos + 1] = newRight] \in [Links -> S]
      BY <2>3, <2>4 DEF Node
    <3>3. QED
      BY <3>1, <3>2 DEF Node
  <2> HIDE DEF t
  <2>6. QED
    BY <2>2, <2>5
<1>4. CASE pos \notin 0 .. KeyLen(n) - 1
  BY <1>4 DEF LeftRotate, CanRearrange
<1>5. QED
  BY <1>3, <1>4

LEMMA RightRotateTyped ==
  ASSUME NEW T, NULL \in T, NEW S, NULL \in S, Node(T) \subseteq S, NEW n \in Node(S), NEW pos,
         Child(n, pos) \in Node(T), Child(n, pos + 1) \in Node(T)
  PROVE  RightRotate(n, pos) \in Node(S)
<1> DEFINE left == Child(n, pos)
           right == Child(n, pos + 1)
           ll == KeyLen(left)
           rl == KeyLen(right)
           a == [i \in Slots |-> IF i = 0 THEN n.key[pos]
                                 ELSE IF i <= rl THEN right.key[i - 1]
                                 ELSE right.key[i]]
           b == [i \in Links |-> IF i = 0 THEN Child(left, ll)
                                 ELSE IF i <= rl + 1 THEN Child(right, i - 1)
                                 ELSE right.child[i]]
           newRight == [key |-> a, child |-> b]
           newLeft == SetChild(SetKey(left, ll - 1, 0), ll, NULL)
           t == [key |-> [n.key EXCEPT ![pos] = Key(left, ll - 1)],
                 child |-> [n.child EXCEPT ![pos] = newLeft, ![pos + 1] = newRight]]
<1>1. M \in Nat /\ KeyLen(n) \in 0 .. M /\ rl \in 0 .. M
  BY MAssumption, GettersTyped
<1>2. /\ \A i \in Slots : n.key[i] \in Nat /\ right.key[i] \in Nat
      /\ \A i \in Links : right.child[i] \in T
      /\ \A i : Child(right, i) \in T /\ Child(left, i) \in T
      /\ \A i : Key(left, i) \in Nat
  BY GettersTyped DEF Node
<1>3. CASE pos \in 0 .. KeyLen(n) - 1
  <2>1. RightRotate(n, pos) = n \/ RightRotate(n, pos) = t
    BY DEF RightRotate
  <2>2. pos \in Slots
    BY <1>1, <1>3 DEF Slots
  <2>3. newLeft \in S
    <3>1. SetKey(left, ll - 1, 0) \in Node(T)
      BY SettersTyped
    <3>2. newLeft \in Node(T)
      BY <3>1, SettersTyped
    <3>3. QED
      BY <3>2
  <2> HIDE DEF newLeft
  <2>4. newRight \in S
    <3> HIDE DEF rl, ll, left, right
    <3>1. \A i \in Slots : i # 0 => i - 1 \in Slots
      BY <1>1 DEF Slots
    <3>2. a \in [Slots -> Nat] /\ b \in [Links -> T]
      BY <1>2, <2>2, <3>1
    <3> HIDE DEF a, b
    <3>3. newRight \in Node(T)
      BY <3>2 DEF Node
    <3>4. QED
      BY <3>3
  <2> HIDE DEF newRight
  <2>5. t \in Node(S)
    <3>1. [n.key EXCEPT ![pos] = Key(left, ll - 1)] \in [Slots -> Nat]
      BY <1>2 DEF Node
    <3>2. [n.child EXCEPT ![pos] = newLeft, ![pos + 1] = newRight] \in [Links -> S]
      BY <2>3, <2>4 DEF Node
    <3>3. QED
      BY <3>1, <3>2 DEF Node
  <2> HIDE DEF t
  <2>6. QED
    BY <2>1, <2>5
<1>4. CASE pos \notin 0 .. KeyLen(n) - 1
  BY <1>4 DEF RightRotate, CanRearrange
<1>5. QED
  BY <1>3, <1>4

-----------------------------------------------------------------------------
(* The biggest key *)

Biggest(m, f) ==
    IF m = NULL THEN NULL
    ELSE IF IsLeaf(m) THEN Key(m, KeyLen(m) - 1) ELSE f[Child(m, KeyLen(m))]

\* The walk of find_biggest_in_subtree down the last children.
LEMMA FindBiggestIs ==
  /\ FindBiggest(NULL) = NULL
  /\ \A n \in Trees : FindBiggest(n) \in Nat \cup {NULL}
  /\ \A n \in Trees : n # NULL =>
       FindBiggest(n) = IF IsLeaf(n) THEN Key(n, KeyLen(n) - 1)
                        ELSE FindBiggest(Child(n, KeyLen(n)))
<1> DEFINE R == Nat \cup {NULL}
           F(f) == [m \in Trees |-> Biggest(m, f)]
           step == [p \in Trees \X [Trees -> R] |-> Biggest(p[1], p[2])]
           find == CHOOSE f : f = F(f)
<1>1. \A n \in Trees : FindBiggest(n) = find[n]
  BY Zenon DEF FindBiggest, Biggest
<1>2. ASSUME NEW n \in Trees, NEW f \in [Trees -> R] PROVE Biggest(n, f) \in R
  <2>1. CASE n = NULL
    BY <2>1 DEF Biggest
  <2>2. CASE n # NULL
    <3>1. Child(n, KeyLen(n)) \in Trees /\ n \in Node(Trees)
      BY <2>2, ChildBelow
    <3>2. Key(n, KeyLen(n) - 1) \in Nat
      BY <3>1, TreeFacts, BoundsAssumption, GettersTyped DEF Trees
    <3>3. QED
      BY <2>2, <3>1, <3>2 DEF Biggest
  <2>3. QED
    BY <2>1, <2>2
<1>3. step \in [Trees \X [Trees -> R] -> R]
  <2>1. \A p \in Trees \X [Trees -> R] : p[1] \in Trees /\ p[2] \in [Trees -> R]
    OBVIOUS
  <2> HIDE DEF R
  <2>2. QED
    BY <1>2, <2>1
<1>4. ASSUME NEW n \in Trees, NEW f \in [Trees -> R], NEW g \in [Trees -> R],
             \A c \in Below(n) : f[c] = g[c]
      PROVE  step[<<n, f>>] = step[<<n, g>>]
  <2>1. Biggest(n, f) = Biggest(n, g)
    BY <1>4, ChildBelow DEF Biggest
  <2>2. QED
    BY <2>1
<1>5. PICK f : TreeSolves(f, R, step)
  <2>1. NULL \in R
    OBVIOUS
  <2> HIDE DEF step, R
  <2>2. QED
    BY <1>3, <1>4, <2>1, TreeRecursion
<1>6. f = F(f) /\ \A n \in Trees : f[n] \in R
  <2>1. f \in [Trees -> R] /\ \A n \in Trees : f[n] = Biggest(n, f)
    BY <1>5 DEF TreeSolves
  <2>2. QED
    BY <2>1
<1>7. find = F(find)
  <2> HIDE DEF F
  <2>1. QED
    BY <1>6
<1>8. \A n \in Trees : find[n] = Biggest(n, find)
  <2> HIDE DEF find
  <2>1. QED
    BY <1>7
<1>9. NULL \in Trees
  BY TreeFacts, BoundsAssumption
<1> HIDE DEF find
<1>10. FindBiggest(NULL) = NULL
  BY <1>1, <1>8, <1>9 DEF Biggest
<1>11. ASSUME NEW n \in Trees, n # NULL
       PROVE  FindBiggest(n) = IF IsLeaf(n) THEN Key(n, KeyLen(n) - 1)
                               ELSE FindBiggest(Child(n, KeyLen(n)))
  <2>1. Child(n, KeyLen(n)) \in Trees
    BY <1>11, ChildBelow
  <2>2. QED
    BY <1>1, <1>8, <1>11, <2>1 DEF Biggest
<1>12. \A n \in Trees : FindBiggest(n) \in R
  <2> DEFINE S == {n \in Trees : FindBiggest(n) \in R}
  <2>1. NULL \in S
    BY <1>9, <1>10
  <2>2. ASSUME NEW n \in Trees, n # NULL, n \in Node(Trees), Below(n) \subseteq S PROVE n \in S
    <3>1. Child(n, KeyLen(n)) \in S
      BY <2>2, ChildBelow
    <3>2. Key(n, KeyLen(n) - 1) \in Nat
      BY <1>9, <2>2, GettersTyped
    <3>3. QED
      BY <1>11, <2>2, <3>1, <3>2
  <2>3. Trees \subseteq S
    <3> HIDE DEF S
    <3>1. QED
      BY <2>1, <2>2, TreeInduction
  <2>4. QED
    BY <2>3
<1>13. QED
  BY <1>10, <1>11, <1>12

\* b is a key of n and none is bigger.
IsBiggest(b, n) == b \in Nat \ {0} /\ b \in KeysOf(n) /\ \A x \in KeysOf(n) : x <= b

\* In a search tree the walk ends at the biggest key.
LEMMA BiggestSound ==
  ASSUME NEW hi
  PROVE  \A h \in Nat : \A n \in Sound(hi)[h + 1] : 1 <= KeyLen(n) => IsBiggest(FindBiggest(n), n)
<1> DEFINE T == {h \in Nat : \A n \in Sound(hi)[h + 1] : 1 <= KeyLen(n) => IsBiggest(FindBiggest(n), n)}
<1>1. ASSUME NEW h \in Nat, NEW n \in Sound(hi)[h + 1], 1 <= KeyLen(n),
             h # 0 => h - 1 \in T
      PROVE  IsBiggest(FindBiggest(n), n)
  <2> DEFINE len == KeyLen(n)
             C == Kids(Sound(hi)[h], hi)
  <2>1. n \in Trees /\ n # NULL /\ WellMade(n, len, C) /\ Packed(n, len) /\ Hung(n, len, C)
    BY SoundNode DEF WellMade
  <2>2. M \in Nat /\ len \in 1 .. M
    <3>1. M \in Nat /\ len \in 0 .. M
      BY <2>1, MAssumption DEF Packed
    <3>2. QED
      BY <1>1, <3>1
  <2>3. Uniform(C) /\ (C = {NULL} <=> h = 0)
    BY KidsUniform
  <2>4. \A c \in C : c # NULL => c \in Sound(hi)[h] /\ 1 <= KeyLen(c)
    <3>1. \A c \in C : c # NULL => KeyLen(c) \in Half .. hi
      BY DEF Kids
    <3>2. \A i \in Half .. hi : 1 <= i
      BY Halves
    <3>3. QED
      BY <3>1, <3>2, KidsUniform
  <2> HIDE DEF len, C
  <2>5. len \in 0 .. M /\ (IsLeaf(n) <=> h = 0) /\ \A i \in Links : Child(n, i) = n.child[i]
    <3>1. len \in 0 .. M
      BY <2>2
    <3>2. QED
      BY <2>1, <2>3, <3>1, HungReads
  <2>6. \A x : x \in KeysOf(n) <=> \/ \E i \in Slots : i < len /\ x = n.key[i]
                                   \/ \E i \in Links : i <= len /\ x \in KeysOf(n.child[i])
    BY <2>1, <2>3, KeysOfNode
  <2>7. len - 1 \in Slots /\ len - 1 < len /\ len \in Links /\ len <= len
    BY <2>2 DEF Slots, Links
  <2>8. /\ \A i \in Slots : i < len => n.key[i] \in Nat /\ n.key[i] # 0 /\ n.key[i] <= n.key[len - 1]
    <3>1. \A i \in Slots : n.key[i] \in Nat /\ (i < len => n.key[i] # 0)
      BY <2>1 DEF Packed
    <3>2. \A i \in Slots : i < len => i < len - 1 \/ i = len - 1
      BY <2>2 DEF Slots
    <3>3. \A i \in Slots : i < len - 1 => n.key[i] < n.key[len - 1]
      BY <2>1, <2>7 DEF Packed
    <3>4. QED
      BY <2>7, <3>1, <3>2, <3>3
  <2>9. CASE h = 0
    <3>1. FindBiggest(n) = Key(n, len - 1)
      BY <2>1, <2>5, <2>9, FindBiggestIs DEF len
    <3>2. Key(n, len - 1) = n.key[len - 1]
      BY <2>1, <2>7, PackedReads
    <3>3. \A i \in Links : i <= len => KeysOf(n.child[i]) = {}
      <4>1. C = {NULL}
        BY <2>3, <2>9
      <4>2. QED
        BY <2>1, <4>1, KeysOfIs DEF Hung
    <3>4. QED
      BY <2>6, <2>7, <2>8, <3>1, <3>2, <3>3 DEF IsBiggest
  <2>10. CASE h # 0
    <3> DEFINE c == n.child[len]
               b == FindBiggest(c)
    <3>1. FindBiggest(n) = b
      BY <2>1, <2>5, <2>7, <2>10, FindBiggestIs DEF len
    <3>2. c \in C /\ c # NULL
      BY <2>1, <2>3, <2>7, <2>10 DEF Hung, Uniform
    <3>3. IsBiggest(b, c)
      <4>1. h - 1 \in T /\ h - 1 \in Nat /\ (h - 1) + 1 = h
        BY <1>1, <2>10
      <4>2. c \in Sound(hi)[h] /\ 1 <= KeyLen(c)
        BY <2>4, <3>2
      <4> HIDE DEF c, b
      <4>3. QED
        BY <4>1, <4>2 DEF b
    <3>4. b \in Nat \ {0} /\ b \in KeysOf(c) /\ \A x \in KeysOf(c) : x <= b
      BY <3>3 DEF IsBiggest
    <3>5. n.key[len - 1] < b
      <4>1. Between(n, len, len, b)
        BY <2>1, <2>7, <3>4 DEF WellMade, Separated
      <4>2. QED
        BY <2>2, <4>1 DEF Between
    <3>6. \A i \in Slots : i < len => n.key[i] <= b
      <4>1. b \in Nat /\ n.key[len - 1] \in Nat
        BY <2>7, <2>8, <3>4
      <4> HIDE DEF b
      <4>2. QED
        BY <2>8, <3>5, <4>1
    <3>7. ASSUME NEW i \in Links, i <= len, NEW x \in KeysOf(n.child[i]) PROVE x <= b
      <4>1. CASE i = len
        BY <3>4, <3>7, <4>1
      <4>2. CASE i # len
        <5>1. i < len /\ i \in Slots
          BY <2>2, <3>7, <4>2 DEF Links, Slots
        <5>2. x < n.key[i]
          BY <2>1, <3>7, <5>1 DEF WellMade, Separated, Between
        <5>3. n.child[i] \in Trees
          <6>1. n.child[i] \in C
            BY <2>1, <3>7 DEF Hung
          <6>2. QED
            BY <6>1, KidsUniform DEF C
        <5>4. x \in Nat
          BY <3>7, <5>3, KeysOfIs
        <5>5. n.key[i] <= b /\ n.key[i] \in Nat /\ b \in Nat
          BY <2>8, <3>4, <3>6, <5>1
        <5> HIDE DEF b
        <5>6. QED
          BY <5>2, <5>4, <5>5
      <4>3. QED
        BY <4>1, <4>2
    <3>8. b \in KeysOf(n)
      BY <2>6, <2>7, <3>4
    <3>9. \A x \in KeysOf(n) : x <= b
      BY <2>6, <3>6, <3>7
    <3>10. QED
      BY <3>1, <3>4, <3>8, <3>9 DEF IsBiggest
  <2>11. QED
    BY <2>9, <2>10
<1>2. 0 \in T
  BY <1>1
<1>3. ASSUME NEW h \in Nat, h \in T PROVE h + 1 \in T
  <2>1. h + 1 \in Nat /\ h + 1 # 0 /\ (h + 1) - 1 = h
    OBVIOUS
  <2> HIDE DEF T
  <2>2. \A n \in Sound(hi)[(h + 1) + 1] : 1 <= KeyLen(n) => IsBiggest(FindBiggest(n), n)
    BY <1>1, <1>3, <2>1
  <2>3. QED
    BY <2>1, <2>2 DEF T
<1>4. \A h \in Nat : h \in T
  <2> HIDE DEF T
  <2>1. QED
    BY <1>2, <1>3, Induction
<1>5. QED
  BY <1>4

-----------------------------------------------------------------------------
(* The recursion of the remove *)

\* The answers about trees of T.
Lefts(T) ==
    [node : T, rtval : {"enough", "short", "failed", "oops"}, freed : Nat, rotates : BOOLEAN]

\* The answer for m when f gives those for its children.
From(m, j, f) ==
    LET pos == FindPos(m, j)
        found == Key(m, pos) = j
        below == Child(m, pos)
        biggest == FindBiggest(below)
    IN
    IF m = NULL \/ j = 0 THEN Left(m, "failed")
    ELSE IF IsLeaf(m)
    THEN IF found THEN Settle(Left(LeafLeftShift(m, pos), "enough")) ELSE Left(m, "failed")
    ELSE IF found /\ biggest = NULL THEN Left(m, "failed")
    ELSE IF found THEN RemoveAbove(m, SetKey(m, pos, biggest), pos, f[below][biggest])
    ELSE RemoveAbove(m, m, pos, f[below][j])

\* f is the recursive remove.
Removes(f) ==
    /\ \A n \in Trees : \A k \in Nat : RemoveFrom(n, k) = f[n][k]
    /\ \A h \in 0 .. MaxHeight : \A m \in Tree[h] : \A j \in Nat :
         /\ f[m][j] \in Lefts(Tree[h])
         /\ m # NULL => f[m][j].node # NULL
         /\ f[m][j] = From(m, j, f)

LEMMA SettleTyped ==
  ASSUME NEW S, NEW a \in Lefts(S)
  PROVE  Settle(a) \in Lefts(S)
  BY DEF Settle, Lefts

LEMMA LeftTyped ==
  ASSUME NEW S, NEW n \in S, NEW rtval \in {"enough", "short", "failed", "oops"}
  PROVE  Left(n, rtval) \in Lefts(S)
  BY DEF Left, Lefts

LEMMA RearrangeTyped ==
  ASSUME NEW T, NULL \in T, NEW S, S = Higher(T), NEW n \in Node(S), NEW pos \in Nat,
         NEW sub \in Lefts(S)
  PROVE  Rearrange(n, pos, sub) \in Lefts(Node(S))
<1> DEFINE here == Child(n, pos)
           before == Child(n, pos - 1)
           after == Child(n, pos + 1)
           needed == IF pos = KeyLen(n) THEN {before, here}
                     ELSE IF pos = 0 THEN {here, after} ELSE {before, here, after}
<1>1. NULL \in S /\ Node(T) \subseteq S /\ \A c \in S : c = NULL \/ c \in Node(T)
  BY DEF Higher
<1>2. here \in S /\ before \in S /\ after \in S
  BY <1>1, GettersTyped
<1>3. KeyLen(n) \in Nat /\ pos \in Nat
  BY <1>1, GettersTyped, MAssumption
<1>4. Left(n, "oops") \in Lefts(Node(S))
  BY LeftTyped
<1>5. \A i : Child(n, i) \in Node(T) /\ Child(n, i + 1) \in Node(T)
               => MergeAt(n, i, sub) \in Lefts(Node(S))
  <2>1. SUFFICES ASSUME NEW i, Child(n, i) \in Node(T), Child(n, i + 1) \in Node(T)
                 PROVE  MergeAt(n, i, sub) \in Lefts(Node(S))
    OBVIOUS
  <2>2. PICK m : m = Merge(n, i)
    OBVIOUS
  <2>3. m \in Node(S)
    BY <1>1, <2>1, <2>2, MergeTyped
  <2>4. PICK d \in {0, 1} : d = IF CanRearrange(n, i) THEN 1 ELSE 0
    OBVIOUS
  <2>5. MergeAt(n, i, sub) = [sub EXCEPT !.node = m, !.freed = sub.freed + d]
    BY <2>2, <2>4 DEF MergeAt, Lefts
  <2>6. sub.freed + d \in Nat
    BY DEF Lefts
  <2>7. QED
    BY <2>3, <2>5, <2>6 DEF Lefts
<1>6. \A m \in Node(S) : RotateTo(m, sub) \in Lefts(Node(S))
  BY DEF RotateTo, Lefts
<1>7. Rearrange(n, pos, sub) =
        IF NULL \in needed THEN Left(n, "oops")
        ELSE IF pos > 0 /\ Fits(before, here) THEN MergeAt(n, pos - 1, sub)
        ELSE IF pos = KeyLen(n) THEN RotateTo(LeftRotate(n, pos - 1), sub)
        ELSE IF Fits(here, after) THEN MergeAt(n, pos, sub)
        ELSE RotateTo(RightRotate(n, pos), sub)
  BY DEF Rearrange
<1>8. CASE NULL \in needed
  BY <1>4, <1>7, <1>8
<1>9. CASE NULL \notin needed
  <2>1. pos > 0 => before \in Node(T) /\ here \in Node(T)
    BY <1>1, <1>2, <1>9
  <2>2. pos = KeyLen(n) => before \in Node(T) /\ here \in Node(T)
    BY <1>1, <1>2, <1>9
  <2>3. pos # KeyLen(n) => here \in Node(T) /\ after \in Node(T)
    BY <1>1, <1>2, <1>9
  <2>4. pos - 1 + 1 = pos
    BY <1>3
  <2>5. pos > 0 => MergeAt(n, pos - 1, sub) \in Lefts(Node(S))
    BY <1>5, <2>1, <2>4
  <2>6. pos # KeyLen(n) => MergeAt(n, pos, sub) \in Lefts(Node(S))
    BY <1>5, <2>3
  <2>7. pos = KeyLen(n) => RotateTo(LeftRotate(n, pos - 1), sub) \in Lefts(Node(S))
    BY <1>1, <1>6, <2>2, <2>4, LeftRotateTyped
  <2>8. pos # KeyLen(n) => RotateTo(RightRotate(n, pos), sub) \in Lefts(Node(S))
    BY <1>1, <1>6, <2>3, RightRotateTyped
  <2> HIDE DEF needed, before, here, after
  <2>9. QED
    BY <1>7, <1>9, <2>5, <2>6, <2>7, <2>8
<1>10. QED
  BY <1>8, <1>9

LEMMA RemoveAboveTyped ==
  ASSUME NEW T, NULL \in T, NEW S, S = Higher(T), NEW n \in Node(S), NEW moved \in Node(S),
         NEW pos \in Nat, NEW sub \in Lefts(S)
  PROVE  RemoveAbove(n, moved, pos, sub) \in Lefts(Node(S))
<1> DEFINE here == WithChild(moved, pos, sub.node)
           fixed == IF sub.rtval = "short" THEN Rearrange(here, pos, sub)
                                           ELSE [sub EXCEPT !.node = here]
<1>1. here \in Node(S)
  <2>1. sub.node \in S
    BY DEF Lefts
  <2>2. SetChild(moved, pos, sub.node) \in Node(S)
    BY <2>1, SettersTyped
  <2>3. QED
    BY <2>2 DEF WithChild
<1> HIDE DEF here
<1>2. Rearrange(here, pos, sub) \in Lefts(Node(S))
  BY <1>1, RearrangeTyped
<1>3. [sub EXCEPT !.node = here] \in Lefts(Node(S))
  BY <1>1 DEF Lefts
<1>4. fixed \in Lefts(Node(S))
  BY <1>2, <1>3
<1> HIDE DEF fixed
<1>5. Left(n, fixed.rtval) \in Lefts(Node(S)) /\ Settle(fixed) \in Lefts(Node(S))
  <2>1. fixed.rtval \in {"enough", "short", "failed", "oops"}
    BY <1>4 DEF Lefts
  <2>2. QED
    BY <1>4, <2>1, LeftTyped, SettleTyped
<1>6. QED
  BY <1>5 DEF RemoveAbove, fixed, here

LEMMA FromTyped ==
  ASSUME NEW T, NULL \in T, NEW S, S = {NULL} \/ S = Higher(T), S \subseteq Trees,
         NEW m \in Node(S), m # NULL, NEW j \in Nat, NEW f,
         \A c \in Below(m) : \A d \in Nat : f[c][d] \in Lefts(S)
  PROVE  From(m, j, f) \in Lefts(Node(S))
<1> DEFINE pos == FindPos(m, j)
           found == Key(m, pos) = j
           below == Child(m, pos)
           biggest == FindBiggest(below)
<1>1. NULL \in S
  BY DEF Higher
<1>2. pos \in Nat
  <2>1. \A i \in Slots : m.key[i] \in Nat
    BY DEF Node
  <2>2. pos \in 0 .. KeyLen(m) /\ KeyLen(m) \in 0 .. M /\ M \in Nat
    BY <1>1, <2>1, FindPosIs, GettersTyped, MAssumption
  <2>3. QED
    BY <2>2
<1>3. below \in Below(m) /\ below \in S
  <2>1. below = NULL \/ (pos \in Links /\ below = m.child[pos])
    BY <1>1, GettersTyped
  <2>2. QED
    BY <1>1, <2>1, GettersTyped DEF Below
<1>4. biggest \in Nat \cup {NULL}
  BY <1>3, FindBiggestIs
<1>5. Left(m, "failed") \in Lefts(Node(S))
  BY LeftTyped
<1>6. Settle(Left(LeafLeftShift(m, pos), "enough")) \in Lefts(Node(S))
  <2>1. LeafLeftShift(m, pos) \in Node(S)
    BY LeafLeftShiftTyped
  <2>2. QED
    BY <2>1, LeftTyped, SettleTyped
<1>7. S = Higher(T) => RemoveAbove(m, m, pos, f[below][j]) \in Lefts(Node(S))
  <2>1. f[below][j] \in Lefts(S)
    BY <1>3
  <2> HIDE DEF pos, below
  <2>2. QED
    BY <1>2, <2>1, RemoveAboveTyped
<1>8. ASSUME S = Higher(T), found, biggest # NULL, j # 0
      PROVE  RemoveAbove(m, SetKey(m, pos, biggest), pos, f[below][biggest]) \in Lefts(Node(S))
  <2>1. f[below][biggest] \in Lefts(S)
    BY <1>3, <1>4, <1>8
  <2>2. SetKey(m, pos, biggest) \in Node(S)
    BY <1>4, <1>8, SettersTyped
  <2> HIDE DEF pos, below, biggest
  <2>3. QED
    BY <1>2, <1>8, <2>1, <2>2, RemoveAboveTyped
<1>9. IsLeaf(m) \/ S = Higher(T)
  <2>1. CASE S = {NULL}
    <3>1. \A i \in Links : m.child[i] = NULL
      BY <2>1 DEF Node
    <3>2. ChildLen(m) = 0
      <4>1. ChildrenEndAt(m, 0)
        BY <3>1, MAssumption DEF ChildrenEndAt, Links
      <4>2. QED
        BY <4>1, ChildLenIs
    <3>3. QED
      BY <3>2 DEF IsLeaf
  <2>2. QED
    BY <2>1
<1>10. From(m, j, f) =
         IF j = 0 THEN Left(m, "failed")
         ELSE IF IsLeaf(m)
         THEN IF found THEN Settle(Left(LeafLeftShift(m, pos), "enough")) ELSE Left(m, "failed")
         ELSE IF found /\ biggest = NULL THEN Left(m, "failed")
         ELSE IF found THEN RemoveAbove(m, SetKey(m, pos, biggest), pos, f[below][biggest])
         ELSE RemoveAbove(m, m, pos, f[below][j])
  BY DEF From
<1> HIDE DEF pos, found, below, biggest
<1>11. QED
  BY <1>5, <1>6, <1>7, <1>8, <1>9, <1>10

\* A function that goes by From wherever that stays among the answers does so everywhere.
LEMMA FromSettles ==
  ASSUME NEW f,
         \A n \in Trees : [j \in Nat |-> From(n, j, f)] \in [Nat -> Lefts(Trees)]
                            => f[n] = [j \in Nat |-> From(n, j, f)]
  PROVE  \A h \in 0 .. MaxHeight : \A m \in Tree[h] : \A j \in Nat :
           /\ f[m][j] \in Lefts(Tree[h])
           /\ m # NULL => f[m][j].node # NULL
           /\ f[m][j] = From(m, j, f)
<1> DEFINE Good(h) == \A m \in Tree[h] : \A j \in Nat :
                        /\ f[m][j] \in Lefts(Tree[h])
                        /\ m # NULL => f[m][j].node # NULL
                        /\ f[m][j] = From(m, j, f)
           T == {h \in Nat : h <= MaxHeight => Good(h)}
<1>1. MaxHeight \in Nat
  BY BoundsAssumption
<1>2. ASSUME NEW h \in 0 .. MaxHeight, NEW m \in Tree[h],
             \A j \in Nat : From(m, j, f) \in Lefts(Tree[h])
      PROVE  \A j \in Nat : f[m][j] \in Lefts(Tree[h]) /\ f[m][j] = From(m, j, f)
  <2>1. Tree[h] \subseteq Trees
    BY TreeFacts
  <2>2. \A j \in Nat : From(m, j, f) \in Lefts(Trees)
    BY <1>2, <2>1 DEF Lefts
  <2>3. f[m] = [j \in Nat |-> From(m, j, f)]
    BY <2>1, <2>2
  <2>4. QED
    BY <1>2, <2>3
<1>3. \A j \in Nat : From(NULL, j, f) = Left(NULL, "failed")
  BY DEF From
<1>4. \A h \in Nat : Left(NULL, "failed") \in Lefts(Tree[h])
  BY TreeFacts, LeftTyped
<1>5. 0 \in T
  <2>1. Tree[0] = {NULL} /\ 0 \in 0 .. MaxHeight /\ 0 \in Nat
    BY <1>1, TreeIs
  <2>2. QED
    BY <1>2, <1>3, <1>4, <2>1
<1>6. ASSUME NEW h \in Nat, h \in T PROVE h + 1 \in T
  <2>1. SUFFICES ASSUME h + 1 <= MaxHeight, NEW m \in Tree[h + 1]
                 PROVE  \A j \in Nat : /\ f[m][j] \in Lefts(Tree[h + 1])
                                       /\ m # NULL => f[m][j].node # NULL
                                       /\ f[m][j] = From(m, j, f)
    OBVIOUS
  <2>2. Good(h) /\ h + 1 \in 0 .. MaxHeight /\ h + 1 \in Nat /\ h \in 0 .. MaxHeight
    BY <1>1, <1>6, <2>1
  <2>3. CASE m = NULL
    BY <1>2, <1>3, <1>4, <2>2, <2>3
  <2>4. CASE m # NULL
    <3> DEFINE S == Tree[h]
    <3>1. m \in Node(S) /\ S \subseteq Trees
      BY <2>1, <2>2, <2>4, TreeFacts
    <3>2. Below(m) \subseteq S
      <4>1. NULL \in S
        BY TreeFacts
      <4>2. QED
        BY <2>4, <3>1, <4>1 DEF Below, Node
    <3>3. \A c \in Below(m) : \A d \in Nat : f[c][d] \in Lefts(S)
      BY <2>2, <3>2
    <3>4. PICK U : NULL \in U /\ (S = {NULL} \/ S = Higher(U))
      <4>1. CASE h = 0
        BY <4>1, TreeIs
      <4>2. CASE h # 0
        <5>1. PICK g \in Nat : h = g + 1
          <6>1. h - 1 \in Nat /\ h = (h - 1) + 1
            BY <4>2
          <6>2. QED
            BY <6>1
        <5>2. NULL \in Tree[g] /\ S = Higher(Tree[g])
          BY <5>1, TreeIs, TreeFacts
        <5>3. QED
          BY <5>2
      <4>3. QED
        BY <4>1, <4>2
    <3> HIDE DEF S
    <3>5. \A j \in Nat : From(m, j, f) \in Lefts(Node(S))
      BY <2>4, <3>1, <3>3, <3>4, FromTyped
    <3>6. Node(S) \subseteq Tree[h + 1] /\ NULL \notin Node(S)
      <4>1. Node(S) \subseteq Tree[h + 1]
        BY TreeFacts DEF S
      <4>2. Node(S) \subseteq Node(Trees)
        BY <3>1 DEF Node
      <4>3. QED
        BY <4>1, <4>2, TreeFacts
    <3>7. \A j \in Nat : From(m, j, f) \in Lefts(Tree[h + 1]) /\ From(m, j, f).node # NULL
      BY <3>5, <3>6 DEF Lefts
    <3>8. QED
      BY <1>2, <2>2, <3>7
  <2>5. QED
    BY <2>3, <2>4
<1>7. \A h \in Nat : h \in T
  <2> HIDE DEF T
  <2>1. QED
    BY <1>5, <1>6, Induction
<1>8. QED
  BY <1>1, <1>7

LEMMA RemoveFromIs == \E f : Removes(f)
<1> DEFINE R == [Nat -> Lefts(Trees)]
           E(m, f) == [j \in Nat |-> From(m, j, f)]
           F(f) == [m \in Trees |-> E(m, f)]
           any == [j \in Nat |-> Left(NULL, "failed")]
           step == [p \in Trees \X [Trees -> R] |-> IF E(p[1], p[2]) \in R THEN E(p[1], p[2]) ELSE any]
           from == CHOOSE f : f = F(f)
<1>1. \A n \in Trees : \A k \in Nat : RemoveFrom(n, k) = from[n][k]
  BY Zenon DEF RemoveFrom, From
<1>2. any \in R
  BY TreeFacts, BoundsAssumption, LeftTyped DEF Trees
<1>3. step \in [Trees \X [Trees -> R] -> R]
  <2> HIDE DEF R, E, any
  <2>1. QED
    BY <1>2
<1>4. ASSUME NEW n \in Trees, NEW f \in [Trees -> R], NEW g \in [Trees -> R],
             \A c \in Below(n) : f[c] = g[c]
      PROVE  step[<<n, f>>] = step[<<n, g>>]
  <2>1. \A j \in Nat : From(n, j, f) = From(n, j, g)
    <3>1. CASE n = NULL
      BY <3>1 DEF From
    <3>2. CASE n # NULL
      <4>1. TAKE j \in Nat
      <4>2. Child(n, FindPos(n, j)) \in Below(n)
        BY <3>2, ChildBelow
      <4>3. f[Child(n, FindPos(n, j))] = g[Child(n, FindPos(n, j))]
        BY <1>4, <4>2
      <4>4. QED
        BY <4>3, Zenon DEF From
    <3>3. QED
      BY <3>1, <3>2
  <2>2. E(n, f) = E(n, g)
    BY <2>1
  <2> HIDE DEF R, E, any
  <2>3. QED
    BY <2>2
<1>5. PICK f : TreeSolves(f, R, step)
  <2> HIDE DEF step, R, any
  <2>1. QED
    BY <1>2, <1>3, <1>4, TreeRecursion
<1>6. f = F(f)
  <2>1. f \in [Trees -> R] /\ \A n \in Trees : f[n] = IF E(n, f) \in R THEN E(n, f) ELSE any
    <3> HIDE DEF E, R, any
    <3>1. QED
      BY <1>5 DEF TreeSolves
  <2>2. \A n \in Trees : E(n, f) \in R => f[n] = E(n, f)
    <3> HIDE DEF E, R, any
    <3>1. QED
      BY <2>1
  <2>3. \A n \in Trees : \A j \in Nat : f[n][j] \in Lefts(Trees) /\ f[n][j] = From(n, j, f)
    <3>1. MaxHeight \in 0 .. MaxHeight
      BY BoundsAssumption
    <3>2. \A h \in 0 .. MaxHeight : \A m \in Tree[h] : \A j \in Nat :
            f[m][j] \in Lefts(Tree[h]) /\ f[m][j] = From(m, j, f)
      BY <2>2, FromSettles
    <3>3. QED
      BY <3>1, <3>2 DEF Trees
  <2>4. \A n \in Trees : E(n, f) \in R
    BY <2>3
  <2>5. \A n \in Trees : f[n] = E(n, f)
    BY <2>2, <2>4
  <2> HIDE DEF E
  <2>6. QED
    BY <2>1, <2>5
<1>7. from = F(from)
  <2> HIDE DEF F
  <2>1. QED
    BY <1>6
<1>8. \A n \in Trees : from[n] = E(n, from)
  <2> HIDE DEF from, E
  <2>1. QED
    BY <1>7
<1> HIDE DEF from
<1>9. PICK g : g = from
  OBVIOUS
<1>10. \A n \in Trees : E(n, g) \in R => g[n] = E(n, g)
  BY <1>8, <1>9
<1>11. \A h \in 0 .. MaxHeight : \A m \in Tree[h] : \A j \in Nat :
         /\ g[m][j] \in Lefts(Tree[h])
         /\ m # NULL => g[m][j].node # NULL
         /\ g[m][j] = From(m, j, g)
  BY <1>10, FromSettles
<1>12. Removes(g)
  BY <1>1, <1>9, <1>11 DEF Removes
<1>13. QED
  BY <1>12

-----------------------------------------------------------------------------
(* The keys of a tree that loses one *)

\* Removing a key from a leaf.
LEMMA LeafLosesKey ==
  ASSUME NEW n \in Trees, n # NULL, NEW len, WellMade(n, len, {NULL}), NEW pos \in 0 .. len - 1,
         NEW m \in Trees, m # NULL, m = LeafLeftShift(n, pos)
  PROVE  /\ WellMade(m, len - 1, {NULL})
         /\ pos \in Slots /\ KeysOf(m) = KeysOf(n) \ {n.key[pos]}
<1>1. Packed(n, len) /\ Hung(n, len, {NULL}) /\ Uniform({NULL}) /\ n \in Node(Trees)
  BY ChildBelow DEF WellMade, Uniform
<1>2. M \in Nat /\ len \in 1 .. M /\ pos \in Slots /\ pos < len
  <2>1. M \in Nat /\ len \in 0 .. M
    BY <1>1, MAssumption DEF Packed
  <2>2. QED
    BY <2>1 DEF Slots
<1>3. m = RemoveAt(n, len, pos, NULL)
  BY <1>1, LeafLeftShiftIs
<1>4. Packed(m, len - 1)
  BY <1>1, <1>3, RemoveAtPacked
<1>5. Hung(m, len - 1, {NULL})
  <2>1. \A i \in Links : (i <= len /\ i # pos /\ i # pos + 1) => n.child[i] \in {NULL}
    BY <1>1 DEF Hung
  <2>2. NULL \in {NULL}
    OBVIOUS
  <2>3. QED
    BY <1>2, <1>3, <2>1, <2>2, RemoveAtHung
<1>6. \A x : x \in KeysOf(n) <=> \E i \in Slots : i < len /\ x = n.key[i]
  <2>1. \A i \in Links : i <= len => KeysOf(n.child[i]) = {}
    BY <1>1, KeysOfIs DEF Hung
  <2>2. QED
    BY <1>1, <2>1, KeysOfNode
<1>7. \A i \in Links : i <= len - 1 => KeysOf(m.child[i]) = {}
  BY <1>5, KeysOfIs DEF Hung
<1>8. \A x : x \in KeysOf(m) <=> \E i \in Slots : i < len - 1 /\ x = m.key[i]
  BY <1>1, <1>4, <1>5, <1>7, KeysOfNode
<1>9. Separated(m, len - 1)
  BY <1>7 DEF Separated
<1>10. \A i \in Slots : m.key[i] = IF i < pos THEN n.key[i]
                                   ELSE IF i < len - 1 THEN n.key[i + 1] ELSE 0
  BY <1>3 DEF RemoveAt
<1>11. \A i, j \in Slots : (i < len /\ j < len /\ n.key[i] = n.key[j]) => i = j
  <2>1. \A i, j \in Slots : i < j \/ i = j \/ j < i
    BY <1>2 DEF Slots
  <2>2. \A i, j \in Slots : (i < j /\ j < len) => n.key[i] < n.key[j]
    BY <1>1 DEF Packed
  <2>3. \A i \in Slots : n.key[i] \in Nat
    BY <1>1 DEF Packed
  <2>4. \A i, j \in Slots : (i < j /\ j < len) => n.key[i] # n.key[j]
    BY <2>2, <2>3
  <2>5. QED
    BY <2>1, <2>4
<1>12. ASSUME NEW x \in KeysOf(m) PROVE x \in KeysOf(n) /\ x # n.key[pos]
  <2>1. PICK i \in Slots : i < len - 1 /\ x = m.key[i]
    BY <1>8
  <2>2. CASE i < pos
    <3>1. i < len /\ i # pos /\ x = n.key[i]
      BY <1>2, <1>10, <2>1, <2>2 DEF Slots
    <3>2. QED
      BY <1>2, <1>6, <1>11, <3>1
  <2>3. CASE ~(i < pos)
    <3>1. i + 1 \in Slots /\ i + 1 < len /\ i + 1 # pos
      BY <1>2, <2>1, <2>3 DEF Slots
    <3>2. x = n.key[i + 1]
      BY <1>10, <2>1, <2>3
    <3>3. QED
      BY <1>2, <1>6, <1>11, <3>1, <3>2
  <2>4. QED
    BY <2>2, <2>3
<1>13. ASSUME NEW x \in KeysOf(n), x # n.key[pos] PROVE x \in KeysOf(m)
  <2>1. PICK i \in Slots : i < len /\ x = n.key[i]
    BY <1>6
  <2>2. CASE i < pos
    <3>1. i < len - 1 /\ x = m.key[i]
      BY <1>2, <1>10, <2>1, <2>2 DEF Slots
    <3>2. QED
      BY <1>8, <3>1
  <2>3. CASE ~(i < pos)
    <3> DEFINE j == i - 1
    <3>1. i # pos
      BY <1>13, <2>1
    <3>2. j \in Slots /\ ~(j < pos) /\ j < len - 1 /\ j + 1 = i
      BY <1>2, <2>1, <2>3, <3>1 DEF Slots
    <3> HIDE DEF j
    <3>3. x = m.key[j]
      BY <1>10, <2>1, <3>2
    <3>4. QED
      BY <1>8, <3>2, <3>3
  <2>4. QED
    BY <2>2, <2>3
<1>14. QED
  BY <1>2, <1>4, <1>5, <1>9, <1>12, <1>13 DEF WellMade

\* A key of a node is stored nowhere below it.
LEMMA OwnKeyNotBelow ==
  ASSUME NEW n, NEW len, NEW C, WellMade(n, len, C), NEW pos \in Slots, pos < len,
         NEW i \in Links, i <= len, KeysOf(n.child[i]) \subseteq Nat
  PROVE  n.key[pos] \notin KeysOf(n.child[i])
<1>1. SUFFICES ASSUME n.key[pos] \in KeysOf(n.child[i]) PROVE FALSE
  OBVIOUS
<1>2. Packed(n, len) /\ len \in 0 .. M /\ M \in Nat /\ n.key[pos] \in Nat
  BY MAssumption DEF WellMade, Packed
<1>3. Between(n, len, i, n.key[pos])
  BY <1>1 DEF WellMade, Separated
<1>4. i \in 0 .. len
  BY <1>2 DEF Links
<1>5. n.key[pos] # n.key[pos]
  BY <1>2, <1>3, <1>4, OneBetween
<1>6. QED
  BY <1>5

\* Another child at pos, with fewer keys.
LEMMA ChildLosesKeys ==
  ASSUME NEW n \in Trees, n # NULL, NEW len, NEW C, WellMade(n, len, C), Uniform(C),
         NEW pos \in 0 .. len, NEW c \in C, KeysOf(c) \subseteq KeysOf(n.child[pos]),
         NEW m \in Trees, m # NULL, m = SetChild(n, pos, c)
  PROVE  /\ WellMade(m, len, C)
         /\ m.key = n.key
         /\ \A i \in Links : m.child[i] = IF i = pos THEN c ELSE n.child[i]
         /\ \A x : x \in KeysOf(m) <=>
              \/ \E i \in Slots : i < len /\ x = n.key[i]
              \/ \E i \in Links : i <= len /\ i # pos /\ x \in KeysOf(n.child[i])
              \/ x \in KeysOf(c)
<1>1. M \in Nat /\ len \in 0 .. M /\ pos \in Links /\ pos <= len
  BY MAssumption DEF WellMade, Packed, Links
<1>2. Packed(n, len) /\ Hung(n, len, C) /\ Separated(n, len)
  BY DEF WellMade
<1>3. /\ m.key = n.key
      /\ \A i \in Links : m.child[i] = IF i = pos THEN c ELSE n.child[i]
      /\ Packed(m, len) /\ Hung(m, len, C)
  <2>1. n \in Node(Trees)
    BY ChildBelow
  <2>2. /\ SetChild(n, pos, c).key = n.key
        /\ SetChild(n, pos, c) \in Node(Trees \cup C)
        /\ \A i \in Links : SetChild(n, pos, c).child[i] = IF i = pos THEN c ELSE n.child[i]
        /\ Packed(SetChild(n, pos, c), len)
        /\ Hung(SetChild(n, pos, c), len, C)
    BY <1>2, <2>1, SetChildIs
  <2>3. QED
    BY <2>2, Zenon
<1>4. \A x : x \in KeysOf(m) <=> \/ \E i \in Slots : i < len /\ x = m.key[i]
                                 \/ \E i \in Links : i <= len /\ x \in KeysOf(m.child[i])
  BY <1>3, KeysOfNode
<1>5. Separated(m, len)
  BY <1>2, <1>3 DEF Separated, Between
<1>6. QED
  BY <1>1, <1>3, <1>4, <1>5 DEF WellMade

\* A child without key j, which belongs below it.
LEMMA ChildLosesKey ==
  ASSUME NEW n \in Trees, n # NULL, NEW len, NEW C, WellMade(n, len, C), Uniform(C), C \subseteq Trees,
         NEW j \in Nat \ {0}, NEW pos \in 0 .. len, Between(n, len, pos, j),
         NEW c \in C, KeysOf(c) = KeysOf(n.child[pos]) \ {j},
         NEW m \in Trees, m # NULL, m = SetChild(n, pos, c)
  PROVE  WellMade(m, len, C) /\ KeysOf(m) = KeysOf(n) \ {j}
<1>1. WellMade(m, len, C)
  BY ChildLosesKeys
<1>2. \A x : x \in KeysOf(m) <=>
              \/ \E i \in Slots : i < len /\ x = n.key[i]
              \/ \E i \in Links : i <= len /\ i # pos /\ x \in KeysOf(n.child[i])
              \/ x \in KeysOf(c)
  <2>1. KeysOf(c) \subseteq KeysOf(n.child[pos])
    OBVIOUS
  <2>2. QED
    BY <2>1, ChildLosesKeys
<1>3. Packed(n, len) /\ Hung(n, len, C) /\ len \in 0 .. M /\ M \in Nat
  BY MAssumption DEF WellMade, Packed
<1>4. \A x : x \in KeysOf(n) <=> \/ \E i \in Slots : i < len /\ x = n.key[i]
                                 \/ \E i \in Links : i <= len /\ x \in KeysOf(n.child[i])
  BY <1>3, KeysOfNode
<1>5. /\ \A i \in Slots : i < len => n.key[i] # j
      /\ \A i \in 0 .. len : Between(n, len, i, j) => i = pos
  BY <1>3, OneBetween
<1>6. \A i \in Links : (i <= len /\ j \in KeysOf(n.child[i])) => i = pos
  <2>1. \A i \in Links : i <= len => i \in 0 .. len
    BY <1>3 DEF Links
  <2>2. QED
    BY <1>5, <2>1 DEF WellMade, Separated
<1>7. pos \in Links /\ pos <= len
  BY <1>3 DEF Links
<1>8. QED
  BY <1>1, <1>2, <1>4, <1>5, <1>6, <1>7

\* The biggest key below takes the place of the key at pos.
LEMMA BiggestMovesUp ==
  ASSUME NEW n \in Trees, n # NULL, NEW len, NEW C, WellMade(n, len, C), Uniform(C), C \subseteq Trees,
         NEW pos \in 0 .. len - 1, NEW b, IsBiggest(b, n.child[pos]),
         NEW c \in C, KeysOf(c) = KeysOf(n.child[pos]) \ {b},
         NEW m \in Trees, m # NULL, m = SetChild(SetKey(n, pos, b), pos, c)
  PROVE  /\ WellMade(m, len, C)
         /\ pos \in Slots /\ KeysOf(m) = KeysOf(n) \ {n.key[pos]}
         /\ \A i \in Links : m.child[i] = IF i = pos THEN c ELSE n.child[i]
<1>1. M \in Nat /\ len \in 1 .. M /\ pos \in Slots /\ pos < len /\ pos \in Links /\ pos \in Nat
  <2>1. M \in Nat /\ len \in 0 .. M
    BY MAssumption DEF WellMade, Packed
  <2>2. QED
    BY <2>1 DEF Slots, Links
<1>2. Packed(n, len) /\ Hung(n, len, C) /\ Separated(n, len)
  BY DEF WellMade
<1>3. /\ \A i \in Slots : m.key[i] = IF i = pos THEN b ELSE n.key[i]
      /\ \A i \in Links : m.child[i] = IF i = pos THEN c ELSE n.child[i]
      /\ m.key \in [Slots -> Nat]
  <2>1. b \in Nat
    BY DEF IsBiggest
  <2>2. n \in Node(Trees)
    BY ChildBelow
  <2>3. QED
    BY <1>1, <2>1, <2>2 DEF SetKey, SetChild, Node
<1>4. /\ b \in Nat \ {0} /\ b \in KeysOf(n.child[pos]) /\ \A x \in KeysOf(n.child[pos]) : x <= b
  BY DEF IsBiggest
<1>5. /\ 0 < pos => n.key[pos - 1] < b
      /\ b < n.key[pos]
  BY <1>1, <1>2, <1>4 DEF Separated, Between
<1>6. \A i \in Slots : n.key[i] \in Nat /\ (i < len => n.key[i] # 0) /\ (len <= i => n.key[i] = 0)
  BY <1>2 DEF Packed
<1>7. \A i, j \in Slots : (i < j /\ j < len) => n.key[i] < n.key[j]
  BY <1>2 DEF Packed
<1>8. \A i \in Slots : i < pos => n.key[i] < b
  <2>1. ASSUME NEW i \in Slots, i < pos PROVE n.key[i] < b
    <3>1. 0 < pos /\ pos - 1 \in Slots /\ pos - 1 < len /\ (i < pos - 1 \/ i = pos - 1)
      BY <1>1, <2>1 DEF Slots
    <3>2. n.key[i] <= n.key[pos - 1]
      BY <1>6, <1>7, <3>1
    <3>3. QED
      BY <1>4, <1>5, <1>6, <3>1, <3>2
  <2>2. QED
    BY <2>1
<1>9. \A i \in Slots : (pos <= i /\ i < len) => b < n.key[i]
  <2>1. ASSUME NEW i \in Slots, pos <= i, i < len PROVE b < n.key[i]
    <3>1. pos < i \/ i = pos
      BY <1>1, <2>1 DEF Slots
    <3>2. n.key[pos] <= n.key[i]
      BY <1>1, <1>6, <1>7, <2>1, <3>1
    <3>3. QED
      BY <1>1, <1>4, <1>5, <1>6, <3>2
  <2>2. QED
    BY <2>1
<1>10. Packed(m, len)
  <2>1. len \in 0 .. M
    BY <1>1
  <2>2. \A i \in Slots : (i < len => m.key[i] # 0) /\ (len <= i => m.key[i] = 0)
    <3>1. \A i \in Slots : len <= i => i # pos
      BY <1>1 DEF Slots
    <3>2. QED
      BY <1>3, <1>4, <1>6, <3>1
  <2>3. ASSUME NEW i \in Slots, NEW j \in Slots, i < j, j < len PROVE m.key[i] < m.key[j]
    <3>1. CASE i = pos
      <4>1. j # pos /\ pos <= j
        BY <1>1, <2>3, <3>1 DEF Slots
      <4>2. QED
        BY <1>3, <1>9, <2>3, <3>1, <4>1
    <3>2. CASE j = pos
      <4>1. i # pos /\ i < pos
        BY <1>1, <2>3, <3>2 DEF Slots
      <4>2. QED
        BY <1>3, <1>8, <3>2, <4>1
    <3>3. CASE i # pos /\ j # pos
      BY <1>3, <1>7, <2>3, <3>3
    <3>4. QED
      BY <3>1, <3>2, <3>3
  <2>4. QED
    BY <1>3, <2>1, <2>2, <2>3 DEF Packed
<1>11. Hung(m, len, C)
  BY <1>1, <1>2, <1>3 DEF Hung, Links
<1>12. ASSUME NEW i \in Links, i <= len, NEW x \in KeysOf(m.child[i]) PROVE Between(m, len, i, x)
  <2>1. CASE i = pos
    <3>1. x \in KeysOf(n.child[pos]) /\ x # b
      BY <1>3, <1>12, <2>1
    <3>2. x < b
      <4>1. x \in Nat
        <5>1. n.child[pos] \in Trees
          BY <1>1, <1>2 DEF Hung
        <5>2. QED
          BY <3>1, <5>1, KeysOfIs
      <4>2. QED
        BY <1>4, <3>1, <4>1
    <3>3. Between(n, len, pos, x)
      BY <1>1, <1>2, <3>1 DEF Separated
    <3>4. 0 < pos => pos - 1 \in Slots /\ pos - 1 # pos
      BY <1>1 DEF Slots
    <3>5. QED
      BY <1>1, <1>3, <2>1, <3>2, <3>3, <3>4 DEF Between
  <2>2. CASE i # pos
    <3>1. Between(n, len, i, x)
      BY <1>2, <1>3, <1>12, <2>2 DEF Separated
    <3>2. (0 < i => i - 1 \in Slots) /\ (i < len => i \in Slots) /\ (i - 1 = pos => 0 < i)
      BY <1>1, <1>12 DEF Slots, Links
    <3>3. i - 1 = pos => b < x
      <4>1. SUFFICES ASSUME i - 1 = pos PROVE b < x
        OBVIOUS
      <4>2. n.key[pos] < x
        BY <3>1, <3>2, <4>1 DEF Between
      <4>3. x \in Nat
        <5>1. n.child[i] \in Trees
          BY <1>2, <1>12 DEF Hung
        <5>2. QED
          BY <1>3, <1>12, <2>2, <5>1, KeysOfIs
      <4>4. QED
        BY <1>1, <1>4, <1>5, <1>6, <4>2, <4>3
    <3>4. QED
      BY <1>3, <2>2, <3>1, <3>2, <3>3 DEF Between
  <2>3. QED
    BY <2>1, <2>2
<1>13. WellMade(m, len, C)
  BY <1>10, <1>11, <1>12 DEF WellMade, Separated
<1>14. \A x : x \in KeysOf(m) <=> \/ \E i \in Slots : i < len /\ x = m.key[i]
                                  \/ \E i \in Links : i <= len /\ x \in KeysOf(m.child[i])
  BY <1>10, <1>11, KeysOfNode
<1>15. \A x : x \in KeysOf(n) <=> \/ \E i \in Slots : i < len /\ x = n.key[i]
                                  \/ \E i \in Links : i <= len /\ x \in KeysOf(n.child[i])
  BY <1>2, KeysOfNode
<1>16. \A i \in Links : i <= len => n.key[pos] \notin KeysOf(n.child[i])
  <2>1. \A i \in Links : i <= len => KeysOf(n.child[i]) \subseteq Nat
    BY <1>2, KeysOfIs DEF Hung
  <2>2. QED
    BY <1>1, <2>1, OwnKeyNotBelow
<1>17. \A i \in Slots : (i < len /\ n.key[i] = n.key[pos]) => i = pos
  <2>1. ASSUME NEW i \in Slots, i < len, i # pos PROVE n.key[i] # n.key[pos]
    <3>1. i < pos \/ pos < i
      BY <1>1, <2>1 DEF Slots
    <3>2. n.key[i] < n.key[pos] \/ n.key[pos] < n.key[i]
      BY <1>1, <1>7, <2>1, <3>1
    <3>3. QED
      BY <1>1, <1>6, <3>2
  <2>2. QED
    BY <2>1
<1>18. ASSUME NEW x \in KeysOf(m) PROVE x \in KeysOf(n) /\ x # n.key[pos]
  <2>1. CASE \E i \in Slots : i < len /\ x = m.key[i]
    <3>1. PICK i \in Slots : i < len /\ x = m.key[i]
      BY <2>1
    <3>2. CASE i = pos
      <4>1. x = b
        BY <1>3, <3>1, <3>2
      <4>2. QED
        BY <1>1, <1>4, <1>15, <1>16, <4>1
    <3>3. CASE i # pos
      BY <1>3, <1>15, <1>17, <3>1, <3>3
    <3>4. QED
      BY <3>2, <3>3
  <2>2. CASE \E i \in Links : i <= len /\ x \in KeysOf(m.child[i])
    <3>1. PICK i \in Links : i <= len /\ x \in KeysOf(m.child[i])
      BY <2>2
    <3>2. x \in KeysOf(n.child[i])
      BY <1>3, <3>1
    <3>3. QED
      BY <1>15, <1>16, <3>1, <3>2
  <2>3. QED
    BY <1>14, <2>1, <2>2
<1>19. ASSUME NEW x \in KeysOf(n), x # n.key[pos] PROVE x \in KeysOf(m)
  <2>1. CASE x = b
    BY <1>1, <1>3, <1>14, <2>1
  <2>2. CASE x # b /\ \E i \in Slots : i < len /\ x = n.key[i]
    <3>1. PICK i \in Slots : i < len /\ x = n.key[i]
      BY <2>2
    <3>2. x = m.key[i]
      BY <1>3, <1>19, <3>1
    <3>3. QED
      BY <1>14, <3>1, <3>2
  <2>3. CASE x # b /\ \E i \in Links : i <= len /\ x \in KeysOf(n.child[i])
    <3>1. PICK i \in Links : i <= len /\ x \in KeysOf(n.child[i])
      BY <2>3
    <3>2. x \in KeysOf(m.child[i])
      BY <1>3, <2>3, <3>1
    <3>3. QED
      BY <1>14, <3>1, <3>2
  <2>4. QED
    BY <1>15, <2>1, <2>2, <2>3
<1>20. QED
  BY <1>1, <1>3, <1>13, <1>18, <1>19

\* Two neighbours and the key between them become one search tree.
LEMMA MergedKeys ==
  ASSUME NEW l \in Trees, l # NULL, NEW r \in Trees, r # NULL, NEW ll, NEW rl,
         NEW C, WellMade(l, ll, C), WellMade(r, rl, C), Uniform(C), C \subseteq Trees,
         ll + rl + 1 < M, NEW k \in Nat \ {0},
         \A x \in KeysOf(l) : x < k, \A x \in KeysOf(r) : k < x,
         NEW c \in Trees, c # NULL, c = MergedChild(l, k, r)
  PROVE  /\ WellMade(c, ll + rl + 1, C)
         /\ KeysOf(c) = KeysOf(l) \cup {k} \cup KeysOf(r)
<1> DEFINE len == ll + rl + 1
<1>1. /\ Packed(l, ll) /\ Hung(l, ll, C) /\ Separated(l, ll)
      /\ Packed(r, rl) /\ Hung(r, rl, C) /\ Separated(r, rl)
  BY DEF WellMade
<1>2. M \in Nat /\ ll \in 0 .. M /\ rl \in 0 .. M /\ len < M /\ len \in Nat
  BY <1>1, MAssumption DEF Packed
<1>3. \A x : x \in KeysOf(l) <=> \/ \E i \in Slots : i < ll /\ x = l.key[i]
                                 \/ \E i \in Links : i <= ll /\ x \in KeysOf(l.child[i])
  BY <1>1, KeysOfNode
<1>4. \A x : x \in KeysOf(r) <=> \/ \E i \in Slots : i < rl /\ x = r.key[i]
                                 \/ \E i \in Links : i <= rl /\ x \in KeysOf(r.child[i])
  BY <1>1, KeysOfNode
<1>5. /\ Packed(c, len) /\ Hung(c, len, C)
      /\ \A i \in Slots : i < ll => c.key[i] = l.key[i]
      /\ ll \in Slots /\ c.key[ll] = k
      /\ \A i \in Slots : i < rl => i + ll + 1 \in Slots /\ c.key[i + ll + 1] = r.key[i]
      /\ \A i \in Links : i <= ll => c.child[i] = l.child[i]
      /\ \A i \in Links : i <= rl => i + ll + 1 \in Links /\ c.child[i + ll + 1] = r.child[i]
  <2>1. \A i \in Slots : (i < ll => l.key[i] < k) /\ (i < rl => k < r.key[i])
    BY <1>3, <1>4
  <2>2. QED
    BY <1>1, <2>1, MergedChildIs
<1> HIDE DEF len
<1>6. \A x : x \in KeysOf(c) <=> \/ \E i \in Slots : i < len /\ x = c.key[i]
                                 \/ \E i \in Links : i <= len /\ x \in KeysOf(c.child[i])
  BY <1>5, KeysOfNode
<1>7. len = ll + rl + 1
  BY DEF len
<1>8. ASSUME NEW i \in Slots, i < len
      PROVE  c.key[i] \in KeysOf(l) \cup {k} \cup KeysOf(r)
  <2>1. CASE i < ll
    BY <1>3, <1>5, <2>1
  <2>2. CASE i = ll
    BY <1>5, <2>2
  <2>3. CASE ll < i
    <3> DEFINE j == i - ll - 1
    <3>1. j \in Slots /\ j < rl /\ j + ll + 1 = i
      BY <1>2, <1>7, <1>8, <2>3 DEF Slots
    <3> HIDE DEF j
    <3>2. QED
      BY <1>4, <1>5, <3>1
  <2>4. QED
    BY <1>2, <2>1, <2>2, <2>3 DEF Slots
<1>9. ASSUME NEW i \in Links, i <= len
      PROVE  \/ i <= ll /\ c.child[i] = l.child[i]
             \/ \E j \in Links : j <= rl /\ j + ll + 1 = i /\ c.child[i] = r.child[j]
  <2>1. CASE i <= ll
    BY <1>5, <2>1
  <2>2. CASE ll < i
    <3> DEFINE j == i - ll - 1
    <3>1. j \in Links /\ j <= rl /\ j + ll + 1 = i
      BY <1>2, <1>7, <1>9, <2>2 DEF Links
    <3> HIDE DEF j
    <3>2. QED
      BY <1>5, <3>1
  <2>3. QED
    BY <1>2, <2>1, <2>2 DEF Links
<1>10. KeysOf(c) \subseteq KeysOf(l) \cup {k} \cup KeysOf(r)
  <2>1. \A i \in Links : i <= len => KeysOf(c.child[i]) \subseteq KeysOf(l) \cup KeysOf(r)
    BY <1>3, <1>4, <1>9
  <2>2. QED
    BY <1>6, <1>8, <2>1
<1>11. KeysOf(l) \cup {k} \cup KeysOf(r) \subseteq KeysOf(c)
  <2>1. ASSUME NEW x \in KeysOf(l) PROVE x \in KeysOf(c)
    <3>1. ASSUME NEW i \in Slots, i < ll, x = l.key[i] PROVE x \in KeysOf(c)
      <4>1. i < len
        BY <1>2, <1>7, <3>1 DEF Slots
      <4>2. QED
        BY <1>5, <1>6, <3>1, <4>1
    <3>2. ASSUME NEW i \in Links, i <= ll, x \in KeysOf(l.child[i]) PROVE x \in KeysOf(c)
      <4>1. i <= len
        BY <1>2, <1>7, <3>2 DEF Links
      <4>2. QED
        BY <1>5, <1>6, <3>2, <4>1
    <3>3. QED
      BY <1>3, <3>1, <3>2
  <2>2. k \in KeysOf(c)
    <3>1. ll < len
      BY <1>2, <1>7
    <3>2. QED
      BY <1>5, <1>6, <3>1
  <2>3. ASSUME NEW x \in KeysOf(r) PROVE x \in KeysOf(c)
    <3>1. ASSUME NEW i \in Slots, i < rl, x = r.key[i] PROVE x \in KeysOf(c)
      <4>1. i + ll + 1 < len
        BY <1>2, <1>7, <3>1 DEF Slots
      <4>2. QED
        BY <1>5, <1>6, <3>1, <4>1
    <3>2. ASSUME NEW i \in Links, i <= rl, x \in KeysOf(r.child[i]) PROVE x \in KeysOf(c)
      <4>1. i + ll + 1 <= len
        BY <1>2, <1>7, <3>2 DEF Links
      <4>2. QED
        BY <1>5, <1>6, <3>2, <4>1
    <3>3. QED
      BY <1>4, <3>1, <3>2
  <2>4. QED
    BY <2>1, <2>2, <2>3
<1>12. ASSUME NEW i \in Links, i <= len, NEW x \in KeysOf(c.child[i]) PROVE Between(c, len, i, x)
  <2>1. CASE i <= ll /\ c.child[i] = l.child[i]
    <3>1. Between(l, ll, i, x) /\ x \in KeysOf(l)
      BY <1>1, <1>3, <1>12, <2>1 DEF Separated
    <3>2. x < k
      BY <3>1
    <3>3. /\ 0 < i => i - 1 \in Slots /\ i - 1 < ll
          /\ i < ll => i \in Slots
          /\ i < ll \/ i = ll
      BY <1>2, <1>12, <2>1 DEF Links, Slots
    <3>4. 0 < i => c.key[i - 1] < x
      BY <1>5, <3>1, <3>3 DEF Between
    <3>5. x < c.key[i]
      BY <1>5, <3>1, <3>2, <3>3 DEF Between
    <3>6. QED
      BY <3>4, <3>5 DEF Between
  <2>2. CASE \E j \in Links : j <= rl /\ j + ll + 1 = i /\ c.child[i] = r.child[j]
    <3>1. PICK j \in Links : j <= rl /\ j + ll + 1 = i /\ c.child[i] = r.child[j]
      BY <2>2
    <3>2. Between(r, rl, j, x) /\ x \in KeysOf(r)
      BY <1>1, <1>4, <1>12, <3>1 DEF Separated
    <3>3. k < x
      BY <3>2
    <3>4. /\ 0 < j => j - 1 \in Slots /\ j - 1 < rl /\ (j - 1) + ll + 1 = i - 1
          /\ i < len => j < rl /\ j \in Slots
          /\ 0 < j \/ i - 1 = ll
      BY <1>2, <1>7, <3>1 DEF Links, Slots
    <3>5. c.key[i - 1] < x
      <4>1. CASE 0 < j
        <5>1. c.key[i - 1] = r.key[j - 1]
          BY <1>5, <3>4, <4>1
        <5>2. QED
          BY <3>2, <4>1, <5>1 DEF Between
      <4>2. CASE i - 1 = ll
        BY <1>5, <3>3, <4>2
      <4>3. QED
        BY <3>4, <4>1, <4>2
    <3>6. i < len => x < c.key[i]
      <4>1. SUFFICES ASSUME i < len PROVE x < c.key[i]
        OBVIOUS
      <4>2. c.key[i] = r.key[j]
        BY <1>5, <3>1, <3>4, <4>1
      <4>3. QED
        BY <3>2, <3>4, <4>1, <4>2 DEF Between
    <3>7. QED
      BY <3>5, <3>6 DEF Between
  <2>3. QED
    BY <1>9, <1>12, <2>1, <2>2
<1>13. WellMade(c, len, C)
  BY <1>5, <1>12 DEF WellMade, Separated
<1>14. QED
  BY <1>10, <1>11, <1>13 DEF len

\* c with all the keys of two neighbours and the one between them takes their place.
LEMMA RemoveAtKeys ==
  ASSUME NEW n \in Trees, n # NULL, NEW len, NEW C, WellMade(n, len, C), Uniform(C), C \subseteq Trees,
         NEW pos \in 0 .. len - 1, NEW D, Uniform(D), D \subseteq Trees, NEW c \in D,
         \A i \in Links : (i <= len /\ i # pos /\ i # pos + 1) => n.child[i] \in D,
         KeysOf(c) = KeysOf(n.child[pos]) \cup {n.key[pos]} \cup KeysOf(n.child[pos + 1]),
         NEW m \in Trees, m # NULL, m = RemoveAt(n, len, pos, c)
  PROVE  WellMade(m, len - 1, D) /\ KeysOf(m) = KeysOf(n)
<1>1. Packed(n, len) /\ Hung(n, len, C) /\ Separated(n, len)
  BY DEF WellMade
<1>2. /\ M \in Nat /\ len \in 1 .. M /\ len \in 0 .. M /\ pos \in Nat
      /\ pos \in Slots /\ pos < len /\ pos \in Links /\ pos + 1 \in Links /\ pos <= len /\ pos + 1 <= len
  <2>1. M \in Nat /\ len \in 0 .. M
    BY <1>1, MAssumption DEF Packed
  <2>2. QED
    BY <2>1 DEF Slots, Links
<1>3. Packed(m, len - 1)
  BY <1>1, RemoveAtPacked
<1>4. Hung(m, len - 1, D)
  BY <1>2, RemoveAtHung
<1>5. /\ \A i \in Slots : m.key[i] = IF i < pos THEN n.key[i]
                                     ELSE IF i < len - 1 THEN n.key[i + 1] ELSE 0
      /\ \A i \in Links : m.child[i] = IF i < pos THEN n.child[i]
                                       ELSE IF i = pos THEN c
                                       ELSE IF i < len THEN n.child[i + 1] ELSE NULL
  BY DEF RemoveAt
<1>6. \A x : x \in KeysOf(n) <=> \/ \E i \in Slots : i < len /\ x = n.key[i]
                                 \/ \E i \in Links : i <= len /\ x \in KeysOf(n.child[i])
  BY <1>1, KeysOfNode
<1>7. \A x : x \in KeysOf(m) <=> \/ \E i \in Slots : i < len - 1 /\ x = m.key[i]
                                 \/ \E i \in Links : i <= len - 1 /\ x \in KeysOf(m.child[i])
  BY <1>3, <1>4, KeysOfNode
<1>8. ASSUME NEW i \in Slots, i < len - 1
      PROVE  \/ i < pos /\ i < len /\ m.key[i] = n.key[i]
             \/ pos <= i /\ i + 1 \in Slots /\ i + 1 < len /\ m.key[i] = n.key[i + 1]
  <2>1. CASE i < pos
    BY <1>2, <1>5, <2>1 DEF Slots
  <2>2. CASE ~(i < pos)
    <3>1. pos <= i /\ i + 1 \in Slots /\ i + 1 < len
      BY <1>2, <1>8, <2>2 DEF Slots
    <3>2. QED
      BY <1>5, <1>8, <2>2, <3>1
  <2>3. QED
    BY <2>1, <2>2
<1>9. ASSUME NEW i \in Links, i <= len - 1
      PROVE  \/ i < pos /\ i <= len /\ m.child[i] = n.child[i]
             \/ i = pos /\ m.child[i] = c
             \/ pos < i /\ i + 1 \in Links /\ i + 1 <= len /\ m.child[i] = n.child[i + 1]
  <2>1. CASE i < pos
    BY <1>2, <1>5, <2>1 DEF Links
  <2>2. CASE i = pos
    BY <1>2, <1>5, <2>2
  <2>3. CASE pos < i
    <3>1. ~(i < pos) /\ i # pos /\ i < len /\ i + 1 \in Links /\ i + 1 <= len
      BY <1>2, <1>9, <2>3 DEF Links
    <3>2. QED
      BY <1>5, <2>3, <3>1
  <2>4. QED
    BY <1>2, <2>1, <2>2, <2>3 DEF Links
<1>10. KeysOf(c) \subseteq KeysOf(n)
  BY <1>2, <1>6
<1>11. KeysOf(m) \subseteq KeysOf(n)
  <2>1. \A i \in Slots : i < len - 1 => m.key[i] \in KeysOf(n)
    BY <1>6, <1>8
  <2>2. \A i \in Links : i <= len - 1 => KeysOf(m.child[i]) \subseteq KeysOf(n)
    BY <1>6, <1>9, <1>10
  <2>3. QED
    BY <1>7, <2>1, <2>2
<1>12. pos <= len - 1 /\ m.child[pos] = c
  BY <1>2, <1>5
<1>13. KeysOf(c) \subseteq KeysOf(m)
  BY <1>2, <1>7, <1>12
<1>14. KeysOf(n) \subseteq KeysOf(m)
  <2>1. ASSUME NEW i \in Slots, i < len PROVE n.key[i] \in KeysOf(m)
    <3>1. CASE i < pos
      <4>1. i < len - 1 /\ m.key[i] = n.key[i]
        BY <1>2, <1>5, <3>1 DEF Slots
      <4>2. QED
        BY <1>7, <4>1
    <3>2. CASE i = pos
      BY <1>13, <3>2
    <3>3. CASE pos < i
      <4> DEFINE j == i - 1
      <4>1. j \in Slots /\ j < len - 1 /\ ~(j < pos) /\ j + 1 = i
        BY <1>2, <2>1, <3>3 DEF Slots
      <4> HIDE DEF j
      <4>2. m.key[j] = n.key[i]
        BY <1>5, <4>1
      <4>3. QED
        BY <1>7, <4>1, <4>2
    <3>4. QED
      BY <1>2, <3>1, <3>2, <3>3 DEF Slots
  <2>2. ASSUME NEW i \in Links, i <= len PROVE KeysOf(n.child[i]) \subseteq KeysOf(m)
    <3>1. CASE i < pos
      <4>1. i <= len - 1 /\ m.child[i] = n.child[i]
        BY <1>2, <1>5, <3>1 DEF Links
      <4>2. QED
        BY <1>7, <4>1
    <3>2. CASE i = pos \/ i = pos + 1
      BY <1>13, <3>2
    <3>3. CASE pos + 1 < i
      <4> DEFINE j == i - 1
      <4>1. j \in Links /\ j <= len - 1 /\ ~(j < pos) /\ j # pos /\ j < len /\ j + 1 = i
        BY <1>2, <2>2, <3>3 DEF Links
      <4> HIDE DEF j
      <4>2. m.child[j] = n.child[i]
        BY <1>5, <4>1
      <4>3. QED
        BY <1>7, <4>1, <4>2
    <3>4. QED
      BY <1>2, <3>1, <3>2, <3>3 DEF Links
  <2>3. QED
    BY <1>6, <2>1, <2>2
<1>15. /\ \A i \in Slots : n.key[i] \in Nat
       /\ \A i, j \in Slots : (i < j /\ j < len) => n.key[i] < n.key[j]
       /\ \A i \in Links : i <= len => n.child[i] \in Trees /\ KeysOf(n.child[i]) \subseteq Nat
  <2>1. \A i \in Links : i <= len => n.child[i] \in Trees
    BY <1>1 DEF Hung
  <2>2. QED
    BY <1>1, <2>1, KeysOfIs DEF Packed
<1>16. ASSUME NEW x \in KeysOf(c)
       PROVE  (0 < pos => n.key[pos - 1] < x) /\ (pos + 1 < len => x < n.key[pos + 1])
  <2>1. 0 < pos => pos - 1 \in Slots /\ pos - 1 < pos /\ pos - 1 < len
    BY <1>2 DEF Slots
  <2>2. pos + 1 < len => pos + 1 \in Slots
    BY <1>2 DEF Slots
  <2>3. 0 < pos => n.key[pos - 1] < n.key[pos] /\ n.key[pos - 1] \in Nat
    BY <1>2, <1>15, <2>1
  <2>4. n.key[pos] \in Nat /\ (pos + 1 < len => n.key[pos] < n.key[pos + 1] /\ n.key[pos + 1] \in Nat)
    BY <1>2, <1>15, <2>2
  <2>5. CASE x \in KeysOf(n.child[pos])
    <3>1. (0 < pos => n.key[pos - 1] < x) /\ x < n.key[pos] /\ x \in Nat
      BY <1>1, <1>2, <1>15, <2>5 DEF Separated, Between
    <3>2. QED
      BY <2>4, <3>1
  <2>6. CASE x = n.key[pos]
    BY <2>3, <2>4, <2>6
  <2>7. CASE x \in KeysOf(n.child[pos + 1])
    <3>1. Between(n, len, pos + 1, x) /\ x \in Nat /\ 0 < pos + 1 /\ (pos + 1) - 1 = pos
      BY <1>1, <1>2, <1>15, <2>7 DEF Separated
    <3>2. n.key[pos] < x /\ (pos + 1 < len => x < n.key[pos + 1])
      BY <3>1 DEF Between
    <3>3. QED
      BY <2>3, <2>4, <3>1, <3>2
  <2>8. QED
    BY <2>5, <2>6, <2>7
<1>17. ASSUME NEW i \in Links, i <= len - 1, NEW x \in KeysOf(m.child[i]) PROVE Between(m, len - 1, i, x)
  <2>1. CASE i < pos
    <3>1. m.child[i] = n.child[i] /\ i <= len
      BY <1>2, <1>9, <1>17, <2>1 DEF Links
    <3>2. Between(n, len, i, x)
      BY <1>1, <1>17, <3>1 DEF Separated
    <3>3. /\ 0 < i => i - 1 \in Slots /\ i - 1 < pos
          /\ i \in Slots /\ i < len
      BY <1>2, <1>17, <2>1 DEF Links, Slots
    <3>4. QED
      BY <1>5, <2>1, <3>2, <3>3 DEF Between
  <2>2. CASE i = pos
    <3>1. x \in KeysOf(c)
      BY <1>12, <1>17, <2>2
    <3>2. (0 < pos => n.key[pos - 1] < x) /\ (pos + 1 < len => x < n.key[pos + 1])
      BY <1>16, <3>1
    <3>3. /\ 0 < pos => pos - 1 \in Slots /\ pos - 1 < pos
          /\ ~(pos < pos)
          /\ pos < len - 1 => pos + 1 < len
      BY <1>2 DEF Slots
    <3>4. QED
      BY <1>2, <1>5, <2>2, <3>2, <3>3 DEF Between
  <2>3. CASE pos < i
    <3>1. m.child[i] = n.child[i + 1] /\ i + 1 \in Links /\ i + 1 <= len
      BY <1>2, <1>9, <1>17, <2>3 DEF Links
    <3>2. Between(n, len, i + 1, x)
      BY <1>1, <1>17, <3>1 DEF Separated
    <3>3. /\ i - 1 \in Slots /\ ~(i - 1 < pos) /\ i - 1 < len - 1 /\ (i - 1) + 1 = i
          /\ 0 < i + 1 /\ (i + 1) - 1 = i
          /\ i < len - 1 => i \in Slots /\ ~(i < pos) /\ i + 1 < len
      BY <1>2, <1>17, <2>3 DEF Links, Slots
    <3>4. n.key[i] < x /\ (i < len - 1 => x < n.key[i + 1])
      BY <3>2, <3>3 DEF Between
    <3>5. m.key[i - 1] = n.key[i]
      BY <1>5, <3>3
    <3>6. i < len - 1 => m.key[i] = n.key[i + 1]
      BY <1>5, <3>3
    <3>7. QED
      BY <3>4, <3>5, <3>6 DEF Between
  <2>4. QED
    BY <1>2, <2>1, <2>2, <2>3 DEF Links
<1>18. QED
  BY <1>3, <1>4, <1>11, <1>14, <1>17 DEF WellMade, Separated

-----------------------------------------------------------------------------
(* The remove keeps a search tree *)

\* Rearranging keeps what the call below answered; it rotates, or merges the
\* child at pos with one of its neighbours.
LEMMA RearrangeIs ==
  ASSUME NEW n, NEW len \in 1 .. M, KeyLen(n) = len, NEW C, Hung(n, len, C), NULL \notin C,
         NEW pos \in 0 .. len, NEW S, NEW sub \in Lefts(S)
  PROVE  LET r == Rearrange(n, pos, sub)
         IN  /\ r.rtval = sub.rtval
             /\ sub.rotates => r.rotates
             /\ r.rotates \/ \E p \in {pos - 1, pos} :
                  /\ p \in 0 .. len - 1 /\ Fits(Child(n, p), Child(n, p + 1))
                  /\ r.node = Merge(n, p)
                  /\ r.freed = sub.freed + (IF CanRearrange(n, p) THEN 1 ELSE 0)
<1> DEFINE here == Child(n, pos)
           before == Child(n, pos - 1)
           after == Child(n, pos + 1)
           needed == IF pos = KeyLen(n) THEN {before, here}
                     ELSE IF pos = 0 THEN {here, after} ELSE {before, here, after}
           r == Rearrange(n, pos, sub)
<1>1. M \in Nat /\ len \in 0 .. M /\ pos \in Nat
  BY MAssumption
<1>2. \A i \in 0 .. len : Child(n, i) # NULL
  <2>1. Uniform(C)
    BY DEF Uniform
  <2>2. \A i \in Links : Child(n, i) = n.child[i]
    BY <1>1, <2>1, HungReads
  <2>3. \A i \in 0 .. len : i \in Links /\ i <= len
    BY <1>1 DEF Links
  <2>4. QED
    BY <2>2, <2>3 DEF Hung
<1>3. NULL \notin needed
  <2>1. pos > 0 => pos - 1 \in 0 .. len
    BY <1>1
  <2>2. pos # len => pos + 1 \in 0 .. len
    BY <1>1
  <2>3. pos = len => pos > 0
    BY <1>1
  <2>4. pos # 0 => pos > 0
    BY <1>1
  <2> HIDE DEF here, before, after
  <2>5. here # NULL /\ (pos > 0 => before # NULL) /\ (pos # len => after # NULL)
    BY <1>2, <2>1, <2>2 DEF here, before, after
  <2>6. QED
    BY <2>3, <2>4, <2>5
<1>4. r = IF pos > 0 /\ Fits(before, here) THEN MergeAt(n, pos - 1, sub)
          ELSE IF pos = len THEN RotateTo(LeftRotate(n, pos - 1), sub)
          ELSE IF Fits(here, after) THEN MergeAt(n, pos, sub)
          ELSE RotateTo(RightRotate(n, pos), sub)
  BY <1>3 DEF Rearrange
<1>5. \A t : RotateTo(t, sub).rtval = sub.rtval /\ RotateTo(t, sub).rotates = TRUE
  BY DEF RotateTo, Lefts
<1>6. \A p : /\ MergeAt(n, p, sub).rtval = sub.rtval /\ MergeAt(n, p, sub).rotates = sub.rotates
             /\ MergeAt(n, p, sub).node = Merge(n, p)
             /\ MergeAt(n, p, sub).freed = sub.freed + (IF CanRearrange(n, p) THEN 1 ELSE 0)
  BY DEF MergeAt, Lefts
<1>7. CASE pos > 0 /\ Fits(before, here)
  <2>1. pos - 1 \in 0 .. len - 1 /\ (pos - 1) + 1 = pos
    BY <1>1, <1>7
  <2>2. r = MergeAt(n, pos - 1, sub)
    BY <1>4, <1>7
  <2>3. QED
    BY <1>6, <1>7, <2>1, <2>2
<1>8. CASE ~(pos > 0 /\ Fits(before, here)) /\ pos # len /\ Fits(here, after)
  <2>1. pos \in 0 .. len - 1
    BY <1>1, <1>8
  <2>2. r = MergeAt(n, pos, sub)
    BY <1>4, <1>8
  <2>3. QED
    BY <1>6, <1>8, <2>1, <2>2
<1>9. CASE ~(pos > 0 /\ Fits(before, here)) /\ (pos = len \/ ~Fits(here, after))
  <2>1. \E t : r = RotateTo(t, sub)
    BY <1>4, <1>9
  <2>2. QED
    BY <1>5, <2>1
<1>10. QED
  BY <1>7, <1>8, <1>9

\* The trees two levels below the bound.
LEMMA ChildOfLow ==
  ASSUME NEW c \in Low, c # NULL
  PROVE  \E T : NULL \in T /\ c \in Node(T) /\ Low = Higher(T) /\ NULL \notin Node(T)
<1> DEFINE h == MaxHeight - 1
<1>1. h \in Nat
  BY BoundsAssumption
<1>2. h # 0
  BY TreeIs DEF Low
<1>3. PICK g \in Nat : g + 1 = h
  <2>1. h - 1 \in Nat /\ (h - 1) + 1 = h
    BY <1>1, <1>2, BoundsAssumption
  <2>2. QED
    BY <2>1
<1>4. Low = Higher(Tree[g])
  BY <1>3, TreeIs DEF Low
<1>5. NULL \in Tree[g] /\ c \in Node(Tree[g])
  BY <1>3, TreeFacts DEF Low
<1>6. NULL \notin Node(Tree[g])
  <2>1. g \in 0 .. MaxHeight
    BY <1>1, <1>3, BoundsAssumption
  <2>2. Node(Tree[g]) \subseteq Node(Trees)
    BY <2>1, TreeFacts DEF Node
  <2>3. QED
    BY <2>2, TreeFacts
<1>7. QED
  BY <1>4, <1>5, <1>6

\* Merging two children of a search tree, one of which may have too few keys.
LEMMA MergeSound ==
  ASSUME NEW h \in Nat \ {0}, NEW n \in Node(Low), NEW len, WellMade(n, len, Sound(M - 1)[h]),
         NEW pos \in 0 .. len - 1,
         \A i \in Links : (i <= len /\ i # pos /\ i # pos + 1)
                            => n.child[i] \in Kids(Sound(M - 1)[h], M - 1),
         \/ n.child[pos] \in Kids(Sound(M - 1)[h], M - 1)
         \/ n.child[pos + 1] \in Kids(Sound(M - 1)[h], M - 1),
         Fits(Child(n, pos), Child(n, pos + 1))
  PROVE  /\ CanRearrange(n, pos)
         /\ Merge(n, pos) \in Sound(M - 1)[h + 1]
         /\ KeyLen(Merge(n, pos)) = len - 1
         /\ KeysOf(Merge(n, pos)) = KeysOf(n)
<1> DEFINE hi == M - 1
           D == Sound(hi)[h]
           C == Kids(D, hi)
           l == n.child[pos]
           r == n.child[pos + 1]
           k == n.key[pos]
           c == MergedChild(l, k, r)
           m == Merge(n, pos)
           ll == KeyLen(l)
           rl == KeyLen(r)
<1>1. n \in Trees /\ n # NULL
  BY TreesAre
<1>2. Packed(n, len) /\ Hung(n, len, D) /\ Separated(n, len)
  BY DEF WellMade
<1>3. M \in Nat /\ len \in 1 .. M /\ len \in 0 .. M /\ pos \in Nat
  <2>1. M \in Nat /\ len \in 0 .. M
    BY <1>2, MAssumption DEF Packed
  <2>2. QED
    BY <2>1
<1>4. /\ Uniform(C) /\ C \subseteq D /\ D \subseteq Trees /\ NULL \notin D /\ NULL \notin C
  BY KidsUniform
<1>5. /\ pos \in Links /\ pos + 1 \in Links /\ pos \in Slots /\ pos < len /\ pos + 1 <= len /\ pos <= len
  BY <1>3 DEF Links, Slots
<1>6. l \in D /\ r \in D
  BY <1>2, <1>5 DEF Hung
<1>7. Child(n, pos) = l /\ Child(n, pos + 1) = r
  <2>1. Uniform(D)
    BY <1>4 DEF Uniform
  <2>2. QED
    BY <1>2, <1>3, <1>5, <2>1, HungReads
<1>8. PICK g \in Nat : g + 1 = h
  <2>1. h - 1 \in Nat /\ (h - 1) + 1 = h
    OBVIOUS
  <2>2. QED
    BY <2>1
<1> DEFINE E == Kids(Sound(hi)[g], hi)
<1>9. /\ l \in Trees /\ l # NULL /\ WellMade(l, ll, E) /\ ll \in 0 .. M
      /\ r \in Trees /\ r # NULL /\ WellMade(r, rl, E) /\ rl \in 0 .. M
      /\ Uniform(E) /\ E \subseteq Trees
  <2>1. l \in Sound(hi)[g + 1] /\ r \in Sound(hi)[g + 1]
    BY <1>6, <1>8
  <2>2. l \in Trees /\ l # NULL /\ WellMade(l, ll, E) /\ ll \in 0 .. M
    BY <2>1, SoundNode
  <2>3. r \in Trees /\ r # NULL /\ WellMade(r, rl, E) /\ rl \in 0 .. M
    BY <2>1, SoundNode
  <2>4. Uniform(E) /\ E \subseteq Trees
    BY KidsUniform
  <2>5. QED
    BY <2>2, <2>3, <2>4
<1>10. ll + rl + 1 < M
  BY <1>7 DEF Fits
<1>11. k \in Nat \ {0} /\ (\A x \in KeysOf(l) : x < k) /\ (\A x \in KeysOf(r) : k < x)
  <2>1. k \in Nat \ {0}
    BY <1>2, <1>5 DEF Packed
  <2>2. \A x \in KeysOf(l) : x < k
    BY <1>2, <1>5 DEF Separated, Between
  <2>3. \A x \in KeysOf(r) : k < x
    <3>1. 0 < pos + 1 /\ (pos + 1) - 1 = pos
      BY <1>3
    <3>2. QED
      BY <1>2, <1>5, <3>1 DEF Separated, Between
  <2>4. QED
    BY <2>1, <2>2, <2>3
<1>12. c \in Low /\ c \in Trees /\ c # NULL /\ m \in Node(Low) /\ m \in Trees /\ m # NULL
  <2>1. l \in Low /\ r \in Low
    BY <1>5 DEF Node
  <2>2. PICK T : NULL \in T /\ l \in Node(T) /\ Low = Higher(T) /\ NULL \notin Node(T)
    BY <1>9, <2>1, ChildOfLow
  <2>3. r \in Node(T) /\ Node(T) \subseteq Low
    BY <1>9, <2>1, <2>2 DEF Higher
  <2>4. c \in Node(T)
    BY <1>11, <2>2, <2>3, MergedChildTyped
  <2>5. m \in Node(Low)
    <3>1. NULL \in Low
      BY TreesAre
    <3>2. QED
      BY <1>7, <2>2, <2>3, <3>1, MergeTyped
  <2>6. c \in Low /\ c # NULL
    BY <2>2, <2>3, <2>4
  <2>7. QED
    BY <2>5, <2>6, TreesAre
<1> HIDE DEF hi, D, C, E, l, r, k, c, m, ll, rl
<1>13. WellMade(c, ll + rl + 1, E) /\ KeysOf(c) = KeysOf(l) \cup {k} \cup KeysOf(r)
  BY <1>9, <1>10, <1>11, <1>12, MergedKeys DEF c
<1>14. c \in C
  <2>1. ll + rl + 1 \in 0 .. M
    BY <1>3, <1>9, <1>10
  <2>2. c \in Sound(hi)[g + 1]
    BY <1>12, <1>13, <2>1, SoundIs DEF E
  <2>3. KeyLen(c) = ll + rl + 1
    BY <1>13, PackedReads DEF WellMade
  <2>4. ll \in Half .. hi \/ rl \in Half .. hi
    <3>1. l \in C \/ r \in C
      BY DEF l, r, C, D, hi
    <3>2. QED
      BY <1>9, <3>1 DEF C, Kids, ll, rl
  <2>5. Half \in Nat
    BY Halves
  <2>6. ll + rl + 1 \in Half .. hi
    BY <1>3, <1>9, <1>10, <2>4, <2>5 DEF hi
  <2>7. QED
    BY <1>8, <2>2, <2>3, <2>6 DEF C, D, Kids
<1>15. CanRearrange(n, pos) /\ m = RemoveAt(n, len, pos, c)
  BY <1>2, <1>4, MergeIs DEF m, c, l, k, r
<1>16. WellMade(m, len - 1, C) /\ KeysOf(m) = KeysOf(n)
  <2>1. KeysOf(c) = KeysOf(n.child[pos]) \cup {n.key[pos]} \cup KeysOf(n.child[pos + 1])
    BY <1>13 DEF l, r, k
  <2>2. \A i \in Links : (i <= len /\ i # pos /\ i # pos + 1) => n.child[i] \in C
    BY DEF C, D, hi
  <2>3. Uniform(D) /\ C \subseteq Trees /\ WellMade(n, len, D)
    BY <1>4, <1>2 DEF Uniform, WellMade
  <2>4. QED
    BY <1>1, <1>4, <1>12, <1>14, <1>15, <2>1, <2>2, <2>3, RemoveAtKeys
<1>17. m \in Sound(hi)[h + 1]
  <2>1. len - 1 \in 0 .. M
    BY <1>3
  <2>2. QED
    BY <1>12, <1>16, <2>1, SoundIs DEF C, D
<1>18. KeyLen(m) = len - 1
  BY <1>16, PackedReads DEF WellMade
<1>19. QED
  BY <1>15, <1>16, <1>17, <1>18 DEF m, hi

\* An answer to the remove of j from m, a search tree of height h: j is gone and
\* nothing else is, unless it rotated.
Removed(a, m, j, h) ==
    /\ a.rtval \in {"enough", "short", "failed"}
    /\ a.rtval = "failed" => a.node = m /\ ~a.rotates
    /\ a.rotates \/ /\ a.node \in Sound(M - 1)[h]
                    /\ KeysOf(a.node) = KeysOf(m) \ {j}
                    /\ KeyLen(a.node) \in KeyLen(m) - 1 .. KeyLen(m)
                    /\ a.rtval = "enough" => Half <= KeyLen(a.node)

\* When a child without jj takes the place of the one at pos in moved, this is
\* n without j.
Without(n, moved, pos, jj, j, h) ==
    \A c \in Sound(M - 1)[h] : \A t \in Trees :
        (KeysOf(c) = KeysOf(n.child[pos]) \ {jj} /\ t # NULL /\ t = SetChild(moved, pos, c))
          => WellMade(t, KeyLen(n), Sound(M - 1)[h]) /\ KeysOf(t) = KeysOf(n) \ {j}

\* The remove from an inner node, after the remove from its child.
LEMMA RemoveAboveSound ==
  ASSUME NEW h \in Nat \ {0}, NEW n \in Sound(M - 1)[h + 1], KeyLen(n) \in 1 .. M - 1,
         NEW pos \in 0 .. KeyLen(n), NEW moved \in Node(Low), KeyLen(moved) = KeyLen(n),
         moved.child = n.child, pos = KeyLen(n) => moved = n,
         NEW jj, NEW j, Without(n, moved, pos, jj, j, h),
         NEW sub \in Lefts(Low), sub.node # NULL, Removed(sub, n.child[pos], jj, h)
  PROVE  Removed(RemoveAbove(n, moved, pos, sub), n, j, h + 1)
<1> DEFINE len == KeyLen(n)
           D == Sound(M - 1)[h]
           C == Kids(D, M - 1)
           here == SetChild(moved, pos, sub.node)
           fixed == IF sub.rtval = "short" THEN Rearrange(here, pos, sub)
                                           ELSE [sub EXCEPT !.node = here]
           a == RemoveAbove(n, moved, pos, sub)
<1>1. M \in Nat /\ len \in 1 .. M - 1 /\ len \in 1 .. M /\ len \in 0 .. M /\ pos \in Nat /\ pos \in Links
  <2>1. M \in Nat
    BY MAssumption
  <2>2. QED
    BY <2>1 DEF Links
<1>2. n \in Trees /\ n # NULL /\ n \in Node(Trees) /\ WellMade(n, len, C) /\ Packed(n, len) /\ Hung(n, len, C)
  BY SoundNode DEF WellMade
<1>3. Uniform(C) /\ C \subseteq D /\ D \subseteq Trees /\ NULL \notin D /\ NULL \notin C /\ C # {NULL}
  BY KidsUniform
<1>4. n \in Node(Low) /\ sub.node \in Low
  BY <1>2, TreesAre DEF Lefts
<1> HIDE DEF C, D
<1>5. /\ here \in Node(Low) /\ here \in Trees /\ here # NULL
      /\ here.key = moved.key
      /\ \A i \in Links : here.child[i] = IF i = pos THEN sub.node ELSE n.child[i]
  <2>1. here \in Node(Low)
    BY <1>4, SettersTyped
  <2>2. here.key = moved.key /\ \A i \in Links : here.child[i] = IF i = pos THEN sub.node ELSE n.child[i]
    BY <1>1 DEF SetChild, Node
  <2>3. QED
    BY <2>1, <2>2, TreesAre
<1>6. WithChild(moved, pos, sub.node) = here
  <2>1. Hung(moved, len, C)
    BY <1>2 DEF Hung
  <2>2. Child(moved, pos) = n.child[pos]
    BY <1>1, <1>3, <2>1, HungReads
  <2>3. pos <= len
    BY <1>1
  <2>4. n.child[pos] # NULL
    BY <1>1, <1>2, <1>3, <2>3 DEF Hung
  <2>5. QED
    BY <2>2, <2>4 DEF WithChild
<1>7. KeyLen(here) = len
  <2>1. KeyLen(here) = KeyLen(moved)
    BY <1>5, KeyLenSame
  <2>2. QED
    BY <2>1
<1>8. a = IF fixed.rtval = "oops" \/ (sub.rtval = "failed" /\ pos = len)
          THEN Left(n, fixed.rtval) ELSE Settle(fixed)
  BY <1>6 DEF RemoveAbove
<1>9. /\ sub.rtval \in {"enough", "short", "failed"} /\ sub.rotates \in BOOLEAN
      /\ sub.rtval = "failed" => sub.node = n.child[pos] /\ ~sub.rotates
      /\ sub.rotates \/ /\ sub.node \in D
                        /\ KeysOf(sub.node) = KeysOf(n.child[pos]) \ {jj}
                        /\ KeyLen(sub.node) \in KeyLen(n.child[pos]) - 1 .. KeyLen(n.child[pos])
                        /\ sub.rtval = "enough" => Half <= KeyLen(sub.node)
  BY DEF Removed, Lefts, D
<1>10. n.child[pos] \in C /\ \A i \in Links : i <= len => n.child[i] \in C
  <2>1. pos <= len
    BY <1>1
  <2>2. QED
    BY <1>1, <1>2, <2>1 DEF Hung
<1> HIDE DEF here
<1>11. ~sub.rotates => WellMade(here, len, D) /\ KeysOf(here) = KeysOf(n) \ {j}
  BY <1>5, <1>9 DEF Without, D, here
<1>12. LET r == Rearrange(here, pos, sub)
       IN  /\ r.rtval = sub.rtval
           /\ sub.rotates => r.rotates
           /\ r.rotates \/ \E p \in {pos - 1, pos} :
                /\ p \in 0 .. len - 1 /\ Fits(Child(here, p), Child(here, p + 1))
                /\ r.node = Merge(here, p)
  <2> DEFINE E == C \cup {sub.node}
  <2>1. NULL \notin E
    BY <1>3
  <2>2. Hung(here, len, E)
    <3>1. \A i \in Links : len < i => i # pos
      BY <1>1 DEF Links
    <3>2. QED
      BY <1>2, <1>5, <3>1 DEF Hung
  <2> HIDE DEF E
  <2>3. QED
    BY <1>1, <1>7, <2>1, <2>2, RearrangeIs
<1> HIDE DEF len
<1>13. CASE sub.rtval = "failed" /\ pos = len
  <2>1. here = n
    <3>1. moved = n /\ sub.node = n.child[pos] /\ ~sub.rotates
      BY <1>9, <1>13 DEF len
    <3>2. here = [key |-> here.key, child |-> here.child] /\ here.child = [i \in Links |-> here.child[i]]
      BY <1>5 DEF Node
    <3>3. n = [key |-> n.key, child |-> n.child] /\ n.child = [i \in Links |-> n.child[i]]
      BY <1>2 DEF Node
    <3>4. \A i \in Links : here.child[i] = n.child[i]
      BY <1>5, <3>1
    <3>5. here.child = n.child
      BY <3>2, <3>3, <3>4
    <3>6. QED
      BY <1>5, <3>1, <3>2, <3>3, <3>5
  <2>2. KeysOf(n) = KeysOf(n) \ {j}
    BY <1>9, <1>11, <1>13, <2>1
  <2>3. fixed.rtval = "failed"
    BY <1>13 DEF Lefts
  <2>4. a.node = n /\ a.rtval = "failed" /\ a.rotates = FALSE
    BY <1>8, <1>13, <2>3 DEF Left
  <2>5. KeyLen(n) \in KeyLen(n) - 1 .. KeyLen(n)
    BY <1>1 DEF len
  <2> HIDE DEF a
  <2>6. QED
    BY <2>2, <2>4, <2>5 DEF Removed, a
<1>14. CASE ~(sub.rtval = "failed" /\ pos = len)
  <2>1. fixed.rtval = sub.rtval
    BY <1>12 DEF Lefts
  <2>2. fixed \in Lefts(Node(Low))
    <3>1. PICK T : NULL \in T /\ Low = Higher(T)
      BY <1>4, ChildOfLow
    <3>2. Rearrange(here, pos, sub) \in Lefts(Node(Low))
      BY <1>1, <1>5, <3>1, RearrangeTyped
    <3>3. [sub EXCEPT !.node = here] \in Lefts(Node(Low))
      BY <1>5 DEF Lefts
    <3>4. QED
      BY <3>2, <3>3
  <2>3. a = Settle(fixed)
    BY <1>8, <1>9, <1>14, <2>1
  <2>4. sub.rotates => fixed.rotates
    BY <1>12 DEF Lefts
  <2>5. ~fixed.rotates =>
          /\ fixed.node \in Sound(M - 1)[h + 1]
          /\ KeysOf(fixed.node) = KeysOf(n) \ {j}
          /\ KeyLen(fixed.node) \in len - 1 .. len
    <3>1. SUFFICES ASSUME ~fixed.rotates
                   PROVE  /\ fixed.node \in Sound(M - 1)[h + 1]
                          /\ KeysOf(fixed.node) = KeysOf(n) \ {j}
                          /\ KeyLen(fixed.node) \in len - 1 .. len
      OBVIOUS
    <3>2. ~sub.rotates
      BY <2>4, <3>1
    <3>3. WellMade(here, len, D) /\ KeysOf(here) = KeysOf(n) \ {j}
      BY <1>11, <3>2
    <3>4. CASE sub.rtval = "short"
      <4>1. PICK q \in {pos - 1, pos} :
              /\ q \in 0 .. len - 1 /\ Fits(Child(here, q), Child(here, q + 1))
              /\ fixed.node = Merge(here, q)
        BY <1>12, <3>1, <3>4
      <4>2. /\ q \in Links /\ q + 1 \in Links /\ q <= len /\ q + 1 <= len
            /\ q = pos \/ q + 1 = pos
            /\ q # pos \/ q + 1 # pos
        BY <1>1, <4>1 DEF Links
      <4>3. \A i \in Links : (i <= len /\ i # pos) => here.child[i] \in C
        BY <1>5, <1>10
      <4>4. /\ \A i \in Links : (i <= len /\ i # q /\ i # q + 1) => here.child[i] \in C
            /\ here.child[q] \in C \/ here.child[q + 1] \in C
        BY <4>2, <4>3
      <4>5. /\ Merge(here, q) \in Sound(M - 1)[h + 1]
            /\ KeyLen(Merge(here, q)) = len - 1
            /\ KeysOf(Merge(here, q)) = KeysOf(here)
        BY <1>5, <3>3, <4>1, <4>4, MergeSound DEF C, D
      <4>6. len - 1 \in len - 1 .. len
        BY <1>1
      <4>7. QED
        BY <3>3, <4>1, <4>5, <4>6
    <3>5. CASE sub.rtval # "short"
      <4>1. fixed.node = here
        BY <3>5 DEF Lefts
      <4>2. sub.node \in C
        <5>1. CASE sub.rtval = "failed"
          BY <1>9, <1>10, <5>1
        <5>2. CASE sub.rtval = "enough"
          <6>1. /\ sub.node \in D /\ Half <= KeyLen(sub.node)
                /\ KeyLen(sub.node) \in KeyLen(n.child[pos]) - 1 .. KeyLen(n.child[pos])
            BY <1>9, <3>2, <5>2
          <6>2. KeyLen(n.child[pos]) \in Half .. M - 1
            BY <1>3, <1>10 DEF C, Kids
          <6>3. Half \in Nat
            BY Halves
          <6>4. KeyLen(sub.node) \in Half .. M - 1
            BY <1>1, <6>1, <6>2, <6>3
          <6>5. QED
            BY <6>1, <6>4 DEF C, Kids
        <5>3. QED
          BY <1>9, <3>5, <5>1, <5>2
      <4>3. Hung(here, len, C)
        <5>1. \A i \in Links : i <= len => here.child[i] \in C
          BY <1>5, <1>10, <4>2
        <5>2. QED
          BY <3>3, <5>1 DEF Hung, WellMade
      <4>4. WellMade(here, len, C)
        BY <3>3, <4>3 DEF WellMade
      <4>5. here \in Sound(M - 1)[h + 1]
        BY <1>1, <1>5, <4>4, SoundIs DEF C, D
      <4>6. len \in len - 1 .. len
        BY <1>1
      <4>7. QED
        BY <1>7, <3>3, <4>1, <4>5, <4>6
    <3>6. QED
      BY <3>4, <3>5
  <2> HIDE DEF fixed, a
  <2>6. /\ a.node = fixed.node /\ a.rotates = fixed.rotates
        /\ a.rtval = IF KeyLen(a.node) < M \div 2 THEN "short" ELSE "enough"
    BY <2>2, <2>3 DEF Settle, Lefts
  <2>7. ~a.rotates => (a.rtval = "enough" => Half <= KeyLen(a.node))
    <3>1. ~a.rotates => KeyLen(a.node) \in len - 1 .. len
      BY <2>5, <2>6
    <3>2. Half \in Nat /\ Half <= M \div 2 /\ M \div 2 \in Nat
      BY Halves DEF Mid
    <3>3. QED
      BY <1>1, <2>6, <3>1, <3>2
  <2>8. a.rtval \in {"enough", "short"}
    BY <2>6
  <2>9. QED
    BY <2>5, <2>6, <2>7, <2>8 DEF Removed, len, a
<1>15. QED
  BY <1>13, <1>14

\* The remove from a leaf.
LEMMA RemoveLeafSound ==
  ASSUME NEW m \in Sound(M - 1)[1], KeyLen(m) \in 1 .. M - 1, NEW j \in Nat \ {0}
  PROVE  /\ IsLeaf(m)
         /\ Key(m, FindPos(m, j)) = j =>
              Removed(Settle(Left(LeafLeftShift(m, FindPos(m, j)), "enough")), m, j, 1)
         /\ Key(m, FindPos(m, j)) # j => Removed(Left(m, "failed"), m, j, 1)
<1> DEFINE len == KeyLen(m)
           pos == FindPos(m, j)
           t == LeafLeftShift(m, pos)
           a == Settle(Left(t, "enough"))
<1>1. m \in Trees /\ m # NULL /\ WellMade(m, len, {NULL}) /\ Packed(m, len) /\ Hung(m, len, {NULL})
  <2>1. m \in Sound(M - 1)[0 + 1] /\ 0 \in Nat
    OBVIOUS
  <2>2. Kids(Sound(M - 1)[0], M - 1) = {NULL}
    <3>1. PICK hi : hi = M - 1
      OBVIOUS
    <3>2. Kids(Sound(hi)[0], hi) = {NULL}
      <4>1. 0 = 0 => Kids(Sound(hi)[0], hi) = {NULL}
        BY <2>1, KidsUniform
      <4>2. QED
        BY <4>1
    <3>3. QED
      BY <3>1, <3>2
  <2>3. QED
    BY <2>1, <2>2, SoundNode, ZenonT(40) DEF WellMade
<1>2. M \in Nat /\ len \in 1 .. M - 1 /\ len \in 0 .. M
  BY MAssumption
<1>3. IsLeaf(m)
  BY <1>1, <1>2, HungReads DEF Uniform
<1>4. /\ pos \in 0 .. len
      /\ Key(m, pos) = j => pos \in Slots /\ pos < len /\ m.key[pos] = j
      /\ Key(m, pos) # j => \A i \in Slots : m.key[i] # j
  BY <1>1, PositionOf
<1> HIDE DEF pos
<1>5. ASSUME Key(m, pos) = j PROVE Removed(a, m, j, 1)
  <2>1. pos \in 0 .. len - 1
    BY <1>2, <1>4, <1>5
  <2>2. t \in Trees /\ t # NULL
    <3>1. m \in Node(Low)
      BY <1>1, TreesAre
    <3>2. t \in Node(Low)
      BY <3>1, LeafLeftShiftTyped
    <3>3. QED
      BY <3>2, TreesAre
  <2> HIDE DEF len
  <2>3. WellMade(t, len - 1, {NULL}) /\ KeysOf(t) = KeysOf(m) \ {m.key[pos]}
    BY <1>1, <2>1, <2>2, LeafLosesKey
  <2>4. KeyLen(t) = len - 1
    BY <2>3, PackedReads DEF WellMade
  <2>5. t \in Sound(M - 1)[1]
    <3>1. len - 1 \in 0 .. M
      BY <1>2
    <3>2. Kids(Sound(M - 1)[0], M - 1) = {NULL} /\ 0 \in Nat /\ 0 + 1 = 1
      BY KidsUniform
    <3>3. Sound(M - 1)[0 + 1] =
            {n \in Trees \ {NULL} : \E l \in 0 .. M : WellMade(n, l, Kids(Sound(M - 1)[0], M - 1))}
      BY <3>2, SoundIs
    <3>4. QED
      BY <2>2, <2>3, <3>1, <3>2, <3>3
  <2> HIDE DEF t
  <2>6. a.node = t /\ a.rtval = IF KeyLen(t) < M \div 2 THEN "short" ELSE "enough"
    BY DEF Settle, Left
  <2>7. a.rtval = "enough" => Half <= KeyLen(t)
    <3>1. Half \in Nat /\ Half <= M \div 2 /\ M \div 2 \in Nat
      BY Halves DEF Mid
    <3>2. QED
      BY <1>2, <2>4, <2>6, <3>1
  <2>8. len - 1 \in len - 1 .. len
    BY <1>2
  <2> HIDE DEF a
  <2>9. QED
    BY <1>4, <1>5, <2>3, <2>4, <2>5, <2>6, <2>7, <2>8 DEF Removed, len
<1>6. ASSUME Key(m, pos) # j PROVE Removed(Left(m, "failed"), m, j, 1)
  <2>1. j \notin KeysOf(m)
    <3>1. \A i \in Links : i <= len => KeysOf(m.child[i]) = {}
      BY <1>1, KeysOfIs DEF Hung
    <3>2. Uniform({NULL})
      BY DEF Uniform
    <3> HIDE DEF len
    <3>3. QED
      BY <1>1, <1>4, <1>6, <3>1, <3>2, KeysOfNode
  <2>2. KeyLen(m) \in KeyLen(m) - 1 .. KeyLen(m)
    BY <1>2
  <2>3. QED
    BY <2>1, <2>2 DEF Removed, Left
<1>7. QED
  BY <1>3, <1>5, <1>6 DEF pos

\* A remove of j from the inner node m of a search tree goes on below: it takes
\* jj from the child at pos and puts what that leaves into moved.
GoesDown(m, j, h, pos, moved, jj) ==
    /\ pos \in 0 .. KeyLen(m) /\ jj \in Nat \ {0}
    /\ moved \in Node(Low) /\ KeyLen(moved) = KeyLen(m) /\ moved.child = m.child
    /\ pos = KeyLen(m) => moved = m
    /\ Without(m, moved, pos, jj, j, h)
    /\ m.child[pos] \in Sound(M - 1)[h] \cap Low /\ m.child[pos] # NULL
    /\ KeyLen(m.child[pos]) \in 1 .. M - 1

\* The remove of j from m does so.
Descends(f, m, j, h) ==
    \E pos, moved, jj :
        /\ GoesDown(m, j, h, pos, moved, jj)
        /\ f[m][j] = RemoveAbove(m, moved, pos, f[m.child[pos]][jj])

LEMMA FromGoesDown ==
  ASSUME NEW f, Removes(f), NEW g \in Nat \ {0}, NEW m \in Sound(M - 1)[g + 1],
         KeyLen(m) \in 1 .. M - 1, NEW j \in Nat \ {0}
  PROVE  Descends(f, m, j, g)
<1> DEFINE hi == M - 1
<1>1. PICK h \in Nat : g = h + 1
  <2>1. g - 1 \in Nat /\ g = (g - 1) + 1
    OBVIOUS
  <2>2. QED
    BY <2>1
<1>2. \A n \in Trees : \A i \in Nat : f[n][i] = From(n, i, f)
  <2>1. MaxHeight \in 0 .. MaxHeight
    BY BoundsAssumption
  <2>2. QED
    BY <2>1 DEF Removes, Trees
<1> DEFINE len == KeyLen(m)
           pos == FindPos(m, j)
           D == Sound(hi)[g]
           C == Kids(D, hi)
           c == m.child[pos]
           b == FindBiggest(c)
<1>3. /\ m \in Trees /\ m # NULL /\ WellMade(m, len, C) /\ Packed(m, len) /\ Hung(m, len, C)
      /\ M \in Nat /\ len \in 1 .. M - 1 /\ len \in 0 .. M
  <2>1. m \in Trees /\ m # NULL /\ WellMade(m, len, C)
    BY SoundNode
  <2>2. M \in Nat /\ len \in 1 .. M - 1 /\ len \in 0 .. M
    BY MAssumption
  <2>3. QED
    BY <2>1, <2>2 DEF WellMade
<1>4. /\ Uniform(C) /\ C \subseteq D /\ D \subseteq Trees /\ NULL \notin D /\ NULL \notin C
      /\ Uniform(D)
  BY <1>1, KidsUniform DEF Uniform
<1> HIDE DEF C, D
<1>5. /\ pos \in 0 .. len
      /\ Key(m, pos) = j => pos \in Slots /\ pos < len /\ m.key[pos] = j
      /\ Key(m, pos) # j => Between(m, len, pos, j)
  BY <1>3, PositionOf
<1> HIDE DEF len
<1>6. /\ ~IsLeaf(m) /\ Child(m, pos) = c /\ pos \in Links /\ pos <= len
      /\ m.child = [i \in Links |-> m.child[i]] /\ m \in Node(Low)
  <2>1. pos \in Links /\ pos <= len
    BY <1>3, <1>5 DEF Links
  <2>2. C # {NULL}
    BY <1>4
  <2>3. ~IsLeaf(m) /\ Child(m, pos) = c
    <3>1. len \in 0 .. M /\ Hung(m, len, C) /\ Uniform(C)
      BY <1>3, <1>4
    <3>2. IsLeaf(m) <=> C = {NULL}
      BY <3>1, HungReads
    <3>3. \A i \in Links : Child(m, i) = m.child[i]
      BY <3>1, HungReads
    <3> HIDE DEF pos
    <3>4. QED
      BY <2>1, <2>2, <3>2, <3>3
  <2>4. m \in Node(Low)
    BY <1>3, TreesAre
  <2>5. QED
    BY <2>1, <2>3, <2>4 DEF Node
<1>7. c \in C /\ c \in D /\ c # NULL /\ c \in Low /\ KeyLen(c) \in 1 .. hi
  <2>1. c \in C
    BY <1>3, <1>6 DEF Hung
  <2>2. c \in Low
    BY <1>6 DEF Node
  <2>3. KeyLen(c) \in Half .. hi
    BY <1>4, <2>1 DEF C, Kids
  <2>4. KeyLen(c) \in 1 .. hi
    BY <1>3, <2>3, Halves
  <2>5. QED
    BY <1>4, <2>1, <2>2, <2>4
<1> HIDE DEF c, pos
<1>8. IsBiggest(b, c)
  <2>1. c \in Sound(hi)[h + 1] /\ 1 <= KeyLen(c)
    BY <1>1, <1>3, <1>7 DEF D
  <2>2. QED
    BY <2>1, BiggestSound
<1>9. b \in Nat \ {0} /\ b # NULL
  BY <1>8, NullAssumption DEF IsBiggest
<1> HIDE DEF b
<1>10. WellMade(m, len, D)
  BY <1>3, <1>4 DEF WellMade, Hung
<1>11. CASE Key(m, pos) # j
  <2>1. f[m][j] = RemoveAbove(m, m, pos, f[c][j])
    <3>1. f[m][j] = From(m, j, f)
      BY <1>2, <1>3
    <3>2. From(m, j, f) = RemoveAbove(m, m, pos, f[c][j])
      BY <1>3, <1>6, <1>11, Zenon DEF From, pos
    <3>3. QED
      BY <3>1, <3>2
  <2>2. Without(m, m, pos, j, j, g)
    <3>1. SUFFICES ASSUME NEW x \in D, NEW t \in Trees, KeysOf(x) = KeysOf(c) \ {j}, t # NULL,
                          t = SetChild(m, pos, x)
                   PROVE  WellMade(t, len, D) /\ KeysOf(t) = KeysOf(m) \ {j}
      BY DEF Without, D, c, len
    <3>2. Between(m, len, pos, j)
      BY <1>5, <1>11
    <3>3. KeysOf(x) = KeysOf(m.child[pos]) \ {j}
      BY <3>1 DEF c
    <3>4. QED
      BY <1>3, <1>4, <1>5, <1>10, <3>1, <3>2, <3>3, ChildLosesKey
  <2>3. GoesDown(m, j, g, pos, m, j)
    BY <1>3, <1>5, <1>6, <1>7, <2>2 DEF GoesDown, len, c, D
  <2>4. QED
    BY <2>1, <2>3 DEF c, Descends
<1>12. CASE Key(m, pos) = j
  <2> DEFINE moved == SetKey(m, pos, b)
  <2>1. f[m][j] = RemoveAbove(m, moved, pos, f[c][b])
    <3>1. f[m][j] = From(m, j, f)
      BY <1>2, <1>3
    <3>2. From(m, j, f) = RemoveAbove(m, moved, pos, f[c][b])
      BY <1>3, <1>6, <1>9, <1>12, Zenon DEF From, pos, b
    <3>3. QED
      BY <3>1, <3>2
  <2>2. /\ moved \in Node(Low) /\ moved.child = m.child /\ pos \in 0 .. len - 1
        /\ \A i \in Slots : moved.key[i] = IF i = pos THEN b ELSE m.key[i]
    <3>1. pos \in 0 .. len - 1
      BY <1>3, <1>5, <1>12
    <3>2. moved \in Node(Low)
      BY <1>6, <1>9, SettersTyped
    <3>3. moved.child = m.child /\ \A i \in Slots : moved.key[i] = IF i = pos THEN b ELSE m.key[i]
      BY <1>5, <1>6, <1>12 DEF SetKey, Node
    <3>4. QED
      BY <3>1, <3>2, <3>3
  <2> HIDE DEF moved
  <2>3. KeyLen(moved) = len
    <3>1. \A i \in Slots : (i < len => m.key[i] # 0) /\ (len <= i => m.key[i] = 0)
      BY <1>3 DEF Packed
    <3>2. \A i \in 0 .. len - 1 : i \in Slots /\ i < len
      BY <1>3 DEF Slots
    <3>3. len < M => len \in Slots /\ len # pos /\ len <= len
      BY <1>3, <2>2 DEF Slots
    <3>4. KeysEndAt(moved, len)
      BY <1>3, <1>9, <2>2, <3>1, <3>2, <3>3 DEF KeysEndAt
    <3>5. QED
      BY <3>4, KeyLenIs
  <2>4. Without(m, moved, pos, b, j, g)
    <3>1. SUFFICES ASSUME NEW x \in D, NEW t \in Trees, KeysOf(x) = KeysOf(c) \ {b}, t # NULL,
                          t = SetChild(moved, pos, x)
                   PROVE  WellMade(t, len, D) /\ KeysOf(t) = KeysOf(m) \ {j}
      BY DEF Without, D, c, len
    <3>2. t = SetChild(SetKey(m, pos, b), pos, x)
      BY <3>1 DEF moved
    <3>3. KeysOf(x) = KeysOf(m.child[pos]) \ {b} /\ IsBiggest(b, m.child[pos])
      BY <1>8, <3>1 DEF c
    <3>4. WellMade(t, len, D) /\ KeysOf(t) = KeysOf(m) \ {m.key[pos]}
      BY <1>3, <1>4, <1>10, <2>2, <3>1, <3>2, <3>3, BiggestMovesUp
    <3>5. QED
      BY <1>5, <1>12, <3>4
  <2>5. GoesDown(m, j, g, pos, moved, b)
    BY <1>3, <1>7, <1>9, <2>2, <2>3, <2>4 DEF GoesDown, len, c, D
  <2>6. QED
    BY <2>1, <2>5 DEF c, Descends
<1>13. QED
  BY <1>11, <1>12

\* What the recursive remove makes of a search tree.
LEMMA RemoveSound ==
  ASSUME NEW f, Removes(f)
  PROVE  \A h \in Nat : \A m \in Sound(M - 1)[h + 1] : KeyLen(m) \in 1 .. M - 1 =>
           \A j \in Nat \ {0} : Removed(f[m][j], m, j, h + 1)
<1> DEFINE hi == M - 1
           T == {h \in Nat : \A m \in Sound(hi)[h + 1] : KeyLen(m) \in 1 .. hi =>
                   \A j \in Nat \ {0} : Removed(f[m][j], m, j, h + 1)}
<1>1. \A m \in Trees : \A j \in Nat : f[m][j] = From(m, j, f)
  <2>1. MaxHeight \in 0 .. MaxHeight
    BY BoundsAssumption
  <2>2. QED
    BY <2>1 DEF Removes, Trees
<1>2. \A c \in Low : \A j \in Nat : f[c][j] \in Lefts(Low) /\ (c # NULL => f[c][j].node # NULL)
  <2>1. MaxHeight - 1 \in 0 .. MaxHeight
    BY BoundsAssumption
  <2>2. QED
    BY <2>1 DEF Removes, Low
<1>3. 0 \in T
  <2>1. SUFFICES ASSUME NEW m \in Sound(hi)[0 + 1], KeyLen(m) \in 1 .. hi, NEW j \in Nat \ {0}
                 PROVE  Removed(f[m][j], m, j, 0 + 1)
    OBVIOUS
  <2>2. m \in Trees /\ m # NULL
    <3>1. 0 \in Nat
      OBVIOUS
    <3>2. QED
      BY <3>1, SoundNode
  <2>3. 0 + 1 = 1
    OBVIOUS
  <2>4. /\ IsLeaf(m)
        /\ Key(m, FindPos(m, j)) = j =>
             Removed(Settle(Left(LeafLeftShift(m, FindPos(m, j)), "enough")), m, j, 1)
        /\ Key(m, FindPos(m, j)) # j => Removed(Left(m, "failed"), m, j, 1)
    BY <2>1, <2>3, RemoveLeafSound
  <2>5. f[m][j] = IF Key(m, FindPos(m, j)) = j
                  THEN Settle(Left(LeafLeftShift(m, FindPos(m, j)), "enough")) ELSE Left(m, "failed")
    BY <1>1, <2>2, <2>4 DEF From
  <2>6. QED
    BY <2>3, <2>4, <2>5
<1>4. ASSUME NEW h \in Nat, h \in T PROVE h + 1 \in T
  <2>1. PICK g \in Nat \ {0} : g = h + 1
    OBVIOUS
  <2>2. SUFFICES ASSUME NEW m \in Sound(hi)[g + 1], KeyLen(m) \in 1 .. hi, NEW j \in Nat \ {0}
                 PROVE  Removed(f[m][j], m, j, g + 1)
    BY <2>1
  <2>3. \A c \in Sound(hi)[g] : KeyLen(c) \in 1 .. hi =>
          \A i \in Nat \ {0} : Removed(f[c][i], c, i, g)
    BY <1>4, <2>1
  <2>4. PICK pos, moved, jj :
           /\ GoesDown(m, j, g, pos, moved, jj)
           /\ f[m][j] = RemoveAbove(m, moved, pos, f[m.child[pos]][jj])
    <3>1. Removes(f) /\ M - 1 = hi
      OBVIOUS
    <3>2. m \in Sound(M - 1)[g + 1] /\ KeyLen(m) \in 1 .. M - 1
      BY <2>2
    <3> HIDE DEF hi, T
    <3>3. Descends(f, m, j, g)
      BY <2>2, <3>1, <3>2, FromGoesDown
    <3>4. QED
      BY <3>3 DEF Descends
  <2>5. PICK sub : sub = f[m.child[pos]][jj]
    OBVIOUS
  <2>6. sub \in Lefts(Low) /\ sub.node # NULL /\ Removed(sub, m.child[pos], jj, g)
    BY <1>2, <2>3, <2>4, <2>5 DEF GoesDown
  <2>7. Removed(RemoveAbove(m, moved, pos, sub), m, j, g + 1)
    BY <2>2, <2>4, <2>6, RemoveAboveSound DEF GoesDown
  <2>8. QED
    BY <2>4, <2>5, <2>7
<1>5. \A h \in Nat : h \in T
  <2> HIDE DEF T
  <2>1. QED
    BY <1>3, <1>4, Induction
<1>6. QED
  BY <1>5

-----------------------------------------------------------------------------
(* The root *)

\* A root left without keys gives way to what hangs below it; no key is lost.
LEMMA ShrunkKeeps ==
  ASSUME NEW h \in Nat, NEW n \in Sound(M - 1)[h + 1], KeyLen(n) <= M - 1
  PROVE  GoodRoot(M - 1, Shrunk(n)) /\ KeysOf(Shrunk(n)) = KeysOf(n)
<1> DEFINE len == KeyLen(n)
           C == Kids(Sound(M - 1)[h], M - 1)
<1>1. /\ n \in Trees /\ n # NULL /\ len \in 0 .. M /\ M \in Nat
      /\ Packed(n, len) /\ Hung(n, len, C) /\ Uniform(C)
  BY SoundNode, KidsUniform, MAssumption DEF WellMade
<1>2. CASE len # 0
  <2>1. Shrunk(n) = n
    BY <1>2 DEF Shrunk
  <2>2. len \in 1 .. M - 1
    BY <1>1, <1>2
  <2>3. QED
    BY <2>1, <2>2 DEF GoodRoot
<1>3. CASE len = 0
  <2>1. \A x : x \in KeysOf(n) <=> x \in KeysOf(n.child[0])
    <3> HIDE DEF len, C
    <3>1. \A x : x \in KeysOf(n) <=> \/ \E i \in Slots : i < len /\ x = n.key[i]
                                     \/ \E i \in Links : i <= len /\ x \in KeysOf(n.child[i])
      BY <1>1, KeysOfNode
    <3>2. \A i \in Slots : ~(i < 0)
      BY DEF Slots
    <3>3. \A i \in Links : i <= 0 <=> i = 0
      BY <1>1 DEF Links
    <3>4. 0 \in Links
      BY <1>1 DEF Links
    <3>5. QED
      BY <1>3, <3>1, <3>2, <3>3, <3>4
  <2>2. KeysOf(n) = KeysOf(n.child[0])
    <3>1. n.child[0] \in Trees
      <4>1. n \in Node(Trees) /\ 0 \in Links
        BY <1>1, SoundNode DEF Links
      <4>2. QED
        BY <4>1 DEF Node
    <3>2. KeysOf(n) \subseteq Nat /\ KeysOf(n.child[0]) \subseteq Nat
      BY <1>1, <3>1, KeysOfIs
    <3>3. QED
      BY <2>1, <3>2
  <2>3. CASE C = {NULL}
    <3>1. ChildLen(n) = 0 /\ n.child[0] = NULL
      <4> HIDE DEF len, C
      <4>1. ChildLen(n) = 0
        BY <1>1, <2>3, HungReads
      <4>2. 0 \in Links /\ 0 <= len
        BY <1>1 DEF Links
      <4>3. QED
        BY <1>1, <2>3, <4>1, <4>2 DEF Hung
    <3>2. Shrunk(n) = NULL
      BY <1>3, <3>1 DEF Shrunk
    <3>3. QED
      BY <2>2, <3>1, <3>2 DEF GoodRoot
  <2>4. CASE C # {NULL}
    <3> DEFINE c == n.child[0]
    <3>1. ChildLen(n) = 1 /\ Child(n, 0) = c /\ c \in C
      <4> HIDE DEF len, C
      <4>1. len \in 0 .. M /\ Hung(n, len, C) /\ Uniform(C)
        BY <1>1
      <4>2. ChildLen(n) = len + 1
        BY <2>4, <4>1, HungReads
      <4>3. 0 \in Links /\ 0 <= len
        BY <1>1 DEF Links
      <4>4. \A i \in Links : Child(n, i) = n.child[i]
        BY <4>1, HungReads
      <4>5. QED
        BY <1>3, <4>1, <4>2, <4>3, <4>4 DEF Hung
    <3>2. Shrunk(n) = c
      BY <1>3, <3>1 DEF Shrunk
    <3>3. h # 0 /\ NULL \notin C /\ C \subseteq Sound(M - 1)[h]
      BY <2>4, KidsUniform
    <3>4. PICK g \in Nat : h = g + 1
      <4>1. h - 1 \in Nat /\ h = (h - 1) + 1
        BY <3>3
      <4>2. QED
        BY <4>1
    <3>5. KeyLen(c) \in Half .. M - 1
      BY <3>1, <3>3 DEF Kids
    <3> HIDE DEF C, c
    <3>6. c \in Sound(M - 1)[g + 1] /\ KeyLen(c) \in 1 .. M - 1
      BY <3>1, <3>3, <3>4, <3>5, Halves
    <3>7. QED
      BY <2>2, <3>2, <3>6 DEF GoodRoot, c
  <2>5. QED
    BY <2>3, <2>4
<1>4. QED
  BY <1>2, <1>3

\* A remove from a search tree always returns, and unless it rotated it leaves
\* the search tree of the other keys.
LEMMA RemoveFromSound ==
  ASSUME NEW r, r # NULL, GoodRoot(M - 1, r), NEW k \in Nat \ {0}
  PROVE  /\ RemoveFrom(r, k).rtval # "oops"
         /\ RemoveFrom(r, k).rotates \in BOOLEAN
         /\ \/ RemoveFrom(r, k).rotates
            \/ /\ GoodRoot(M - 1, Shrunk(RemoveFrom(r, k).node))
               /\ KeysOf(Shrunk(RemoveFrom(r, k).node)) = KeysOf(r) \ {k}
<1>1. PICK f : Removes(f)
  BY RemoveFromIs
<1>2. PICK h \in Nat : r \in Sound(M - 1)[h + 1] /\ KeyLen(r) \in 1 .. M - 1
  BY DEF GoodRoot
<1>3. r \in Trees
  BY <1>2, SoundNode
<1>4. PICK a : a = f[r][k]
  OBVIOUS
<1>5. Removed(a, r, k, h + 1)
  <2>1. Removed(f[r][k], r, k, h + 1)
    BY <1>1, <1>2, RemoveSound
  <2>2. QED
    BY <1>4, <2>1
<1>6. a \in Lefts(Trees)
  <2>1. MaxHeight \in 0 .. MaxHeight
    BY BoundsAssumption
  <2>2. QED
    BY <1>1, <1>3, <1>4, <2>1 DEF Removes, Trees
<1>7. RemoveFrom(r, k) = a
  BY <1>1, <1>3, <1>4 DEF Removes
<1>8. a.rtval # "oops" /\ a.rotates \in BOOLEAN
  BY <1>5, <1>6 DEF Removed, Lefts
<1>9. ASSUME ~a.rotates
      PROVE  GoodRoot(M - 1, Shrunk(a.node)) /\ KeysOf(Shrunk(a.node)) = KeysOf(r) \ {k}
  <2>1. /\ a.node \in Sound(M - 1)[h + 1] /\ KeysOf(a.node) = KeysOf(r) \ {k}
        /\ KeyLen(a.node) \in KeyLen(r) - 1 .. KeyLen(r)
    BY <1>5, <1>9 DEF Removed
  <2>2. KeyLen(a.node) <= M - 1
    BY <1>2, <2>1, MAssumption
  <2>3. QED
    BY <2>1, <2>2, ShrunkKeeps
<1>10. QED
  BY <1>7, <1>8, <1>9

-----------------------------------------------------------------------------
(* Trees that keys are removed from *)

\* The inductive invariant: up to the first rotation a search tree whose nodes
\* are well filled.
Settled == rotated = TRUE \/ Growing(M - 1)

\* What a step does to the keys of a tree that no rotation changed.
RemovingStep ==
    \/ KeysStep(M - 1)
    \/ root' = root /\ \E k \in {0} \cup (IF root = NULL THEN Keys ELSE {}) : last' = <<"remove", k>>
    \/ \E k \in Keys : last' = <<"remove", k>> /\ KeysOf(root') = KeysOf(root) \ {k}

LEMMA GrowingRemove ==
  ASSUME Growing(M - 1), NEW k \in Keys, Remove(k)
  PROVE  rotated' = TRUE \/ (Growing(M - 1)' /\ RemovingStep)
<1>1. k \in Nat \ {0} /\ GoodRoot(M - 1, root) /\ root # NULL
  BY KeysAssumption DEF Growing, Remove
<1>2. PICK a : a = RemoveFrom(root, k)
  OBVIOUS
<1>3. /\ a.rtval # "oops" /\ a.rotates \in BOOLEAN
      /\ a.rotates \/ (GoodRoot(M - 1, Shrunk(a.node)) /\ KeysOf(Shrunk(a.node)) = KeysOf(root) \ {k})
  BY <1>1, <1>2, RemoveFromSound
<1>4. /\ root' = Shrunk(a.node) /\ rotated' = (rotated \/ a.rotates)
      /\ last' = <<"remove", k>> /\ head' = head
  BY <1>2, <1>3 DEF Remove
<1>5. CASE a.rotates
  BY <1>4, <1>5
<1>6. CASE ~a.rotates
  <2>1. GoodRoot(M - 1, root') /\ KeysOf(root') = KeysOf(root) \ {k}
    BY <1>3, <1>4, <1>6
  <2>2. RemovingStep
    BY <1>4, <2>1 DEF RemovingStep
  <2>3. head = "ready" /\ head' = "ready"
    BY <1>1, <1>4 DEF Growing
  <2>4. rotated' = FALSE
    BY <1>4, <1>6 DEF Growing
  <2>5. KeysOf(root') \subseteq Keys
    BY <2>1 DEF Growing
  <2>6. Growing(M - 1)'
    BY <2>1, <2>3, <2>4, <2>5 DEF Growing
  <2>7. QED
    BY <2>2, <2>6
<1>7. QED
  BY <1>5, <1>6

LEMMA SettledNext ==
  ASSUME Settled, [NextRemoving]_vars
  PROVE  /\ Settled'
         /\ \/ rotated' = TRUE
            \/ root' = NULL /\ last' = <<"new", 0>>
            \/ Growing(M - 1) /\ RemovingStep
<1>1. SUFFICES \/ rotated' = TRUE
               \/ Growing(M - 1)' /\ root' = NULL /\ last' = <<"new", 0>>
               \/ Growing(M - 1)' /\ Growing(M - 1) /\ RemovingStep
  BY DEF Settled
<1>2. CASE rotated = TRUE
  <2>1. CASE HeadAlloc
    <3>1. KeysOf(NULL) = {} /\ GoodRoot(M - 1, NULL)
      BY KeysOfIs DEF GoodRoot
    <3>2. root' = NULL /\ head' = "fresh" /\ rotated' = FALSE /\ last' = <<"new", 0>>
      BY <2>1 DEF HeadAlloc
    <3>3. Growing(M - 1)'
      BY <3>1, <3>2 DEF Growing
    <3>4. QED
      BY <3>2, <3>3
  <2>2. CASE InitHead \/ InsertKeyZero \/ Destroy
    BY <1>2, <2>2 DEF InitHead, InsertKeyZero, Returns, Destroy
  <2>3. ASSUME NEW k \in Keys, InsertNoMempool(k) \/ InsertNoRoot(k) PROVE rotated' = TRUE
    BY <1>2, <2>3 DEF InsertNoMempool, InsertNoRoot, Returns
  <2>4. ASSUME NEW k \in Keys, Insert(k) PROVE rotated' = TRUE
    BY <1>2, <2>4, Zenon DEF Insert, InsertWith, Oops, Returns
  <2>5. ASSUME NEW k \in Keys \cup {0}, RemoveRefused(k) PROVE rotated' = TRUE
    BY <1>2, <2>5 DEF RemoveRefused, Returns
  <2>6. ASSUME NEW k \in Keys, Remove(k) PROVE rotated' = TRUE
    BY <1>2, <2>6, Zenon DEF Remove, Oops, Returns
  <2>7. CASE UNCHANGED vars
    BY <1>2, <2>7 DEF vars
  <2>8. QED
    BY <2>1, <2>2, <2>3, <2>4, <2>5, <2>6, <2>7 DEF NextRemoving, NextInsertOnly
<1>3. CASE Growing(M - 1)
  <2>1. CASE [NextInsertOnly]_vars
    <3>1. M - 1 \in {M - 1, M}
      OBVIOUS
    <3>2. QED
      BY <1>3, <2>1, <3>1, GrowingNext DEF RemovingStep
  <2>2. ASSUME NEW k \in Keys \cup {0}, RemoveRefused(k) PROVE Growing(M - 1)' /\ RemovingStep
    <3>1. /\ root' = root /\ last' = <<"remove", k>> /\ rotated' = rotated /\ head' = head
          /\ k = 0 \/ root = NULL
      BY <2>2 DEF RemoveRefused, Returns
    <3>2. QED
      BY <1>3, <3>1 DEF Growing, RemovingStep
  <2>3. ASSUME NEW k \in Keys, Remove(k) PROVE rotated' = TRUE \/ (Growing(M - 1)' /\ RemovingStep)
    BY <1>3, <2>3, GrowingRemove
  <2>4. QED
    BY <1>3, <2>1, <2>2, <2>3 DEF NextRemoving
<1>4. QED
  BY <1>2, <1>3 DEF Settled

LEMMA AlwaysSettled == SpecRemoving => []Settled
<1>1. Init => Settled
  BY GrowingInit DEF Settled
<1>2. Settled /\ [NextRemoving]_vars => Settled'
  BY SettledNext
<1>3. QED
  BY <1>1, <1>2, PTL DEF SpecRemoving

\* Up to the first rotation, inserts and removes in any order, with all their
\* splits, merges and shrinking roots, leave the root between 1 and M-1 keys and
\* every other node between (M-1)/2 and M-1.
THEOREM RemovalKeepsNodesFilled == SpecRemoving => []Occupancy
<1>1. Settled => Occupancy
  <2>1. rotated = TRUE => Occupancy
    BY DEF Occupancy
  <2>2. Growing(M - 1) => Occupancy
    BY SoundOccupancy DEF Growing
  <2>3. QED
    BY <2>1, <2>2 DEF Settled
<1>2. QED
  BY <1>1, AlwaysSettled, PTL

\* Up to the first rotation all leaves stay equally deep and every inner node
\* keeps one child more than keys.
THEOREM RemovalKeepsShape == SpecRemoving => []Balanced
<1>1. Settled => Balanced
  <2>1. rotated = TRUE => Balanced
    BY DEF Balanced
  <2>2. Growing(M - 1) => Balanced
    BY GoodRootBalanced DEF Growing
  <2>3. QED
    BY <2>1, <2>2 DEF Settled
<1>2. QED
  BY <1>1, AlwaysSettled, PTL

\* Up to the first rotation readdir's traversal gives each stored key once, in
\* rising order, and no other one.
THEOREM RemovalKeepsTraversal == SpecRemoving => []TraversalIsStored
<1>1. Settled => TraversalIsStored
  <2>1. rotated = TRUE => TraversalIsStored
    BY DEF TraversalIsStored
  <2>2. Growing(M - 1) => TraversalIsStored
    BY GoodRootTraversed DEF Growing
  <2>3. QED
    BY <2>1, <2>2 DEF Settled
<1>2. QED
  BY <1>1, AlwaysSettled, PTL

\* Up to the first rotation no call, on the way down or when it looks at the
\* siblings of a child short of keys, follows a null pointer.
THEOREM RemovesReturn == SpecRemoving => []CallsReturn
<1>1. Settled => CallsReturn
  BY DEF Settled, Growing, CallsReturn
<1>2. QED
  BY <1>1, AlwaysSettled, PTL

\* Every call before the first rotation does to the lookups what the set of keys
\* promises: a remove takes away its key and no other one.
THEOREM TreeIsKeySet == SpecRemoving => ImplementsKeySet
<1>1. \A r : GoodRoot(M - 1, r) =>
        {k \in Keys : Lookup(r, k) = k} = Keys \cap KeysOf(r)
  BY GoodRootFinds
<1>2. Init => KS!Init
  <2>1. SUFFICES ASSUME Init PROVE KS!Init
    OBVIOUS
  <2>2. GoodRoot(M - 1, root) /\ KeysOf(root) = {}
    BY <2>1, KeysOfIs DEF Init, GoodRoot
  <2>3. Stored = {}
    BY <1>1, <2>2 DEF Stored
  <2>4. QED
    BY <2>1, <2>3 DEF Init, KS!Init
<1>3. Settled /\ Settled' /\ [NextRemoving]_vars => [rotated' \/ KS!Next]_vars
  <2>1. SUFFICES ASSUME Settled, [NextRemoving]_vars, rotated' # TRUE
                 PROVE  KS!Next \/ UNCHANGED vars
    OBVIOUS
  <2>2. Growing(M - 1)'
    BY <2>1, SettledNext DEF Settled
  <2>3. Stored' = KeysOf(root')
    BY <1>1, <2>2 DEF Growing, Stored
  <2>4. \/ root' = NULL /\ last' = <<"new", 0>>
        \/ Growing(M - 1) /\ RemovingStep
    BY <2>1, SettledNext
  <2>5. CASE root' = NULL /\ last' \in {<<"new", 0>>, <<"destroy", 0>>}
    <3>1. Stored' = {}
      BY <2>3, <2>5, KeysOfIs
    <3>2. QED
      BY <2>5, <3>1 DEF KS!Next, KS!New, KS!Clear
  <2>6. CASE Growing(M - 1) /\ RemovingStep
    <3>1. Stored = KeysOf(root)
      BY <1>1, <2>6 DEF Growing, Stored
    <3>2. ASSUME root' = root PROVE Stored' = Stored
      BY <2>3, <3>1, <3>2
    <3>3. CASE root' = root /\ (\/ last' = <<"insert", 0>>
                                \/ \E k \in Keys : last' = <<"nomem", k>>)
      BY <3>2, <3>3 DEF KS!Next, KS!Refuse
    <3>4. ASSUME NEW k \in Keys, last' = <<"insert", k>>,
                 M - 1 < M => KeysOf(root') = KeysOf(root) \cup {k}
          PROVE  KS!Next
      <4>1. M - 1 < M
        BY MAssumption
      <4>2. Stored' = Stored \cup {k}
        BY <2>3, <3>1, <3>4, <4>1
      <4>3. QED
        BY <3>4, <4>2 DEF KS!Next, KS!Insert
    <3>5. CASE root' = root /\ last' = <<"remove", 0>>
      BY <3>2, <3>5 DEF KS!Next, KS!Refuse
    <3>6. ASSUME NEW k \in Keys, last' = <<"remove", k>>,
                 \/ root' = root /\ root = NULL
                 \/ KeysOf(root') = KeysOf(root) \ {k}
          PROVE  KS!Next
      <4>1. Stored' = Stored \ {k}
        BY <2>3, <3>1, <3>6, KeysOfIs
      <4>2. QED
        BY <3>6, <4>1 DEF KS!Next, KS!Remove
    <3>7. CASE KeysStep(M - 1)
      BY <2>5, <3>3, <3>4, <3>7 DEF KeysStep
    <3>8. QED
      BY <2>6, <3>5, <3>6, <3>7 DEF RemovingStep
  <2>7. QED
    BY <2>4, <2>5, <2>6
<1>4. QED
  BY <1>2, <1>3, AlwaysSettled, PTL DEF SpecRemoving, ImplementsKeySet
=============================================================================
