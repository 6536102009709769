--------------------------- MODULE BtreeWeightProofs ---------------------------
(***************************************************************************)
(* That no node of the B-tree of btree/btree.c is given back while it is   *)
(* linked, and that the types hold, whatever the callers do: rotations,    *)
(* damaged nodes and failed allocations included.  And that up to the      *)
(* first rotation no node is lost.                                         *)
(***************************************************************************)
EXTENDS BtreeRemoveProofs

-----------------------------------------------------------------------------
(* The weight of a tree: its nodes, those behind stale pointers included *)

\* The weights of the trees that n points at when f gives those of the trees.
LoadOf(n, f) == [i \in Nat |-> IF i \in Links THEN f[n.child[i]] ELSE 0]

Weight(n) ==
    LET weight[m \in Trees] == IF m = NULL THEN 0 ELSE 1 + Total(LoadOf(m, weight), M + 1)
    IN  weight[n]

Load(n) == [i \in Nat |-> IF i \in Links THEN Weight(n.child[i]) ELSE 0]

\* The weight below n.
Sum(n) == Total(Load(n), M + 1)

LEMMA WeightIs ==
  /\ Weight(NULL) = 0
  /\ \A n \in Trees : Weight(n) \in Nat
  /\ \A n \in Trees : n # NULL => Weight(n) = 1 + Sum(n)
<1> DEFINE E(m, f) == IF m = NULL THEN 0 ELSE 1 + Total(LoadOf(m, f), M + 1)
           F(f) == [m \in Trees |-> E(m, f)]
           step == [p \in Trees \X [Trees -> Nat] |-> E(p[1], p[2])]
           weight == CHOOSE f : f = F(f)
<1>1. \A n \in Trees : Weight(n) = weight[n]
  BY Zenon DEF Weight
<1>2. M + 1 \in Nat /\ NULL \in Trees
  BY MAssumption, TreesAre
<1>3. ASSUME NEW n \in Trees, n # NULL, NEW f, \A c \in Trees : f[c] \in Nat
      PROVE  LoadOf(n, f) \in [Nat -> Nat]
  <2>1. \A i \in Links : n.child[i] \in Trees
    BY <1>3, ChildBelow DEF Below
  <2>2. QED
    BY <1>3, <2>1 DEF LoadOf
<1>4. ASSUME NEW n \in Trees, NEW f, \A c \in Trees : f[c] \in Nat
      PROVE  E(n, f) \in Nat
  <2>1. CASE n = NULL
    BY <2>1
  <2>2. CASE n # NULL
    <3>1. Total(LoadOf(n, f), M + 1) \in Nat
      BY <1>2, <1>3, <1>4, <2>2, TotalIs
    <3>2. QED
      BY <2>2, <3>1
  <2>3. QED
    BY <2>1, <2>2
<1>5. step \in [Trees \X [Trees -> Nat] -> Nat]
  <2>1. \A p \in Trees \X [Trees -> Nat] :
          p[1] \in Trees /\ p[2] \in [Trees -> Nat] /\ \A c \in Trees : p[2][c] \in Nat
    OBVIOUS
  <2> HIDE DEF E
  <2>2. \A p \in Trees \X [Trees -> Nat] : E(p[1], p[2]) \in Nat
    BY <1>4, <2>1
  <2>3. QED
    BY <2>2
<1>6. ASSUME NEW n \in Trees, NEW f \in [Trees -> Nat], NEW g \in [Trees -> Nat],
             \A c \in Below(n) : f[c] = g[c]
      PROVE  step[<<n, f>>] = step[<<n, g>>]
  <2>1. E(n, f) = E(n, g)
    <3>1. CASE n = NULL
      BY <3>1
    <3>2. CASE n # NULL
      <4>1. \A i \in Links : f[n.child[i]] = g[n.child[i]]
        BY <1>6, <3>2 DEF Below
      <4>2. LoadOf(n, f) = LoadOf(n, g)
        BY <4>1 DEF LoadOf
      <4>3. QED
        BY <4>2
    <3>3. QED
      BY <3>1, <3>2
  <2> HIDE DEF E
  <2>2. QED
    BY <2>1
<1>7. PICK f : TreeSolves(f, Nat, step)
  <2>1. 0 \in Nat
    OBVIOUS
  <2> HIDE DEF step
  <2>2. QED
    BY <1>5, <1>6, <2>1, TreeRecursion
<1>8. f = F(f)
  <2> HIDE DEF E
  <2>1. f \in [Trees -> Nat] /\ \A n \in Trees : f[n] = E(n, f)
    BY <1>7 DEF TreeSolves
  <2>2. QED
    BY <2>1
<1>9. weight = F(weight)
  <2> HIDE DEF F
  <2>1. QED
    BY <1>8
<1>10. \A n \in Trees : weight[n] = E(n, weight)
  <2> HIDE DEF weight, E
  <2>1. QED
    BY <1>9
<1> HIDE DEF weight
<1>11. Weight(NULL) = 0
  BY <1>1, <1>2, <1>10
<1>12. \A n \in Trees : weight[n] \in Nat
  <2> DEFINE T == {n \in Trees : weight[n] \in Nat}
  <2>1. NULL \in T
    BY <1>2, <1>10
  <2>2. ASSUME NEW n \in Trees, n # NULL, Below(n) \subseteq T PROVE n \in T
    <3>1. \A i \in Links : weight[n.child[i]] \in Nat
      BY <2>2 DEF Below
    <3>2. LoadOf(n, weight) \in [Nat -> Nat]
      BY <3>1 DEF LoadOf
    <3>3. Total(LoadOf(n, weight), M + 1) \in Nat
      BY <1>2, <3>2, TotalIs
    <3>4. QED
      BY <1>10, <2>2, <3>3
  <2> HIDE DEF T
  <2>3. Trees \subseteq T
    BY <2>1, <2>2, TreeInduction
  <2>4. QED
    BY <2>3 DEF T
<1>13. ASSUME NEW n \in Trees, n # NULL PROVE Weight(n) = 1 + Sum(n)
  <2>1. \A i \in Links : n.child[i] \in Trees
    BY <1>13, ChildBelow DEF Below
  <2>2. LoadOf(n, weight) = Load(n)
    BY <1>1, <2>1 DEF LoadOf, Load
  <2>3. QED
    BY <1>1, <1>10, <1>13, <2>2 DEF Sum
<1>14. QED
  BY <1>1, <1>11, <1>12, <1>13

\* What n points at, and what its children are taken for, weighs no more.
LEMMA LoadIs ==
  ASSUME NEW n \in Node(Trees)
  PROVE  /\ Load(n) \in [Nat -> Nat] /\ Sum(n) \in Nat /\ M + 1 \in Nat
         /\ \A i \in Nat : Load(n)[i] = IF i \in Links THEN Weight(n.child[i]) ELSE 0
         /\ \A i : Child(n, i) \in Trees /\ Weight(Child(n, i)) \in Nat
         /\ \A i : i \notin Links => Child(n, i) = NULL
         /\ \A i \in Nat : Weight(Child(n, i)) <= Load(n)[i]
         /\ \A i : Child(n, i) # NULL => /\ i \in Links /\ Child(n, i) = n.child[i]
                                         /\ i \in Nat /\ i < M + 1
<1>1. NULL \in Trees /\ M \in Nat
  BY TreesAre, MAssumption
<1>2. /\ \A i : Child(n, i) \in Trees
      /\ \A i : i \notin Links => Child(n, i) = NULL
      /\ \A i \in Links : Child(n, i) = NULL \/ Child(n, i) = n.child[i]
  BY <1>1, GettersTyped
<1>3. \A i \in Links : n.child[i] \in Trees
  BY DEF Node
<1>4. Load(n) \in [Nat -> Nat] /\ \A i \in Nat : Load(n)[i] = IF i \in Links THEN Weight(n.child[i]) ELSE 0
  BY <1>3, WeightIs DEF Load
<1>5. Sum(n) \in Nat
  BY <1>1, <1>4, TotalIs DEF Sum
<1>6. \A i : Weight(Child(n, i)) \in Nat
  BY <1>2, WeightIs
<1>7. \A i \in Nat : Weight(Child(n, i)) <= Load(n)[i]
  BY <1>2, <1>3, <1>4, WeightIs
<1>8. \A i \in Links : i \in Nat /\ i < M + 1
  BY <1>1 DEF Links
<1>9. QED
  BY <1>1, <1>2, <1>4, <1>5, <1>6, <1>7, <1>8

\* Nodes with the same children, and one with another child at i.
LEMMA SumSame ==
  ASSUME NEW n, NEW m, n.child = m.child
  PROVE  Load(n) = Load(m) /\ Sum(n) = Sum(m)
  BY DEF Load, Sum

LEMMA SumReplaced ==
  ASSUME NEW n \in Node(Trees), NEW t \in Node(Trees), NEW a \in Links,
         \A i \in Links : i # a => t.child[i] = n.child[i]
  PROVE  Sum(t) + Weight(n.child[a]) = Sum(n) + Weight(t.child[a])
<1>1. a \in Nat /\ a < M + 1
  BY MAssumption DEF Links
<1>2. Load(n) \in [Nat -> Nat] /\ Load(t) \in [Nat -> Nat] /\ M + 1 \in Nat
  BY LoadIs
<1>3. ASSUME NEW i \in Nat, i # a PROVE Load(t)[i] = Load(n)[i]
  <2>1. /\ Load(n)[i] = IF i \in Links THEN Weight(n.child[i]) ELSE 0
        /\ Load(t)[i] = IF i \in Links THEN Weight(t.child[i]) ELSE 0
    BY LoadIs
  <2>2. i \in Links => t.child[i] = n.child[i]
    BY <1>3
  <2>3. QED
    BY <2>1, <2>2
<1>4. Load(n)[a] = Weight(n.child[a]) /\ Load(t)[a] = Weight(t.child[a])
  BY <1>1, LoadIs
<1>5. Total(Load(t), M + 1) + Load(n)[a] = Total(Load(n), M + 1) + Load(t)[a]
  BY <1>1, <1>2, <1>3, TotalReplaced
<1>6. QED
  BY <1>4, <1>5 DEF Sum

LEMMA SumSetters ==
  ASSUME NEW n \in Node(Trees)
  PROVE  /\ \A i, k : Sum(SetKey(n, i, k)) = Sum(n) /\ Load(SetKey(n, i, k)) = Load(n)
         /\ \A i \in Links : \A c \in Trees :
              Sum(SetChild(n, i, c)) + Weight(n.child[i]) = Sum(n) + Weight(c)
         /\ \A i : \A c \in Trees : Sum(SetChild(n, i, c)) <= Sum(n) + Weight(c)
<1>1. \A i, k : SetKey(n, i, k).child = n.child
  BY DEF SetKey
<1>2. ASSUME NEW i \in Links, NEW c \in Trees
      PROVE  Sum(SetChild(n, i, c)) + Weight(n.child[i]) = Sum(n) + Weight(c)
  <2>1. PICK t : t = SetChild(n, i, c)
    OBVIOUS
  <2>2. t \in Node(Trees)
    BY <2>1, SettersTyped
  <2>3. t.child[i] = c /\ \A j \in Links : j # i => t.child[j] = n.child[j]
    BY <2>1 DEF SetChild, Node
  <2>4. Sum(t) + Weight(n.child[i]) = Sum(n) + Weight(t.child[i])
    BY <2>2, <2>3, SumReplaced
  <2>5. QED
    BY <2>1, <2>3, <2>4
<1>3. ASSUME NEW i, NEW c \in Trees PROVE Sum(SetChild(n, i, c)) <= Sum(n) + Weight(c)
  <2>1. Sum(n) \in Nat /\ Weight(c) \in Nat
    BY LoadIs, WeightIs
  <2>2. CASE i \notin Links
    <3>1. SetChild(n, i, c) = n
      BY <2>2 DEF SetChild
    <3>2. QED
      BY <2>1, <3>1
  <2>3. CASE i \in Links
    <3>1. n.child[i] \in Trees
      BY <2>3 DEF Node
    <3>2. Weight(n.child[i]) \in Nat
      BY <3>1, WeightIs
    <3>3. Sum(SetChild(n, i, c)) \in Nat
      BY SettersTyped, LoadIs
    <3>4. QED
      BY <1>2, <2>1, <2>3, <3>2, <3>3
  <2>4. QED
    BY <2>2, <2>3
<1>4. QED
  BY <1>1, <1>2, <1>3, SumSame

-----------------------------------------------------------------------------
(* An insert adds no more weight than it allocates *)

LEMMA SumRightShift ==
  ASSUME NEW n \in Node(Trees), NEW index \in Nat, NEW k \in Nat, NEW c \in Trees
  PROVE  Sum(RightShift(n, index, k, c)) <= Sum(n) + Weight(c)
<1> DEFINE len == KeyLen(n)
           t == RightShift(n, index, k, c)
           a == index + 1
           u == [Load(t) EXCEPT ![a] = 0]
           p == [i \in Nat |-> IF i \in index + 2 .. len + 1 THEN i - 1 ELSE i]
<1>1. Sum(n) \in Nat /\ Weight(c) \in Nat /\ M \in Nat
  BY LoadIs, WeightIs, MAssumption
<1>2. CASE k = 0 \/ index \notin 0 .. len - 1
  <2>1. t = n
    BY <1>2 DEF RightShift
  <2>2. QED
    BY <1>1, <2>1
<1>3. CASE ~(k = 0 \/ index \notin 0 .. len - 1)
  <2>1. len \in 0 .. M
    BY TreesAre, GettersTyped
  <2>2. a \in Nat /\ a < M + 1 /\ a \in Links
    BY <1>1, <1>3, <2>1 DEF Links
  <2>3. t \in Node(Trees)
    BY TreesAre, RightShiftTyped
  <2>4. \A i \in Links : t.child[i] = IF i = index + 1 THEN c
                                      ELSE IF i \in index + 2 .. len + 1 THEN Child(n, i - 1)
                                      ELSE n.child[i]
    BY <1>3 DEF RightShift
  <2>5. index \in 0 .. len - 1
    BY <1>3
  <2> HIDE DEF t, len
  <2>6. /\ Load(t) \in [Nat -> Nat] /\ Load(n) \in [Nat -> Nat] /\ M + 1 \in Nat
        /\ Load(t)[a] = Weight(c)
    BY <2>2, <2>3, <2>4, LoadIs
  <2>7. /\ u \in [Nat -> Nat] /\ \A i \in Nat : u[i] = IF i = a THEN 0 ELSE Load(t)[i]
        /\ Total(Load(t), M + 1) = Total(u, M + 1) + Load(t)[a]
    <3>1. PICK g, b, n1 : g = Load(t) /\ b = a /\ n1 = M + 1
      OBVIOUS
    <3>2. g \in [Nat -> Nat] /\ n1 \in Nat /\ b \in Nat /\ b < n1
      BY <2>2, <2>6, <3>1
    <3>3. /\ [g EXCEPT ![b] = 0] \in [Nat -> Nat]
          /\ \A i \in Nat : [g EXCEPT ![b] = 0][i] = IF i = b THEN 0 ELSE g[i]
          /\ Total(g, n1) = Total([g EXCEPT ![b] = 0], n1) + g[b]
      BY <3>2, TotalZeroed
    <3>4. u = [g EXCEPT ![b] = 0]
      BY <3>1
    <3> HIDE DEF u, a
    <3>5. QED
      BY <3>1, <3>3, <3>4
  <2> HIDE DEF u
  <2>8. ASSUME NEW i \in Nat, i < M + 1, u[i] # 0
        PROVE  /\ i \in Links /\ i # index + 1 /\ u[i] = Weight(t.child[i])
               /\ p[i] \in Nat /\ p[i] < M + 1 /\ u[i] <= Load(n)[p[i]]
    <3>1. i # a /\ i # index + 1 /\ u[i] = Load(t)[i]
      BY <2>7, <2>8
    <3>2. i \in Links /\ u[i] = Weight(t.child[i])
      BY <2>3, <2>8, <3>1, LoadIs
    <3>3. CASE i \in index + 2 .. len + 1
      <4>1. i - 1 \in Nat /\ p[i] = i - 1
        BY <3>3
      <4>2. t.child[i] = Child(n, i - 1)
        BY <2>4, <3>1, <3>2, <3>3
      <4>3. Weight(Child(n, i - 1)) <= Load(n)[i - 1]
        BY <4>1, LoadIs
      <4>4. QED
        BY <1>1, <2>8, <3>1, <3>2, <4>1, <4>2, <4>3
    <3>4. CASE i \notin index + 2 .. len + 1
      <4>1. p[i] = i /\ t.child[i] = n.child[i]
        BY <2>4, <3>1, <3>2, <3>4
      <4>2. Load(n)[i] = Weight(n.child[i])
        BY <3>2, LoadIs
      <4>3. u[i] \in Nat
        BY <2>7
      <4>4. QED
        BY <2>8, <3>1, <3>2, <4>1, <4>2, <4>3
    <3>5. QED
      BY <3>3, <3>4
  <2>9. ASSUME NEW i \in Nat, NEW j \in Nat, i < j, j < M + 1, u[i] # 0, u[j] # 0
        PROVE  p[i] < p[j]
    <3>1. i # index + 1 /\ j # index + 1
      <4>1. i < M + 1
        BY <1>1, <2>9
      <4>2. QED
        BY <2>8, <2>9, <4>1
    <3>2. QED
      BY <2>1, <2>5, <2>9, <3>1
  <2>10. Moves(p, u, M + 1, Load(n), M + 1)
    <3> HIDE DEF p
    <3>1. QED
      BY <2>8, <2>9 DEF Moves
  <2>11. Total(u, M + 1) <= Total(Load(n), M + 1)
    <3> HIDE DEF p
    <3>1. QED
      BY <2>6, <2>7, <2>10, TotalMoved
  <2>12. Total(u, M + 1) \in Nat
    BY <2>6, <2>7, TotalIs
  <2>13. Sum(t) = Total(u, M + 1) + Weight(c)
    BY <2>6, <2>7 DEF Sum
  <2>14. Total(u, M + 1) <= Sum(n)
    BY <2>11 DEF Sum
  <2>15. QED
    BY <1>1, <2>12, <2>13, <2>14 DEF t
<1>4. QED
  BY <1>2, <1>3

LEMMA SumLeafInsert ==
  ASSUME NEW n \in Node(Trees), NEW pos \in Nat, NEW k \in Nat
  PROVE  Sum(LeafInsert(n, pos, k)) <= Sum(n)
<1>1. Sum(n) \in Nat /\ Weight(NULL) = 0 /\ NULL \in Trees
  BY LoadIs, WeightIs, TreesAre
<1>2. Sum(SetKey(n, pos, k)) = Sum(n)
  BY SumSetters
<1>3. Sum(RightShift(n, pos, k, NULL)) <= Sum(n) + 0
  BY <1>1, SumRightShift
<1>4. QED
  BY <1>1, <1>2, <1>3 DEF LeafInsert

\* l being the child at pos already, only r is new.
LEMMA SumNodeInsert ==
  ASSUME NEW n \in Node(Trees), NEW pos \in Nat, NEW k \in Nat, NEW l \in Trees, NEW r \in Trees,
         pos \in Links => n.child[pos] = l
  PROVE  /\ Sum(NodeInsert(n, pos, k, l, r)) <= Sum(n) + Weight(r)
         /\ (pos + 1 \in Links => n.child[pos + 1] = r) => Sum(NodeInsert(n, pos, k, l, r)) = Sum(n)
<1> DEFINE t == NodeInsert(n, pos, k, l, r)
<1>1. Sum(n) \in Nat /\ Weight(r) \in Nat /\ M \in Nat
  BY LoadIs, WeightIs, MAssumption
<1>2. CASE k = 0 \/ pos \notin Slots
  <2>1. t = n
    BY <1>2 DEF NodeInsert
  <2>2. QED
    BY <1>1, <2>1
<1>3. CASE ~(k = 0 \/ pos \notin Slots)
  <2>1. t.child = [i \in Links |-> IF i = pos /\ l # NULL THEN l
                                   ELSE IF i = pos + 1 /\ r # NULL THEN r
                                   ELSE n.child[i]]
    BY <1>3 DEF NodeInsert
  <2>2. pos \in Links /\ pos + 1 \in Links /\ n.child[pos] = l
    BY <1>1, <1>3 DEF Slots, Links
  <2>3. n.child = [i \in Links |-> n.child[i]]
    BY DEF Node
  <2> HIDE DEF t
  <2>4. CASE r = NULL
    <3>1. t.child = n.child
      BY <2>1, <2>2, <2>3, <2>4
    <3>2. Sum(t) = Sum(n)
      BY <3>1, SumSame
    <3>3. QED
      BY <1>1, <3>2 DEF t
  <2>5. CASE r # NULL
    <3>1. PICK s : s = SetChild(n, pos + 1, r)
      OBVIOUS
    <3>2. s.child = [i \in Links |-> IF i = pos + 1 THEN r ELSE n.child[i]]
      BY <2>2, <2>3, <3>1 DEF SetChild
    <3>3. t.child = s.child
      BY <2>1, <2>2, <2>5, <3>2
    <3>4. Sum(t) = Sum(s)
      BY <3>3, SumSame
    <3>5. Sum(s) <= Sum(n) + Weight(r)
      BY <3>1, SumSetters
    <3>6. n.child[pos + 1] = r => Sum(s) = Sum(n)
      <4>1. n.child[pos + 1] = r => s.child = n.child
        BY <2>3, <3>2
      <4>2. QED
        BY <4>1, SumSame
    <3>7. QED
      BY <2>2, <3>4, <3>5, <3>6 DEF t
  <2>6. QED
    BY <2>4, <2>5
<1>4. QED
  BY <1>2, <1>3

LEMMA SumAdopt ==
  ASSUME NEW n \in Node(Trees), NEW pos \in Nat, NEW sub \in Answers(Trees),
         pos \in Links => n.child[pos] = sub.node
  PROVE  Sum(Adopt(n, pos, sub)) <= Sum(n) + Weight(sub.right)
<1> DEFINE k == sub.upkey
           l == sub.node
           r == sub.right
           room == RightShift(n, pos, k, r)
<1>1. k \in Nat /\ l \in Trees /\ r \in Trees
  BY DEF Answers
<1> HIDE DEF k, l, r
<1>2. Adopt(n, pos, sub) = NodeInsert(IF pos = KeyLen(n) THEN n ELSE room, pos, k, l, r)
  BY DEF Adopt, k, l, r
<1>3. Sum(NodeInsert(n, pos, k, l, r)) <= Sum(n) + Weight(r)
  BY <1>1, SumNodeInsert DEF l
<1>4. CASE pos # KeyLen(n) /\ room # n
  <2>1. k # 0 /\ pos \in 0 .. KeyLen(n) - 1
    BY <1>4 DEF RightShift
  <2>2. \A i \in Links : room.child[i] = IF i = pos + 1 THEN r
                                         ELSE IF i \in pos + 2 .. KeyLen(n) + 1 THEN Child(n, i - 1)
                                         ELSE n.child[i]
    BY <2>1 DEF RightShift
  <2>3. KeyLen(n) \in 0 .. M
    BY TreesAre, GettersTyped
  <2>4. /\ pos \in Links => room.child[pos] = l
        /\ pos + 1 \in Links => room.child[pos + 1] = r
    BY <2>1, <2>2, <2>3 DEF l
  <2>5. room \in Node(Trees)
    BY <1>1, TreesAre, RightShiftTyped
  <2>6. Sum(room) <= Sum(n) + Weight(r)
    BY <1>1, SumRightShift
  <2> HIDE DEF room
  <2>7. Sum(NodeInsert(room, pos, k, l, r)) = Sum(room)
    BY <1>1, <2>4, <2>5, SumNodeInsert
  <2>8. QED
    BY <1>2, <1>4, <2>6, <2>7 DEF r
<1>5. CASE ~(pos # KeyLen(n) /\ room # n)
  BY <1>2, <1>3, <1>5 DEF r
<1>6. QED
  BY <1>4, <1>5

LEMMA SumSplit ==
  ASSUME NEW n \in Node(Trees)
  PROVE  Sum(SplitLeft(n)) + Sum(SplitRight(n)) <= Sum(n)
<1> DEFINE l == SplitLeft(n)
           r == SplitRight(n)
           g == Load(n)
           u == [i \in Nat |-> IF i <= Mid THEN g[i] ELSE 0]
           v == [i \in Nat |-> IF i <= Mid THEN 0 ELSE g[i]]
           p == [i \in Nat |-> i + Mid + 1]
<1>1. M \in Nat /\ Mid \in Nat /\ Mid < M
  BY Halves
<1>2. l \in Node(Trees) /\ r \in Node(Trees)
  BY TreesAre, SplitTyped
<1>3. \A i \in Links : l.child[i] = IF i <= Mid THEN n.child[i] ELSE NULL
  BY DEF SplitLeft
<1>4. \A i \in Links : r.child[i] = IF i + Mid + 1 <= M THEN Child(n, i + Mid + 1) ELSE NULL
  BY DEF SplitRight
<1> HIDE DEF l, r
<1>5. g \in [Nat -> Nat] /\ Load(l) \in [Nat -> Nat] /\ Load(r) \in [Nat -> Nat] /\ M + 1 \in Nat
  BY <1>2, LoadIs
<1>6. u \in [Nat -> Nat] /\ v \in [Nat -> Nat]
  BY <1>5
<1>7. \A i \in Nat : Load(l)[i] = u[i]
  <2>1. \A i \in Nat : i \notin Links => g[i] = 0 /\ Load(l)[i] = 0
    BY <1>2, LoadIs
  <2>2. \A i \in Nat : i \in Links => g[i] = Weight(n.child[i]) /\ Load(l)[i] = Weight(l.child[i])
    BY <1>2, LoadIs
  <2>3. Weight(NULL) = 0
    BY WeightIs
  <2> HIDE DEF g
  <2>4. QED
    BY <1>3, <2>1, <2>2, <2>3
<1>8. Moves(p, Load(r), M + 1, v, M + 1)
  <2>1. ASSUME NEW i \in Nat, i < M + 1, Load(r)[i] # 0
        PROVE  p[i] \in Nat /\ p[i] < M + 1 /\ Load(r)[i] <= v[p[i]]
    <3>1. i \in Links /\ Load(r)[i] = Weight(r.child[i])
      BY <1>2, <2>1, LoadIs
    <3>2. i + Mid + 1 <= M /\ r.child[i] = Child(n, i + Mid + 1)
      BY <1>4, <2>1, <3>1, WeightIs
    <3>3. PICK j \in Nat : j = i + Mid + 1
      BY <1>1
    <3>4. p[i] = j /\ j < M + 1 /\ v[j] = g[j]
      BY <1>1, <3>2, <3>3
    <3>5. Weight(Child(n, j)) <= g[j]
      BY LoadIs
    <3> HIDE DEF p, v, g
    <3>6. QED
      BY <3>1, <3>2, <3>3, <3>4, <3>5
  <2>2. \A i, j \in Nat : i < j => p[i] < p[j]
    BY <1>1
  <2> HIDE DEF p, v
  <2>3. QED
    BY <2>1, <2>2 DEF Moves
<1>9. Total(Load(l), M + 1) = Total(u, M + 1)
  <2> HIDE DEF u
  <2>1. QED
    BY <1>5, <1>6, <1>7, TotalSame
<1>10. Total(Load(r), M + 1) <= Total(v, M + 1)
  <2> HIDE DEF v, p
  <2>1. QED
    BY <1>5, <1>6, <1>8, TotalMoved
<1>11. Total(u, M + 1) + Total(v, M + 1) <= Total(g, M + 1)
  <2>1. \A i \in Nat : u[i] + v[i] <= g[i]
    BY <1>5
  <2> HIDE DEF u, v, g
  <2>2. QED
    BY <1>5, <1>6, <2>1, TotalShared
<1>12. /\ Total(u, M + 1) \in Nat /\ Total(v, M + 1) \in Nat /\ Total(g, M + 1) \in Nat
       /\ Total(Load(r), M + 1) \in Nat
  <2> HIDE DEF u, v, g
  <2>1. QED
    BY <1>5, <1>6, TotalIs
<1> HIDE DEF u, v
<1>13. QED
  BY <1>9, <1>10, <1>11, <1>12 DEF Sum, g, l, r

\* The answer to an insert weighs no more than the tree it was made on and the
\* nodes allocated.
Borne(a, m) == Weight(a.node) + Weight(a.right) <= Weight(m) + a.allocated

LEMMA SplitIfFullWeight ==
  ASSUME NEW n \in Node(Low), NEW allocated \in Nat, NEW nomem
  PROVE  LET a == SplitIfFull(n, allocated, nomem)
         IN  Weight(a.node) + Weight(a.right) + allocated <= 1 + Sum(n) + a.allocated
<1>1. /\ n \in Trees /\ n # NULL /\ n \in Node(Trees) /\ NULL \in Low
      /\ Node(Low) \subseteq Trees /\ NULL \notin Node(Low) /\ Node(Low) \subseteq Node(Trees)
  BY TreesAre, ChildBelow
<1>2. Weight(NULL) = 0 /\ Weight(n) = 1 + Sum(n) /\ Sum(n) \in Nat
  BY <1>1, WeightIs, LoadIs
<1> DEFINE l == SplitLeft(n)
           r == SplitRight(n)
<1>3. l \in Node(Low) /\ r \in Node(Low)
  BY <1>1, SplitTyped
<1>4. Sum(l) + Sum(r) <= Sum(n)
  BY <1>1, SumSplit
<1> HIDE DEF l, r
<1>5. /\ Weight(l) = 1 + Sum(l) /\ Weight(r) = 1 + Sum(r)
      /\ Sum(l) \in Nat /\ Sum(r) \in Nat
  BY <1>1, <1>3, WeightIs, LoadIs
<1>6. PICK a : a = SplitIfFull(n, allocated, nomem)
  OBVIOUS
<1>7. CASE KeyLen(n) # M \/ nomem
  <2>1. a.node = n /\ a.right = NULL /\ a.allocated = allocated
    BY <1>6, <1>7 DEF SplitIfFull, Answer
  <2>2. QED
    BY <1>2, <1>6, <2>1
<1>8. CASE ~(KeyLen(n) # M \/ nomem)
  <2>1. a.node = l /\ a.right = r /\ a.allocated = allocated + 1
    BY <1>6, <1>8 DEF SplitIfFull, l, r
  <2>2. Weight(a.node) + Weight(a.right) + allocated <= 1 + Sum(n) + a.allocated
    BY <1>2, <1>4, <1>5, <2>1
  <2>3. QED
    BY <1>6, <2>2
<1>9. QED
  BY <1>7, <1>8

LEMMA InsertAboveWeight ==
  ASSUME NEW n \in Node(Low), NEW pos \in Nat, NEW sub \in Answers(Low), NEW nomem,
         Borne(sub, Child(n, pos)), Child(n, pos) = NULL => sub.rtval = "oops"
  PROVE  Borne(InsertAbove(n, pos, sub, nomem), n)
<1> DEFINE c == Child(n, pos)
           here == WithChild(n, pos, sub.node)
           more == IF sub.rtval = "split" THEN Adopt(here, pos, sub) ELSE here
<1>1. /\ n \in Trees /\ n # NULL /\ n \in Node(Trees) /\ NULL \in Low /\ Low \subseteq Trees
      /\ Node(Low) \subseteq Node(Trees)
  BY TreesAre, ChildBelow DEF Node
<1>2. /\ sub.node \in Low /\ sub.right \in Low /\ sub.allocated \in Nat
      /\ sub.node \in Trees /\ sub.right \in Trees /\ sub \in Answers(Trees)
  BY <1>1 DEF Answers
<1>3. Weight(NULL) = 0 /\ Weight(n) = 1 + Sum(n) /\ Sum(n) \in Nat
  BY <1>1, WeightIs, LoadIs
<1>4. CASE sub.rtval = "oops"
  <2>1. InsertAbove(n, pos, sub, nomem) = Answer(n, "oops")
    BY <1>4 DEF InsertAbove
  <2>2. QED
    BY <1>3, <2>1 DEF Borne, Answer
<1>5. CASE sub.rtval # "oops"
  <2>1. pos \in Links /\ c = n.child[pos] /\ c \in Trees /\ here = SetChild(n, pos, sub.node)
    BY <1>1, <1>5, LoadIs DEF WithChild
  <2>2. /\ Weight(c) \in Nat /\ Weight(sub.node) \in Nat /\ Weight(sub.right) \in Nat
        /\ Weight(sub.node) + Weight(sub.right) <= Weight(c) + sub.allocated
    BY <1>2, <2>1, WeightIs DEF Borne
  <2>3. here \in Node(Low) /\ here \in Node(Trees) /\ Sum(here) \in Nat
    BY <1>1, <1>2, <2>1, SettersTyped, LoadIs
  <2>4. here.child[pos] = sub.node
    BY <1>1, <2>1 DEF SetChild, Node
  <2>5. Sum(here) + Weight(c) = Sum(n) + Weight(sub.node)
    BY <1>1, <1>2, <2>1, SumSetters
  <2> HIDE DEF here, c
  <2>6. Adopt(here, pos, sub) \in Node(Low) /\ Sum(Adopt(here, pos, sub)) <= Sum(here) + Weight(sub.right)
    BY <1>1, <1>2, <2>3, <2>4, AdoptTyped, SumAdopt
  <2>7. more \in Node(Low) /\ Sum(more) <= Sum(here) + Weight(sub.right)
    BY <2>2, <2>3, <2>6
  <2>8. InsertAbove(n, pos, sub, nomem) = SplitIfFull(more, sub.allocated, nomem)
    BY <1>5 DEF InsertAbove, here
  <2> HIDE DEF more
  <2>9. Sum(more) \in Nat
    BY <1>1, <2>7, LoadIs
  <2>10. PICK a : a = SplitIfFull(more, sub.allocated, nomem)
    OBVIOUS
  <2>11. Weight(a.node) + Weight(a.right) + sub.allocated <= 1 + Sum(more) + a.allocated
    BY <1>2, <2>7, <2>10, SplitIfFullWeight
  <2>12. a \in Answers(Trees)
    <3>1. Higher(Low) = Trees
      BY TreesAre DEF Higher
    <3>2. a \in Answers(Higher(Low))
      BY <1>1, <1>2, <2>7, <2>10, SplitIfFullTyped
    <3>3. QED
      BY <3>1, <3>2
  <2>13. Weight(a.node) \in Nat /\ Weight(a.right) \in Nat /\ a.allocated \in Nat
    BY <2>12, WeightIs DEF Answers
  <2>14. Weight(a.node) + Weight(a.right) <= 1 + Sum(n) + a.allocated
    BY <1>2, <1>3, <2>2, <2>3, <2>5, <2>7, <2>9, <2>11, <2>13
  <2>15. QED
    BY <1>3, <2>8, <2>10, <2>14 DEF Borne
<1>6. QED
  BY <1>4, <1>5

LEMMA IntoWeight ==
  ASSUME NEW k \in Nat, NEW failing, NEW f, Inserts(f, k, failing)
  PROVE  \A m \in Trees : \A depth \in Nat : Borne(f[m][depth], m)
<1> DEFINE S == {m \in Trees : \A depth \in Nat : Borne(f[m][depth], m)}
<1>1. \A m \in Trees : \A depth \in Nat : f[m][depth] = Into(m, depth, k, failing, f)
  <2>1. MaxHeight \in 0 .. MaxHeight
    BY BoundsAssumption
  <2>2. QED
    BY <2>1 DEF Inserts, Trees
<1>2. \A m \in Low : \A depth \in Nat : f[m][depth] \in Answers(Low)
  <2>1. MaxHeight - 1 \in 0 .. MaxHeight
    BY BoundsAssumption
  <2>2. QED
    BY <2>1 DEF Inserts, Low
<1>3. NULL \in Trees /\ NULL \in Low /\ Weight(NULL) = 0
  BY TreesAre, WeightIs
<1>4. \A depth \in Nat : f[NULL][depth] = Answer(NULL, "oops")
  BY <1>1, <1>3 DEF Into
<1>5. NULL \in S
  BY <1>3, <1>4 DEF Borne, Answer
<1>6. ASSUME NEW m \in Trees, m # NULL, m \in Node(Trees), Below(m) \subseteq S
      PROVE  m \in S
  <2>1. SUFFICES ASSUME NEW depth \in Nat PROVE Borne(f[m][depth], m)
    OBVIOUS
  <2> DEFINE pos == FindPos(m, k)
             nomem == depth \in failing
             sub == f[Child(m, pos)][depth + 1]
  <2>2. m \in Node(Low) /\ Weight(m) = 1 + Sum(m) /\ Sum(m) \in Nat
    BY <1>6, TreesAre, WeightIs, LoadIs
  <2>3. pos \in Nat
    <3>1. \A i \in Slots : m.key[i] \in Nat
      BY <2>2 DEF Node
    <3>2. pos \in 0 .. KeyLen(m) /\ KeyLen(m) \in Nat
      BY <1>3, <2>2, <3>1, FindPosIs, GettersTyped, MAssumption
    <3>3. QED
      BY <3>2
  <2>4. f[m][depth] = IF Key(m, pos) = k THEN Answer(m, "exists")
                      ELSE IF IsLeaf(m) THEN SplitIfFull(LeafInsert(m, pos, k), 0, nomem)
                      ELSE InsertAbove(m, pos, sub, nomem)
    BY <1>1, <1>6 DEF Into
  <2>5. Borne(Answer(m, "exists"), m)
    BY <1>3, <2>2 DEF Borne, Answer
  <2> HIDE DEF pos, nomem
  <2>6. Borne(SplitIfFull(LeafInsert(m, pos, k), 0, nomem), m)
    <3>1. PICK t : t = LeafInsert(m, pos, k)
      OBVIOUS
    <3>2. t \in Node(Low) /\ Sum(t) <= Sum(m)
      BY <1>3, <1>6, <2>2, <2>3, <3>1, LeafInsertTyped, SumLeafInsert
    <3>3. Sum(t) \in Nat
      BY <3>2, TreesAre, ChildBelow, LoadIs
    <3>4. PICK a : a = SplitIfFull(t, 0, nomem)
      OBVIOUS
    <3>5. 0 \in Nat
      OBVIOUS
    <3>6. Weight(a.node) + Weight(a.right) + 0 <= 1 + Sum(t) + a.allocated
      BY <3>2, <3>4, <3>5, SplitIfFullWeight
    <3>7. a \in Answers(Trees)
      <4>1. Higher(Low) = Trees
        BY TreesAre DEF Higher
      <4>2. a \in Answers(Higher(Low))
        BY <1>3, <3>2, <3>4, <3>5, SplitIfFullTyped
      <4>3. QED
        BY <4>1, <4>2
    <3>8. Weight(a.node) \in Nat /\ Weight(a.right) \in Nat /\ a.allocated \in Nat
      BY <3>7, WeightIs DEF Answers
    <3>9. Borne(a, m)
      BY <2>2, <3>2, <3>3, <3>6, <3>8 DEF Borne
    <3>10. QED
      BY <3>1, <3>4, <3>9
  <2>7. Borne(InsertAbove(m, pos, sub, nomem), m)
    <3>1. Child(m, pos) \in Low /\ Child(m, pos) \in Below(m)
      BY <1>3, <1>6, <2>2, GettersTyped, ChildBelow
    <3>2. depth + 1 \in Nat
      OBVIOUS
    <3>3. sub \in Answers(Low) /\ Borne(sub, Child(m, pos))
      BY <1>2, <1>6, <3>1, <3>2
    <3>4. Child(m, pos) = NULL => sub.rtval = "oops"
      BY <1>4, <3>2 DEF Answer
    <3> HIDE DEF sub
    <3>5. QED
      BY <2>2, <2>3, <3>3, <3>4, InsertAboveWeight
  <2>8. QED
    BY <2>4, <2>5, <2>6, <2>7
<1>7. Trees \subseteq S
  <2> HIDE DEF S
  <2>1. QED
    BY <1>5, <1>6, TreeInduction
<1>8. QED
  BY <1>7

-----------------------------------------------------------------------------
(* A remove frees no more nodes than it takes weight away *)

\* u is g without its term at a.
ZeroedAt(u, g, n, a) ==
    /\ u \in [Nat -> Nat]
    /\ \A i \in Nat : u[i] = IF i = a THEN 0 ELSE g[i]
    /\ Total(g, n) = Total(u, n) + g[a]

LEMMA Zeroed ==
  ASSUME NEW g \in [Nat -> Nat], NEW n \in Nat, NEW a \in Nat, a < n
  PROVE  \E u : ZeroedAt(u, g, n, a)
<1> DEFINE u == [g EXCEPT ![a] = 0]
<1>1. ZeroedAt(u, g, n, a)
  BY TotalZeroed DEF ZeroedAt
<1> HIDE DEF u
<1>2. QED
  BY <1>1

\* The weight of what a rearrangement makes.
LEMMA WeightAtMost ==
  ASSUME NEW n \in Trees, n.child \in [Links -> Trees]
  PROVE  /\ Load(n) \in [Nat -> Nat] /\ Sum(n) \in Nat /\ Weight(n) \in Nat
         /\ Weight(n) <= 1 + Sum(n)
         /\ \A i \in Nat : Load(n)[i] = IF i \in Links THEN Weight(n.child[i]) ELSE 0
<1>1. Load(n) \in [Nat -> Nat] /\ M + 1 \in Nat
  BY WeightIs, MAssumption DEF Load
<1>2. Sum(n) \in Nat
  BY <1>1, TotalIs DEF Sum
<1>3. Weight(n) \in Nat /\ Weight(n) <= 1 + Sum(n)
  BY <1>2, WeightIs
<1>4. QED
  BY <1>1, <1>2, <1>3 DEF Load

LEMMA SumMergedChild ==
  ASSUME NEW l \in Node(Trees), NEW r \in Node(Trees), NEW k \in Nat
  PROVE  Sum(MergedChild(l, k, r)) <= Sum(l) + Sum(r)
<1> DEFINE ll == KeyLen(l)
           rl == KeyLen(r)
           t == MergedChild(l, k, r)
           v == [i \in Nat |-> IF i \in Links /\ i \in ll + 1 .. ll + rl + 1
                               THEN Load(r)[i - ll - 1] ELSE 0]
           p == [i \in Nat |-> i - ll - 1]
<1>1. M \in Nat /\ ll \in 0 .. M /\ rl \in 0 .. M
  BY MAssumption, TreesAre, GettersTyped
<1>2. t \in Node(Trees)
  BY TreesAre, MergedChildTyped
<1>3. \A i \in Links : t.child[i] = IF i \in ll + 1 .. ll + rl + 1 THEN Child(r, i - ll - 1)
                                    ELSE l.child[i]
  BY DEF MergedChild
<1> HIDE DEF ll, rl, t
<1>4. /\ Load(t) \in [Nat -> Nat] /\ Load(l) \in [Nat -> Nat] /\ Load(r) \in [Nat -> Nat]
      /\ M + 1 \in Nat
  BY <1>2, LoadIs
<1>5. v \in [Nat -> Nat]
  <2>1. \A i \in Nat : i \in ll + 1 .. ll + rl + 1 => i - ll - 1 \in Nat
    BY <1>1
  <2>2. QED
    BY <1>4, <2>1
<1>6. \A i \in Nat : Load(t)[i] <= Load(l)[i] + v[i]
  <2> TAKE i \in Nat
  <2>1. Load(t)[i] \in Nat /\ Load(l)[i] \in Nat /\ v[i] \in Nat
    BY <1>4, <1>5
  <2>2. CASE i \notin Links
    <3>1. Load(t)[i] = 0
      BY <1>2, <2>2, LoadIs
    <3>2. QED
      BY <2>1, <3>1
  <2>3. CASE i \in Links /\ i \in ll + 1 .. ll + rl + 1
    <3>1. i - ll - 1 \in Nat
      BY <1>1, <2>3
    <3>2. Load(t)[i] = Weight(Child(r, i - ll - 1))
      BY <1>2, <1>3, <2>3, LoadIs
    <3>3. v[i] = Load(r)[i - ll - 1]
      BY <2>3
    <3>4. Weight(Child(r, i - ll - 1)) <= Load(r)[i - ll - 1]
      BY <3>1, LoadIs
    <3> HIDE DEF v
    <3>5. QED
      BY <2>1, <3>2, <3>3, <3>4
  <2>4. CASE i \in Links /\ i \notin ll + 1 .. ll + rl + 1
    <3>1. Load(t)[i] = Load(l)[i]
      BY <1>2, <1>3, <2>4, LoadIs
    <3>2. QED
      BY <2>1, <3>1
  <2>5. QED
    BY <2>2, <2>3, <2>4
<1>7. Moves(p, v, M + 1, Load(r), M + 1)
  <2>1. ASSUME NEW i \in Nat, i < M + 1, v[i] # 0
        PROVE  p[i] \in Nat /\ p[i] < M + 1 /\ v[i] <= Load(r)[p[i]]
    <3>1. i \in ll + 1 .. ll + rl + 1 /\ v[i] = Load(r)[i - ll - 1]
      BY <2>1
    <3>2. p[i] = i - ll - 1 /\ p[i] \in Nat /\ p[i] < M + 1
      BY <1>1, <3>1
    <3>3. Load(r)[p[i]] \in Nat
      BY <1>4, <3>2
    <3> HIDE DEF v, p
    <3>4. QED
      BY <3>1, <3>2, <3>3
  <2>2. \A i, j \in Nat : i < j => p[i] < p[j]
    BY <1>1
  <2> HIDE DEF v, p
  <2>3. QED
    BY <2>1, <2>2 DEF Moves
<1> HIDE DEF v, p
<1>8. Total(v, M + 1) <= Total(Load(r), M + 1)
  BY <1>4, <1>5, <1>7, TotalMoved
<1>9. Total(Load(t), M + 1) <= Total(Load(l), M + 1) + Total(v, M + 1)
  BY <1>4, <1>5, <1>6, TotalShared
<1>10. /\ Total(Load(t), M + 1) \in Nat /\ Total(Load(l), M + 1) \in Nat
       /\ Total(v, M + 1) \in Nat /\ Total(Load(r), M + 1) \in Nat
  BY <1>4, <1>5, TotalIs
<1>11. QED
  BY <1>8, <1>9, <1>10 DEF Sum, t

\* Two children rearranged.
LEMMA SumTwoReplaced ==
  ASSUME NEW n \in Node(Trees), NEW t \in Node(Trees), NEW a \in Links, NEW b \in Links, a # b,
         \A i \in Links : (i # a /\ i # b) => t.child[i] = n.child[i]
  PROVE  Sum(t) + Weight(n.child[a]) + Weight(n.child[b])
           = Sum(n) + Weight(t.child[a]) + Weight(t.child[b])
<1>1. PICK s : s = SetChild(n, a, t.child[a])
  OBVIOUS
<1>2. t.child[a] \in Trees /\ t.child[b] \in Trees /\ n.child[a] \in Trees /\ n.child[b] \in Trees
  BY DEF Node
<1>3. s \in Node(Trees) /\ \A i \in Links : s.child[i] = IF i = a THEN t.child[a] ELSE n.child[i]
  <2>1. s \in Node(Trees)
    BY <1>1, <1>2, SettersTyped
  <2>2. QED
    BY <1>1, <2>1 DEF SetChild, Node
<1>4. Sum(s) + Weight(n.child[a]) = Sum(n) + Weight(t.child[a])
  BY <1>1, <1>2, SumSetters
<1>5. Sum(t) + Weight(s.child[b]) = Sum(s) + Weight(t.child[b])
  BY <1>3, SumReplaced
<1>6. s.child[b] = n.child[b]
  BY <1>3
<1>7. /\ Sum(n) \in Nat /\ Sum(t) \in Nat /\ Sum(s) \in Nat
      /\ Weight(n.child[a]) \in Nat /\ Weight(n.child[b]) \in Nat
      /\ Weight(t.child[a]) \in Nat /\ Weight(t.child[b]) \in Nat
  BY <1>2, <1>3, LoadIs, WeightIs
<1>8. QED
  BY <1>4, <1>5, <1>6, <1>7

\* The two children of a node that a merge or a rotation works on.
LEMMA TwoChildren ==
  ASSUME NEW n \in Node(Low), NEW pos \in Nat, Child(n, pos) # NULL, Child(n, pos + 1) # NULL
  PROVE  /\ n \in Node(Trees) /\ pos \in Links /\ pos + 1 \in Links
         /\ Child(n, pos) = n.child[pos] /\ Child(n, pos + 1) = n.child[pos + 1]
         /\ Child(n, pos) \in Node(Trees) /\ Child(n, pos + 1) \in Node(Trees)
         /\ Weight(n.child[pos]) = 1 + Sum(Child(n, pos)) /\ Sum(Child(n, pos)) \in Nat
         /\ Weight(n.child[pos + 1]) = 1 + Sum(Child(n, pos + 1)) /\ Sum(Child(n, pos + 1)) \in Nat
         /\ \E T : /\ NULL \in T /\ NULL \in Low /\ Node(T) \subseteq Low
                   /\ Child(n, pos) \in Node(T) /\ Child(n, pos + 1) \in Node(T)
<1>1. n \in Node(Trees) /\ NULL \in Low /\ Low \subseteq Trees
  BY TreesAre DEF Node
<1>2. /\ pos \in Links /\ Child(n, pos) = n.child[pos] /\ Child(n, pos) \in Trees
      /\ pos + 1 \in Links /\ Child(n, pos + 1) = n.child[pos + 1] /\ Child(n, pos + 1) \in Trees
  BY <1>1, LoadIs
<1>3. Child(n, pos) \in Low /\ Child(n, pos + 1) \in Low
  BY <1>1, GettersTyped
<1>4. PICK T : NULL \in T /\ Child(n, pos) \in Node(T) /\ Low = Higher(T)
  BY <1>3, ChildOfLow
<1>5. Node(T) \subseteq Low /\ Child(n, pos + 1) \in Node(T)
  BY <1>3, <1>4 DEF Higher
<1>6. Child(n, pos) \in Node(Trees) /\ Child(n, pos + 1) \in Node(Trees)
  BY <1>2, ChildBelow
<1>7. /\ Weight(Child(n, pos)) = 1 + Sum(Child(n, pos)) /\ Sum(Child(n, pos)) \in Nat
      /\ Weight(Child(n, pos + 1)) = 1 + Sum(Child(n, pos + 1)) /\ Sum(Child(n, pos + 1)) \in Nat
  BY <1>2, <1>6, WeightIs, LoadIs
<1>8. QED
  BY <1>1, <1>2, <1>4, <1>5, <1>6, <1>7

LEMMA SumMerge ==
  ASSUME NEW n \in Node(Low), NEW pos \in Nat, Child(n, pos) # NULL, Child(n, pos + 1) # NULL,
         CanRearrange(n, pos), Fits(Child(n, pos), Child(n, pos + 1))
  PROVE  Merge(n, pos) \in Node(Low) /\ Sum(Merge(n, pos)) + 1 <= Sum(n)
<1> DEFINE len == KeyLen(n)
           l == Child(n, pos)
           r == Child(n, pos + 1)
           c == MergedChild(l, n.key[pos], r)
           t == Merge(n, pos)
           a == pos + 1
           p == [i \in Nat |-> IF i \in pos + 1 .. len - 1 THEN i + 1 ELSE i]
<1>1. /\ n \in Node(Trees) /\ pos \in Links /\ a \in Links
      /\ l = n.child[pos] /\ r = n.child[a] /\ l \in Node(Trees) /\ r \in Node(Trees)
      /\ Weight(l) = 1 + Sum(l) /\ Sum(l) \in Nat /\ Weight(r) = 1 + Sum(r) /\ Sum(r) \in Nat
  BY TwoChildren
<1>2. M \in Nat /\ len \in 0 .. M /\ pos \in 0 .. len - 1 /\ pos \in Slots
  <2>1. len \in 0 .. M
    BY <1>1, TreesAre, GettersTyped
  <2>2. QED
    BY <2>1, MAssumption DEF CanRearrange, Slots
<1>3. t \in Node(Low)
  <2>1. PICK T : /\ NULL \in T /\ NULL \in Low /\ Node(T) \subseteq Low
                 /\ Child(n, pos) \in Node(T) /\ Child(n, pos + 1) \in Node(T)
    BY TwoChildren
  <2>2. QED
    BY <2>1, MergeTyped
<1>4. \A i \in Links : t.child[i] = IF i = pos THEN c
                                    ELSE IF i \in pos + 1 .. len - 1 THEN Child(n, i + 1)
                                    ELSE IF i = len THEN NULL
                                    ELSE n.child[i]
  BY DEF Merge
<1>5. t \in Node(Trees) /\ c \in Trees
  <2>1. t.child[pos] \in Low
    BY <1>1, <1>3 DEF Node
  <2>2. t.child[pos] = c
    BY <1>1, <1>4
  <2>3. QED
    BY <1>3, <2>1, <2>2, TreesAre DEF Node
<1>6. Weight(c) \in Nat /\ Weight(c) + 1 <= Weight(l) + Weight(r)
  <2>1. n.key[pos] \in Nat
    BY <1>2 DEF Node
  <2>2. Sum(c) <= Sum(l) + Sum(r)
    BY <1>1, <2>1, SumMergedChild
  <2>3. c \in Node(Trees)
    BY <1>1, <2>1, TreesAre, MergedChildTyped
  <2> HIDE DEF c
  <2>4. Weight(c) <= 1 + Sum(c) /\ Weight(c) \in Nat /\ Sum(c) \in Nat
    <3>1. c.child \in [Links -> Trees]
      BY <2>3 DEF Node
    <3>2. QED
      BY <1>5, <3>1, WeightAtMost
  <2>5. QED
    BY <1>1, <2>2, <2>4
<1> HIDE DEF c, t, len, l, r
<1>7. /\ Load(t) \in [Nat -> Nat] /\ Load(n) \in [Nat -> Nat] /\ M + 1 \in Nat
      /\ pos \in Nat /\ pos < M + 1 /\ a \in Nat /\ a < M + 1
      /\ Load(t)[pos] = Weight(c) /\ Load(n)[pos] = Weight(l) /\ Load(n)[a] = Weight(r)
  <2>1. a \in Nat /\ a < M + 1 /\ pos < M + 1
    BY <1>2
  <2>2. t.child[pos] = c
    BY <1>1, <1>4
  <2>3. QED
    BY <1>1, <1>5, <2>1, <2>2, LoadIs
<1>8. PICK u \in [Nat -> Nat] :
         /\ \A i \in Nat : u[i] = IF i = pos THEN 0 ELSE Load(t)[i]
         /\ Total(Load(t), M + 1) = Total(u, M + 1) + Load(t)[pos]
  <2>1. \E u : ZeroedAt(u, Load(t), M + 1, pos)
    BY <1>7, Zeroed
  <2>2. QED
    BY <2>1 DEF ZeroedAt
<1>9. PICK h \in [Nat -> Nat] :
         /\ \A i \in Nat : h[i] = IF i = pos THEN 0 ELSE Load(n)[i]
         /\ Total(Load(n), M + 1) = Total(h, M + 1) + Load(n)[pos]
  <2>1. \E h : ZeroedAt(h, Load(n), M + 1, pos)
    BY <1>7, Zeroed
  <2>2. QED
    BY <2>1 DEF ZeroedAt
<1>10. PICK v \in [Nat -> Nat] :
         /\ \A i \in Nat : v[i] = IF i = a THEN 0 ELSE h[i]
         /\ Total(h, M + 1) = Total(v, M + 1) + h[a]
  <2> HIDE DEF a
  <2>1. \E v : ZeroedAt(v, h, M + 1, a)
    BY <1>7, Zeroed
  <2>2. QED
    BY <2>1 DEF ZeroedAt
<1>11. h[a] = Weight(r)
  BY <1>7, <1>9
<1>12. ASSUME NEW i \in Nat, i < M + 1, u[i] # 0
       PROVE  /\ i # pos /\ i # len
              /\ p[i] \in Nat /\ p[i] < M + 1 /\ u[i] <= v[p[i]]
  <2>1. i # pos /\ u[i] = Load(t)[i]
    BY <1>8, <1>12
  <2>2. i \in Links /\ u[i] = Weight(t.child[i])
    BY <1>5, <2>1, <1>12, LoadIs
  <2>3. u[i] \in Nat
    OBVIOUS
  <2>4. CASE i \in pos + 1 .. len - 1
    <3>1. i + 1 \in Nat /\ i + 1 < M + 1 /\ i + 1 # pos /\ i + 1 # a /\ i # len /\ p[i] = i + 1
      BY <1>2, <2>4
    <3>2. u[i] = Weight(Child(n, i + 1))
      BY <1>4, <2>1, <2>2, <2>4
    <3>3. Weight(Child(n, i + 1)) <= Load(n)[i + 1]
      BY <1>1, <3>1, LoadIs
    <3>4. v[i + 1] = Load(n)[i + 1]
      BY <1>9, <1>10, <3>1
    <3> HIDE DEF p, a
    <3>5. QED
      BY <2>1, <3>1, <3>2, <3>3, <3>4
  <2>5. CASE i \notin pos + 1 .. len - 1
    <3>1. i # len
      <4>1. i = len => t.child[i] = NULL
        BY <1>4, <2>1, <2>2, <2>5
      <4>2. QED
        BY <1>12, <2>2, <4>1, WeightIs
    <3>2. u[i] = Weight(n.child[i])
      BY <1>4, <2>1, <2>2, <2>5, <3>1
    <3>3. p[i] = i
      BY <2>5
    <3>4. i # a
      BY <1>2, <2>5, <3>1
    <3>5. v[i] = Load(n)[i] /\ Load(n)[i] = Weight(n.child[i])
      <4> HIDE DEF a
      <4>1. v[i] = Load(n)[i]
        BY <1>9, <1>10, <2>1, <3>4
      <4>2. QED
        BY <1>1, <2>2, <4>1, LoadIs
    <3> HIDE DEF p, a
    <3>6. QED
      BY <1>12, <2>1, <2>3, <3>1, <3>2, <3>3, <3>5
  <2>6. QED
    BY <2>4, <2>5
<1>13. ASSUME NEW i \in Nat, NEW j \in Nat, i < j, j < M + 1, u[i] # 0, u[j] # 0
       PROVE  p[i] < p[j]
  <2>1. i # len /\ j # len
    <3>1. i < M + 1
      BY <1>2, <1>13
    <3>2. QED
      BY <1>12, <1>13, <3>1
  <2>2. QED
    BY <1>2, <1>13, <2>1
<1>14. Moves(p, u, M + 1, v, M + 1)
  <2> HIDE DEF p
  <2>1. QED
    BY <1>12, <1>13 DEF Moves
<1>15. Total(u, M + 1) <= Total(v, M + 1)
  <2> HIDE DEF p
  <2>1. QED
    BY <1>7, <1>14, TotalMoved
<1>16. Total(u, M + 1) \in Nat /\ Total(v, M + 1) \in Nat
  BY <1>7, TotalIs
<1>17. Weight(l) \in Nat /\ Weight(r) \in Nat
  BY <1>1
<1>18. Sum(t) = Total(u, M + 1) + Weight(c)
  BY <1>7, <1>8 DEF Sum
<1>19. Sum(n) = Total(v, M + 1) + Weight(r) + Weight(l)
  BY <1>7, <1>9, <1>10, <1>11 DEF Sum
<1>20. QED
  BY <1>3, <1>6, <1>15, <1>16, <1>17, <1>18, <1>19 DEF t

\* A rotation moves a child from one sibling to the other.
LEMMA SumLeftRotate ==
  ASSUME NEW n \in Node(Low), NEW pos \in Nat, Child(n, pos) # NULL, Child(n, pos + 1) # NULL
  PROVE  LeftRotate(n, pos) \in Node(Low) /\ Sum(LeftRotate(n, pos)) <= Sum(n)
<1> DEFINE l == Child(n, pos)
           r == Child(n, pos + 1)
           a == pos + 1
           x == Child(r, 0)
           last_ == IF KeyLen(r) = 0 THEN 0 ELSE KeyLen(r) - 1
           newLeft == SetChild(SetKey(l, KeyLen(l), n.key[pos]), KeyLen(l) + 1, x)
           newRight == [key |-> [i \in Slots |-> IF i < last_ THEN r.key[i + 1]
                                                 ELSE IF i = last_ THEN 0
                                                 ELSE r.key[i]],
                        child |-> [i \in Links |-> IF i <= last_ THEN Child(r, i + 1)
                                                   ELSE IF i = last_ + 1 THEN NULL
                                                   ELSE r.child[i]]]
           t == LeftRotate(n, pos)
           p == [i \in Nat |-> IF i <= last_ THEN i + 1 ELSE i]
<1>1. /\ n \in Node(Trees) /\ pos \in Links /\ a \in Links
      /\ l = n.child[pos] /\ r = n.child[a] /\ l \in Node(Trees) /\ r \in Node(Trees)
      /\ Weight(l) = 1 + Sum(l) /\ Sum(l) \in Nat /\ Weight(r) = 1 + Sum(r) /\ Sum(r) \in Nat
  BY TwoChildren
<1>2. t \in Node(Low)
  <2>1. PICK T : /\ NULL \in T /\ NULL \in Low /\ Node(T) \subseteq Low
                 /\ Child(n, pos) \in Node(T) /\ Child(n, pos + 1) \in Node(T)
    BY TwoChildren
  <2>2. QED
    BY <2>1, LeftRotateTyped
<1>3. CASE ~CanRearrange(n, pos)
  <2>1. t = n
    BY <1>3 DEF LeftRotate
  <2>2. Sum(n) \in Nat
    BY <1>1, LoadIs
  <2>3. QED
    BY <1>2, <2>1, <2>2
<1>4. CASE CanRearrange(n, pos)
  <2>1. t = [key |-> [n.key EXCEPT ![pos] = Key(r, 0)],
             child |-> [n.child EXCEPT ![pos] = newLeft, ![pos + 1] = newRight]]
    BY <1>4 DEF LeftRotate
  <2>2. M \in Nat /\ KeyLen(n) \in 0 .. M /\ KeyLen(r) \in 0 .. M /\ pos \in Slots /\ n.key[pos] \in Nat
    <3>1. M \in Nat /\ KeyLen(n) \in 0 .. M /\ KeyLen(r) \in 0 .. M
      BY <1>1, MAssumption, TreesAre, GettersTyped
    <3>2. pos \in Slots
      BY <1>4, <3>1 DEF CanRearrange, Slots
    <3>3. QED
      BY <3>1, <3>2 DEF Node
  <2>3. \A i \in Links : newRight.child[i] = IF i <= last_ THEN Child(r, i + 1)
                                             ELSE IF i = last_ + 1 THEN NULL
                                             ELSE r.child[i]
    OBVIOUS
  <2>4. newRight.child \in [Links -> Trees]
    <3>1. \A i : Child(r, i) \in Trees
      BY <1>1, LoadIs
    <3>2. \A i \in Links : r.child[i] \in Trees
      BY <1>1 DEF Node
    <3>3. NULL \in Trees
      BY TreesAre
    <3> HIDE DEF r, last_
    <3>4. QED
      BY <3>1, <3>2, <3>3
  <2>5. last_ \in Nat
    BY <2>2
  <2> HIDE DEF newRight, last_, newLeft, t
  <2>6. /\ t.child[pos] = newLeft /\ t.child[a] = newRight
        /\ \A i \in Links : (i # pos /\ i # a) => t.child[i] = n.child[i]
    <3>1. n.child = [i \in Links |-> n.child[i]] /\ pos # a
      BY DEF Node
    <3>2. t.child = [n.child EXCEPT ![pos] = newLeft, ![a] = newRight]
      BY <2>1
    <3> HIDE DEF a
    <3>3. QED
      BY <1>1, <3>1, <3>2
  <2>7. t \in Node(Trees) /\ newLeft \in Trees /\ newRight \in Trees
    <3>1. t.child[pos] \in Low /\ t.child[a] \in Low
      BY <1>1, <1>2 DEF Node, t
    <3>2. Low \subseteq Trees
      BY TreesAre
    <3>3. t \in Node(Trees)
      BY <1>2, <3>2 DEF Node, t
    <3>4. QED
      BY <2>6, <3>1, <3>2, <3>3
  <2>8. x \in Trees /\ Weight(x) \in Nat
    BY <1>1, LoadIs
  <2>9. Weight(newLeft) \in Nat /\ Weight(newLeft) <= 1 + Sum(l) + Weight(x)
    <3>1. PICK s : s = SetKey(l, KeyLen(l), n.key[pos])
      OBVIOUS
    <3>2. s \in Node(Trees) /\ Sum(s) = Sum(l)
      BY <1>1, <2>2, <3>1, SettersTyped, SumSetters
    <3>3. newLeft = SetChild(s, KeyLen(l) + 1, x)
      BY <3>1 DEF newLeft
    <3>4. newLeft \in Node(Trees) /\ Sum(newLeft) <= Sum(l) + Weight(x)
      BY <2>8, <3>2, <3>3, SettersTyped, SumSetters
    <3>5. newLeft.child \in [Links -> Trees]
      BY <3>4 DEF Node
    <3>6. /\ Weight(newLeft) \in Nat /\ Weight(newLeft) <= 1 + Sum(newLeft)
          /\ Sum(newLeft) \in Nat
      BY <2>7, <3>5, WeightAtMost
    <3> HIDE DEF l, x
    <3>7. Sum(l) \in Nat
      BY <1>1
    <3>8. QED
      BY <2>8, <3>4, <3>6, <3>7
  <2>10. /\ Load(newRight) \in [Nat -> Nat] /\ Sum(newRight) \in Nat
         /\ Weight(newRight) <= 1 + Sum(newRight) /\ Weight(newRight) \in Nat
         /\ \A i \in Nat : Load(newRight)[i] = IF i \in Links THEN Weight(newRight.child[i]) ELSE 0
    BY <2>4, <2>7, WeightAtMost
  <2> HIDE DEF l, r
  <2>11. Load(r) \in [Nat -> Nat] /\ M + 1 \in Nat /\ 0 \in Nat /\ 0 < M + 1 /\ Weight(x) <= Load(r)[0]
    <3>1. 0 < M + 1
      BY <2>2
    <3>2. Load(r) \in [Nat -> Nat] /\ M + 1 \in Nat
      BY <1>1, LoadIs
    <3>3. \A i \in Nat : Weight(Child(r, i)) <= Load(r)[i]
      BY <1>1, LoadIs
    <3>4. QED
      BY <3>1, <3>2, <3>3
  <2>12. PICK u \in [Nat -> Nat] :
           /\ \A i \in Nat : u[i] = IF i = 0 THEN 0 ELSE Load(r)[i]
           /\ Total(Load(r), M + 1) = Total(u, M + 1) + Load(r)[0]
    <3>1. \E u : ZeroedAt(u, Load(r), M + 1, 0)
      BY <2>11, Zeroed
    <3>2. QED
      BY <3>1 DEF ZeroedAt
  <2>13. ASSUME NEW i \in Nat, i < M + 1, Load(newRight)[i] # 0
         PROVE  /\ i # last_ + 1
                /\ p[i] \in Nat /\ p[i] < M + 1 /\ Load(newRight)[i] <= u[p[i]]
    <3>1. i \in Links /\ Load(newRight)[i] = Weight(newRight.child[i])
      BY <2>10, <2>13
    <3>2. newRight.child[i] # NULL
      <4>1. Weight(NULL) = 0
        BY WeightIs
      <4>2. QED
        BY <2>13, <3>1, <4>1
    <3>3. CASE i <= last_
      <4>1. newRight.child[i] = Child(r, i + 1) /\ p[i] = i + 1 /\ i # last_ + 1
        <5>1. newRight.child[i] = Child(r, i + 1)
          BY <2>3, <3>1, <3>3
        <5>2. p[i] = i + 1
          BY <3>3
        <5> HIDE DEF p
        <5>3. QED
          BY <2>5, <3>3, <5>1, <5>2
      <4>2. i + 1 \in Nat /\ i + 1 < M + 1 /\ i + 1 # 0
        <5>1. Child(r, i + 1) # NULL
          BY <3>2, <4>1
        <5>2. i + 1 \in Links
          BY <1>1, <5>1, LoadIs
        <5>3. M \in Nat
          BY MAssumption
        <5> HIDE DEF p, x
        <5>4. QED
          BY <5>2, <5>3 DEF Links
      <4>3. Weight(Child(r, i + 1)) <= Load(r)[i + 1]
        BY <1>1, <4>2, LoadIs
      <4>4. u[i + 1] = Load(r)[i + 1]
        BY <2>12, <4>2
      <4> HIDE DEF p
      <4>5. QED
        BY <3>1, <4>1, <4>2, <4>3, <4>4
    <3>4. CASE ~(i <= last_)
      <4>1. i # last_ + 1 /\ newRight.child[i] = r.child[i] /\ p[i] = i /\ i # 0
        BY <2>3, <2>5, <3>1, <3>2, <3>4
      <4>2. u[i] = Load(r)[i] /\ Load(r)[i] = Weight(r.child[i])
        BY <1>1, <2>12, <3>1, <4>1, LoadIs
      <4>3. Load(newRight)[i] \in Nat
        BY <2>10
      <4> HIDE DEF p
      <4>4. QED
        BY <2>13, <3>1, <4>1, <4>2, <4>3
    <3>5. QED
      BY <3>3, <3>4
  <2>14. ASSUME NEW i \in Nat, NEW j \in Nat, i < j, j < M + 1, Load(newRight)[i] # 0,
                Load(newRight)[j] # 0
         PROVE  p[i] < p[j]
    <3>1. j # last_ + 1
      BY <2>13, <2>14
    <3>2. QED
      BY <2>5, <2>14, <3>1
  <2> HIDE DEF p
  <2>15. Moves(p, Load(newRight), M + 1, u, M + 1)
    BY <2>13, <2>14 DEF Moves
  <2>16. Total(Load(newRight), M + 1) <= Total(u, M + 1)
    BY <2>10, <2>11, <2>15, TotalMoved
  <2>17. Total(u, M + 1) \in Nat /\ Load(r)[0] \in Nat
    BY <2>11, TotalIs
  <2> HIDE DEF x
  <2>18. Sum(newRight) + Weight(x) <= Sum(r)
    BY <2>8, <2>10, <2>11, <2>12, <2>16, <2>17 DEF Sum
  <2>19. Weight(newLeft) + Weight(newRight) <= Weight(l) + Weight(r)
    BY <1>1, <2>8, <2>9, <2>10, <2>18
  <2>20. Sum(t) + Weight(n.child[pos]) + Weight(n.child[a])
           = Sum(n) + Weight(t.child[pos]) + Weight(t.child[a])
    <3>1. pos # a
      OBVIOUS
    <3> HIDE DEF a
    <3>2. QED
      BY <1>1, <2>6, <2>7, <3>1, SumTwoReplaced
  <2>21. Sum(t) \in Nat /\ Sum(n) \in Nat
    BY <1>1, <2>7, LoadIs
  <2> HIDE DEF a
  <2>22. /\ Weight(l) = Weight(n.child[pos]) /\ Weight(r) = Weight(n.child[a])
         /\ Weight(l) \in Nat /\ Weight(r) \in Nat
    BY <1>1
  <2>23. Sum(t) <= Sum(n)
    BY <2>6, <2>9, <2>10, <2>19, <2>20, <2>21, <2>22
  <2>24. QED
    BY <1>2, <2>23 DEF t
<1>5. QED
  BY <1>3, <1>4

LEMMA SumRightRotate ==
  ASSUME NEW n \in Node(Low), NEW pos \in Nat, Child(n, pos) # NULL, Child(n, pos + 1) # NULL
  PROVE  RightRotate(n, pos) \in Node(Low) /\ Sum(RightRotate(n, pos)) <= Sum(n)
<1> DEFINE l == Child(n, pos)
           r == Child(n, pos + 1)
           a == pos + 1
           ll == KeyLen(l)
           rl == KeyLen(r)
           x == Child(l, ll)
           newLeft == SetChild(SetKey(l, ll - 1, 0), ll, NULL)
           newRight == [key |-> [i \in Slots |-> IF i = 0 THEN n.key[pos]
                                                 ELSE IF i <= rl THEN r.key[i - 1]
                                                 ELSE r.key[i]],
                        child |-> [i \in Links |-> IF i = 0 THEN x
                                                   ELSE IF i <= rl + 1 THEN Child(r, i - 1)
                                                   ELSE r.child[i]]]
           t == RightRotate(n, pos)
           p == [i \in Nat |-> IF i \in 1 .. rl + 1 THEN i - 1 ELSE i]
<1>1. /\ n \in Node(Trees) /\ pos \in Links /\ a \in Links
      /\ l = n.child[pos] /\ r = n.child[a] /\ l \in Node(Trees) /\ r \in Node(Trees)
      /\ Weight(l) = 1 + Sum(l) /\ Sum(l) \in Nat /\ Weight(r) = 1 + Sum(r) /\ Sum(r) \in Nat
  BY TwoChildren
<1>2. t \in Node(Low)
  <2>1. PICK T : /\ NULL \in T /\ NULL \in Low /\ Node(T) \subseteq Low
                 /\ Child(n, pos) \in Node(T) /\ Child(n, pos + 1) \in Node(T)
    BY TwoChildren
  <2>2. QED
    BY <2>1, RightRotateTyped
<1>3. CASE ~CanRearrange(n, pos)
  <2>1. t = n
    BY <1>3 DEF RightRotate
  <2>2. Sum(n) \in Nat
    BY <1>1, LoadIs
  <2>3. QED
    BY <1>2, <2>1, <2>2
<1>4. CASE CanRearrange(n, pos)
  <2>1. t = [key |-> [n.key EXCEPT ![pos] = Key(l, ll - 1)],
             child |-> [n.child EXCEPT ![pos] = newLeft, ![pos + 1] = newRight]]
    BY <1>4 DEF RightRotate
  <2>2. M \in Nat /\ ll \in 0 .. M /\ rl \in 0 .. M /\ ll \in Links
    <3>1. M \in Nat /\ ll \in 0 .. M /\ rl \in 0 .. M
      BY <1>1, MAssumption, TreesAre, GettersTyped
    <3>2. QED
      BY <3>1 DEF Links
  <2>3. \A i \in Links : newRight.child[i] = IF i = 0 THEN x
                                             ELSE IF i <= rl + 1 THEN Child(r, i - 1)
                                             ELSE r.child[i]
    OBVIOUS
  <2>4. x \in Trees /\ Weight(x) \in Nat
    BY <1>1, LoadIs
  <2>5. newRight.child \in [Links -> Trees]
    <3>1. \A i : Child(r, i) \in Trees
      BY <1>1, LoadIs
    <3>2. \A i \in Links : r.child[i] \in Trees
      BY <1>1 DEF Node
    <3> HIDE DEF r, rl, x
    <3>3. QED
      BY <2>4, <3>1, <3>2
  <2>6. \A i \in Nat : p[i] = IF i \in 1 .. rl + 1 THEN i - 1 ELSE i
    OBVIOUS
  <2> HIDE DEF newRight, newLeft, t, p
  <2>7. /\ t.child[pos] = newLeft /\ t.child[a] = newRight
        /\ \A i \in Links : (i # pos /\ i # a) => t.child[i] = n.child[i]
    <3>1. n.child = [i \in Links |-> n.child[i]] /\ pos # a
      BY DEF Node
    <3>2. t.child = [n.child EXCEPT ![pos] = newLeft, ![a] = newRight]
      BY <2>1
    <3> HIDE DEF a
    <3>3. QED
      BY <1>1, <3>1, <3>2
  <2>8. t \in Node(Trees) /\ newLeft \in Trees /\ newRight \in Trees
    <3>1. t.child[pos] \in Low /\ t.child[a] \in Low
      BY <1>1, <1>2 DEF Node, t
    <3>2. Low \subseteq Trees
      BY TreesAre
    <3>3. t \in Node(Trees)
      BY <1>2, <3>2 DEF Node, t
    <3>4. QED
      BY <2>7, <3>1, <3>2, <3>3
  <2> HIDE DEF a
  <2>9. Weight(newLeft) \in Nat /\ Weight(newLeft) + Weight(x) <= 1 + Sum(l)
    <3>1. PICK s : s = SetKey(l, ll - 1, 0)
      OBVIOUS
    <3>2. s \in Node(Trees) /\ Sum(s) = Sum(l)
      BY <1>1, <3>1, SettersTyped, SumSetters
    <3>3. s.child = l.child
      BY <3>1 DEF SetKey
    <3>4. newLeft = SetChild(s, ll, NULL)
      BY <3>1 DEF newLeft
    <3>5. NULL \in Trees /\ Weight(NULL) = 0
      BY TreesAre, WeightIs
    <3>6. newLeft \in Node(Trees)
      BY <3>2, <3>4, <3>5, SettersTyped
    <3>7. Sum(newLeft) + Weight(s.child[ll]) = Sum(s) + Weight(NULL)
      BY <2>2, <3>2, <3>4, <3>5, SumSetters
    <3>8. newLeft.child \in [Links -> Trees]
      BY <3>6 DEF Node
    <3>9. /\ Weight(newLeft) \in Nat /\ Weight(newLeft) <= 1 + Sum(newLeft)
          /\ Sum(newLeft) \in Nat
      BY <2>8, <3>8, WeightAtMost
    <3>10. l.child[ll] \in Trees /\ (x = NULL \/ x = l.child[ll])
      <4>1. l.child[ll] \in Trees
        BY <1>1, <2>2 DEF Node
      <4>2. x = NULL \/ x = l.child[ll]
        BY <1>1, LoadIs
      <4>3. QED
        BY <4>1, <4>2
    <3>11. Weight(l.child[ll]) \in Nat /\ Weight(x) <= Weight(l.child[ll])
      <4>1. Weight(l.child[ll]) \in Nat
        BY <3>10, WeightIs
      <4> HIDE DEF l, ll, x
      <4>2. QED
        BY <3>5, <3>10, <4>1
    <3> HIDE DEF l, x, ll
    <3>12. Sum(l) \in Nat
      BY <1>1
    <3>13. Sum(newLeft) + Weight(l.child[ll]) = Sum(l)
      BY <3>2, <3>3, <3>5, <3>7, <3>12
    <3>14. QED
      BY <2>4, <3>9, <3>11, <3>12, <3>13
  <2>10. /\ Load(newRight) \in [Nat -> Nat] /\ Sum(newRight) \in Nat
         /\ Weight(newRight) <= 1 + Sum(newRight) /\ Weight(newRight) \in Nat
         /\ \A i \in Nat : Load(newRight)[i] = IF i \in Links THEN Weight(newRight.child[i]) ELSE 0
    BY <2>5, <2>8, WeightAtMost
  <2> HIDE DEF l, r, ll, rl, x
  <2>11. Load(r) \in [Nat -> Nat] /\ M + 1 \in Nat /\ 0 \in Nat /\ 0 < M + 1
    <3>1. 0 < M + 1
      BY <2>2
    <3>2. Load(r) \in [Nat -> Nat] /\ M + 1 \in Nat
      BY <1>1, LoadIs
    <3>3. QED
      BY <3>1, <3>2
  <2>12. PICK u \in [Nat -> Nat] :
           /\ \A i \in Nat : u[i] = IF i = 0 THEN 0 ELSE Load(newRight)[i]
           /\ Total(Load(newRight), M + 1) = Total(u, M + 1) + Load(newRight)[0]
    <3>1. \E u : ZeroedAt(u, Load(newRight), M + 1, 0)
      BY <2>10, <2>11, Zeroed
    <3>2. QED
      BY <3>1 DEF ZeroedAt
  <2>13. Load(newRight)[0] = Weight(x)
    <3>1. 0 \in Links
      BY <2>2 DEF Links
    <3>2. QED
      BY <2>3, <2>10, <3>1
  <2>14. ASSUME NEW i \in Nat, i < M + 1, u[i] # 0
         PROVE  /\ i # 0 /\ p[i] \in Nat /\ p[i] < M + 1 /\ u[i] <= Load(r)[p[i]]
    <3>1. i # 0 /\ u[i] = Load(newRight)[i]
      BY <2>12, <2>14
    <3>2. i \in Links /\ u[i] = Weight(newRight.child[i]) /\ u[i] \in Nat
      BY <2>10, <2>14, <3>1
    <3>3. CASE i <= rl + 1
      <4>1. i \in 1 .. rl + 1 /\ p[i] = i - 1 /\ i - 1 \in Nat /\ i - 1 < M + 1
        BY <2>2, <2>6, <2>14, <3>1, <3>3
      <4>2. newRight.child[i] = Child(r, i - 1)
        BY <2>3, <3>1, <3>2, <3>3
      <4>3. Weight(Child(r, i - 1)) <= Load(r)[i - 1]
        BY <1>1, <4>1, LoadIs
      <4>4. QED
        BY <3>1, <3>2, <4>1, <4>2, <4>3
    <3>4. CASE ~(i <= rl + 1)
      <4>1. p[i] = i /\ newRight.child[i] = r.child[i]
        BY <2>2, <2>3, <2>6, <3>1, <3>2, <3>4
      <4>2. Load(r)[i] = Weight(r.child[i])
        BY <1>1, <3>2, LoadIs
      <4>3. QED
        BY <2>14, <3>1, <3>2, <4>1, <4>2
    <3>5. QED
      BY <3>3, <3>4
  <2>15. ASSUME NEW i \in Nat, NEW j \in Nat, i < j, j < M + 1, u[i] # 0, u[j] # 0
         PROVE  p[i] < p[j]
    <3>1. i # 0 /\ j # 0
      <4>1. i < M + 1
        BY <2>2, <2>15
      <4>2. QED
        BY <2>14, <2>15, <4>1
    <3>2. Load(newRight)[i] # 0 /\ Load(newRight)[j] # 0
      BY <2>12, <2>15, <3>1
    <3>3. i = rl + 1 \/ i # rl + 1
      OBVIOUS
    <3>4. QED
      BY <2>2, <2>6, <2>15, <3>1, <3>3
  <2>16. Moves(p, u, M + 1, Load(r), M + 1)
    BY <2>14, <2>15 DEF Moves
  <2>17. Total(u, M + 1) <= Total(Load(r), M + 1)
    BY <2>11, <2>12, <2>16, TotalMoved
  <2>18. Total(u, M + 1) \in Nat
    BY <2>11, TotalIs
  <2>19. Sum(newRight) <= Sum(r) + Weight(x)
    BY <2>4, <2>12, <2>13, <2>17, <2>18, <1>1 DEF Sum
  <2>20. Weight(newLeft) + Weight(newRight) <= Weight(l) + Weight(r)
    BY <1>1, <2>4, <2>9, <2>10, <2>19
  <2>21. Sum(t) + Weight(n.child[pos]) + Weight(n.child[a])
           = Sum(n) + Weight(t.child[pos]) + Weight(t.child[a])
    <3>1. pos # a
      BY DEF a
    <3>2. QED
      BY <1>1, <2>7, <2>8, <3>1, SumTwoReplaced
  <2>22. Sum(t) \in Nat /\ Sum(n) \in Nat
    BY <1>1, <2>8, LoadIs
  <2>23. /\ Weight(l) = Weight(n.child[pos]) /\ Weight(r) = Weight(n.child[a])
         /\ Weight(l) \in Nat /\ Weight(r) \in Nat
    BY <1>1
  <2>24. Sum(t) <= Sum(n)
    BY <2>7, <2>9, <2>10, <2>20, <2>21, <2>22, <2>23
  <2>25. QED
    BY <1>2, <2>24 DEF t
<1>5. QED
  BY <1>3, <1>4

\* What a rearrangement takes away below n covers the node a merge frees.
LEMMA RearrangeWeight ==
  ASSUME NEW n \in Node(Low), NEW pos \in Nat, NEW sub \in Lefts(Low)
  PROVE  \/ Rearrange(n, pos, sub).rtval = "oops"
         \/ /\ Rearrange(n, pos, sub).node \in Node(Low)
            /\ Rearrange(n, pos, sub).freed \in Nat
            /\ Sum(Rearrange(n, pos, sub).node) + Rearrange(n, pos, sub).freed <= Sum(n) + sub.freed
<1> DEFINE here == Child(n, pos)
           before == Child(n, pos - 1)
           after == Child(n, pos + 1)
           needed == IF pos = KeyLen(n) THEN {before, here}
                     ELSE IF pos = 0 THEN {here, after} ELSE {before, here, after}
           Good(a) == a.node \in Node(Low) /\ a.freed \in Nat /\ Sum(a.node) + a.freed <= Sum(n) + sub.freed
<1>1. n \in Node(Trees) /\ sub.freed \in Nat /\ Sum(n) \in Nat
  BY TreesAre, LoadIs DEF Node, Lefts
<1>2. ASSUME NEW i \in Nat, Child(n, i) # NULL, Child(n, i + 1) # NULL,
             Fits(Child(n, i), Child(n, i + 1))
      PROVE  Good(MergeAt(n, i, sub))
  <2>1. CASE CanRearrange(n, i)
    <3>1. Merge(n, i) \in Node(Low) /\ Sum(Merge(n, i)) + 1 <= Sum(n)
      BY <1>2, <2>1, SumMerge
    <3>2. MergeAt(n, i, sub).node = Merge(n, i) /\ MergeAt(n, i, sub).freed = sub.freed + 1
      BY <2>1 DEF MergeAt, Lefts
    <3>3. Sum(Merge(n, i)) \in Nat
      BY <3>1, TreesAre, LoadIs DEF Node
    <3>4. QED
      BY <1>1, <3>1, <3>2, <3>3
  <2>2. CASE ~CanRearrange(n, i)
    <3>1. Merge(n, i) = n
      BY <2>2 DEF Merge
    <3>2. MergeAt(n, i, sub).node = n /\ MergeAt(n, i, sub).freed = sub.freed
      BY <1>1, <2>2, <3>1 DEF MergeAt, Lefts
    <3>3. QED
      BY <1>1, <3>2
  <2>3. QED
    BY <2>1, <2>2
<1>3. ASSUME NEW t \in Node(Low), Sum(t) <= Sum(n)
      PROVE  Good(RotateTo(t, sub))
  <2>1. RotateTo(t, sub).node = t /\ RotateTo(t, sub).freed = sub.freed
    BY DEF RotateTo, Lefts
  <2>2. Sum(t) \in Nat
    BY TreesAre, LoadIs DEF Node
  <2>3. QED
    BY <1>1, <1>3, <2>1, <2>2
<1>4. ASSUME NEW i \in Nat, Child(n, i) # NULL, Child(n, i + 1) # NULL
      PROVE  Good(RotateTo(LeftRotate(n, i), sub)) /\ Good(RotateTo(RightRotate(n, i), sub))
  <2> HIDE DEF Good
  <2>1. QED
    BY <1>3, <1>4, SumLeftRotate, SumRightRotate
<1>5. Rearrange(n, pos, sub) =
        IF NULL \in needed THEN Left(n, "oops")
        ELSE IF pos > 0 /\ Fits(before, here) THEN MergeAt(n, pos - 1, sub)
        ELSE IF pos = KeyLen(n) THEN RotateTo(LeftRotate(n, pos - 1), sub)
        ELSE IF Fits(here, after) THEN MergeAt(n, pos, sub)
        ELSE RotateTo(RightRotate(n, pos), sub)
  BY DEF Rearrange
<1>6. Left(n, "oops").rtval = "oops"
  BY DEF Left
<1>7. CASE NULL \in needed
  BY <1>5, <1>6, <1>7
<1>8. CASE NULL \notin needed
  <2>1. pos > 0 => before # NULL /\ here # NULL /\ pos - 1 \in Nat /\ pos - 1 + 1 = pos
    BY <1>8
  <2>2. pos = KeyLen(n) => pos > 0
    <3>1. pos = 0 => before = NULL
      <4>1. -1 \notin Links
        BY DEF Links
      <4>2. QED
        BY <1>1, <4>1, LoadIs
    <3>2. QED
      BY <1>8, <3>1
  <2>3. pos # KeyLen(n) => here # NULL /\ after # NULL
    BY <1>8
  <2>4. pos > 0 /\ Fits(before, here) => Good(MergeAt(n, pos - 1, sub))
    <3> HIDE DEF Good
    <3>1. QED
      BY <1>2, <2>1
  <2>5. pos # KeyLen(n) /\ Fits(here, after) => Good(MergeAt(n, pos, sub))
    <3> HIDE DEF Good
    <3>1. QED
      BY <1>2, <2>3
  <2>6. pos = KeyLen(n) => Good(RotateTo(LeftRotate(n, pos - 1), sub))
    <3> HIDE DEF Good
    <3>1. QED
      BY <1>4, <2>1, <2>2
  <2>7. pos # KeyLen(n) => Good(RotateTo(RightRotate(n, pos), sub))
    <3> HIDE DEF Good
    <3>1. QED
      BY <1>4, <2>3
  <2> HIDE DEF Good, needed, before, here, after
  <2>8. Good(Rearrange(n, pos, sub))
    BY <1>5, <1>8, <2>4, <2>5, <2>6, <2>7
  <2>9. QED
    BY <2>8 DEF Good
<1>9. QED
  BY <1>7, <1>8

\* The answer to a remove weighs less than the tree it was made on by the nodes
\* freed.
Lighter(a, m) == Weight(a.node) + a.freed <= Weight(m)

LEMMA RemoveAboveWeight ==
  ASSUME NEW n \in Node(Low), NEW moved \in Node(Low), moved.child = n.child,
         NEW pos \in Nat, NEW sub \in Lefts(Low), Lighter(sub, Child(n, pos))
  PROVE  Lighter(RemoveAbove(n, moved, pos, sub), n)
<1> DEFINE here == WithChild(moved, pos, sub.node)
           fixed == IF sub.rtval = "short" THEN Rearrange(here, pos, sub)
                                           ELSE [sub EXCEPT !.node = here]
           c == Child(n, pos)
<1>1. /\ n \in Trees /\ n # NULL /\ n \in Node(Trees) /\ NULL \in Low /\ Low \subseteq Trees
      /\ Node(Low) \subseteq Node(Trees)
  BY TreesAre, ChildBelow DEF Node
<1>2. Weight(n) = 1 + Sum(n) /\ Sum(n) \in Nat /\ Weight(NULL) = 0
  BY <1>1, WeightIs, LoadIs
<1>3. \A rtval : Lighter(Left(n, rtval), n)
  BY <1>2 DEF Lighter, Left
<1>4. /\ sub.node \in Low /\ sub.freed \in Nat /\ Weight(sub.node) \in Nat
      /\ c \in Trees /\ Weight(c) \in Nat /\ Weight(sub.node) + sub.freed <= Weight(c)
  <2>1. sub.node \in Low /\ sub.freed \in Nat
    BY DEF Lefts
  <2>2. sub.node \in Trees
    BY <1>1, <2>1
  <2>3. c \in Trees
    BY <1>1, LoadIs
  <2>4. QED
    BY <2>1, <2>2, <2>3, WeightIs DEF Lighter
<1>5. Child(moved, pos) = c
  <2>1. ChildLen(moved) = ChildLen(n)
    BY DEF ChildLen
  <2>2. QED
    BY <2>1 DEF Child
<1>6. here \in Node(Low) /\ Sum(here) \in Nat /\ Sum(here) + sub.freed <= Sum(n)
  <2>1. moved \in Node(Trees) /\ Sum(moved) = Sum(n)
    BY <1>1, SumSame
  <2>2. CASE c = NULL
    <3>1. here = moved
      BY <1>5, <2>2 DEF WithChild
    <3>2. sub.freed = 0
      BY <1>2, <1>4, <2>2
    <3>3. QED
      BY <1>2, <2>1, <3>1, <3>2
  <2>3. CASE c # NULL
    <3>1. here = SetChild(moved, pos, sub.node) /\ pos \in Links /\ c = n.child[pos]
      <4>1. pos \in Links /\ c = n.child[pos]
        BY <1>1, <2>3, LoadIs
      <4>2. QED
        BY <1>5, <2>3, <4>1 DEF WithChild
    <3>2. sub.node \in Trees
      BY <1>1, <1>4
    <3>3. Sum(SetChild(moved, pos, sub.node)) + Weight(moved.child[pos]) = Sum(moved) + Weight(sub.node)
      BY <2>1, <3>1, <3>2, SumSetters
    <3>4. here \in Node(Low)
      BY <1>1, <1>4, <3>1, SettersTyped
    <3> HIDE DEF here, c
    <3>5. Sum(here) \in Nat
      BY <1>1, <3>4, LoadIs
    <3>6. Sum(here) + Weight(c) = Sum(n) + Weight(sub.node)
      BY <2>1, <3>1, <3>3
    <3>7. QED
      BY <1>2, <1>4, <3>4, <3>5, <3>6
  <2>4. QED
    BY <2>2, <2>3
<1> HIDE DEF here
<1>7. \/ fixed.rtval = "oops"
      \/ fixed.node \in Node(Low) /\ fixed.freed \in Nat /\ Sum(fixed.node) + fixed.freed <= Sum(n)
  <2>1. CASE sub.rtval = "short"
    <3>1. PICK a : a = Rearrange(here, pos, sub)
      OBVIOUS
    <3>2. \/ a.rtval = "oops"
          \/ /\ a.node \in Node(Low) /\ a.freed \in Nat
             /\ Sum(a.node) + a.freed <= Sum(here) + sub.freed
      BY <1>6, <3>1, RearrangeWeight
    <3>3. fixed = a
      BY <2>1, <3>1
    <3> HIDE DEF fixed
    <3>4. a.node \in Node(Low) => Sum(a.node) \in Nat
      BY <1>1, LoadIs
    <3>5. QED
      BY <1>2, <1>4, <1>6, <3>2, <3>3, <3>4
  <2>2. CASE sub.rtval # "short"
    <3>1. fixed.node = here /\ fixed.freed = sub.freed
      BY <2>2 DEF Lefts
    <3>2. QED
      BY <1>4, <1>6, <3>1
  <2>3. QED
    BY <2>1, <2>2
<1>8. RemoveAbove(n, moved, pos, sub) =
        IF fixed.rtval = "oops" \/ (sub.rtval = "failed" /\ pos = KeyLen(n))
        THEN Left(n, fixed.rtval) ELSE Settle(fixed)
  BY DEF RemoveAbove, here
<1> HIDE DEF fixed
<1>9. fixed.rtval # "oops" => Lighter(Settle(fixed), n)
  <2>1. SUFFICES ASSUME fixed.rtval # "oops" PROVE Lighter(Settle(fixed), n)
    OBVIOUS
  <2>2. /\ fixed.node \in Node(Low) /\ fixed.freed \in Nat
        /\ Sum(fixed.node) + fixed.freed <= Sum(n)
    BY <1>7, <2>1
  <2>3. PICK x : x = fixed.node
    OBVIOUS
  <2>4. Weight(x) = 1 + Sum(x) /\ Sum(x) \in Nat
    BY <1>1, <2>2, <2>3, TreesAre, ChildBelow, WeightIs, LoadIs
  <2>5. Weight(x) + fixed.freed <= Weight(n)
    BY <1>2, <2>2, <2>3, <2>4
  <2>6. QED
    BY <2>3, <2>5 DEF Lighter, Settle
<1>10. QED
  BY <1>3, <1>8, <1>9

LEMMA FromWeight ==
  ASSUME NEW f, Removes(f)
  PROVE  \A m \in Trees : \A j \in Nat : Lighter(f[m][j], m)
<1> DEFINE S == {m \in Trees : \A j \in Nat : Lighter(f[m][j], m)}
<1>1. \A m \in Trees : \A j \in Nat : f[m][j] = From(m, j, f)
  <2>1. MaxHeight \in 0 .. MaxHeight
    BY BoundsAssumption
  <2>2. QED
    BY <2>1 DEF Removes, Trees
<1>2. \A m \in Low : \A j \in Nat : f[m][j] \in Lefts(Low)
  <2>1. MaxHeight - 1 \in 0 .. MaxHeight
    BY BoundsAssumption
  <2>2. QED
    BY <2>1 DEF Removes, Low
<1>3. NULL \in Trees /\ NULL \in Low
  BY TreesAre
<1>4. \A m \in Trees : Lighter(Left(m, "failed"), m)
  BY WeightIs DEF Lighter, Left
<1>5. NULL \in S
  <2>1. \A j \in Nat : f[NULL][j] = Left(NULL, "failed")
    BY <1>1, <1>3 DEF From
  <2>2. QED
    BY <1>3, <1>4, <2>1
<1>6. ASSUME NEW m \in Trees, m # NULL, m \in Node(Trees), Below(m) \subseteq S
      PROVE  m \in S
  <2>1. SUFFICES ASSUME NEW j \in Nat PROVE Lighter(f[m][j], m)
    OBVIOUS
  <2> DEFINE pos == FindPos(m, j)
             found == Key(m, pos) = j
             below == Child(m, pos)
             biggest == FindBiggest(below)
  <2>2. m \in Node(Low) /\ Weight(m) = 1 + Sum(m) /\ Sum(m) \in Nat
    BY <1>6, TreesAre, WeightIs, LoadIs
  <2>3. pos \in Nat
    <3>1. \A i \in Slots : m.key[i] \in Nat
      BY <2>2 DEF Node
    <3>2. pos \in 0 .. KeyLen(m) /\ KeyLen(m) \in Nat
      BY <1>3, <2>2, <3>1, FindPosIs, GettersTyped, MAssumption
    <3>3. QED
      BY <3>2
  <2>4. below \in Low /\ below \in Below(m) /\ below \in Trees
    BY <1>3, <1>6, <2>2, GettersTyped, ChildBelow
  <2>5. biggest \in Nat \cup {NULL}
    BY <2>4, FindBiggestIs
  <2>6. f[m][j] =
         IF j = 0 THEN Left(m, "failed")
         ELSE IF IsLeaf(m)
         THEN IF found THEN Settle(Left(LeafLeftShift(m, pos), "enough")) ELSE Left(m, "failed")
         ELSE IF found /\ biggest = NULL THEN Left(m, "failed")
         ELSE IF found THEN RemoveAbove(m, SetKey(m, pos, biggest), pos, f[below][biggest])
         ELSE RemoveAbove(m, m, pos, f[below][j])
    BY <1>1, <1>6 DEF From
  <2> HIDE DEF pos, found, biggest
  <2>7. Lighter(Settle(Left(LeafLeftShift(m, pos), "enough")), m)
    <3>1. PICK t : t = LeafLeftShift(m, pos)
      OBVIOUS
    <3>2. t \in Node(Low) /\ t.child = m.child
      <4>1. t \in Node(Low)
        BY <2>2, <3>1, LeafLeftShiftTyped
      <4>2. QED
        BY <3>1, <4>1 DEF LeafLeftShift
    <3>3. Sum(t) = Sum(m) /\ Weight(t) = 1 + Sum(t)
      BY <3>2, TreesAre, ChildBelow, SumSame, WeightIs
    <3>4. QED
      BY <2>2, <3>1, <3>3 DEF Lighter, Settle, Left
  <2>8. Lighter(RemoveAbove(m, m, pos, f[below][j]), m)
    <3>1. f[below][j] \in Lefts(Low) /\ Lighter(f[below][j], below)
      BY <1>2, <1>6, <2>4
    <3>2. QED
      BY <2>2, <2>3, <3>1, RemoveAboveWeight
  <2>9. ASSUME found, biggest # NULL
        PROVE  Lighter(RemoveAbove(m, SetKey(m, pos, biggest), pos, f[below][biggest]), m)
    <3>1. biggest \in Nat
      BY <2>5, <2>9
    <3>2. f[below][biggest] \in Lefts(Low) /\ Lighter(f[below][biggest], below)
      BY <1>2, <1>6, <2>4, <3>1
    <3>3. PICK t : t = SetKey(m, pos, biggest)
      OBVIOUS
    <3>4. t \in Node(Low) /\ t.child = m.child
      <4>1. t \in Node(Low)
        BY <2>2, <3>1, <3>3, SettersTyped
      <4>2. \A i, k : SetKey(m, i, k).child = m.child
        BY DEF SetKey
      <4>3. QED
        BY <3>3, <4>1, <4>2
    <3>5. Lighter(RemoveAbove(m, t, pos, f[below][biggest]), m)
      BY <2>2, <2>3, <3>2, <3>4, RemoveAboveWeight
    <3>6. QED
      BY <3>3, <3>5
  <2>10. QED
    BY <1>4, <2>6, <2>7, <2>8, <2>9
<1>7. Trees \subseteq S
  <2> HIDE DEF S
  <2>1. QED
    BY <1>5, <1>6, TreeInduction
<1>8. QED
  BY <1>7

-----------------------------------------------------------------------------
(* Destroying a tree frees no more nodes than it weighs *)

\* What NodeCount makes of m when f gives the counts of its children.
Counted(m, f) ==
    LET upto[i \in 0 .. ChildLen(m)] == IF i = 0 THEN 1 ELSE upto[i - 1] + f[Child(m, i - 1)]
    IN  upto[ChildLen(m)]

Each(m, f) == [i \in Nat |-> f[Child(m, i)]]

LEMMA CountedIs ==
  ASSUME NEW m \in Trees, m # NULL, NEW f, \A i : f[Child(m, i)] \in Nat
  PROVE  /\ Each(m, f) \in [Nat -> Nat]
         /\ Counted(m, f) = 1 + Total(Each(m, f), ChildLen(m))
<1> DEFINE len == ChildLen(m)
           g == Each(m, f)
           F(u) == [i \in 0 .. ChildLen(m) |-> IF i = 0 THEN 1 ELSE u[i - 1] + f[Child(m, i - 1)]]
           upto == CHOOSE u : u = F(u)
           h == [i \in 0 .. len |-> 1 + Total(g, i)]
<1>1. Counted(m, f) = upto[ChildLen(m)]
  BY Zenon DEF Counted
<1>2. len \in Nat
  BY ChildBelow, GettersTyped, TreesAre, MAssumption
<1>3. g \in [Nat -> Nat] /\ \A i \in Nat : g[i] = f[Child(m, i)]
  BY DEF Each
<1>4. \A k \in Nat : Total(g, k) \in Nat /\ Total(g, k + 1) = Total(g, k) + g[k]
  BY <1>3, TotalIs
<1>5. Total(g, 0) = 0
  BY <1>3, TotalIs
<1> HIDE DEF g
<1>6. h = F(h)
  <2>1. ASSUME NEW i \in 0 .. len
        PROVE  1 + Total(g, i) = IF i = 0 THEN 1 ELSE h[i - 1] + f[Child(m, i - 1)]
    <3>1. CASE i = 0
      BY <1>5, <3>1
    <3>2. CASE i # 0
      <4>1. i - 1 \in Nat /\ i - 1 \in 0 .. len /\ (i - 1) + 1 = i
        BY <1>2, <3>2
      <4>2. Total(g, (i - 1) + 1) = Total(g, i - 1) + g[i - 1] /\ Total(g, i - 1) \in Nat
        BY <1>4, <4>1
      <4>3. h[i - 1] = 1 + Total(g, i - 1)
        BY <4>1
      <4>4. g[i - 1] = f[Child(m, i - 1)] /\ g[i - 1] \in Nat
        BY <1>3, <4>1
      <4> HIDE DEF h
      <4>5. QED
        BY <3>2, <4>1, <4>2, <4>3, <4>4
    <3>3. QED
      BY <3>1, <3>2
  <2>2. h = [i \in 0 .. len |-> IF i = 0 THEN 1 ELSE h[i - 1] + f[Child(m, i - 1)]]
    <3>1. PICK v : v = h
      OBVIOUS
    <3>2. v = [i \in 0 .. len |-> 1 + Total(g, i)]
      BY <3>1
    <3>3. \A i \in 0 .. len : 1 + Total(g, i) = IF i = 0 THEN 1 ELSE v[i - 1] + f[Child(m, i - 1)]
      BY <2>1, <3>1
    <3> HIDE DEF h
    <3>4. v = [i \in 0 .. len |-> IF i = 0 THEN 1 ELSE v[i - 1] + f[Child(m, i - 1)]]
      BY <3>2, <3>3
    <3>5. QED
      BY <3>1, <3>4
  <2>3. QED
    BY <2>2
<1>7. upto = F(upto)
  <2> HIDE DEF F, h
  <2>1. QED
    BY <1>6
<1>8. \A i \in 0 .. len : upto[i] = IF i = 0 THEN 1 ELSE upto[i - 1] + f[Child(m, i - 1)]
  <2> HIDE DEF upto
  <2>1. upto = [i \in 0 .. ChildLen(m) |-> IF i = 0 THEN 1 ELSE upto[i - 1] + f[Child(m, i - 1)]]
    BY <1>7
  <2>2. QED
    BY <2>1
<1> HIDE DEF upto, len, h
<1> DEFINE T == {i \in Nat : i <= len => upto[i] = 1 + Total(g, i)}
<1>9. 0 \in T
  BY <1>2, <1>5, <1>8
<1>10. ASSUME NEW i \in Nat, i \in T PROVE i + 1 \in T
  <2>1. SUFFICES ASSUME i + 1 <= len PROVE upto[i + 1] = 1 + Total(g, i + 1)
    OBVIOUS
  <2>2. i + 1 \in 0 .. len /\ i + 1 # 0 /\ (i + 1) - 1 = i
    BY <1>2, <2>1
  <2>3. upto[i + 1] = upto[i] + f[Child(m, i)]
    BY <1>8, <2>2
  <2>4. upto[i] = 1 + Total(g, i)
    BY <1>2, <1>10, <2>1
  <2>5. Total(g, i + 1) = Total(g, i) + g[i] /\ Total(g, i) \in Nat /\ g[i] \in Nat /\ g[i] = f[Child(m, i)]
    BY <1>3, <1>4
  <2>6. QED
    BY <2>3, <2>4, <2>5
<1>11. \A i \in Nat : i \in T
  <2> HIDE DEF T
  <2>1. QED
    BY <1>9, <1>10, Induction
<1>12. upto[len] = 1 + Total(g, len)
  BY <1>2, <1>11
<1>13. QED
  BY <1>1, <1>3, <1>12 DEF len, g

LEMMA NodeCountIs ==
  /\ NodeCount(NULL) = 0
  /\ \A n \in Trees : NodeCount(n) \in Nat /\ NodeCount(n) <= Weight(n)
  /\ \A n \in Trees : n # NULL =>
       \E g \in [Nat -> Nat] : /\ NodeCount(n) = 1 + Total(g, ChildLen(n))
                                /\ \A i \in Nat : g[i] = NodeCount(Child(n, i))
<1> DEFINE E(m, f) == IF m = NULL THEN 0 ELSE Counted(m, f)
           F(f) == [m \in Trees |-> E(m, f)]
           step == [p \in Trees \X [Trees -> Nat] |-> E(p[1], p[2])]
           count == CHOOSE f : f = F(f)
<1>1. \A n \in Trees : NodeCount(n) = count[n]
  BY Zenon DEF NodeCount, Counted
<1>2. ASSUME NEW n \in Trees, n # NULL
      PROVE  /\ \A i : Child(n, i) \in Trees /\ Child(n, i) \in Below(n)
             /\ ChildLen(n) \in Nat /\ ChildLen(n) <= M + 1 /\ M \in Nat
             /\ n \in Node(Trees)
  <2>1. n \in Node(Trees) /\ \A i : Child(n, i) \in Trees /\ Child(n, i) \in Below(n)
    BY <1>2, ChildBelow
  <2>2. ChildLen(n) \in 0 .. M + 1 /\ M \in Nat
    BY <2>1, GettersTyped, TreesAre, MAssumption
  <2>3. QED
    BY <2>1, <2>2
<1>3. ASSUME NEW n \in Trees, NEW f, n # NULL => \A i : f[Child(n, i)] \in Nat
      PROVE  E(n, f) \in Nat
  <2>1. CASE n = NULL
    BY <2>1
  <2>2. CASE n # NULL
    <3>1. Each(n, f) \in [Nat -> Nat] /\ Counted(n, f) = 1 + Total(Each(n, f), ChildLen(n))
      BY <1>3, <2>2, CountedIs
    <3>2. Total(Each(n, f), ChildLen(n)) \in Nat
      BY <1>2, <2>2, <3>1, TotalIs
    <3>3. QED
      BY <2>2, <3>1, <3>2
  <2>3. QED
    BY <2>1, <2>2
<1>4. step \in [Trees \X [Trees -> Nat] -> Nat]
  <2>1. \A p \in Trees \X [Trees -> Nat] : p[1] \in Trees /\ p[2] \in [Trees -> Nat]
    OBVIOUS
  <2>2. \A p \in Trees \X [Trees -> Nat] : E(p[1], p[2]) \in Nat
    <3> TAKE p \in Trees \X [Trees -> Nat]
    <3>1. p[1] # NULL => \A i : p[2][Child(p[1], i)] \in Nat
      BY <1>2, <2>1
    <3> HIDE DEF E
    <3>2. QED
      BY <1>3, <2>1, <3>1
  <2> HIDE DEF E
  <2>3. QED
    BY <2>2
<1>5. ASSUME NEW n \in Trees, NEW f \in [Trees -> Nat], NEW g \in [Trees -> Nat],
             \A c \in Below(n) : f[c] = g[c]
      PROVE  step[<<n, f>>] = step[<<n, g>>]
  <2>1. E(n, f) = E(n, g)
    <3>1. CASE n = NULL
      BY <3>1
    <3>2. CASE n # NULL
      <4>1. \A i : f[Child(n, i)] \in Nat /\ g[Child(n, i)] \in Nat /\ f[Child(n, i)] = g[Child(n, i)]
        BY <1>2, <1>5, <3>2
      <4>2. Each(n, f) = Each(n, g)
        BY <4>1 DEF Each
      <4>3. Counted(n, f) = 1 + Total(Each(n, f), ChildLen(n))
        BY <3>2, <4>1, CountedIs
      <4>4. Counted(n, g) = 1 + Total(Each(n, g), ChildLen(n))
        BY <3>2, <4>1, CountedIs
      <4>5. QED
        BY <3>2, <4>2, <4>3, <4>4
    <3>3. QED
      BY <3>1, <3>2
  <2> HIDE DEF E
  <2>2. QED
    BY <2>1
<1>6. PICK f : TreeSolves(f, Nat, step)
  <2>1. 0 \in Nat
    OBVIOUS
  <2> HIDE DEF step
  <2>2. QED
    BY <1>4, <1>5, <2>1, TreeRecursion
<1>7. f = F(f)
  <2> HIDE DEF E
  <2>1. f \in [Trees -> Nat] /\ \A n \in Trees : f[n] = E(n, f)
    BY <1>6 DEF TreeSolves
  <2>2. QED
    BY <2>1
<1>8. count = F(count)
  <2> HIDE DEF F
  <2>1. QED
    BY <1>7
<1>9. \A n \in Trees : count[n] = E(n, count)
  <2> HIDE DEF count, E
  <2>1. QED
    BY <1>8
<1> HIDE DEF count
<1> DEFINE S == {n \in Trees : count[n] \in Nat /\ count[n] <= Weight(n)}
<1>10. NULL \in S
  BY <1>9, TreesAre, WeightIs
<1>11. ASSUME NEW n \in Trees, n # NULL, n \in Node(Trees), Below(n) \subseteq S PROVE n \in S
  <2>1. \A i : count[Child(n, i)] \in Nat /\ count[Child(n, i)] <= Weight(Child(n, i))
    BY <1>2, <1>11
  <2>2. /\ Each(n, count) \in [Nat -> Nat]
        /\ count[n] = 1 + Total(Each(n, count), ChildLen(n))
    BY <1>9, <1>11, <2>1, CountedIs
  <2>3. /\ Load(n) \in [Nat -> Nat] /\ M + 1 \in Nat
        /\ \A i \in Nat : Weight(Child(n, i)) <= Load(n)[i]
        /\ \A i : Weight(Child(n, i)) \in Nat
    BY <1>11, LoadIs
  <2>4. ChildLen(n) \in Nat /\ ChildLen(n) <= M + 1
    BY <1>2, <1>11
  <2> DEFINE p == [i \in Nat |-> i]
  <2>5. Moves(p, Each(n, count), ChildLen(n), Load(n), M + 1)
    <3>1. ASSUME NEW i \in Nat, i < ChildLen(n), Each(n, count)[i] # 0
          PROVE  p[i] \in Nat /\ p[i] < M + 1 /\ Each(n, count)[i] <= Load(n)[p[i]]
      <4>1. Each(n, count)[i] = count[Child(n, i)]
        BY DEF Each
      <4>2. Each(n, count)[i] <= Load(n)[i]
        <5>1. Load(n)[i] \in Nat
          BY <2>3
        <5>2. QED
          BY <2>1, <2>3, <4>1, <5>1
      <4>3. QED
        BY <2>3, <2>4, <3>1, <4>2
    <3>2. \A i, j \in Nat : i < j => p[i] < p[j]
      OBVIOUS
    <3> HIDE DEF p
    <3>3. QED
      BY <3>1, <3>2 DEF Moves
  <2>6. Total(Each(n, count), ChildLen(n)) <= Total(Load(n), M + 1)
    <3> HIDE DEF p
    <3>1. QED
      BY <2>2, <2>3, <2>4, <2>5, TotalMoved
  <2>7. Total(Each(n, count), ChildLen(n)) \in Nat
    BY <2>2, <2>4, TotalIs
  <2>8. Weight(n) = 1 + Total(Load(n), M + 1) /\ Total(Load(n), M + 1) \in Nat
    BY <1>11, <2>3, TotalIs, WeightIs DEF Sum
  <2>9. QED
    BY <2>2, <2>6, <2>7, <2>8
<1>12. Trees \subseteq S
  <2> HIDE DEF S
  <2>1. QED
    BY <1>10, <1>11, TreeInduction
<1>13. ASSUME NEW n \in Trees, n # NULL
       PROVE  \E g \in [Nat -> Nat] : /\ NodeCount(n) = 1 + Total(g, ChildLen(n))
                                      /\ \A i \in Nat : g[i] = NodeCount(Child(n, i))
  <2>1. \A i : Child(n, i) \in Trees /\ count[Child(n, i)] \in Nat
    BY <1>2, <1>12, <1>13
  <2>2. /\ Each(n, count) \in [Nat -> Nat]
        /\ NodeCount(n) = 1 + Total(Each(n, count), ChildLen(n))
    BY <1>1, <1>9, <1>13, <2>1, CountedIs
  <2>3. \A i \in Nat : Each(n, count)[i] = NodeCount(Child(n, i))
    BY <1>1, <2>1 DEF Each
  <2>4. QED
    BY <2>2, <2>3
<1>14. NodeCount(NULL) = 0
  BY <1>1, <1>9, TreesAre
<1>15. QED
  BY <1>1, <1>12, <1>13, <1>14

-----------------------------------------------------------------------------
(* The calls keep the types, and the weight of the tree at most live *)

LEMMA NewNodeWeighs == NewNode \in Node(Low) /\ NewNode \in Trees /\ Sum(NewNode) = 0 /\ Weight(NewNode) = 1
<1>1. NewNode \in Node(Low) /\ NewNode \in Node(Trees) /\ NewNode \in Trees /\ NewNode # NULL
  BY NewNodeIs, TreesAre
<1>2. \A i \in Links : NewNode.child[i] = NULL
  BY DEF NewNode
<1>3. Load(NewNode) \in [Nat -> Nat] /\ \A i \in Nat : Load(NewNode)[i] = 0
  BY <1>1, <1>2, LoadIs, WeightIs
<1>4. PICK g : g = Load(NewNode)
  OBVIOUS
<1>5. g \in [Nat -> Nat] /\ M + 1 \in Nat /\ 0 \in Nat
  BY <1>3, <1>4, MAssumption
<1>6. Moves(g, g, M + 1, g, 0)
  BY <1>3, <1>4 DEF Moves
<1>7. Total(g, M + 1) <= Total(g, 0)
  BY <1>5, <1>6, TotalMoved
<1>8. Total(g, 0) = 0 /\ Total(g, M + 1) \in Nat
  BY <1>5, TotalIs
<1>9. Sum(NewNode) = 0
  BY <1>4, <1>7, <1>8 DEF Sum
<1>10. QED
  BY <1>1, <1>9, WeightIs

LEMMA NewRootWeight ==
  ASSUME NEW a \in Answers(Low)
  PROVE  /\ NewRoot(a) \in Trees /\ Weight(NewRoot(a)) <= Weight(a.node) + Weight(a.right) + 1
         /\ a.upkey # 0 => Weight(NewRoot(a)) = Weight(a.node) + Weight(a.right) + 1
<1> DEFINE t == NewRoot(a)
<1>1. a.node \in Low /\ a.right \in Low /\ a.upkey \in Nat
  BY DEF Answers
<1>2. /\ a.node \in Trees /\ a.right \in Trees
      /\ Weight(a.node) \in Nat /\ Weight(a.right) \in Nat /\ Weight(NULL) = 0
  BY <1>1, TreesAre, WeightIs
<1>3. NewNode \in Node(Low) /\ NewNode \in Node(Trees) /\ Sum(NewNode) = 0
  BY NewNodeWeighs, NewNodeIs, TreesAre
<1>4. t \in Node(Low) /\ t \in Trees /\ t # NULL /\ t \in Node(Trees)
  <2>1. t \in Node(Low)
    BY <1>1, <1>3, NodeInsertTyped DEF NewRoot
  <2>2. QED
    BY <2>1, TreesAre, ChildBelow
<1>5. Weight(t) = 1 + Sum(t) /\ Sum(t) \in Nat
  BY <1>4, WeightIs, LoadIs
<1>6. 0 \in Slots /\ 0 \in Links /\ 1 \in Links
  BY MAssumption DEF Slots, Links
<1>7. CASE a.upkey = 0
  <2>1. t = NewNode
    BY <1>7 DEF NewRoot, NodeInsert
  <2>2. QED
    BY <1>2, <1>3, <1>4, <1>5, <1>7, <2>1
<1>8. CASE a.upkey # 0
  <2>1. \A i \in Links : t.child[i] = IF i = 0 THEN a.node ELSE IF i = 1 THEN a.right ELSE NULL
    <3>1. \A i \in Links : NewNode.child[i] = NULL
      BY DEF NewNode
    <3>2. t = [key |-> [NewNode.key EXCEPT ![0] = a.upkey],
               child |-> [i \in Links |-> IF i = 0 /\ a.node # NULL THEN a.node
                                          ELSE IF i = 0 + 1 /\ a.right # NULL THEN a.right
                                          ELSE NewNode.child[i]]]
      BY <1>6, <1>8, Zenon DEF NewRoot, NodeInsert
    <3>3. QED
      BY <3>1, <3>2
  <2> HIDE DEF t
  <2>2. \A i \in Links : (i # 0 /\ i # 1) => t.child[i] = NewNode.child[i]
    BY <2>1 DEF NewNode
  <2>3. /\ Weight(NewNode.child[0]) = 0 /\ Weight(NewNode.child[1]) = 0
        /\ Weight(t.child[0]) = Weight(a.node) /\ Weight(t.child[1]) = Weight(a.right)
    BY <1>2, <1>6, <2>1 DEF NewNode
  <2>4. Sum(t) + Weight(NewNode.child[0]) + Weight(NewNode.child[1])
          = Sum(NewNode) + Weight(t.child[0]) + Weight(t.child[1])
    BY <1>3, <1>4, <1>6, <2>2, SumTwoReplaced
  <2>5. QED
    BY <1>2, <1>3, <1>4, <1>5, <2>3, <2>4 DEF t
<1>9. QED
  BY <1>7, <1>8

\* The first node of a tree is not split by its first key.
LEMMA FirstInsert ==
  ASSUME NEW k \in Nat \ {0}, NEW failing
  PROVE  InsertInto(NewNode, k, failing).rtval # "split"
<1>1. PICK f : Inserts(f, k, failing)
  BY InsertIntoIs
<1>2. NewNode \in Trees /\ NewNode \in Node(Trees) /\ NewNode # NULL
  BY NewNodeWeighs, NewNodeIs, TreesAre
<1>3. InsertInto(NewNode, k, failing) = Into(NewNode, 1, k, failing, f)
  <2>1. MaxHeight \in 0 .. MaxHeight /\ 1 \in Nat
    BY BoundsAssumption
  <2>2. QED
    BY <1>1, <1>2, <2>1 DEF Inserts, Trees
<1>4. KeyLen(NewNode) = 0 /\ Key(NewNode, 0) = 0 /\ IsLeaf(NewNode)
  <2>1. KeyLen(NewNode) = 0
    BY NewNodeIs, PackedReads
  <2>2. ChildrenEndAt(NewNode, 0)
    BY MAssumption DEF ChildrenEndAt, NewNode, Links
  <2>3. ChildLen(NewNode) = 0
    BY <2>2, ChildLenIs
  <2>4. QED
    BY <2>1, <2>3 DEF IsLeaf, Key
<1>5. FindPos(NewNode, k) = 0
  <2>1. \A i \in Slots : NewNode.key[i] \in Nat
    BY DEF NewNode
  <2>2. FindPos(NewNode, k) \in 0 .. KeyLen(NewNode)
    BY <2>1, FindPosIs
  <2>3. QED
    BY <1>4, <2>2
<1> DEFINE t == LeafInsert(NewNode, 0, k)
<1>6. t = [NewNode EXCEPT !.key[0] = k]
  <2>1. 0 \in Slots
    BY MAssumption DEF Slots
  <2>2. QED
    BY <1>4, <2>1 DEF LeafInsert, SetKey
<1>7. \A i \in Slots : t.key[i] = IF i = 0 THEN k ELSE 0
  BY <1>6 DEF NewNode
<1> HIDE DEF t
<1>8. KeysEndAt(t, 1)
  BY <1>7, MAssumption DEF KeysEndAt, Slots
<1>9. KeyLen(t) = 1 /\ KeyLen(t) # M
  BY <1>8, KeyLenIs, MAssumption
<1>10. SplitIfFull(t, 0, 1 \in failing).rtval = "done"
  BY <1>9 DEF SplitIfFull, Answer
<1>11. Into(NewNode, 1, k, failing, f) = SplitIfFull(t, 0, 1 \in failing)
  BY <1>2, <1>4, <1>5 DEF Into, t
<1>12. QED
  BY <1>3, <1>10, <1>11

\* What an insert answers at the root.
LEMMA RootAnswer ==
  ASSUME NEW n \in Trees, NEW k \in Nat \ {0}, NEW failing, n \in Low \/ n = NewNode
  PROVE  LET a == InsertInto(n, k, failing)
         IN  /\ a \in Answers(Trees)
             /\ a.rtval = "split" => a \in Answers(Low)
             /\ Weight(a.node) + Weight(a.right) <= Weight(n) + a.allocated
<1>1. PICK f : Inserts(f, k, failing)
  BY InsertIntoIs
<1>2. PICK a : a = InsertInto(n, k, failing)
  OBVIOUS
<1>3. a = f[n][1] /\ 1 \in Nat
  BY <1>1, <1>2 DEF Inserts
<1>4. MaxHeight \in 0 .. MaxHeight /\ MaxHeight - 1 \in 0 .. MaxHeight
  BY BoundsAssumption
<1>5. a \in Answers(Trees)
  BY <1>1, <1>3, <1>4 DEF Inserts, Trees
<1>6. n \in Low => a \in Answers(Low)
  BY <1>1, <1>3, <1>4 DEF Inserts, Low
<1>7. n = NewNode => a.rtval # "split"
  BY <1>2, FirstInsert
<1>8. Borne(a, n)
  BY <1>1, <1>3, IntoWeight
<1>9. QED
  BY <1>2, <1>5, <1>6, <1>7, <1>8 DEF Borne

\* What a remove leaves of the tree, and the root that gives way.
LEMMA RootLeft ==
  ASSUME NEW n \in Trees, n # NULL, NEW k \in Nat
  PROVE  LET a == RemoveFrom(n, k)
             d == IF Shrunk(a.node) # a.node THEN 1 ELSE 0
         IN  /\ a \in Lefts(Trees) /\ Shrunk(a.node) \in Trees
             /\ Weight(Shrunk(a.node)) + d + a.freed <= Weight(n)
<1>1. PICK f : Removes(f)
  BY RemoveFromIs
<1>2. PICK a : a = RemoveFrom(n, k)
  OBVIOUS
<1>3. a = f[n][k] /\ a \in Lefts(Trees) /\ a.node # NULL
  <2>1. MaxHeight \in 0 .. MaxHeight
    BY BoundsAssumption
  <2>2. QED
    BY <1>1, <1>2, <2>1 DEF Removes, Trees
<1>4. Lighter(a, n)
  BY <1>1, <1>3, FromWeight
<1>5. PICK x : x = a.node
  OBVIOUS
<1>6. x \in Trees /\ x # NULL /\ a.freed \in Nat
  BY <1>3, <1>5 DEF Lefts
<1>7. x \in Node(Trees) /\ Weight(x) = 1 + Sum(x) /\ Sum(x) \in Nat
  BY <1>6, ChildBelow, WeightIs, LoadIs
<1>8. Weight(n) \in Nat /\ Weight(x) + a.freed <= Weight(n)
  BY <1>4, <1>5, WeightIs DEF Lighter
<1>9. NULL \in Trees /\ Weight(NULL) = 0
  BY TreesAre, WeightIs
<1>10. Child(x, 0) \in Trees /\ Weight(Child(x, 0)) \in Nat /\ Weight(Child(x, 0)) <= Sum(x)
  <2>1. /\ Load(x) \in [Nat -> Nat] /\ M + 1 \in Nat /\ 0 \in Nat
        /\ Child(x, 0) \in Trees /\ Weight(Child(x, 0)) \in Nat
    BY <1>7, LoadIs
  <2>2. Weight(Child(x, 0)) <= Load(x)[0]
    BY <1>7, <2>1, LoadIs
  <2>3. 0 < M + 1
    BY MAssumption
  <2>4. PICK g : g = Load(x)
    OBVIOUS
  <2>5. g \in [Nat -> Nat]
    BY <2>1, <2>4
  <2>6. PICK u \in [Nat -> Nat] :
           /\ \A i \in Nat : u[i] = IF i = 0 THEN 0 ELSE g[i]
           /\ Total(g, M + 1) = Total(u, M + 1) + g[0]
    <3>1. \E u : ZeroedAt(u, g, M + 1, 0)
      BY <2>1, <2>3, <2>5, Zeroed
    <3>2. QED
      BY <3>1 DEF ZeroedAt
  <2>7. Total(u, M + 1) \in Nat /\ g[0] \in Nat /\ Total(g, M + 1) = Total(u, M + 1) + g[0]
    BY <2>1, <2>5, <2>6, TotalIs
  <2>8. QED
    BY <2>1, <2>2, <2>4, <2>6, <2>7 DEF Sum
<1> DEFINE s == Shrunk(x)
           d == IF s # x THEN 1 ELSE 0
<1>11. s \in Trees /\ (s = x \/ Weight(s) <= Sum(x)) /\ Weight(s) \in Nat
  <2>1. s = x \/ s = NULL \/ s = Child(x, 0)
    BY DEF Shrunk
  <2>2. QED
    BY <1>6, <1>7, <1>9, <1>10, <2>1
<1>12. Weight(s) + d <= Weight(x)
  <2> HIDE DEF s
  <2>1. CASE s = x
    BY <1>7, <2>1
  <2>2. CASE s # x
    BY <1>7, <1>11, <2>2
  <2>3. QED
    BY <2>1, <2>2
<1>13. d \in {0, 1}
  OBVIOUS
<1>14. PICK e : e = d
  OBVIOUS
<1> HIDE DEF s, d
<1>15. Weight(s) + e + a.freed <= Weight(n)
  BY <1>6, <1>7, <1>8, <1>11, <1>12, <1>13, <1>14
<1>16. QED
  BY <1>2, <1>3, <1>5, <1>11, <1>14, <1>15 DEF s, d

\* The inductive invariant: the types, and a tree whose nodes, those behind
\* stale pointers included, have not been given back.
Held == TypeOK /\ Weight(root) <= live

LEMMA HeldInit == Init => Held
<1>1. SUFFICES ASSUME Init PROVE Held
  OBVIOUS
<1>2. NULL \in Trees /\ Weight(NULL) = 0
  BY TreesAre, WeightIs
<1>3. /\ head = "absent" /\ root = NULL /\ live = 0 /\ rotated = FALSE /\ result = "none"
      /\ last = <<"new", 0>>
  BY <1>1 DEF Init
<1>4. TypeOK
  BY <1>2, <1>3 DEF TypeOK
<1>5. Weight(root) <= live
  BY <1>2, <1>3
<1>6. QED
  BY <1>4, <1>5 DEF Held

\* The steps that leave the tree alone.
LEMMA HeldReturns ==
  ASSUME Held, NEW rtval \in {"none", "EINVAL", "EPERM", "ENOMEM"}, NEW call \in {"insert", "nomem", "remove"},
         NEW k \in Keys \cup {0}, Returns(rtval, call, k),
         head' \in {"ready", "oops"} \/ head' = head
  PROVE  Held'
<1>1. /\ root' = root /\ live' = live /\ rotated' = rotated /\ result' = rtval
      /\ last' = <<call, k>>
  BY DEF Returns
<1>2. TypeOK'
  BY <1>1 DEF Held, TypeOK
<1>3. QED
  BY <1>1, <1>2 DEF Held

LEMMA HeldInsert ==
  ASSUME Held, NEW k \in Keys, NEW failing, InsertWith(k, failing)
  PROVE  Held'
<1> DEFINE start == IF root = NULL THEN NewNode ELSE root
           one == IF root = NULL THEN 1 ELSE 0
<1>1. k \in Nat \ {0} /\ live \in Nat /\ root \in Trees /\ Weight(root) <= live /\ rotated \in BOOLEAN
  BY KeysAssumption DEF Held, TypeOK
<1>2. PICK a : a = InsertInto(start, k, failing)
  OBVIOUS
<1>3. /\ root \in Low
      /\ IF a.rtval = "oops" THEN Oops("insert", k)
         ELSE /\ head' = "ready"
              /\ last' = <<"insert", k>>
              /\ rotated' = rotated
              /\ IF a.rtval = "split" /\ 0 \in failing
                 THEN /\ root' = a.node
                      /\ live' = live + (a.allocated + one)
                      /\ result' = "ENOMEM"
                 ELSE /\ root' = IF a.rtval = "split" THEN NewRoot(a) ELSE a.node
                      /\ live' = live + (a.allocated + one) + (IF a.rtval = "split" THEN 1 ELSE 0)
                      /\ result' = "ok"
  BY <1>2, Zenon DEF InsertWith, Low
<1>4. start \in Trees /\ (start \in Low \/ start = NewNode) /\ Weight(start) = Weight(root) + one
  BY <1>1, <1>3, NewNodeWeighs, WeightIs
<1>5. one \in Nat
  OBVIOUS
<1> HIDE DEF start, one
<1>6. /\ a \in Answers(Trees)
      /\ a.rtval = "split" => a \in Answers(Low)
      /\ Weight(a.node) + Weight(a.right) <= Weight(start) + a.allocated
  BY <1>1, <1>2, <1>4, RootAnswer
<1>7. /\ a.node \in Trees /\ a.right \in Trees /\ a.allocated \in Nat
      /\ Weight(a.node) \in Nat /\ Weight(a.right) \in Nat /\ Weight(root) \in Nat
  BY <1>1, <1>6, WeightIs DEF Answers
<1>8. CASE a.rtval = "oops"
  <2>1. head' = "oops" /\ Returns("none", "insert", k)
    BY <1>3, <1>8 DEF Oops
  <2>2. QED
    BY <2>1, HeldReturns
<1>9. CASE a.rtval # "oops"
  <2>1. live' \in Nat /\ root' \in Trees /\ Weight(root') <= live'
    <3>1. CASE a.rtval = "split" /\ 0 \in failing
      BY <1>1, <1>3, <1>4, <1>5, <1>6, <1>7, <1>9, <3>1
    <3>2. CASE a.rtval = "split" /\ 0 \notin failing
      <4>1. PICK t : t = NewRoot(a)
        OBVIOUS
      <4>2. t \in Trees /\ Weight(t) <= Weight(a.node) + Weight(a.right) + 1
        BY <1>6, <3>2, <4>1, NewRootWeight
      <4>3. root' = t /\ live' = live + (a.allocated + one) + 1
        BY <1>3, <3>2, <4>1
      <4>4. Weight(t) \in Nat
        BY <4>2, WeightIs
      <4>5. QED
        BY <1>1, <1>4, <1>5, <1>6, <1>7, <4>2, <4>3, <4>4
    <3>3. CASE a.rtval # "split"
      <4>1. root' = a.node /\ live' = live + (a.allocated + one) + 0
        BY <1>3, <1>9, <3>3
      <4>2. QED
        BY <1>1, <1>4, <1>5, <1>6, <1>7, <4>1
    <3>4. QED
      BY <3>1, <3>2, <3>3
  <2>2. /\ head' = "ready" /\ last' = <<"insert", k>> /\ rotated' = rotated
        /\ result' \in {"ok", "ENOMEM"}
    BY <1>3, <1>9
  <2>3. TypeOK'
    BY <1>1, <2>1, <2>2 DEF TypeOK
  <2>4. QED
    BY <2>1, <2>3 DEF Held
<1>10. QED
  BY <1>8, <1>9

LEMMA HeldRemove ==
  ASSUME Held, NEW k \in Keys, Remove(k)
  PROVE  Held'
<1>1. /\ k \in Nat /\ live \in Nat /\ root \in Trees /\ Weight(root) <= live /\ rotated \in BOOLEAN
      /\ head \in {"absent", "fresh"} => root = NULL
      /\ head \in {"absent", "fresh", "ready", "oops"}
  BY KeysAssumption DEF Held, TypeOK
<1>2. PICK a : a = RemoveFrom(root, k)
  OBVIOUS
<1> DEFINE s == Shrunk(a.node)
           d == IF s # a.node THEN 1 ELSE 0
<1>3. /\ root # NULL
      /\ IF a.rtval = "oops" THEN Oops("remove", k)
         ELSE /\ root' = s
              /\ live' = live - (a.freed + d)
              /\ rotated' = (rotated \/ a.rotates)
              /\ result' = "undefined"
              /\ last' = <<"remove", k>>
              /\ head' = head
  BY <1>2, Zenon DEF Remove
<1>4. a \in Lefts(Trees) /\ s \in Trees /\ Weight(s) + d + a.freed <= Weight(root)
  BY <1>1, <1>2, <1>3, RootLeft
<1>5. d \in Nat
  OBVIOUS
<1> HIDE DEF s, d
<1>6. a.freed \in Nat /\ a.rotates \in BOOLEAN /\ Weight(s) \in Nat /\ Weight(root) \in Nat
  BY <1>1, <1>4, WeightIs DEF Lefts
<1>7. CASE a.rtval = "oops"
  <2>1. head' = "oops" /\ Returns("none", "remove", k)
    BY <1>3, <1>7 DEF Oops
  <2>2. QED
    BY <2>1, HeldReturns
<1>8. CASE a.rtval # "oops"
  <2>1. live' = live - (a.freed + d) /\ root' = s
    BY <1>3, <1>8
  <2>2. live' \in Nat /\ Weight(root') <= live'
    BY <1>1, <1>4, <1>5, <1>6, <2>1
  <2>3. rotated' \in BOOLEAN
    BY <1>3, <1>8
  <2>4. head' = head /\ result' = "undefined" /\ last' = <<"remove", k>>
    BY <1>3, <1>8
  <2>5. head' = "ready" \/ head' = "oops"
    BY <1>1, <1>3, <2>4
  <2>6. TypeOK'
    BY <1>4, <2>1, <2>2, <2>3, <2>4, <2>5 DEF TypeOK
  <2>7. QED
    BY <2>2, <2>6 DEF Held
<1>9. QED
  BY <1>7, <1>8

LEMMA HeldNext ==
  ASSUME Held, [Next]_vars
  PROVE  Held'
<1>1. /\ TypeOK /\ live \in Nat /\ root \in Trees /\ Weight(root) <= live
      /\ NULL \in Trees /\ Weight(NULL) = 0
  BY TreesAre, WeightIs DEF Held, TypeOK
<1>2. CASE HeadAlloc
  <2>1. /\ head' = "fresh" /\ root' = NULL /\ live' = 0 /\ rotated' = FALSE /\ result' = "none"
        /\ last' = <<"new", 0>>
    BY <1>2 DEF HeadAlloc
  <2>2. TypeOK'
    BY <1>1, <2>1 DEF TypeOK
  <2>3. Weight(root') <= live'
    BY <1>1, <2>1
  <2>4. QED
    BY <2>2, <2>3 DEF Held
<1>3. CASE InitHead
  <2>1. /\ head = "fresh" /\ head' \in {"fresh", "ready"} /\ result' \in {"ok", "ENOMEM"}
        /\ root' = root /\ live' = live /\ rotated' = rotated /\ last' = <<"new", 0>>
    BY <1>3 DEF InitHead
  <2>2. TypeOK'
    BY <1>1, <2>1 DEF TypeOK
  <2>3. QED
    BY <1>1, <2>1, <2>2 DEF Held
<1>4. CASE InsertKeyZero
  BY <1>4, HeldReturns DEF InsertKeyZero
<1>5. ASSUME NEW k \in Keys, InsertNoMempool(k) \/ InsertNoRoot(k) PROVE Held'
  BY <1>5, HeldReturns DEF InsertNoMempool, InsertNoRoot
<1>6. ASSUME NEW k \in Keys, Insert(k) \/ InsertShortOfMemory(k) PROVE Held'
  BY <1>6, HeldInsert DEF Insert, InsertShortOfMemory
<1>7. ASSUME NEW k \in Keys \cup {0}, RemoveRefused(k) PROVE Held'
  BY <1>7, HeldReturns DEF RemoveRefused
<1>8. ASSUME NEW k \in Keys, Remove(k) PROVE Held'
  BY <1>8, HeldRemove
<1>9. CASE Destroy
  <2>1. /\ head' = "absent" /\ root' = NULL /\ live' = live - NodeCount(root) /\ rotated' = rotated
        /\ result' = "none" /\ last' = <<"destroy", 0>>
    BY <1>9 DEF Destroy
  <2>2. NodeCount(root) \in Nat /\ NodeCount(root) <= Weight(root) /\ Weight(root) \in Nat
    BY <1>1, NodeCountIs, WeightIs
  <2>3. live' \in Nat
    BY <1>1, <2>1, <2>2
  <2>4. TypeOK'
    BY <1>1, <2>1, <2>3 DEF TypeOK
  <2>5. QED
    BY <1>1, <2>1, <2>3, <2>4 DEF Held
<1>10. CASE UNCHANGED vars
  BY <1>1, <1>10 DEF Held, TypeOK, vars
<1>11. QED
  BY <1>2, <1>3, <1>4, <1>5, <1>6, <1>7, <1>8, <1>9, <1>10
     DEF Next, NextRemoving, NextShortOfMemory, NextInsertOnly

LEMMA AlwaysHeld == Spec => []Held
<1>1. Init => Held
  BY HeldInit
<1>2. Held /\ [Next]_vars => Held'
  BY HeldNext
<1>3. QED
  BY <1>1, <1>2, PTL DEF Spec

\* The types hold whatever the callers do, after rotations and failed
\* allocations too; the nodes counted as live never fall below zero.
THEOREM TypesHold == Spec => []TypeOK
  BY AlwaysHeld, PTL DEF Held

\* No merge, no shrinking root and no rotation gives a node back that stays
\* reachable from the root, and lke_btree_destroy frees no node twice.
THEOREM NoNodeFreedWhileLinked == Spec => []NoNodeFreedInUse
<1>1. Held => NoNodeFreedInUse
  <2>1. SUFFICES ASSUME Held PROVE NoNodeFreedInUse
    OBVIOUS
  <2>2. root \in Trees /\ live \in Nat /\ Weight(root) <= live
    BY <2>1 DEF Held, TypeOK
  <2>3. NodeCount(root) \in Nat /\ NodeCount(root) <= Weight(root) /\ Weight(root) \in Nat
    BY <2>2, NodeCountIs, WeightIs
  <2>4. QED
    BY <2>2, <2>3 DEF NoNodeFreedInUse
<1>2. QED
  BY <1>1, AlwaysHeld, PTL

-----------------------------------------------------------------------------
(* Up to the first rotation no weight is lost *)

\* What hangs below n hangs below t, in the same order, at the links p names.
LEMMA SumCarried ==
  ASSUME NEW n \in Node(Trees), NEW t \in Node(Trees), NEW p,
         \A i \in Links : n.child[i] # NULL => p[i] \in Links /\ t.child[p[i]] = n.child[i],
         \A i, j \in Links : (i < j /\ n.child[i] # NULL /\ n.child[j] # NULL) => p[i] < p[j]
  PROVE  Sum(n) <= Sum(t)
<1>1. /\ Load(n) \in [Nat -> Nat] /\ Load(t) \in [Nat -> Nat] /\ M + 1 \in Nat
      /\ \A i \in Nat : Load(n)[i] = IF i \in Links THEN Weight(n.child[i]) ELSE 0
      /\ \A i \in Nat : Load(t)[i] = IF i \in Links THEN Weight(t.child[i]) ELSE 0
  BY LoadIs
<1>2. ASSUME NEW i \in Nat, Load(n)[i] # 0
      PROVE  i \in Links /\ n.child[i] # NULL /\ Load(n)[i] = Weight(n.child[i])
  BY <1>1, <1>2, WeightIs
<1>3. \A i \in Links : i \in Nat /\ i < M + 1
  BY MAssumption DEF Links
<1>4. ASSUME NEW i \in Nat, Load(n)[i] # 0
      PROVE  p[i] \in Nat /\ p[i] < M + 1 /\ Load(n)[i] <= Load(t)[p[i]]
  <2>1. i \in Links /\ n.child[i] # NULL /\ Load(n)[i] = Weight(n.child[i])
    BY <1>2, <1>4
  <2>2. p[i] \in Links /\ t.child[p[i]] = n.child[i]
    BY <2>1
  <2>3. p[i] \in Nat /\ p[i] < M + 1 /\ Load(t)[p[i]] = Load(n)[i]
    BY <1>1, <1>3, <2>1, <2>2
  <2>4. Load(n)[i] \in Nat
    BY <1>1
  <2>5. QED
    BY <2>3, <2>4
<1>5. \A i, j \in Nat : (i < j /\ Load(n)[i] # 0 /\ Load(n)[j] # 0) => p[i] < p[j]
  BY <1>2
<1>6. Moves(p, Load(n), M + 1, Load(t), M + 1)
  BY <1>4, <1>5 DEF Moves
<1>7. QED
  BY <1>1, <1>6, TotalMoved DEF Sum

\* n without what hangs at the links of S.
Bare(n, S) ==
    [key |-> n.key, child |-> [i \in Links |-> IF i \in S THEN NULL ELSE n.child[i]]]

LEMMA BareIs ==
  ASSUME NEW n \in Node(Trees), NEW S
  PROVE  /\ Bare(n, S) \in Node(Trees) /\ Sum(Bare(n, S)) \in Nat
         /\ \A i \in Links : Bare(n, S).child[i] = IF i \in S THEN NULL ELSE n.child[i]
<1>1. Bare(n, S) \in Node(Trees)
  BY TreesAre DEF Bare, Node
<1>2. \A i \in Links : Bare(n, S).child[i] = IF i \in S THEN NULL ELSE n.child[i]
  BY DEF Bare
<1>3. QED
  BY <1>1, <1>2, LoadIs

\* What is left below a node, one or two of its children being taken away.
LEMMA SumBare ==
  ASSUME NEW n \in Node(Trees), NEW a \in Links
  PROVE  /\ Sum(Bare(n, {a})) + Weight(n.child[a]) = Sum(n)
         /\ \A b \in Links : a # b =>
              Sum(Bare(n, {a, b})) + Weight(n.child[a]) + Weight(n.child[b]) = Sum(n)
<1>1. Weight(NULL) = 0 /\ Sum(n) \in Nat
  BY WeightIs, LoadIs
<1>2. Sum(Bare(n, {a})) + Weight(n.child[a]) = Sum(n)
  <2>1. PICK t : t = Bare(n, {a})
    OBVIOUS
  <2>2. /\ t \in Node(Trees) /\ Sum(t) \in Nat /\ t.child[a] = NULL
        /\ \A i \in Links : i # a => t.child[i] = n.child[i]
    BY <2>1, BareIs
  <2>3. Sum(t) + Weight(n.child[a]) = Sum(n) + Weight(t.child[a])
    BY <2>2, SumReplaced
  <2>4. QED
    BY <1>1, <2>1, <2>2, <2>3
<1>3. ASSUME NEW b \in Links, a # b
      PROVE  Sum(Bare(n, {a, b})) + Weight(n.child[a]) + Weight(n.child[b]) = Sum(n)
  <2>1. PICK t : t = Bare(n, {a, b})
    OBVIOUS
  <2>2. /\ t \in Node(Trees) /\ Sum(t) \in Nat /\ t.child[a] = NULL /\ t.child[b] = NULL
        /\ \A i \in Links : (i # a /\ i # b) => t.child[i] = n.child[i]
    BY <2>1, BareIs
  <2>3. Sum(t) + Weight(n.child[a]) + Weight(n.child[b])
          = Sum(n) + Weight(t.child[a]) + Weight(t.child[b])
    BY <1>3, <2>2, SumTwoReplaced
  <2>4. QED
    BY <1>1, <2>1, <2>2, <2>3
<1>4. QED
  BY <1>2, <1>3

\* A node whose children l and r share.
LEMMA SumCut ==
  ASSUME NEW n \in Node(Trees), NEW l \in Node(Trees), NEW r \in Node(Trees),
         \A i \in Links : \/ l.child[i] = n.child[i] /\ r.child[i] = NULL
                          \/ l.child[i] = NULL /\ r.child[i] = n.child[i]
  PROVE  Sum(l) + Sum(r) = Sum(n)
<1>1. /\ Load(n) \in [Nat -> Nat] /\ Load(l) \in [Nat -> Nat] /\ Load(r) \in [Nat -> Nat]
      /\ M + 1 \in Nat /\ Sum(n) \in Nat /\ Sum(l) \in Nat /\ Sum(r) \in Nat
  BY LoadIs
<1>2. ASSUME NEW i \in Nat PROVE Load(l)[i] + Load(r)[i] = Load(n)[i]
  <2>1. /\ Load(n)[i] = IF i \in Links THEN Weight(n.child[i]) ELSE 0
        /\ Load(l)[i] = IF i \in Links THEN Weight(l.child[i]) ELSE 0
        /\ Load(r)[i] = IF i \in Links THEN Weight(r.child[i]) ELSE 0
    BY LoadIs
  <2>2. Weight(NULL) = 0 /\ Load(n)[i] \in Nat
    BY <1>1, WeightIs
  <2>3. QED
    BY <2>1, <2>2
<1>3. \A i \in Nat : Load(l)[i] + Load(r)[i] <= Load(n)[i] /\ Load(n)[i] <= Load(l)[i] + Load(r)[i]
  BY <1>1, <1>2
<1>4. Sum(l) + Sum(r) <= Sum(n) /\ Sum(n) <= Sum(l) + Sum(r)
  BY <1>1, <1>3, TotalShared DEF Sum
<1>5. QED
  BY <1>1, <1>4

\* What becomes of the children when a child is put in at pos, the one at pos
\* being replaced by two.
LEMMA InsertAtHolds ==
  ASSUME NEW n \in Node(Trees), NEW t \in Node(Trees), NEW pos \in 0 .. M - 1, NEW l, NEW r,
         \A i \in Links : t.child[i] = IF i < pos THEN n.child[i] ELSE IF i = pos THEN l
                                       ELSE IF i = pos + 1 THEN r ELSE n.child[i - 1],
         n.child[M] = NULL
  PROVE  Sum(n) + Weight(l) + Weight(r) <= Sum(t) + Weight(n.child[pos])
<1>1. M \in Nat /\ pos \in Links /\ pos + 1 \in Links /\ pos # pos + 1
  BY MAssumption DEF Links
<1>2. t.child[pos] = l /\ t.child[pos + 1] = r
  BY <1>1
<1>3. PICK s, u : s = Bare(n, {pos}) /\ u = Bare(t, {pos, pos + 1})
  OBVIOUS
<1>4. /\ s \in Node(Trees) /\ Sum(s) + Weight(n.child[pos]) = Sum(n)
      /\ \A i \in Links : s.child[i] = IF i \in {pos} THEN NULL ELSE n.child[i]
  BY <1>1, <1>3, BareIs, SumBare
<1>5. u \in Node(Trees) /\ Sum(u) + Weight(l) + Weight(r) = Sum(t)
  BY <1>1, <1>2, <1>3, BareIs, SumBare
<1>6. \A i \in Links : u.child[i] = IF i \in {pos, pos + 1} THEN NULL ELSE t.child[i]
  BY <1>3, BareIs
<1>7. PICK p : p = [i \in Links |-> IF i < pos THEN i ELSE i + 1]
  OBVIOUS
<1>8. ASSUME NEW i \in Links, s.child[i] # NULL
      PROVE  p[i] \in Links /\ u.child[p[i]] = s.child[i]
  <2>1. i # pos /\ s.child[i] = n.child[i] /\ i # M
    BY <1>4, <1>8
  <2>2. CASE i < pos
    <3>1. p[i] = i /\ i \notin {pos, pos + 1}
      BY <1>1, <1>7, <2>2 DEF Links
    <3>2. QED
      BY <1>6, <2>1, <2>2, <3>1
  <2>3. CASE ~(i < pos)
    <3>1. p[i] = i + 1 /\ i + 1 \in Links /\ i + 1 \notin {pos, pos + 1}
          /\ ~(i + 1 < pos) /\ (i + 1) - 1 = i
      BY <1>1, <1>7, <2>1, <2>3 DEF Links
    <3>2. u.child[i + 1] = t.child[i + 1] /\ t.child[i + 1] = n.child[i]
      BY <1>6, <3>1
    <3>3. QED
      BY <2>1, <3>1, <3>2
  <2>4. QED
    BY <2>2, <2>3
<1>9. \A i, j \in Links : i < j => p[i] < p[j]
  BY <1>1, <1>7 DEF Links
<1>10. Sum(s) <= Sum(u)
  BY <1>4, <1>5, <1>8, <1>9, SumCarried
<1>11. /\ Sum(n) \in Nat /\ Sum(t) \in Nat /\ Sum(s) \in Nat /\ Sum(u) \in Nat
       /\ Weight(l) \in Nat /\ Weight(r) \in Nat /\ Weight(n.child[pos]) \in Nat
  <2>1. l \in Trees /\ r \in Trees /\ n.child[pos] \in Trees
    BY <1>1, <1>2 DEF Node
  <2>2. QED
    BY <1>4, <1>5, <2>1, LoadIs, WeightIs
<1>12. QED
  BY <1>4, <1>5, <1>10, <1>11

\* When the child c takes the place of the two around the key at pos.
LEMMA RemoveAtHolds ==
  ASSUME NEW n \in Node(Trees), NEW t \in Node(Trees), NEW len \in 1 .. M, NEW pos \in 0 .. len - 1, NEW c,
         \A i \in Links : t.child[i] = IF i < pos THEN n.child[i] ELSE IF i = pos THEN c
                                       ELSE IF i < len THEN n.child[i + 1] ELSE NULL,
         \A i \in Links : len < i => n.child[i] = NULL
  PROVE  Sum(n) + Weight(c) <= Sum(t) + Weight(n.child[pos]) + Weight(n.child[pos + 1])
<1>1. M \in Nat /\ pos \in Links /\ pos + 1 \in Links /\ pos # pos + 1
  BY MAssumption DEF Links
<1>2. t.child[pos] = c
  BY <1>1
<1>3. PICK s, u : s = Bare(n, {pos, pos + 1}) /\ u = Bare(t, {pos})
  OBVIOUS
<1>4. /\ s \in Node(Trees) /\ Sum(s) + Weight(n.child[pos]) + Weight(n.child[pos + 1]) = Sum(n)
      /\ \A i \in Links : s.child[i] = IF i \in {pos, pos + 1} THEN NULL ELSE n.child[i]
  <2>1. s \in Node(Trees) /\ \A i \in Links : s.child[i] = IF i \in {pos, pos + 1} THEN NULL ELSE n.child[i]
    BY <1>3, BareIs
  <2>2. Sum(s) + Weight(n.child[pos]) + Weight(n.child[pos + 1]) = Sum(n)
    BY <1>1, <1>3, SumBare
  <2>3. QED
    BY <2>1, <2>2
<1>5. u \in Node(Trees) /\ Sum(u) + Weight(c) = Sum(t)
  BY <1>1, <1>2, <1>3, BareIs, SumBare
<1>6. \A i \in Links : u.child[i] = IF i \in {pos} THEN NULL ELSE t.child[i]
  BY <1>3, BareIs
<1>7. PICK p : p = [i \in Links |-> IF i < pos THEN i ELSE i - 1]
  OBVIOUS
<1>8. ASSUME NEW i \in Links, s.child[i] # NULL
      PROVE  p[i] \in Links /\ u.child[p[i]] = s.child[i] /\ (i < pos \/ pos + 1 < i)
  <2>1. i # pos /\ i # pos + 1 /\ s.child[i] = n.child[i] /\ ~(len < i)
    BY <1>4, <1>8
  <2>2. CASE i < pos
    <3>1. p[i] = i /\ i \notin {pos}
      BY <1>1, <1>7, <2>2 DEF Links
    <3>2. QED
      BY <1>6, <2>1, <2>2, <3>1
  <2>3. CASE ~(i < pos)
    <3>1. /\ p[i] = i - 1 /\ i - 1 \in Links /\ i - 1 \notin {pos}
          /\ ~(i - 1 < pos) /\ (i - 1) + 1 = i /\ i - 1 < len /\ pos + 1 < i
      BY <1>1, <1>7, <2>1, <2>3 DEF Links
    <3>2. u.child[i - 1] = t.child[i - 1] /\ t.child[i - 1] = n.child[i]
      BY <1>6, <3>1
    <3>3. QED
      BY <2>1, <3>1, <3>2
  <2>4. QED
    BY <2>2, <2>3
<1>9. ASSUME NEW i \in Links, NEW j \in Links, i < j, s.child[i] # NULL, s.child[j] # NULL
      PROVE  p[i] < p[j]
  <2>1. (i < pos \/ pos + 1 < i) /\ (j < pos \/ pos + 1 < j)
    BY <1>8, <1>9
  <2>2. p[i] = (IF i < pos THEN i ELSE i - 1) /\ p[j] = IF j < pos THEN j ELSE j - 1
    BY <1>7
  <2>3. QED
    BY <1>1, <1>9, <2>1, <2>2 DEF Links
<1>10. Sum(s) <= Sum(u)
  BY <1>4, <1>5, <1>8, <1>9, SumCarried
<1>11. /\ Sum(n) \in Nat /\ Sum(t) \in Nat /\ Sum(s) \in Nat /\ Sum(u) \in Nat
       /\ Weight(c) \in Nat /\ Weight(n.child[pos]) \in Nat /\ Weight(n.child[pos + 1]) \in Nat
  <2>1. c \in Trees /\ n.child[pos] \in Trees /\ n.child[pos + 1] \in Trees
    BY <1>1, <1>2 DEF Node
  <2>2. QED
    BY <1>4, <1>5, <2>1, LoadIs, WeightIs
<1>12. QED
  BY <1>4, <1>5, <1>10, <1>11

\* A node cut in two behind link b.
LEMMA CutBehind ==
  ASSUME NEW n \in Node(Trees), NEW b \in Nat
  PROVE  \E l, r \in Node(Trees) :
           /\ Sum(l) + Sum(r) = Sum(n) /\ Sum(l) \in Nat /\ Sum(r) \in Nat
           /\ \A i \in Links : l.child[i] = IF i <= b THEN n.child[i] ELSE NULL
           /\ \A i \in Links : r.child[i] = IF i <= b THEN NULL ELSE n.child[i]
<1>1. PICK A, B : A = {i \in Links : i <= b} /\ B = {i \in Links : ~(i <= b)}
  OBVIOUS
<1>2. PICK l, r : l = Bare(n, B) /\ r = Bare(n, A)
  OBVIOUS
<1>3. l \in Node(Trees) /\ \A i \in Links : l.child[i] = IF i \in B THEN NULL ELSE n.child[i]
  BY <1>2, BareIs
<1>4. r \in Node(Trees) /\ \A i \in Links : r.child[i] = IF i \in A THEN NULL ELSE n.child[i]
  BY <1>2, BareIs
<1>5. /\ \A i \in Links : l.child[i] = IF i <= b THEN n.child[i] ELSE NULL
      /\ \A i \in Links : r.child[i] = IF i <= b THEN NULL ELSE n.child[i]
  BY <1>1, <1>3, <1>4
<1>6. Sum(l) + Sum(r) = Sum(n)
  BY <1>3, <1>4, <1>5, SumCut
<1>7. QED
  BY <1>3, <1>4, <1>5, <1>6, LoadIs

\* The halves of a node without stale pointers hold all that hung below it.
LEMMA SplitHolds ==
  ASSUME NEW n \in Node(Trees), \A i \in Links : Child(n, i) = n.child[i]
  PROVE  Sum(n) <= Sum(SplitLeft(n)) + Sum(SplitRight(n))
<1> DEFINE l == SplitLeft(n)
           r == SplitRight(n)
<1>1. M \in Nat /\ Mid \in 1 .. M - 2
  BY Halves
<1>2. l \in Node(Trees) /\ r \in Node(Trees)
  BY TreesAre, SplitTyped
<1>3. \A i \in Links : l.child[i] = IF i <= Mid THEN n.child[i] ELSE NULL
  BY DEF SplitLeft
<1>4. \A i \in Links : i + Mid + 1 \in Links => r.child[i] = n.child[i + Mid + 1]
  <2>1. \A i \in Links : i + Mid + 1 \in Links => i + Mid + 1 <= M
    BY <1>1 DEF Links
  <2>2. QED
    BY <2>1 DEF SplitRight
<1> HIDE DEF l, r
<1>5. Mid \in Nat
  BY <1>1
<1>6. PICK s, u \in Node(Trees) :
           /\ Sum(s) + Sum(u) = Sum(n) /\ Sum(s) \in Nat /\ Sum(u) \in Nat
           /\ \A i \in Links : s.child[i] = IF i <= Mid THEN n.child[i] ELSE NULL
           /\ \A i \in Links : u.child[i] = IF i <= Mid THEN NULL ELSE n.child[i]
  BY <1>5, CutBehind
<1>7. Sum(s) <= Sum(l)
  <2>1. PICK p : p = [i \in Links |-> i]
    OBVIOUS
  <2>2. \A i \in Links : p[i] \in Links /\ l.child[p[i]] = s.child[i]
    BY <1>3, <1>6, <2>1
  <2>3. \A i, j \in Links : i < j => p[i] < p[j]
    BY <2>1
  <2>4. QED
    BY <1>2, <2>2, <2>3, SumCarried
<1>8. Sum(u) <= Sum(r)
  <2>1. PICK p : p = [i \in Links |-> i - Mid - 1]
    OBVIOUS
  <2>2. ASSUME NEW i \in Links, u.child[i] # NULL
        PROVE  p[i] \in Links /\ r.child[p[i]] = u.child[i]
    <3>1. ~(i <= Mid) /\ u.child[i] = n.child[i]
      BY <1>6, <2>2
    <3>2. i - Mid - 1 \in Links /\ (i - Mid - 1) + Mid + 1 = i
      BY <1>1, <3>1 DEF Links
    <3>3. r.child[i - Mid - 1] = n.child[i]
      BY <1>4, <3>2
    <3>4. QED
      BY <2>1, <3>1, <3>2, <3>3
  <2>3. \A i, j \in Links : i < j => p[i] < p[j]
    BY <1>1, <2>1 DEF Links
  <2>4. QED
    BY <1>2, <2>2, <2>3, SumCarried
<1>9. Sum(l) \in Nat /\ Sum(r) \in Nat
  BY <1>2, LoadIs
<1>10. QED
  BY <1>6, <1>7, <1>8, <1>9 DEF l, r

\* The child merged of two holds what hung below both.
LEMMA MergedHolds ==
  ASSUME NEW l \in Node(Trees), NEW r \in Node(Trees), NEW k, MergedChild(l, k, r) \in Node(Trees),
         NEW C, Uniform(C), Hung(l, KeyLen(l), C), Hung(r, KeyLen(r), C),
         KeyLen(l) \in 0 .. M, KeyLen(r) \in 0 .. M, KeyLen(l) + KeyLen(r) + 1 < M
  PROVE  Sum(l) + Sum(r) <= Sum(MergedChild(l, k, r))
<1> DEFINE c == MergedChild(l, k, r)
           ll == KeyLen(l)
           rl == KeyLen(r)
<1>1. \A i \in Links : c.child[i] = IF i \in ll + 1 .. ll + rl + 1 THEN Child(r, i - ll - 1) ELSE l.child[i]
  BY DEF MergedChild
<1>2. c \in Node(Trees) /\ M \in Nat /\ ll \in Nat /\ rl \in Nat /\ ll + rl + 1 < M
  BY MAssumption
<1>3. \A i \in Links : i <= ll \/ l.child[i] = NULL
  BY <1>2 DEF Hung, Links
<1>4. \A i \in Links : (i <= rl \/ r.child[i] = NULL) /\ Child(r, i) = r.child[i]
  <2>1. \A i \in Links : i <= rl \/ r.child[i] = NULL
    BY <1>2 DEF Hung, Links
  <2>2. \A i \in Links : Child(r, i) = r.child[i]
    BY HungReads
  <2>3. QED
    BY <2>1, <2>2
<1> HIDE DEF c, ll, rl
<1>5. PICK s, u \in Node(Trees) :
           /\ Sum(s) + Sum(u) = Sum(c) /\ Sum(s) \in Nat /\ Sum(u) \in Nat
           /\ \A i \in Links : s.child[i] = IF i <= ll THEN c.child[i] ELSE NULL
           /\ \A i \in Links : u.child[i] = IF i <= ll THEN NULL ELSE c.child[i]
  BY <1>2, CutBehind
<1>6. Sum(l) <= Sum(s)
  <2>1. PICK p : p = [i \in Links |-> i]
    OBVIOUS
  <2>2. ASSUME NEW i \in Links, l.child[i] # NULL
        PROVE  p[i] \in Links /\ s.child[p[i]] = l.child[i]
    <3>1. i <= ll /\ i \notin ll + 1 .. ll + rl + 1
      BY <1>2, <1>3, <2>2 DEF Links
    <3>2. QED
      BY <1>1, <1>5, <2>1, <3>1
  <2>3. \A i, j \in Links : i < j => p[i] < p[j]
    BY <2>1
  <2>4. QED
    BY <2>2, <2>3, SumCarried
<1>7. Sum(r) <= Sum(u)
  <2>1. PICK p : p = [i \in Links |-> i + ll + 1]
    OBVIOUS
  <2>2. ASSUME NEW i \in Links, r.child[i] # NULL
        PROVE  p[i] \in Links /\ u.child[p[i]] = r.child[i]
    <3>1. i <= rl /\ Child(r, i) = r.child[i]
      BY <1>4, <2>2
    <3>2. /\ i + ll + 1 \in Links /\ i + ll + 1 \in ll + 1 .. ll + rl + 1
          /\ (i + ll + 1) - ll - 1 = i /\ ~(i + ll + 1 <= ll)
      BY <1>2, <3>1 DEF Links
    <3>3. u.child[i + ll + 1] = c.child[i + ll + 1] /\ c.child[i + ll + 1] = Child(r, i)
      BY <1>1, <1>5, <3>2
    <3>4. QED
      BY <2>1, <3>1, <3>2, <3>3
  <2>3. \A i, j \in Links : i < j => p[i] < p[j]
    BY <1>2, <2>1 DEF Links
  <2>4. QED
    BY <2>2, <2>3, SumCarried
<1>8. Sum(l) \in Nat /\ Sum(r) \in Nat
  BY LoadIs
<1>9. QED
  BY <1>5, <1>6, <1>7, <1>8 DEF c

\* An answer to an insert into m that holds all of m and what was allocated.
Keeps(a, m) ==
    /\ Weight(m) + a.allocated <= Weight(a.node) + Weight(a.right)
    /\ a.rtval # "split" => a.right = NULL

\* A node that the insert filled, split or not.
LEMMA SplitIfFullHolds ==
  ASSUME NEW n \in Node(Low), NEW len \in 0 .. M, NEW C, Hung(n, len, C), Uniform(C), NEW allocated \in Nat,
         NEW nomem, ~nomem
  PROVE  LET a == SplitIfFull(n, allocated, nomem)
         IN  /\ 1 + Sum(n) + a.allocated <= Weight(a.node) + Weight(a.right) + allocated
             /\ a.rtval # "split" => a.right = NULL
<1>1. PICK a : a = SplitIfFull(n, allocated, nomem)
  OBVIOUS
<1>2. n \in Trees /\ n # NULL /\ n \in Node(Trees)
  BY TreesAre, ChildBelow
<1>3. Weight(n) = 1 + Sum(n) /\ Sum(n) \in Nat /\ Weight(NULL) = 0
  BY <1>2, WeightIs, LoadIs
<1>4. CASE KeyLen(n) # M
  <2>1. a.node = n /\ a.allocated = allocated /\ a.right = NULL
    BY <1>1, <1>4 DEF SplitIfFull, Answer
  <2>2. 1 + Sum(n) + a.allocated <= Weight(a.node) + Weight(a.right) + allocated
    BY <1>3, <2>1
  <2>3. QED
    BY <1>1, <2>1, <2>2
<1>5. CASE KeyLen(n) = M
  <2>1. /\ a.node = SplitLeft(n) /\ a.right = SplitRight(n) /\ a.allocated = allocated + 1
        /\ a.rtval = "split"
    BY <1>1, <1>5 DEF SplitIfFull
  <2>2. PICK l, r : l = SplitLeft(n) /\ r = SplitRight(n)
    OBVIOUS
  <2>3. l \in Node(Low) /\ r \in Node(Low)
    BY <2>2, TreesAre, SplitTyped
  <2>4. l \in Trees /\ l # NULL /\ l \in Node(Trees) /\ r \in Trees /\ r # NULL /\ r \in Node(Trees)
    BY <2>3, TreesAre, ChildBelow
  <2>5. Weight(l) = 1 + Sum(l) /\ Sum(l) \in Nat /\ Weight(r) = 1 + Sum(r) /\ Sum(r) \in Nat
    BY <2>4, WeightIs, LoadIs
  <2>6. \A i \in Links : Child(n, i) = n.child[i]
    BY HungReads
  <2>7. Sum(n) <= Sum(l) + Sum(r)
    BY <1>2, <2>2, <2>6, SplitHolds
  <2>8. 1 + Sum(n) + a.allocated <= Weight(a.node) + Weight(a.right) + allocated
    BY <1>3, <2>1, <2>2, <2>5, <2>7
  <2>9. QED
    BY <1>1, <2>1, <2>8
<1>6. QED
  BY <1>4, <1>5

\* Nothing hangs below a leaf.
LEMMA NothingHung ==
  ASSUME NEW n \in Node(Trees), \A i \in Links : n.child[i] = NULL
  PROVE  Sum(n) = 0
<1>1. NewNode \in Node(Trees) /\ Sum(NewNode) = 0 /\ Sum(n) \in Nat
  BY NewNodeIs, NewNodeWeighs, TreesAre, LoadIs
<1>2. PICK p : p = [i \in Links |-> i]
  OBVIOUS
<1>3. Sum(n) <= Sum(NewNode)
  BY <1>1, SumCarried
<1>4. QED
  BY <1>1, <1>3

LEMMA LeafHolds ==
  ASSUME NEW m \in Sound(M - 1)[1], KeyLen(m) <= M - 1, NEW k \in Nat \ {0}, Key(m, FindPos(m, k)) # k,
         NEW nomem, ~nomem
  PROVE  /\ IsLeaf(m)
         /\ Keeps(SplitIfFull(LeafInsert(m, FindPos(m, k), k), 0, nomem), m)
<1> DEFINE len == KeyLen(m)
           pos == FindPos(m, k)
           t == LeafInsert(m, pos, k)
<1>1. /\ m \in Trees /\ m # NULL /\ m \in Node(Trees) /\ m \in Node(Low) /\ len \in 0 .. M
      /\ Packed(m, len) /\ Hung(m, len, {NULL}) /\ Uniform({NULL})
  <2>1. PICK hi : hi = M - 1
    OBVIOUS
  <2>2. 0 \in Nat /\ 0 + 1 = 1 /\ Kids(Sound(hi)[0], hi) = {NULL}
    BY KidsUniform
  <2>3. m \in Sound(hi)[0 + 1]
    BY <2>1, <2>2
  <2>4. /\ m \in Trees /\ m # NULL /\ m \in Node(Trees) /\ len \in 0 .. M
        /\ WellMade(m, len, Kids(Sound(hi)[0], hi))
    BY <2>2, <2>3, SoundNode
  <2>5. QED
    BY <2>2, <2>4, TreesAre DEF WellMade, Uniform
<1>2. M \in Nat /\ len <= M - 1
  BY MAssumption
<1> HIDE DEF len
<1>3. pos \in 0 .. len /\ Between(m, len, pos, k)
  BY <1>1, PositionOf
<1> HIDE DEF pos
<1>4. IsLeaf(m)
  BY <1>1, HungReads
<1>5. t = InsertAt(m, pos, k, NULL, NULL)
  BY <1>1, <1>3, LeafInsertIs
<1>6. Hung(t, Grown(len), {NULL}) /\ Grown(len) \in 0 .. M
  <2>1. Hung(InsertAt(m, pos, k, NULL, NULL), Grown(len), {NULL})
    BY <1>1, <1>3, InsertAtHung
  <2>2. QED
    BY <1>1, <1>2, <1>5, <2>1 DEF Grown
<1>7. t \in Node(Low)
  BY <1>1, TreesAre, LeafInsertTyped
<1> HIDE DEF t
<1>8. Weight(m) = 1 /\ Sum(t) \in Nat
  <2>1. \A i \in Links : m.child[i] = NULL
    BY <1>1, <1>2 DEF Hung, Links
  <2>2. Sum(m) = 0
    BY <1>1, <2>1, NothingHung
  <2>3. t \in Node(Trees)
    BY <1>7, TreesAre, ChildBelow
  <2>4. QED
    BY <1>1, <2>2, <2>3, WeightIs, LoadIs
<1>9. PICK a : a = SplitIfFull(t, 0, nomem)
  OBVIOUS
<1>10. 1 + Sum(t) + a.allocated <= Weight(a.node) + Weight(a.right) + 0 /\ (a.rtval # "split" => a.right = NULL)
  <2>1. 0 \in Nat
    OBVIOUS
  <2>2. QED
    BY <1>1, <1>6, <1>7, <1>9, <2>1, SplitIfFullHolds
<1>11. a \in Answers(Trees)
  <2>1. 0 \in Nat /\ NULL \in Low
    BY TreesAre
  <2>2. a \in Answers(Higher(Low))
    BY <1>7, <1>9, <2>1, SplitIfFullTyped
  <2>3. Higher(Low) = Trees
    BY TreesAre DEF Higher
  <2>4. QED
    BY <2>2, <2>3
<1>12. a.allocated \in Nat /\ Weight(a.node) \in Nat /\ Weight(a.right) \in Nat
  BY <1>11, WeightIs DEF Answers
<1>13. Keeps(a, m)
  BY <1>8, <1>10, <1>12 DEF Keeps
<1>14. QED
  BY <1>4, <1>9, <1>13 DEF t, pos

\* The insert into an inner node, after the insert into its child.
LEMMA InnerHolds ==
  ASSUME NEW h \in Nat \ {0}, NEW m \in Sound(M - 1)[h + 1], KeyLen(m) <= M - 1,
         NEW k \in Nat \ {0}, Key(m, FindPos(m, k)) # k, NEW sub \in Answers(Low),
         NEW nomem, ~nomem,
         Child(m, FindPos(m, k)) \in Kids(Sound(M - 1)[h], M - 1)
           => /\ Inserted(sub, Child(m, FindPos(m, k)), k, M - 1, h)
              /\ Keeps(sub, Child(m, FindPos(m, k)))
  PROVE  Keeps(InsertAbove(m, FindPos(m, k), sub, nomem), m)
<1> DEFINE len == KeyLen(m)
           C == Kids(Sound(M - 1)[h], M - 1)
           pos == FindPos(m, k)
           child == m.child[pos]
           here == SetChild(m, pos, sub.node)
           a == InsertAbove(m, pos, sub, nomem)
<1>1. /\ m \in Trees /\ m # NULL /\ m \in Node(Trees) /\ m \in Node(Low) /\ len \in 0 .. M
      /\ Packed(m, len) /\ Hung(m, len, C) /\ Uniform(C) /\ NULL \notin C
  <2>1. m \in Trees /\ m # NULL /\ m \in Node(Trees) /\ len \in 0 .. M /\ WellMade(m, len, C)
    BY SoundNode
  <2>2. Uniform(C) /\ NULL \notin C
    BY KidsUniform
  <2>3. QED
    BY <2>1, <2>2, TreesAre DEF WellMade
<1>2. M \in Nat /\ len \in 0 .. M - 1
  BY <1>1, MAssumption
<1>3. KeyLen(m) = len
  OBVIOUS
<1> HIDE DEF len
<1>4. pos \in 0 .. len
  BY <1>1, PositionOf
<1>5. pos \in Links /\ pos <= len /\ pos \in 0 .. M - 1 /\ pos \in Nat
  BY <1>2, <1>4 DEF Links
<1> HIDE DEF pos
<1>6. child \in C /\ child # NULL /\ Child(m, pos) = child
  <2>1. child \in C
    BY <1>1, <1>5 DEF Hung
  <2>2. Child(m, pos) = child
    BY <1>1, <1>5, HungReads
  <2>3. QED
    BY <1>1, <2>1, <2>2
<1>7. Inserted(sub, child, k, M - 1, h) /\ Keeps(sub, child)
  BY <1>6 DEF pos
<1>8. /\ sub.rtval # "oops"
      /\ sub.rtval = "split" => sub.node \in C /\ sub.right \in C /\ sub.upkey \in Nat \ {0}
  BY <1>7 DEF Inserted, Fine
<1>9. /\ Weight(child) + sub.allocated <= Weight(sub.node) + Weight(sub.right)
      /\ sub.rtval # "split" => sub.right = NULL
  BY <1>7 DEF Keeps
<1> HIDE DEF C
<1>10. /\ sub.node \in Low /\ sub.right \in Low /\ sub.allocated \in Nat
       /\ Weight(sub.node) \in Nat /\ Weight(sub.right) \in Nat /\ Weight(child) \in Nat
       /\ Weight(NULL) = 0
  <2>1. sub.node \in Low /\ sub.right \in Low /\ sub.allocated \in Nat
    BY DEF Answers
  <2>2. child \in Trees
    BY <1>1, <1>5 DEF Node
  <2>3. QED
    BY <2>1, <2>2, TreesAre, WeightIs
<1>11. here \in Node(Low) /\ here \in Trees /\ here # NULL /\ here \in Node(Trees)
  <2>1. here \in Node(Low)
    BY <1>1, <1>10, SettersTyped
  <2>2. QED
    BY <2>1, TreesAre, ChildBelow
<1>12. WithChild(m, pos, sub.node) = here
  BY <1>6 DEF WithChild
<1>13. here.key = m.key /\ \A i \in Links : here.child[i] = IF i = pos THEN sub.node ELSE m.child[i]
  BY <1>1, <1>5 DEF SetChild, Node
<1>14. Weight(m) = 1 + Sum(m) /\ Sum(m) \in Nat
  BY <1>1, WeightIs, LoadIs
<1> HIDE DEF here, child
<1>15. KeyLen(here) = len
  BY <1>3, <1>13, KeyLenSame
<1>16. CASE sub.rtval # "split"
  <2>1. a = [Answer(here, "done") EXCEPT !.allocated = sub.allocated]
    <3>1. KeyLen(here) # M
      BY <1>2, <1>15
    <3>2. QED
      BY <1>8, <1>12, <1>16, <3>1 DEF InsertAbove, SplitIfFull
  <2>2. a.node = here /\ a.allocated = sub.allocated /\ a.right = NULL
    BY <2>1 DEF Answer
  <2>3. Sum(here) + Weight(child) = Sum(m) + Weight(sub.node)
    <3>1. \A i \in Links : i # pos => here.child[i] = m.child[i]
      BY <1>13
    <3>2. here.child[pos] = sub.node
      BY <1>5, <1>13
    <3>3. Sum(here) + Weight(m.child[pos]) = Sum(m) + Weight(here.child[pos])
      BY <1>1, <1>5, <1>11, <3>1, SumReplaced
    <3>4. QED
      BY <3>2, <3>3 DEF child
  <2>4. Weight(here) = 1 + Sum(here) /\ Sum(here) \in Nat
    BY <1>11, WeightIs, LoadIs
  <2>5. Weight(sub.right) = 0
    BY <1>9, <1>10, <1>16
  <2> HIDE DEF a
  <2>6. Weight(m) + a.allocated <= Weight(a.node) + Weight(a.right)
    BY <1>9, <1>10, <1>14, <2>2, <2>3, <2>4, <2>5
  <2>7. QED
    BY <2>2, <2>6 DEF Keeps, a, pos
<1>17. CASE sub.rtval = "split"
  <2> DEFINE up == sub.upkey
             l == sub.node
             r == sub.right
             room == IF pos = len THEN here ELSE RightShift(here, pos, up, r)
  <2>1. l \in C /\ r \in C /\ up \in Nat \ {0}
    BY <1>8, <1>17
  <2>2. Adopt(here, pos, sub) = NodeInsert(room, pos, up, l, r)
    BY <1>15, Zenon DEF Adopt
  <2>3. NodeInsert(room, pos, up, l, r) = InsertAt(m, pos, up, l, r)
    <3>1. PICK q : q = room
      OBVIOUS
    <3>2. q = IF pos = len THEN SetChild(m, pos, l) ELSE RightShift(SetChild(m, pos, l), pos, up, r)
      BY <3>1 DEF here
    <3> HIDE DEF room, up, l, r
    <3>3. NodeInsert(q, pos, up, l, r) = InsertAt(m, pos, up, l, r)
      BY <1>1, <1>4, <2>1, <3>2, NodeInsertIs
    <3>4. QED
      BY <3>1, <3>3
  <2>4. PICK t : t = Adopt(here, pos, sub)
    OBVIOUS
  <2>5. t \in Node(Low) /\ t \in Node(Trees)
    <3>1. t \in Node(Low)
      BY <1>11, <2>4, TreesAre, AdoptTyped
    <3>2. QED
      BY <3>1, TreesAre, ChildBelow
  <2> HIDE DEF room
  <2>6. t = InsertAt(m, pos, up, l, r)
    BY <2>2, <2>3, <2>4
  <2>7. Hung(t, Grown(len), C) /\ Grown(len) \in 0 .. M
    <3>1. Hung(InsertAt(m, pos, up, l, r), Grown(len), C)
      BY <1>1, <1>4, <2>1, InsertAtHung
    <3>2. QED
      BY <1>2, <2>6, <3>1 DEF Grown
  <2>8. Sum(m) + Weight(l) + Weight(r) <= Sum(t) + Weight(child)
    <3>1. \A i \in Links : t.child[i] = IF i < pos THEN m.child[i] ELSE IF i = pos THEN l
                                        ELSE IF i = pos + 1 THEN r ELSE m.child[i - 1]
      BY <2>6 DEF InsertAt
    <3>2. m.child[M] = NULL
      BY <1>1, <1>2 DEF Hung, Links
    <3> HIDE DEF l, r
    <3>3. Sum(m) + Weight(l) + Weight(r) <= Sum(t) + Weight(m.child[pos])
      BY <1>1, <1>5, <2>5, <3>1, <3>2, InsertAtHolds
    <3>4. QED
      BY <3>3 DEF child
  <2>9. a = SplitIfFull(t, sub.allocated, nomem)
    BY <1>8, <1>12, <1>17, <2>4 DEF InsertAbove
  <2>10. /\ 1 + Sum(t) + a.allocated <= Weight(a.node) + Weight(a.right) + sub.allocated
         /\ a.rtval # "split" => a.right = NULL
    <3>1. PICK b : b = SplitIfFull(t, sub.allocated, nomem)
      OBVIOUS
    <3>2. /\ 1 + Sum(t) + b.allocated <= Weight(b.node) + Weight(b.right) + sub.allocated
          /\ b.rtval # "split" => b.right = NULL
      BY <1>1, <1>10, <2>5, <2>7, <3>1, SplitIfFullHolds
    <3>3. QED
      BY <2>9, <3>1, <3>2
  <2>11. a \in Answers(Trees)
    <3>1. SplitIfFull(t, sub.allocated, nomem) \in Answers(Higher(Low))
      BY <1>10, <2>5, TreesAre, SplitIfFullTyped
    <3>2. Higher(Low) = Trees
      BY TreesAre DEF Higher
    <3>3. QED
      BY <2>9, <3>1, <3>2
  <2> HIDE DEF a
  <2>12. a.allocated \in Nat /\ Weight(a.node) \in Nat /\ Weight(a.right) \in Nat /\ Sum(t) \in Nat
    BY <2>5, <2>11, WeightIs, LoadIs DEF Answers
  <2>13. Weight(m) + a.allocated <= Weight(a.node) + Weight(a.right)
    BY <1>9, <1>10, <1>14, <2>8, <2>10, <2>12
  <2>14. QED
    BY <2>10, <2>13 DEF Keeps, a, pos
<1>18. QED
  BY <1>16, <1>17

\* What the recursive insert leaves of a sound tree when no allocation fails.
LEMMA IntoHolds ==
  ASSUME NEW k \in Nat \ {0}, NEW failing, failing = {}, NEW f, Inserts(f, k, failing)
  PROVE  \A h \in Nat : \A m \in Sound(M - 1)[h + 1] : KeyLen(m) <= M - 1 =>
           \A depth \in Nat : Keeps(f[m][depth], m)
<1> DEFINE hi == M - 1
           T == {h \in Nat : \A m \in Sound(hi)[h + 1] : KeyLen(m) <= hi =>
                               \A depth \in Nat : Keeps(f[m][depth], m)}
<1>1. /\ \A m \in Trees : \A depth \in Nat : f[m][depth] = Into(m, depth, k, failing, f)
      /\ \A m \in Low : \A depth \in Nat : f[m][depth] \in Answers(Low)
  <2>1. MaxHeight - 1 \in 0 .. MaxHeight /\ MaxHeight \in 0 .. MaxHeight
    BY BoundsAssumption
  <2>2. QED
    BY <2>1 DEF Inserts, Trees, Low
<1>2. \A depth : ~(depth \in failing)
  OBVIOUS
<1>3. \A h \in Nat : \A m \in Sound(hi)[h + 1] : KeyLen(m) <= hi =>
        \A depth \in Nat : Inserted(f[m][depth], m, k, hi, h + 1)
  <2>1. hi \in {M - 1, M} /\ (hi < M => failing = {})
    OBVIOUS
  <2> HIDE DEF hi
  <2>2. QED
    BY <2>1, InsertSound
<1>4. ASSUME NEW m \in Trees, m # NULL, Key(m, FindPos(m, k)) = k, NEW depth \in Nat
      PROVE  Keeps(f[m][depth], m)
  <2>1. f[m][depth] = Answer(m, "exists")
    BY <1>1, <1>4 DEF Into
  <2>2. PICK a : a = f[m][depth]
    OBVIOUS
  <2>3. a.node = m /\ a.allocated = 0 /\ a.right = NULL
    BY <2>1, <2>2 DEF Answer
  <2>4. Weight(m) \in Nat /\ Weight(NULL) = 0
    BY WeightIs
  <2>5. Keeps(a, m)
    BY <2>3, <2>4 DEF Keeps
  <2>6. QED
    BY <2>2, <2>5
<1>5. 0 \in T
  <2>1. SUFFICES ASSUME NEW m \in Sound(hi)[0 + 1], KeyLen(m) <= hi, NEW depth \in Nat
                 PROVE  Keeps(f[m][depth], m)
    BY DEF T
  <2>2. m \in Trees /\ m # NULL /\ 0 + 1 = 1
    <3>1. 0 \in Nat
      OBVIOUS
    <3>2. QED
      BY <3>1, SoundNode
  <2>3. CASE Key(m, FindPos(m, k)) # k
    <3> DEFINE nomem == depth \in failing
    <3>1. ~nomem
      BY <1>2
    <3> HIDE DEF nomem
    <3>2. /\ IsLeaf(m)
          /\ Keeps(SplitIfFull(LeafInsert(m, FindPos(m, k), k), 0, nomem), m)
      BY <2>1, <2>2, <2>3, <3>1, LeafHolds
    <3>3. f[m][depth] = SplitIfFull(LeafInsert(m, FindPos(m, k), k), 0, nomem)
      BY <1>1, <2>2, <2>3, <3>2 DEF Into, nomem
    <3>4. QED
      BY <3>2, <3>3
  <2>4. QED
    BY <1>4, <2>2, <2>3
<1>6. ASSUME NEW h \in Nat, h \in T PROVE h + 1 \in T
  <2>1. PICK j \in Nat \ {0} : j = h + 1
    OBVIOUS
  <2>2. SUFFICES ASSUME NEW m \in Sound(hi)[j + 1], KeyLen(m) <= hi, NEW depth \in Nat
                 PROVE  Keeps(f[m][depth], m)
    BY <2>1 DEF T
  <2>3. m \in Trees /\ m # NULL
    BY SoundNode
  <2>4. CASE Key(m, FindPos(m, k)) # k
    <3> DEFINE nomem == depth \in failing
               c == Child(m, FindPos(m, k))
               sub == f[c][depth + 1]
    <3>1. depth + 1 \in Nat
      OBVIOUS
    <3>2. c \in Low
      BY <2>3, TreesAre, GettersTyped
    <3>3. sub \in Answers(Low)
      BY <1>1, <3>1, <3>2
    <3>4. ASSUME c \in Kids(Sound(hi)[j], hi)
          PROVE  Inserted(sub, c, k, hi, j) /\ Keeps(sub, c)
      <4>1. c \in Sound(hi)[j] /\ c # NULL
        BY <3>4, KidsUniform, ZenonT(40) DEF Kids
      <4>2. KeyLen(c) \in Half .. hi
        BY <3>4, <4>1 DEF Kids
      <4>3. c \in Sound(hi)[h + 1] /\ KeyLen(c) <= hi
        BY <2>1, <4>1, <4>2, Halves
      <4> HIDE DEF c
      <4>4. Inserted(f[c][depth + 1], c, k, hi, h + 1)
        BY <1>3, <3>1, <4>3
      <4>5. Keeps(f[c][depth + 1], c)
        BY <1>6, <3>1, <4>3
      <4>6. QED
        BY <2>1, <4>4, <4>5
    <3> HIDE DEF sub, nomem
    <3>5. /\ ~IsLeaf(m)
          /\ Keeps(InsertAbove(m, FindPos(m, k), sub, nomem), m)
      <4>1. Keeps(InsertAbove(m, FindPos(m, k), sub, nomem), m)
        <5>1. ~nomem
          BY <1>2 DEF nomem
        <5>2. QED
          BY <2>2, <2>4, <3>3, <3>4, <5>1, InnerHolds
      <4>2. ~IsLeaf(m)
        <5> DEFINE C == Kids(Sound(hi)[j], hi)
        <5>1. Hung(m, KeyLen(m), C) /\ KeyLen(m) \in 0 .. M
          BY <2>2, SoundNode DEF WellMade
        <5>2. Uniform(C) /\ NULL \notin C
          BY KidsUniform
        <5> HIDE DEF C
        <5>3. IsLeaf(m) <=> C = {NULL}
          BY <5>1, <5>2, HungReads
        <5>4. QED
          BY <5>2, <5>3
      <4>3. QED
        BY <4>1, <4>2
    <3>6. f[m][depth] = InsertAbove(m, FindPos(m, k), sub, nomem)
      BY <1>1, <2>3, <2>4, <3>5 DEF Into, nomem, sub
    <3>7. QED
      BY <3>5, <3>6
  <2>5. QED
    BY <1>4, <2>3, <2>4
<1>7. \A h \in Nat : h \in T
  <2> HIDE DEF T
  <2>1. QED
    BY <1>5, <1>6, Induction
<1>8. QED
  BY <1>7

\* A sound tree has no stale pointers: it has as many nodes as it weighs.
LEMMA AllLinked ==
  ASSUME NEW hi
  PROVE  \A h \in Nat : \A m \in Sound(hi)[h + 1] : NodeCount(m) = Weight(m)
<1> DEFINE T == {h \in Nat : \A m \in Sound(hi)[h + 1] : Weight(m) <= NodeCount(m)}
<1>1. ASSUME NEW h \in Nat, h # 0 => \A c \in Sound(hi)[h] : Weight(c) <= NodeCount(c),
             NEW m \in Sound(hi)[h + 1]
      PROVE  Weight(m) <= NodeCount(m)
  <2> DEFINE len == KeyLen(m)
             C == Kids(Sound(hi)[h], hi)
  <2>1. /\ m \in Trees /\ m # NULL /\ m \in Node(Trees) /\ len \in 0 .. M
        /\ Hung(m, len, C) /\ Uniform(C) /\ C \subseteq Sound(hi)[h]
        /\ h = 0 => C = {NULL}
    BY <1>1, SoundNode, KidsUniform DEF WellMade
  <2>2. M \in Nat
    BY MAssumption
  <2>3. h # 0 => \A c \in C : Weight(c) <= NodeCount(c)
    BY <1>1, <2>1
  <2> HIDE DEF len, C
  <2>4. PICK g \in [Nat -> Nat] : /\ NodeCount(m) = 1 + Total(g, ChildLen(m))
                                  /\ \A i \in Nat : g[i] = NodeCount(Child(m, i))
    BY <2>1, NodeCountIs
  <2>5. /\ Load(m) \in [Nat -> Nat] /\ M + 1 \in Nat /\ Sum(m) \in Nat
        /\ \A i \in Nat : Load(m)[i] = IF i \in Links THEN Weight(m.child[i]) ELSE 0
    BY <2>1, LoadIs
  <2>6. /\ C # {NULL} => ChildLen(m) = len + 1
        /\ ChildLen(m) \in Nat
        /\ \A i \in Links : Child(m, i) = m.child[i]
    <3>1. C # {NULL} => ChildLen(m) = len + 1
      BY <2>1, HungReads
    <3>2. C = {NULL} => ChildLen(m) = 0
      BY <2>1, HungReads
    <3>3. \A i \in Links : Child(m, i) = m.child[i]
      BY <2>1, HungReads
    <3>4. QED
      BY <2>1, <2>2, <3>1, <3>2, <3>3
  <2>7. PICK p : p = [i \in Nat |-> i]
    OBVIOUS
  <2>8. ASSUME NEW i \in Nat, Load(m)[i] # 0
        PROVE  p[i] \in Nat /\ p[i] < ChildLen(m) /\ Load(m)[i] <= g[p[i]]
    <3>1. i \in Links /\ m.child[i] # NULL /\ Load(m)[i] = Weight(m.child[i])
      BY <2>5, <2>8, WeightIs
    <3>2. i <= len /\ m.child[i] \in C
      BY <2>1, <2>2, <3>1 DEF Hung, Links
    <3>3. C # {NULL} /\ h # 0
      BY <2>1, <3>1, <3>2
    <3>4. g[i] = NodeCount(m.child[i]) /\ Weight(m.child[i]) <= NodeCount(m.child[i])
      BY <2>3, <2>4, <2>6, <3>1, <3>2, <3>3
    <3>5. ChildLen(m) = len + 1 /\ i < len + 1 /\ p[i] = i
      BY <2>1, <2>2, <2>6, <2>7, <3>2, <3>3
    <3>6. QED
      BY <3>1, <3>4, <3>5
  <2>9. \A i, j \in Nat : i < j => p[i] < p[j]
    BY <2>7
  <2>10. Moves(p, Load(m), M + 1, g, ChildLen(m))
    BY <2>8, <2>9 DEF Moves
  <2>11. Sum(m) <= Total(g, ChildLen(m))
    BY <2>5, <2>6, <2>10, TotalMoved DEF Sum
  <2>12. Total(g, ChildLen(m)) \in Nat
    BY <2>6, TotalIs
  <2>13. Weight(m) = 1 + Sum(m)
    BY <2>1, WeightIs
  <2>14. QED
    BY <2>4, <2>5, <2>11, <2>12, <2>13
<1>2. 0 \in T
  BY <1>1
<1>3. ASSUME NEW h \in Nat, h \in T PROVE h + 1 \in T
  <2>1. PICK g \in Nat : g = h + 1
    OBVIOUS
  <2>2. \A c \in Sound(hi)[g] : Weight(c) <= NodeCount(c)
    BY <1>3, <2>1
  <2>3. \A m \in Sound(hi)[g + 1] : Weight(m) <= NodeCount(m)
    BY <1>1, <2>2
  <2>4. QED
    BY <2>1, <2>3
<1>4. \A h \in Nat : h \in T
  <2> HIDE DEF T
  <2>1. QED
    BY <1>2, <1>3, Induction
<1>5. ASSUME NEW h \in Nat, NEW m \in Sound(hi)[h + 1] PROVE NodeCount(m) = Weight(m)
  <2>1. m \in Trees /\ Weight(m) <= NodeCount(m)
    BY <1>4, SoundNode
  <2>2. NodeCount(m) \in Nat /\ NodeCount(m) <= Weight(m) /\ Weight(m) \in Nat
    BY <2>1, NodeCountIs, WeightIs
  <2>3. QED
    BY <2>1, <2>2
<1>6. QED
  BY <1>5

\* A merge frees one node and loses no other.
LEMMA MergeHolds ==
  ASSUME NEW h \in Nat \ {0}, NEW n \in Node(Low), NEW len, WellMade(n, len, Sound(M - 1)[h]),
         NEW pos \in 0 .. len - 1, Fits(Child(n, pos), Child(n, pos + 1))
  PROVE  /\ CanRearrange(n, pos)
         /\ Merge(n, pos) \in Node(Low) /\ Sum(n) <= Sum(Merge(n, pos)) + 1
<1> DEFINE D == Sound(M - 1)[h]
           l == n.child[pos]
           r == n.child[pos + 1]
           k == n.key[pos]
           c == MergedChild(l, k, r)
           t == Merge(n, pos)
           ll == KeyLen(l)
           rl == KeyLen(r)
<1>1. n \in Trees /\ n # NULL /\ n \in Node(Trees)
  BY TreesAre, ChildBelow
<1>2. Packed(n, len) /\ Hung(n, len, D)
  BY DEF WellMade
<1>3. M \in Nat /\ len \in 1 .. M /\ len \in 0 .. M /\ pos \in Nat
  <2>1. M \in Nat /\ len \in 0 .. M
    BY <1>2, MAssumption DEF Packed
  <2>2. QED
    BY <2>1
<1>4. PICK g \in Nat : g + 1 = h
  <2>1. h - 1 \in Nat /\ (h - 1) + 1 = h
    OBVIOUS
  <2>2. QED
    BY <2>1
<1>5. D \subseteq Trees /\ NULL \notin D /\ Uniform(D)
  BY KidsUniform DEF Uniform
<1>6. pos \in Links /\ pos + 1 \in Links /\ pos \in Slots /\ pos < len /\ pos + 1 <= len /\ pos <= len
  BY <1>3 DEF Links, Slots
<1>7. l \in D /\ r \in D
  BY <1>2, <1>6 DEF Hung
<1>8. Child(n, pos) = l /\ Child(n, pos + 1) = r
  BY <1>2, <1>3, <1>5, <1>6, HungReads
<1> DEFINE E == Kids(Sound(M - 1)[g], M - 1)
<1>9. /\ l \in Trees /\ l # NULL /\ l \in Node(Trees) /\ Hung(l, ll, E) /\ ll \in 0 .. M
      /\ r \in Trees /\ r # NULL /\ r \in Node(Trees) /\ Hung(r, rl, E) /\ rl \in 0 .. M
      /\ Uniform(E)
  <2>1. l \in Sound(M - 1)[g + 1] /\ r \in Sound(M - 1)[g + 1]
    BY <1>4, <1>7
  <2>2. l \in Trees /\ l # NULL /\ l \in Node(Trees) /\ WellMade(l, ll, E) /\ ll \in 0 .. M
    BY <2>1, SoundNode
  <2>3. r \in Trees /\ r # NULL /\ r \in Node(Trees) /\ WellMade(r, rl, E) /\ rl \in 0 .. M
    BY <2>1, SoundNode
  <2>4. Uniform(E)
    BY KidsUniform
  <2>5. QED
    BY <2>2, <2>3, <2>4 DEF WellMade
<1>10. ll + rl + 1 < M
  BY <1>8 DEF Fits
<1>11. /\ c \in Node(Trees) /\ c \in Trees /\ c # NULL /\ t \in Node(Low) /\ t \in Node(Trees)
  <2>1. l \in Low /\ r \in Low
    BY <1>6 DEF Node
  <2>2. PICK T : NULL \in T /\ l \in Node(T) /\ Low = Higher(T) /\ NULL \notin Node(T)
    BY <1>9, <2>1, ChildOfLow
  <2>3. r \in Node(T) /\ Node(T) \subseteq Low
    BY <1>9, <2>1, <2>2 DEF Higher
  <2>4. k \in Nat
    BY <1>1, <1>6 DEF Node
  <2>5. c \in Node(T)
    BY <2>2, <2>3, <2>4, MergedChildTyped
  <2>6. c \in Low /\ c # NULL
    BY <2>2, <2>3, <2>5
  <2>7. c \in Trees /\ c \in Node(Trees)
    BY <2>6, TreesAre, ChildBelow
  <2>8. t \in Node(Low)
    <3>1. NULL \in Low
      BY TreesAre
    <3>2. QED
      BY <1>8, <2>2, <2>3, <3>1, MergeTyped
  <2>9. t \in Node(Trees)
    BY <2>8, TreesAre, ChildBelow
  <2>10. QED
    BY <2>6, <2>7, <2>8, <2>9
<1> HIDE DEF D, E
<1>12. CanRearrange(n, pos) /\ t = RemoveAt(n, len, pos, c)
  BY <1>2, <1>5, MergeIs
<1> HIDE DEF t, ll, rl
<1>13. Sum(l) + Sum(r) <= Sum(c)
  <2> HIDE DEF l, r, k
  <2>1. QED
    BY <1>9, <1>10, <1>11, MergedHolds DEF c, ll, rl
<1> HIDE DEF c
<1>14. Sum(n) + Weight(c) <= Sum(t) + Weight(l) + Weight(r)
  <2>1. \A i \in Links : t.child[i] = IF i < pos THEN n.child[i] ELSE IF i = pos THEN c
                                      ELSE IF i < len THEN n.child[i + 1] ELSE NULL
    BY <1>12 DEF RemoveAt
  <2>2. \A i \in Links : len < i => n.child[i] = NULL
    BY <1>2 DEF Hung
  <2>3. QED
    BY <1>1, <1>3, <1>11, <2>1, <2>2, RemoveAtHolds
<1>15. /\ Weight(l) = 1 + Sum(l) /\ Sum(l) \in Nat /\ Weight(r) = 1 + Sum(r) /\ Sum(r) \in Nat
       /\ Weight(c) = 1 + Sum(c) /\ Sum(c) \in Nat /\ Sum(n) \in Nat /\ Sum(t) \in Nat
  BY <1>1, <1>9, <1>11, WeightIs, LoadIs
<1> HIDE DEF l, r
<1>16. Sum(n) <= Sum(t) + 1
  BY <1>13, <1>14, <1>15
<1>17. QED
  BY <1>11, <1>12, <1>16 DEF t

\* An answer to a remove from m that holds all of m but what was freed.
Stays(a, m) == a.rotates \/ Weight(m) <= Weight(a.node) + a.freed

\* A remove that goes on below, after the remove from the child.
LEMMA AboveStays ==
  ASSUME NEW h \in Nat \ {0}, NEW n \in Sound(M - 1)[h + 1], KeyLen(n) \in 1 .. M - 1,
         NEW pos, NEW moved, NEW jj, NEW j, GoesDown(n, j, h, pos, moved, jj),
         NEW sub \in Lefts(Low), sub.node # NULL, Removed(sub, n.child[pos], jj, h),
         Stays(sub, n.child[pos])
  PROVE  Stays(RemoveAbove(n, moved, pos, sub), n)
<1> DEFINE len == KeyLen(n)
           D == Sound(M - 1)[h]
           c == n.child[pos]
           here == SetChild(moved, pos, sub.node)
           fixed == IF sub.rtval = "short" THEN Rearrange(here, pos, sub)
                                           ELSE [sub EXCEPT !.node = here]
           a == RemoveAbove(n, moved, pos, sub)
<1>1. /\ n \in Trees /\ n # NULL /\ n \in Node(Trees) /\ Hung(n, len, Kids(D, M - 1))
      /\ len \in 1 .. M /\ len \in 0 .. M
  <2>1. len \in 1 .. M /\ len \in 0 .. M
    BY MAssumption
  <2>2. QED
    BY <2>1, SoundNode DEF WellMade
<1>2. /\ pos \in 0 .. len /\ moved \in Node(Low) /\ moved.child = n.child
      /\ KeyLen(moved) = len /\ Without(n, moved, pos, jj, j, h) /\ c # NULL
  BY DEF GoesDown
<1>3. pos \in Links /\ pos <= len
  BY <1>1, <1>2, MAssumption DEF Links
<1>4. /\ moved \in Node(Trees) /\ Weight(n) = 1 + Sum(n) /\ Sum(n) \in Nat /\ Sum(moved) = Sum(n)
  <2>1. moved \in Node(Trees)
    BY <1>2, TreesAre, ChildBelow
  <2>2. QED
    BY <1>1, <1>2, <2>1, WeightIs, LoadIs, SumSame
<1>5. /\ sub.node \in Low /\ sub.node \in Trees /\ c \in Trees /\ sub.freed \in Nat
      /\ Weight(sub.node) \in Nat /\ Weight(c) \in Nat
  <2>1. sub.node \in Low /\ sub.freed \in Nat
    BY DEF Lefts
  <2>2. sub.node \in Trees /\ c \in Trees
    BY <1>1, <1>3, <2>1, TreesAre DEF Node
  <2>3. QED
    BY <2>1, <2>2, WeightIs
<1>6. WithChild(moved, pos, sub.node) = here
  <2>1. Uniform(Kids(D, M - 1)) /\ Hung(moved, len, Kids(D, M - 1))
    BY <1>1, <1>2, KidsUniform DEF Hung
  <2>2. Child(moved, pos) = c
    BY <1>1, <1>2, <1>3, <2>1, HungReads
  <2>3. QED
    BY <1>2, <2>2 DEF WithChild
<1>7. /\ here \in Node(Low) /\ here \in Node(Trees) /\ here \in Trees /\ here # NULL
      /\ Sum(here) + Weight(c) = Sum(n) + Weight(sub.node) /\ Sum(here) \in Nat
      /\ KeyLen(here) = len
  <2>1. here \in Node(Low)
    BY <1>2, <1>5, SettersTyped
  <2>2. here \in Node(Trees) /\ here \in Trees /\ here # NULL
    BY <2>1, TreesAre, ChildBelow
  <2>3. Sum(here) + Weight(moved.child[pos]) = Sum(moved) + Weight(sub.node)
    BY <1>3, <1>4, <1>5, SumSetters
  <2>4. here.key = moved.key
    BY DEF SetChild
  <2>5. KeyLen(here) = KeyLen(moved)
    BY <2>4, KeyLenSame
  <2>6. QED
    BY <1>2, <1>4, <2>1, <2>2, <2>3, <2>5, LoadIs
<1>8. a = IF fixed.rtval = "oops" \/ (sub.rtval = "failed" /\ pos = len)
          THEN Left(n, fixed.rtval) ELSE Settle(fixed)
  BY <1>6 DEF RemoveAbove
<1> HIDE DEF here, c
<1>9. \A rtval : Stays(Left(n, rtval), n)
  BY <1>4 DEF Stays, Left
<1>10. ASSUME fixed.rtval # "oops"
       PROVE  fixed.rotates \/ Weight(n) <= Weight(fixed.node) + fixed.freed
  <2>1. CASE sub.rotates
    <3>1. CASE sub.rtval # "short"
      BY <2>1, <3>1 DEF Lefts
    <3>2. CASE sub.rtval = "short"
      <4>1. fixed = Rearrange(here, pos, sub)
        BY <3>2
      <4>2. \/ fixed.rtval = "oops"
            \/ \E p : fixed = MergeAt(here, p, sub)
            \/ \E t : fixed = RotateTo(t, sub)
        BY <4>1, Zenon DEF Rearrange, Left
      <4>3. \A p : MergeAt(here, p, sub).rotates = sub.rotates
        BY DEF MergeAt, Lefts
      <4>4. \A t : RotateTo(t, sub).rotates = TRUE
        BY DEF RotateTo, Lefts
      <4> HIDE DEF fixed
      <4>5. QED
        BY <1>10, <2>1, <4>2, <4>3, <4>4
    <3>3. QED
      BY <3>1, <3>2
  <2>2. CASE ~sub.rotates
    <3>1. Weight(c) <= Weight(sub.node) + sub.freed
      BY <2>2 DEF Stays, c
    <3>2. WellMade(here, len, D)
      <4>1. sub.node \in D /\ KeysOf(sub.node) = KeysOf(c) \ {jj}
        BY <2>2 DEF Removed, c
      <4>2. QED
        BY <1>2, <1>7, <4>1 DEF Without, here, c
    <3>3. CASE sub.rtval # "short"
      <4>1. fixed.node = here /\ fixed.freed = sub.freed
        BY <3>3 DEF Lefts
      <4> HIDE DEF fixed
      <4>2. Weight(here) = 1 + Sum(here)
        BY <1>7, WeightIs
      <4>3. Weight(n) <= Weight(here) + sub.freed
        BY <1>4, <1>5, <1>7, <3>1, <4>2
      <4>4. QED
        BY <4>1, <4>3
    <3>4. CASE sub.rtval = "short"
      <4>1. PICK r : r = Rearrange(here, pos, sub)
        OBVIOUS
      <4>2. Hung(here, len, D) /\ NULL \notin D
        BY <3>2, KidsUniform DEF WellMade
      <4>3. \/ r.rotates
            \/ \E p \in {pos - 1, pos} :
                 /\ p \in 0 .. len - 1 /\ Fits(Child(here, p), Child(here, p + 1))
                 /\ r.node = Merge(here, p)
                 /\ r.freed = sub.freed + (IF CanRearrange(here, p) THEN 1 ELSE 0)
        BY <1>1, <1>2, <1>7, <4>1, <4>2, RearrangeIs
      <4>4. fixed = r
        BY <3>4, <4>1
      <4> HIDE DEF fixed, D, len
      <4>5. CASE r.rotates
        BY <4>4, <4>5
      <4>6. CASE ~r.rotates
        <5>1. PICK p : /\ p \in 0 .. len - 1 /\ Fits(Child(here, p), Child(here, p + 1))
                       /\ r.node = Merge(here, p)
                       /\ r.freed = sub.freed + (IF CanRearrange(here, p) THEN 1 ELSE 0)
          BY <4>3, <4>6
        <5>2. /\ CanRearrange(here, p) /\ Merge(here, p) \in Node(Low)
              /\ Sum(here) <= Sum(Merge(here, p)) + 1
          BY <1>7, <3>2, <5>1, MergeHolds DEF D
        <5>3. PICK t : t = Merge(here, p)
          OBVIOUS
        <5>4. t \in Trees /\ t # NULL /\ t \in Node(Trees)
          BY <5>2, <5>3, TreesAre, ChildBelow
        <5>5. Weight(t) = 1 + Sum(t) /\ Sum(t) \in Nat
          BY <5>4, WeightIs, LoadIs
        <5>6. r.node = t /\ r.freed = sub.freed + 1
          BY <5>1, <5>2, <5>3
        <5>7. Weight(n) <= Weight(t) + (sub.freed + 1)
          BY <1>4, <1>5, <1>7, <3>1, <5>2, <5>3, <5>5
        <5>8. QED
          BY <4>4, <5>6, <5>7
      <4>7. QED
        BY <4>5, <4>6
    <3>5. QED
      BY <3>3, <3>4
  <2>3. QED
    BY <2>1, <2>2
<1> HIDE DEF fixed
<1>11. fixed.rtval # "oops" => Stays(Settle(fixed), n)
  BY <1>10 DEF Stays, Settle
<1>12. QED
  BY <1>8, <1>9, <1>11

\* What the recursive remove leaves of a sound tree.
LEMMA FromStays ==
  ASSUME NEW f, Removes(f)
  PROVE  \A h \in Nat : \A m \in Sound(M - 1)[h + 1] : KeyLen(m) \in 1 .. M - 1 =>
           \A j \in Nat \ {0} : Stays(f[m][j], m)
<1> DEFINE hi == M - 1
           T == {h \in Nat : \A m \in Sound(hi)[h + 1] : KeyLen(m) \in 1 .. hi =>
                               \A j \in Nat \ {0} : Stays(f[m][j], m)}
<1>1. /\ \A m \in Trees : \A j \in Nat : f[m][j] = From(m, j, f)
      /\ \A c \in Low : \A j \in Nat : f[c][j] \in Lefts(Low) /\ (c # NULL => f[c][j].node # NULL)
  <2>1. MaxHeight - 1 \in 0 .. MaxHeight /\ MaxHeight \in 0 .. MaxHeight
    BY BoundsAssumption
  <2>2. QED
    BY <2>1 DEF Removes, Trees, Low
<1>2. 0 \in T
  <2>1. SUFFICES ASSUME NEW m \in Sound(hi)[0 + 1], KeyLen(m) \in 1 .. hi, NEW j \in Nat \ {0}
                 PROVE  Stays(f[m][j], m)
    OBVIOUS
  <2>2. m \in Trees /\ m # NULL /\ m \in Node(Trees) /\ 0 + 1 = 1
    <3>1. 0 \in Nat
      OBVIOUS
    <3>2. QED
      BY <3>1, SoundNode
  <2>3. IsLeaf(m)
    BY <2>1, <2>2, RemoveLeafSound
  <2>4. PICK t : t = LeafLeftShift(m, FindPos(m, j))
    OBVIOUS
  <2>5. t.child = m.child /\ t \in Trees /\ t # NULL
    <3>1. m \in Node(Low)
      BY <2>2, TreesAre
    <3>2. t \in Node(Low)
      BY <2>4, <3>1, LeafLeftShiftTyped
    <3>3. t.child = m.child
      BY <2>4 DEF LeafLeftShift
    <3>4. QED
      BY <3>2, <3>3, TreesAre
  <2>6. Weight(m) = 1 + Sum(m) /\ Weight(t) = 1 + Sum(m) /\ Sum(m) \in Nat
    <3>1. Sum(t) = Sum(m)
      BY <2>5, SumSame
    <3>2. QED
      BY <2>2, <2>5, <3>1, WeightIs, LoadIs
  <2>7. f[m][j] = IF Key(m, FindPos(m, j)) = j
                  THEN Settle(Left(t, "enough")) ELSE Left(m, "failed")
    BY <1>1, <2>2, <2>3, <2>4 DEF From
  <2>8. Stays(Settle(Left(t, "enough")), m)
    BY <2>6 DEF Stays, Settle, Left
  <2>9. Stays(Left(m, "failed"), m)
    BY <2>6 DEF Stays, Left
  <2>10. QED
    BY <2>7, <2>8, <2>9
<1>3. ASSUME NEW h \in Nat, h \in T PROVE h + 1 \in T
  <2>1. PICK g \in Nat \ {0} : g = h + 1
    OBVIOUS
  <2>2. SUFFICES ASSUME NEW m \in Sound(hi)[g + 1], KeyLen(m) \in 1 .. hi, NEW j \in Nat \ {0}
                 PROVE  Stays(f[m][j], m)
    BY <2>1
  <2>3. \A c \in Sound(hi)[g] : KeyLen(c) \in 1 .. hi => \A i \in Nat \ {0} : Stays(f[c][i], c)
    BY <1>3, <2>1
  <2>4. \A c \in Sound(hi)[g] : KeyLen(c) \in 1 .. hi => \A i \in Nat \ {0} : Removed(f[c][i], c, i, g)
    BY <2>1, RemoveSound
  <2>5. PICK pos, moved, jj :
           /\ GoesDown(m, j, g, pos, moved, jj)
           /\ f[m][j] = RemoveAbove(m, moved, pos, f[m.child[pos]][jj])
    <3>1. Removes(f) /\ M - 1 = hi
      OBVIOUS
    <3>2. m \in Sound(M - 1)[g + 1] /\ KeyLen(m) \in 1 .. M - 1
      BY <2>2
    <3> HIDE DEF hi, T
    <3>3. Descends(f, m, j, g)
      BY <2>2, <3>1, <3>2, FromGoesDown
    <3>4. QED
      BY <3>3 DEF Descends
  <2>6. PICK sub : sub = f[m.child[pos]][jj]
    OBVIOUS
  <2>7. /\ sub \in Lefts(Low) /\ sub.node # NULL /\ Removed(sub, m.child[pos], jj, g)
        /\ Stays(sub, m.child[pos])
    BY <1>1, <2>3, <2>4, <2>5, <2>6 DEF GoesDown
  <2>8. Stays(RemoveAbove(m, moved, pos, sub), m)
    BY <2>2, <2>5, <2>7, AboveStays
  <2>9. QED
    BY <2>5, <2>6, <2>8
<1>4. \A h \in Nat : h \in T
  <2> HIDE DEF T
  <2>1. QED
    BY <1>2, <1>3, Induction
<1>5. QED
  BY <1>4

\* The root that gives way.
LEMMA ShrunkHolds ==
  ASSUME NEW h \in Nat, NEW n \in Sound(M - 1)[h + 1]
  PROVE  Weight(n) <= Weight(Shrunk(n)) + (IF Shrunk(n) # n THEN 1 ELSE 0)
<1> DEFINE len == KeyLen(n)
           C == Kids(Sound(M - 1)[h], M - 1)
<1>1. /\ n \in Trees /\ n # NULL /\ n \in Node(Trees) /\ len \in 0 .. M
      /\ Hung(n, len, C) /\ Uniform(C)
  BY SoundNode, KidsUniform DEF WellMade
<1>2. Weight(n) = 1 + Sum(n) /\ Sum(n) \in Nat /\ Weight(NULL) = 0 /\ 0 \in Links
  BY <1>1, WeightIs, LoadIs, MAssumption DEF Links
<1>3. CASE Shrunk(n) = n
  BY <1>2, <1>3
<1>4. CASE Shrunk(n) # n
  <2>1. len = 0 /\ \/ ChildLen(n) = 1 /\ Shrunk(n) = Child(n, 0)
                   \/ ChildLen(n) = 0 /\ Shrunk(n) = NULL
    BY <1>4 DEF Shrunk
  <2> HIDE DEF len, C
  <2>2. \A i \in Links : i # 0 => n.child[i] = NULL
    BY <1>1, <2>1 DEF Hung, Links
  <2>3. Sum(n) = Weight(n.child[0])
    <3>1. PICK t : t = Bare(n, {0})
      OBVIOUS
    <3>2. t \in Node(Trees) /\ \A i \in Links : t.child[i] = IF i \in {0} THEN NULL ELSE n.child[i]
      BY <1>1, <3>1, BareIs
    <3>3. Sum(t) = 0
      BY <2>2, <3>2, NothingHung
    <3>4. Sum(t) + Weight(n.child[0]) = Sum(n)
      BY <1>1, <1>2, <3>1, SumBare
    <3>5. Weight(n.child[0]) \in Nat
      BY <1>1, <1>2, WeightIs DEF Node
    <3>6. QED
      BY <3>3, <3>4, <3>5
  <2>4. Child(n, 0) = n.child[0]
    BY <1>1, <1>2, HungReads
  <2>5. ChildLen(n) = 0 => n.child[0] = NULL
    <3>1. C # {NULL} => ChildLen(n) = 1
      BY <1>1, <2>1, HungReads
    <3>2. C = {NULL} => n.child[0] = NULL
      BY <1>1, <1>2, <2>1 DEF Hung
    <3>3. QED
      BY <3>1, <3>2
  <2>6. Weight(Shrunk(n)) = Sum(n)
    BY <1>2, <2>1, <2>3, <2>4, <2>5
  <2>7. QED
    BY <1>2, <1>4, <2>6
<1>5. QED
  BY <1>3, <1>4

\* What a remove leaves at the root is what it did not free.
LEMMA RootStays ==
  ASSUME NEW r, r # NULL, GoodRoot(M - 1, r), NEW k \in Nat \ {0}
  PROVE  LET a == RemoveFrom(r, k)
             d == IF Shrunk(a.node) # a.node THEN 1 ELSE 0
         IN  a.rotates \/ Weight(r) <= Weight(Shrunk(a.node)) + d + a.freed
<1>1. PICK f : Removes(f)
  BY RemoveFromIs
<1>2. PICK h \in Nat : r \in Sound(M - 1)[h + 1] /\ KeyLen(r) \in 1 .. M - 1
  BY DEF GoodRoot
<1>3. r \in Trees
  BY <1>2, SoundNode
<1>4. PICK a : a = RemoveFrom(r, k)
  OBVIOUS
<1>5. a = f[r][k]
  BY <1>1, <1>3, <1>4 DEF Removes
<1>6. Removed(a, r, k, h + 1) /\ Stays(a, r)
  <2>1. Removed(f[r][k], r, k, h + 1)
    BY <1>1, <1>2, RemoveSound
  <2>2. Stays(f[r][k], r)
    BY <1>1, <1>2, FromStays
  <2>3. QED
    BY <1>5, <2>1, <2>2
<1>7. a \in Lefts(Trees)
  <2>1. MaxHeight \in 0 .. MaxHeight
    BY BoundsAssumption
  <2>2. QED
    BY <1>1, <1>3, <1>5, <2>1 DEF Removes, Trees
<1>8. ASSUME ~a.rotates
      PROVE  Weight(r) <= Weight(Shrunk(a.node)) + (IF Shrunk(a.node) # a.node THEN 1 ELSE 0) + a.freed
  <2>1. PICK n : n = a.node
    OBVIOUS
  <2>2. n \in Sound(M - 1)[h + 1] /\ Weight(r) <= Weight(n) + a.freed /\ a.freed \in Nat
    BY <1>6, <1>7, <1>8, <2>1 DEF Removed, Stays, Lefts
  <2>3. Weight(n) <= Weight(Shrunk(n)) + (IF Shrunk(n) # n THEN 1 ELSE 0)
    BY <2>2, ShrunkHolds
  <2>4. GoodRoot(M - 1, Shrunk(n))
    BY <1>1, <1>2, <1>4, <1>5, <1>8, <2>1, RemoveFromSound
  <2>5. Weight(n) \in Nat /\ Weight(r) \in Nat /\ Weight(Shrunk(n)) \in Nat
    <3>1. n \in Trees
      BY <2>2, SoundNode
    <3>2. Shrunk(n) \in Trees
      BY <2>4, GoodRootTyped
    <3>3. QED
      BY <1>3, <3>1, <3>2, WeightIs
  <2>6. PICK d \in {0, 1} : d = IF Shrunk(n) # n THEN 1 ELSE 0
    OBVIOUS
  <2>7. Weight(r) <= Weight(Shrunk(n)) + d + a.freed
    BY <2>2, <2>3, <2>5, <2>6
  <2>8. QED
    BY <2>1, <2>6, <2>7
<1>9. QED
  BY <1>4, <1>8

\* The inductive invariant: up to the first rotation a search tree that hangs on
\* to every node taken from the mempool.
Whole == Settled /\ Held /\ (rotated = TRUE \/ live <= Weight(root))

LEMMA WholeInsert ==
  ASSUME Growing(M - 1), live \in Nat, live <= Weight(root), NEW k \in Keys, Insert(k)
  PROVE  live' <= Weight(root')
<1> DEFINE start == IF root = NULL THEN NewNode ELSE root
           one == IF root = NULL THEN 1 ELSE 0
<1>1. k \in Nat \ {0} /\ GoodRoot(M - 1, root) /\ M - 1 \in {M - 1, M}
  BY KeysAssumption DEF Growing
<1>2. PICK h \in Nat : start \in Sound(M - 1)[h + 1] /\ KeyLen(start) <= M - 1
  <2>1. CASE root = NULL
    <3>1. 0 \in Nat /\ 0 + 1 = 1 /\ 0 <= M - 1
      BY MAssumption
    <3>2. QED
      BY <2>1, <3>1, NewNodeSound
  <2>2. CASE root # NULL
    <3>1. PICK h \in Nat : root \in Sound(M - 1)[h + 1] /\ KeyLen(root) \in 1 .. M - 1
      BY <1>1, <2>2 DEF GoodRoot
    <3>2. KeyLen(root) <= M - 1
      BY <3>1, MAssumption
    <3>3. QED
      BY <2>2, <3>1, <3>2
  <2>3. QED
    BY <2>1, <2>2
<1>3. PICK failing : failing = {}
  OBVIOUS
<1>4. PICK a : a = InsertInto(start, k, failing)
  OBVIOUS
<1>5. /\ root \in Low
      /\ IF a.rtval = "oops" THEN Oops("insert", k)
         ELSE IF a.rtval = "split" /\ 0 \in failing
              THEN root' = a.node /\ live' = live + (a.allocated + one)
              ELSE /\ root' = IF a.rtval = "split" THEN NewRoot(a) ELSE a.node
                   /\ live' = live + (a.allocated + one) + (IF a.rtval = "split" THEN 1 ELSE 0)
  BY <1>3, <1>4, Zenon DEF Insert, InsertWith, Low
<1>6. /\ start \in Trees /\ (start \in Low \/ start = NewNode) /\ Weight(start) = Weight(root) + one
      /\ root \in Trees /\ Weight(root) \in Nat
  BY <1>5, NewNodeWeighs, WeightIs, TreesAre
<1>7. one \in Nat
  OBVIOUS
<1> HIDE DEF start, one
<1>8. /\ a \in Answers(Trees)
      /\ a.rtval = "split" => a \in Answers(Low)
  BY <1>1, <1>4, <1>6, RootAnswer
<1>9. a.rtval # "oops" /\ (a.rtval = "split" => a.upkey # 0)
  <2>1. Inserted(a, start, k, M - 1, h + 1)
    BY <1>1, <1>2, <1>3, <1>4, AnswerAtRoot
  <2>2. QED
    BY <2>1 DEF Inserted, Fine
<1>10. Keeps(a, start)
  <2>1. PICK f : Inserts(f, k, failing)
    BY <1>1, InsertIntoIs
  <2>2. a = f[start][1] /\ 1 \in Nat
    BY <1>4, <1>6, <2>1 DEF Inserts
  <2>3. QED
    BY <1>1, <1>2, <1>3, <2>1, <2>2, IntoHolds
<1>11. /\ a.node \in Trees /\ a.right \in Trees /\ a.allocated \in Nat
       /\ Weight(a.node) \in Nat /\ Weight(a.right) \in Nat /\ Weight(NULL) = 0
       /\ Weight(start) + a.allocated <= Weight(a.node) + Weight(a.right)
       /\ a.rtval # "split" => a.right = NULL
  BY <1>8, <1>10, WeightIs DEF Answers, Keeps
<1>12. CASE a.rtval = "split"
  <2>1. root' = NewRoot(a) /\ live' = live + (a.allocated + one) + 1
    BY <1>3, <1>5, <1>9, <1>12
  <2>2. Weight(NewRoot(a)) = Weight(a.node) + Weight(a.right) + 1
    BY <1>8, <1>9, <1>12, NewRootWeight
  <2>3. PICK w : w = Weight(root')
    OBVIOUS
  <2>4. w = Weight(a.node) + Weight(a.right) + 1
    BY <2>1, <2>2, <2>3
  <2>5. live' <= w
    BY <1>6, <1>7, <1>11, <2>1, <2>4
  <2>6. QED
    BY <2>3, <2>5
<1>13. CASE a.rtval # "split"
  <2>1. root' = a.node /\ live' = live + (a.allocated + one) + 0
    BY <1>5, <1>9, <1>13
  <2>2. live' <= Weight(a.node)
    BY <1>6, <1>7, <1>11, <1>13, <2>1
  <2>3. QED
    BY <2>1, <2>2
<1>14. QED
  BY <1>12, <1>13

LEMMA WholeRemove ==
  ASSUME Growing(M - 1), live \in Nat, live <= Weight(root), NEW k \in Keys, Remove(k), rotated' # TRUE
  PROVE  live' <= Weight(root')
<1>1. k \in Nat \ {0} /\ GoodRoot(M - 1, root) /\ root # NULL
  BY KeysAssumption DEF Growing, Remove
<1>2. PICK a : a = RemoveFrom(root, k)
  OBVIOUS
<1>3. /\ a.rtval # "oops" /\ a.rotates \in BOOLEAN
      /\ a.rotates \/ GoodRoot(M - 1, Shrunk(a.node))
  BY <1>1, <1>2, RemoveFromSound
<1> DEFINE s == Shrunk(a.node)
           d == IF s # a.node THEN 1 ELSE 0
<1>4. root' = s /\ live' = live - (a.freed + d) /\ rotated' = (rotated \/ a.rotates)
  BY <1>2, <1>3 DEF Remove
<1>5. ~a.rotates
  BY <1>3, <1>4
<1>6. Weight(root) <= Weight(s) + d + a.freed
  BY <1>1, <1>2, <1>5, RootStays
<1>7. root \in Trees /\ s \in Trees
  BY <1>1, <1>3, <1>5, GoodRootTyped
<1>8. a \in Lefts(Trees)
  BY <1>1, <1>2, <1>7, RootLeft
<1>9. Weight(root) \in Nat /\ Weight(s) \in Nat /\ a.freed \in Nat
  BY <1>7, <1>8, WeightIs DEF Lefts
<1>10. d \in Nat
  OBVIOUS
<1> HIDE DEF s, d
<1>11. live - (a.freed + d) <= Weight(s)
  BY <1>6, <1>9, <1>10
<1>12. QED
  BY <1>4, <1>11

\* A search tree has as many nodes as it weighs.
LEMMA GoodRootLinked ==
  ASSUME NEW r, GoodRoot(M - 1, r)
  PROVE  r \in Trees /\ NodeCount(r) = Weight(r) /\ Weight(r) \in Nat
<1>1. r \in Trees
  BY GoodRootTyped
<1>2. NodeCount(NULL) = 0 /\ Weight(NULL) = 0
  BY NodeCountIs, WeightIs
<1>3. QED
  BY <1>1, <1>2, AllLinked, WeightIs DEF GoodRoot

LEMMA WholeNext ==
  ASSUME Whole, [NextRemoving]_vars
  PROVE  Whole'
<1>1. Settled /\ Held /\ live \in Nat
  BY DEF Whole, Held, TypeOK
<1>2. Settled'
  BY <1>1, SettledNext
<1>3. Held'
  <2>1. [Next]_vars
    BY DEF Next
  <2>2. QED
    BY <1>1, <2>1, HeldNext
<1>4. Weight(NULL) = 0
  BY WeightIs
<1>5. rotated' = TRUE \/ live' <= Weight(root')
  <2>1. CASE HeadAlloc
    BY <1>4, <2>1 DEF HeadAlloc
  <2>2. CASE ~HeadAlloc /\ rotated = TRUE
    <3>1. CASE InitHead \/ InsertKeyZero \/ Destroy
      BY <2>2, <3>1 DEF InitHead, InsertKeyZero, Returns, Destroy
    <3>2. ASSUME NEW k \in Keys, InsertNoMempool(k) \/ InsertNoRoot(k) PROVE rotated' = TRUE
      BY <2>2, <3>2 DEF InsertNoMempool, InsertNoRoot, Returns
    <3>3. ASSUME NEW k \in Keys, Insert(k) PROVE rotated' = TRUE
      BY <2>2, <3>3, Zenon DEF Insert, InsertWith, Oops, Returns
    <3>4. ASSUME NEW k \in Keys \cup {0}, RemoveRefused(k) PROVE rotated' = TRUE
      BY <2>2, <3>4 DEF RemoveRefused, Returns
    <3>5. ASSUME NEW k \in Keys, Remove(k) PROVE rotated' = TRUE
      BY <2>2, <3>5, Zenon DEF Remove, Oops, Returns
    <3>6. CASE UNCHANGED vars
      BY <2>2, <3>6 DEF vars
    <3>7. QED
      BY <2>2, <3>1, <3>2, <3>3, <3>4, <3>5, <3>6 DEF NextRemoving, NextInsertOnly
  <2>3. CASE ~HeadAlloc /\ rotated # TRUE
    <3>1. Growing(M - 1) /\ live <= Weight(root)
      BY <1>1, <2>3 DEF Whole, Settled
    <3>2. CASE InitHead \/ InsertKeyZero \/ UNCHANGED vars
      BY <3>1, <3>2 DEF InitHead, InsertKeyZero, Returns, vars
    <3>3. ASSUME NEW k \in Keys, InsertNoMempool(k) \/ InsertNoRoot(k) PROVE live' <= Weight(root')
      BY <3>1, <3>3 DEF InsertNoMempool, InsertNoRoot, Returns
    <3>4. ASSUME NEW k \in Keys, Insert(k) PROVE live' <= Weight(root')
      BY <1>1, <3>1, <3>4, WholeInsert
    <3>5. ASSUME NEW k \in Keys \cup {0}, RemoveRefused(k) PROVE live' <= Weight(root')
      BY <3>1, <3>5 DEF RemoveRefused, Returns
    <3>6. ASSUME NEW k \in Keys, Remove(k) PROVE rotated' = TRUE \/ live' <= Weight(root')
      BY <1>1, <3>1, <3>6, WholeRemove
    <3>7. CASE Destroy
      <4>1. NodeCount(root) = Weight(root) /\ Weight(root) \in Nat
        BY <3>1, GoodRootLinked DEF Growing
      <4>2. root' = NULL /\ live' = live - NodeCount(root)
        BY <3>7 DEF Destroy
      <4>3. live' <= 0
        BY <1>1, <3>1, <4>1, <4>2
      <4>4. QED
        BY <1>4, <4>2, <4>3
    <3>8. QED
      BY <2>3, <3>2, <3>3, <3>4, <3>5, <3>6, <3>7 DEF NextRemoving, NextInsertOnly
  <2>4. QED
    BY <2>1, <2>2, <2>3
<1>6. QED
  BY <1>2, <1>3, <1>5 DEF Whole

\* Up to the first rotation every node the tree holds memory for hangs below the
\* root, whatever split, merged or gave way, and lke_btree_destroy gives all of
\* them back.
THEOREM NodesGivenBack == SpecRemoving => []NoNodeLost
<1>1. Init => Whole
  <2>1. SUFFICES ASSUME Init PROVE Whole
    OBVIOUS
  <2>2. Settled /\ Held
    BY <2>1, GrowingInit, HeldInit DEF Settled
  <2>3. live = 0 /\ root = NULL /\ Weight(NULL) = 0
    BY <2>1, WeightIs DEF Init
  <2>4. QED
    BY <2>2, <2>3 DEF Whole
<1>2. Whole /\ [NextRemoving]_vars => Whole'
  BY WholeNext
<1>3. Whole => NoNodeLost
  <2>1. SUFFICES ASSUME Whole, rotated # TRUE PROVE live = NodeCount(root)
    BY DEF NoNodeLost
  <2>2. live \in Nat /\ Weight(root) <= live /\ live <= Weight(root) /\ GoodRoot(M - 1, root)
    BY <2>1 DEF Whole, Held, TypeOK, Settled, Growing
  <2>3. QED
    BY <2>2, GoodRootLinked
<1>4. QED
  BY <1>1, <1>2, <1>3, PTL DEF SpecRemoving
=============================================================================
