---------------------------- MODULE FileDataProofs ----------------------------
(***************************************************************************)
(* Proofs about the file data, for quanta and items of any size, any       *)
(* payloads and any number of calls.                                       *)
(*                                                                         *)
(* What is not obvious in the types is that the position arithmetic stays  *)
(* inside the arrays: the quantum number is below QSET, the offset below   *)
(* QUANTUM, and the item is one that following the list has just added.    *)
(***************************************************************************)
EXTENDS FileData, NatFacts

Item == [Quanta -> {NULL} \cup [Offsets -> Bytes]]

\* An item has at least one byte.
LEMMA ItemSizePositive == ItemSize \in Nat \ {0}
  BY SizesAssumption, Z3 DEF ItemSize

\* The numbers computed from a position index the arrays they are used on.
LEMMA PositionInRange ==
  ASSUME NEW pos \in Nat
  PROVE  /\ ItemOf(pos) \in Nat
         /\ QuantumOf(pos) \in Quanta
         /\ OffsetOf(pos) \in Offsets
<1> DEFINE rest == pos % ItemSize
           q == rest \div QUANTUM
<1>1. ItemSize \in Nat \ {0} /\ QUANTUM \in Nat \ {0} /\ QSET \in Nat \ {0} /\ INTS \in Nat \ {0}
  BY ItemSizePositive, SizesAssumption
<1>2. ItemOf(pos) \in Nat
  <2>1. pos \div ItemSize \in Int
    BY <1>1
  <2>2. (pos \div ItemSize) % (2 * INTS) \in Nat
    BY <1>1, <2>1
  <2>3. QED
    BY <2>2 DEF ItemOf
<1>3. OffsetOf(pos) \in Offsets
  BY <1>1 DEF OffsetOf, Offsets
<1>4. rest \in 0 .. ItemSize - 1
  BY <1>1
<1>5. QuantumOf(pos) \in Quanta
  <2> HIDE DEF rest
  <2>1. q \in Int /\ QUANTUM * q <= rest /\ rest < QUANTUM * (q + 1)
    BY <1>1, <1>4, Z3
  <2>2. q >= 0
    BY <1>1, <1>4, <2>1, Z3
  <2>3. q < QSET
    BY <1>1, <1>4, <2>1, Z3 DEF ItemSize
  <2>4. q \in Quanta
    BY <2>1, <2>2, <2>3, <1>1 DEF Quanta
  <2>5. QED
    BY <2>4 DEF QuantumOf, rest
<1>6. QED
  BY <1>2, <1>3, <1>5

\* A function on 1 .. n is a list.
LEMMA ListOf ==
  ASSUME NEW S, NEW n \in Nat, NEW f \in [1 .. n -> S]
  PROVE  f \in Seq(S)
  OBVIOUS

\* Following the list leaves a list of items that is long enough.
LEMMA FollowType ==
  ASSUME items \in Seq(Item), NEW n \in Nat
  PROVE  Follow(n) \in Seq(Item) /\ Len(Follow(n)) >= n
<1>1. Len(items) \in Nat
  OBVIOUS
<1>2. Largest(n, Len(items)) \in Nat /\ Largest(n, Len(items)) >= n
  BY <1>1 DEF Largest
<1>3. EmptyItem \in Item
  BY DEF EmptyItem, Item
<1>4. \A i \in 1 .. Largest(n, Len(items)) :
         (IF i <= Len(items) THEN items[i] ELSE EmptyItem) \in Item
  BY <1>1, <1>2, <1>3
<1>5. Follow(n) \in [1 .. Largest(n, Len(items)) -> Item]
  BY <1>4 DEF Follow
<1>6. QED
  BY <1>2, <1>5

\* What the pointer to a position's quantum is, once its item is in the list.
LEMMA AtType ==
  ASSUME NEW list \in Seq(Item), NEW pos \in Nat, Len(list) >= ItemOf(pos) + 1
  PROVE  At(list, pos) \in {NULL} \cup [Offsets -> Bytes]
<1>1. ItemOf(pos) \in Nat /\ QuantumOf(pos) \in Quanta
  BY PositionInRange
<1>2. ItemOf(pos) + 1 \in 1 .. Len(list)
  BY <1>1
<1>3. list[ItemOf(pos) + 1] \in Item
  BY <1>2
<1>4. QED
  BY <1>1, <1>3 DEF At, Item

\* Storing data of any length keeps quanta and items whole.
LEMMA StoredType ==
  ASSUME items \in Seq(Item), NEW pos \in Nat, NEW data \in Seq(Nat)
  PROVE  Stored(pos, data) \in Seq(Item)
<1> DEFINE list == Follow(ItemOf(pos) + 1)
           old == IF At(list, pos) = NULL THEN NewQuantum ELSE At(list, pos)
           new == [q \in Offsets |-> IF q \in OffsetOf(pos) .. OffsetOf(pos) + Len(data) - 1
                                     THEN data[q - OffsetOf(pos) + 1] ELSE old[q]]
           item == ItemOf(pos) + 1
<1>1. item \in Nat /\ OffsetOf(pos) \in Nat
  <2>1. ItemOf(pos) \in Nat /\ OffsetOf(pos) \in Offsets
    BY PositionInRange
  <2>2. QED
    BY <2>1, SizesAssumption DEF Offsets
<1>2. list \in Seq(Item) /\ Len(list) >= item
  BY <1>1, FollowType
<1>3. old \in [Offsets -> Bytes]
  BY <1>2, AtType DEF NewQuantum, Bytes
<1>4. ASSUME NEW q \in Offsets, q \in OffsetOf(pos) .. OffsetOf(pos) + Len(data) - 1
      PROVE  data[q - OffsetOf(pos) + 1] \in Bytes
  <2>1. q - OffsetOf(pos) + 1 \in 1 .. Len(data)
    BY <1>1, <1>4, SizesAssumption DEF Offsets
  <2>2. QED
    BY <2>1 DEF Bytes
<1>5. new \in [Offsets -> Bytes]
  BY <1>3, <1>4
<1>6. [list EXCEPT ![item][QuantumOf(pos)] = new] \in Seq(Item)
  <2> HIDE DEF list, new, item
  <2>1. ASSUME NEW i \in 1 .. Len(list) PROVE list[i] \in Item
    BY <1>2
  <2>2. ASSUME NEW i \in 1 .. Len(list)
        PROVE  [list[i] EXCEPT ![QuantumOf(pos)] = new] \in Item
    BY <2>1, <1>5 DEF Item
  <2> DEFINE changed == [i \in 1 .. Len(list) |->
                             IF i = item THEN [list[i] EXCEPT ![QuantumOf(pos)] = new]
                             ELSE list[i]]
  <2>3. changed \in [1 .. Len(list) -> Item]
    BY <2>1, <2>2
  <2>4. Len(list) \in Nat /\ list \in [1 .. Len(list) -> Item]
    BY <1>2
  <2>5. [list EXCEPT ![item][QuantumOf(pos)] = new] = changed
    BY <2>4
  <2>6. changed \in Seq(Item)
    <3> HIDE DEF changed
    <3>1. QED
      BY <2>3, <2>4, ListOf
  <2>7. QED
    BY <2>5, <2>6
<1>7. QED
  BY <1>6 DEF Stored

\* A clipped payload is a list of bytes.
LEMMA ClippedType ==
  ASSUME NEW pos \in Nat, NEW payload \in Payloads
  PROVE  Clipped(pos, payload) \in Seq(Nat)
<1>1. payload \in Seq(Nat) /\ Len(payload) \in Nat
  BY InputsAssumption
<1>2. OffsetOf(pos) \in Offsets
  BY PositionInRange
<1>3. Least(Len(payload), QUANTUM - OffsetOf(pos)) \in 0 .. Len(payload)
  BY <1>1, <1>2, SizesAssumption DEF Least, Offsets
<1>4. QED
  BY <1>1, <1>3 DEF Clipped

-----------------------------------------------------------------------------
\* The types are inductive by themselves.
LEMMA TypePreserved == TypeOK /\ [Next]_vars => TypeOK'
<1> SUFFICES ASSUME TypeOK, [Next]_vars PROVE TypeOK'
  OBVIOUS
<1>0. items \in Seq(Item) /\ size \in Nat /\ f_pos \in Nat /\ writes \in Nat
  BY SizesAssumption DEF TypeOK, Item
<1>1. CASE UNCHANGED vars
  BY <1>1 DEF vars, TypeOK
<1>2. ASSUME NEW own \in BOOLEAN, NEW pos \in Starts, NEW payload \in Payloads,
             Write(own, pos, payload)
      PROVE  TypeOK'
  <2> DEFINE data == Clipped(pos, payload)
  <2>1. pos \in Nat
    BY SizesAssumption DEF Starts
  <2>2. data \in Seq(Nat) /\ Len(data) \in Nat
    BY <2>1, ClippedType
  <2>3. items' \in Seq(Item)
    BY <1>0, <1>2, <2>1, <2>2, StoredType DEF Write
  <2>4. size' \in Nat /\ f_pos' \in Nat
    BY <1>0, <1>2, <2>1, <2>2 DEF Write, Advance
  <2>5. writes' \in 0 .. MaxWrites
    BY <1>0, <1>2, SizesAssumption DEF Write
  <2>6. answer'.call = "write"
    BY <1>2 DEF Write, Answer
  <2>7. QED
    BY <2>3, <2>4, <2>5, <2>6 DEF TypeOK, Item
<1>3. ASSUME NEW pos \in Starts, NEW payload \in Payloads, WriteFault(pos, payload)
      PROVE  TypeOK'
  <2> DEFINE data == Clipped(pos, payload)
             left(copied) == [i \in 1 .. Len(data) |-> IF i <= copied THEN data[i] ELSE 0]
  <2>1. pos \in Nat
    BY SizesAssumption DEF Starts
  <2>2. data \in Seq(Nat) /\ Len(data) \in Nat
    BY <2>1, ClippedType
  <2>3. PICK copied \in 0 .. Len(data) - 1 :
            items' = Stored(pos, left(copied)) /\ Answer("badwrite", FALSE, pos, Len(payload), left(copied))
    BY <1>3 DEF WriteFault
  <2>4. left(copied) \in [1 .. Len(data) -> Nat]
    BY <2>2
  <2>5. left(copied) \in Seq(Nat)
    <3> HIDE DEF left, data
    <3>1. QED
      BY <2>2, <2>4, ListOf
  <2>6. items' \in Seq(Item)
    BY <1>0, <2>1, <2>3, <2>5, StoredType
  <2>7. writes' \in 0 .. MaxWrites /\ size' = size /\ f_pos' = f_pos
    BY <1>0, <1>3, SizesAssumption DEF WriteFault
  <2>8. answer'.call = "badwrite"
    BY <2>3 DEF Answer
  <2>9. QED
    BY <1>0, <2>6, <2>7, <2>8 DEF TypeOK, Item
<1>4. ASSUME NEW pos \in Starts, WriteNoMemory(pos) \/ ReadFails(pos) PROVE TypeOK'
  <2>1. ItemOf(pos) \in Nat
    BY PositionInRange, SizesAssumption DEF Starts
  <2>2. PICK n \in Nat : items' = Follow(n)
    BY <1>0, <1>4, <2>1 DEF WriteNoMemory, ReadFails, Shortages
  <2>3. items' \in Seq(Item)
    BY <1>0, <2>2, FollowType
  <2>4. UNCHANGED <<size, f_pos, writes>> /\ answer'.call = "none"
    BY <1>4 DEF WriteNoMemory, ReadFails, NoAnswer, Answer
  <2>5. QED
    BY <1>0, <2>3, <2>4 DEF TypeOK, Item
<1>5. ASSUME NEW own \in BOOLEAN, NEW pos \in Starts, NEW count \in Counts, Read(own, pos, count)
      PROVE  TypeOK'
  <2> DEFINE list == Follow(ItemOf(pos) + 1)
             n == IF At(list, pos) = NULL THEN 0
                  ELSE Least(Least(count, size - pos), QUANTUM - OffsetOf(pos))
  <2>1. pos \in Nat /\ count \in Nat /\ pos <= size
    BY <1>5, SizesAssumption, InputsAssumption DEF Starts, Read
  <2>2. ItemOf(pos) \in Nat /\ OffsetOf(pos) \in Offsets
    BY <2>1, PositionInRange
  <2>3. n \in Nat
    BY <1>0, <2>1, <2>2, SizesAssumption DEF Least, Offsets
  <2>4. items' \in Seq(Item)
    BY <1>0, <1>5, <2>2, FollowType DEF Read
  <2>5. f_pos' \in Nat
    <3>1. Advance(own, pos, n)
      BY <1>5 DEF Read
    <3>2. QED
      BY <1>0, <2>1, <2>3, <3>1 DEF Advance
  <2>6. UNCHANGED <<size, writes>> /\ answer'.call = "read"
    BY <1>5 DEF Read, Answer
  <2>7. QED
    BY <2>4, <2>5, <2>6 DEF TypeOK, Item
<1>6. ASSUME NEW own, NEW pos \in Starts, NEW count, ReadBehindEnd(own, pos, count) PROVE TypeOK'
  <2>1. f_pos' \in Nat
    BY <1>0, <1>6, SizesAssumption DEF ReadBehindEnd, Advance, Starts
  <2>2. QED
    BY <1>6, <2>1 DEF ReadBehindEnd, Answer, TypeOK
<1>7. ASSUME NEW origin \in {0, f_pos, size}, NEW off \in Seeks, Llseek(origin, off) PROVE TypeOK'
  BY <1>7, SizesAssumption DEF Llseek, Answer, TypeOK
<1>8. ASSUME NEW own \in BOOLEAN, OpenWriteOnly(own) PROVE TypeOK'
  <2>1. items' \in Seq(Item)
    BY <1>8 DEF OpenWriteOnly
  <2>2. size' \in Nat /\ f_pos' \in Nat /\ writes' = writes /\ answer'.call = "empty"
    BY <1>0, <1>8 DEF OpenWriteOnly, Answer
  <2>3. QED
    BY <2>1, <2>2 DEF TypeOK, Item
<1>9. QED
  BY <1>1, <1>2, <1>3, <1>4, <1>5, <1>6, <1>7, <1>8 DEF Next

\* Whatever the sizes of quanta, items and payloads, every quantum stays whole,
\* the list stays a list of items and no position becomes negative.
THEOREM TypeCorrect == Spec => []TypeOK
<1>1. Init => TypeOK
  BY SizesAssumption DEF Init, TypeOK, Bytes
<1>2. QED
  BY <1>1, TypePreserved, PTL DEF Spec

-----------------------------------------------------------------------------
(* The array of bytes *)

\* The quantum of a position, counted from the start of the file.
QuantumAt(p) == Quot(p, QUANTUM)

\* A position is its quantum and its offset in it; an item has QSET quanta.
LEMMA Address ==
  ASSUME NEW p \in Nat, p < IntLimit
  PROVE  /\ QuantumAt(p) \in Nat /\ OffsetOf(p) = Rest(p, QUANTUM)
         /\ OffsetOf(p) \in 0 .. QUANTUM - 1
         /\ p = Times(QuantumAt(p), QUANTUM) + OffsetOf(p)
         /\ ItemOf(p) = Quot(QuantumAt(p), QSET)
         /\ QuantumOf(p) = Rest(QuantumAt(p), QSET)
<1>1. /\ QUANTUM \in Nat \ {0} /\ QSET \in Nat \ {0} /\ INTS \in Nat \ {0}
      /\ ItemSize \in Nat \ {0} /\ ItemSize = Times(QSET, QUANTUM)
      /\ IntLimit = Times(INTS, ItemSize) /\ IntLimit \in Nat
  BY ItemSizePositive, SizesAssumption, TimesType DEF ItemSize, IntLimit, Times
<1>2. /\ QuantumAt(p) \in Nat /\ OffsetOf(p) = Rest(p, QUANTUM)
      /\ OffsetOf(p) \in 0 .. QUANTUM - 1
      /\ p = Times(QuantumAt(p), QUANTUM) + OffsetOf(p)
  <2>1. OffsetOf(p) = Rest(p, QUANTUM)
    BY DEF OffsetOf, Rest
  <2>2. QED
    BY <1>1, <2>1, QuotRest DEF QuantumAt
<1>3. /\ Quot(p, ItemSize) = Quot(QuantumAt(p), QSET)
      /\ Quot(Rest(p, ItemSize), QUANTUM) = Rest(QuantumAt(p), QSET)
  BY <1>1, QuotTwice DEF QuantumAt
<1>4. Quot(p, ItemSize) \in 0 .. INTS - 1
  <2> DEFINE i == Quot(p, ItemSize)
  <2>1. i \in Nat /\ Rest(p, ItemSize) \in 0 .. ItemSize - 1 /\ p = Times(i, ItemSize) + Rest(p, ItemSize)
    BY <1>1, QuotRest
  <2> HIDE DEF i
  <2>2. CASE INTS <= i
    <3>1. Times(INTS, ItemSize) <= Times(i, ItemSize) /\ Times(i, ItemSize) \in Nat
      BY <1>1, <2>1, <2>2, TimesGrows, TimesType
    <3>2. QED
      BY <1>1, <2>1, <3>1
  <2>3. QED
    BY <1>1, <2>1, <2>2 DEF i
<1>5. ItemOf(p) = Quot(p, ItemSize)
  <2> DEFINE i == Quot(p, ItemSize)
             w == 2 * INTS
  <2>1. i \in Nat /\ w \in Nat \ {0} /\ i \in 0 .. w - 1 /\ i < INTS
    BY <1>1, <1>4
  <2>2. Rest(i, w) = i
    <3> HIDE DEF i, w
    <3>1. i = Times(0, w) + i /\ 0 \in Nat
      BY <2>1, Z3 DEF Times
    <3>2. QED
      BY <2>1, <3>1, QuotRestUnique
  <2>3. QED
    BY <2>1, <2>2 DEF ItemOf, Quot, Rest
<1>6. QuantumOf(p) = Quot(Rest(p, ItemSize), QUANTUM)
  BY DEF QuantumOf, Quot, Rest
<1>7. QED
  BY <1>2, <1>3, <1>5, <1>6

\* Positions whose bytes share a quantum are as far apart as the bytes are.
LEMMA SameQuantum ==
  ASSUME NEW p \in Nat, p < IntLimit, NEW pos \in Nat, pos < IntLimit,
         ItemOf(p) = ItemOf(pos), QuantumOf(p) = QuantumOf(pos)
  PROVE  p - pos = OffsetOf(p) - OffsetOf(pos)
<1> DEFINE k == QuantumAt(p)
           l == QuantumAt(pos)
<1>1. /\ k \in Nat /\ p = Times(k, QUANTUM) + OffsetOf(p) /\ OffsetOf(p) \in 0 .. QUANTUM - 1
      /\ ItemOf(p) = Quot(k, QSET) /\ QuantumOf(p) = Rest(k, QSET)
  BY Address
<1>2. /\ l \in Nat /\ pos = Times(l, QUANTUM) + OffsetOf(pos) /\ OffsetOf(pos) \in 0 .. QUANTUM - 1
      /\ ItemOf(pos) = Quot(l, QSET) /\ QuantumOf(pos) = Rest(l, QSET)
  BY Address
<1> HIDE DEF k, l
<1>3. /\ k = Times(Quot(k, QSET), QSET) + Rest(k, QSET)
      /\ l = Times(Quot(l, QSET), QSET) + Rest(l, QSET)
  BY <1>1, <1>2, SizesAssumption, QuotRest
<1>4. k = l /\ Times(k, QUANTUM) \in Nat
  BY <1>1, <1>2, <1>3, SizesAssumption, TimesType
<1>5. QED
  BY <1>1, <1>2, <1>4, SizesAssumption

\* The bytes around a position up to the ends of its quantum share the quantum.
LEMMA NextInQuantum ==
  ASSUME NEW p \in Nat, p < IntLimit, NEW pos \in Nat, pos < IntLimit,
         NEW r \in 0 .. QUANTUM - 1, r = OffsetOf(pos) + (p - pos)
  PROVE  /\ ItemOf(p) = ItemOf(pos) /\ QuantumOf(p) = QuantumOf(pos)
         /\ OffsetOf(p) = r
<1> DEFINE l == QuantumAt(pos)
<1>1. /\ l \in Nat /\ pos = Times(l, QUANTUM) + OffsetOf(pos) /\ OffsetOf(pos) \in 0 .. QUANTUM - 1
      /\ ItemOf(pos) = Quot(l, QSET) /\ QuantumOf(pos) = Rest(l, QSET)
  BY Address
<1> HIDE DEF l
<1>2. p = Times(l, QUANTUM) + r /\ QUANTUM \in Nat \ {0}
  <2>1. Times(l, QUANTUM) \in Nat /\ QUANTUM \in Nat \ {0}
    BY <1>1, SizesAssumption, TimesType
  <2>2. QED
    BY <1>1, <2>1
<1>3. QuantumAt(p) = l /\ Rest(p, QUANTUM) = r
  BY <1>1, <1>2, QuotRestUnique DEF QuantumAt
<1>4. QED
  BY <1>1, <1>3, Address

\* The quantum of a position that is told apart ends at such positions, too.
LEMMA QuantumEnds ==
  ASSUME NEW pos \in Nat, pos < IntLimit
  PROVE  pos + (QUANTUM - OffsetOf(pos)) <= IntLimit
<1> DEFINE l == QuantumAt(pos)
           n == Times(INTS, QSET)
<1>1. l \in Nat /\ pos = Times(l, QUANTUM) + OffsetOf(pos) /\ OffsetOf(pos) \in 0 .. QUANTUM - 1
  BY Address
<1>2. n \in Nat /\ QUANTUM \in Nat
  BY SizesAssumption, TimesType
<1>3. IntLimit = Times(n, QUANTUM)
  <2>1. Times(n, QUANTUM) = Times(INTS, Times(QSET, QUANTUM))
    BY SizesAssumption, TimesTimes
  <2>2. QED
    BY <2>1 DEF IntLimit, ItemSize, Times
<1> HIDE DEF l, n
<1>4. Times(l, QUANTUM) \in Nat /\ Times(n, QUANTUM) \in Nat
  BY <1>1, <1>2, TimesType
<1>5. l + 1 <= n
  <2>1. CASE n <= l
    BY <1>1, <1>2, <1>3, <1>4, <2>1, TimesGrows
  <2>2. QED
    BY <1>1, <1>2, <2>1
<1>6. Times(l + 1, QUANTUM) <= Times(n, QUANTUM) /\ Times(l + 1, QUANTUM) = Times(l, QUANTUM) + QUANTUM
  BY <1>1, <1>2, <1>5, TimesGrows, TimesNext
<1>7. QED
  BY <1>1, <1>2, <1>3, <1>4, <1>6

-----------------------------------------------------------------------------
(* What the steps do to the array of bytes *)

\* The byte at p in a list of items.
ByteIn(list, p) ==
    IF ItemOf(p) >= Len(list) \/ At(list, p) = NULL THEN JUNK ELSE At(list, p)[OffsetOf(p)]

\* Items that are added have no bytes.
LEMMA FollowBytes ==
  ASSUME items \in Seq(Item), NEW n \in Nat, NEW p \in Nat
  PROVE  /\ ByteIn(Follow(n), p) = ByteIn(items, p)
         /\ ItemOf(p) < Len(items) => At(Follow(n), p) = At(items, p)
         /\ (ItemOf(p) >= Len(items) /\ ItemOf(p) < n) => At(Follow(n), p) = NULL
<1> DEFINE i == ItemOf(p) + 1
           list == Follow(n)
<1>1. ItemOf(p) \in Nat /\ QuantumOf(p) \in Quanta /\ Len(items) \in Nat
  BY PositionInRange
<1>2. /\ Len(list) = Largest(n, Len(items)) /\ Len(list) \in Nat /\ Len(list) >= Len(items)
      /\ Len(list) >= n
      /\ \A j \in 1 .. Len(list) : list[j] = IF j <= Len(items) THEN items[j] ELSE EmptyItem
  BY <1>1 DEF Follow, Largest
<1> HIDE DEF list
<1>3. CASE ItemOf(p) < Len(items)
  <2>1. list[i] = items[i]
    BY <1>1, <1>2, <1>3
  <2>2. At(list, p) = At(items, p)
    BY <2>1 DEF At
  <2>3. QED
    BY <1>1, <1>2, <1>3, <2>2 DEF ByteIn, list
<1>4. CASE ItemOf(p) >= Len(items)
  <2>1. ItemOf(p) < Len(list) => At(list, p) = NULL
    <3>1. ASSUME ItemOf(p) < Len(list) PROVE list[i] = EmptyItem
      BY <1>1, <1>2, <1>4, <3>1
    <3>2. EmptyItem[QuantumOf(p)] = NULL
      BY <1>1 DEF EmptyItem
    <3>3. QED
      BY <3>1, <3>2 DEF At
  <2>2. QED
    BY <1>1, <1>2, <1>4, <2>1 DEF ByteIn, list
<1>5. QED
  BY <1>1, <1>3, <1>4

\* Data that fits into the quantum is where it was stored, and nothing else is
\* changed.
LEMMA StoredBytes ==
  ASSUME items \in Seq(Item), NEW pos \in Nat, pos < IntLimit, NEW data \in Seq(Nat),
         OffsetOf(pos) + Len(data) <= QUANTUM, NEW p \in Nat, p < IntLimit
  PROVE  ByteIn(Stored(pos, data), p) =
             IF p \in pos .. pos + Len(data) - 1 THEN data[p - pos + 1] ELSE ByteIn(items, p)
<1> DEFINE list == Follow(ItemOf(pos) + 1)
           old == IF At(list, pos) = NULL THEN NewQuantum ELSE At(list, pos)
           new == [q \in Offsets |-> IF q \in OffsetOf(pos) .. OffsetOf(pos) + Len(data) - 1
                                     THEN data[q - OffsetOf(pos) + 1] ELSE old[q]]
           item == ItemOf(pos) + 1
           stored == Stored(pos, data)
<1>1. /\ ItemOf(pos) \in Nat /\ QuantumOf(pos) \in Quanta /\ OffsetOf(pos) \in 0 .. QUANTUM - 1
      /\ ItemOf(p) \in Nat /\ QuantumOf(p) \in Quanta /\ OffsetOf(p) \in 0 .. QUANTUM - 1
      /\ Len(data) \in Nat
  BY PositionInRange DEF Offsets
<1>2. /\ list \in Seq(Item) /\ Len(list) >= item /\ Len(list) \in Nat
      /\ \A j \in 1 .. Len(list) : list[j] \in Item
  <2>1. item \in Nat
    BY <1>1
  <2> HIDE DEF item
  <2>2. list \in Seq(Item) /\ Len(list) >= item
    BY <2>1, FollowType DEF item
  <2> HIDE DEF list
  <2>3. QED
    BY <2>2
<1>3. ByteIn(list, p) = ByteIn(items, p)
  BY <1>1, FollowBytes
<1>4. new # NULL
  <2>1. new \in [Offsets -> Bytes]
    <3>1. old \in [Offsets -> Bytes]
      BY <1>1, <1>2, AtType DEF NewQuantum, Bytes
    <3>2. ASSUME NEW q \in Offsets, q \in OffsetOf(pos) .. OffsetOf(pos) + Len(data) - 1
          PROVE  data[q - OffsetOf(pos) + 1] \in Bytes
      <4>1. q - OffsetOf(pos) + 1 \in 1 .. Len(data)
        BY <1>1, <3>2, SizesAssumption, SMTT(30) DEF Offsets
      <4>2. QED
        BY <4>1 DEF Bytes
    <3> HIDE DEF old
    <3>3. QED
      BY <3>1, <3>2
  <2>2. QED
    BY <2>1, NullAssumption DEF Offsets, Bytes
<1>5. stored = [list EXCEPT ![item][QuantumOf(pos)] = new]
  BY DEF Stored
<1>6. /\ Len(stored) = Len(list)
      /\ \A j \in 1 .. Len(list) : j # item => stored[j] = list[j]
      /\ stored[item] = [list[item] EXCEPT ![QuantumOf(pos)] = new]
  <2> HIDE DEF list, new, item, stored
  <2>1. item \in 1 .. Len(list)
    BY <1>1, <1>2 DEF item
  <2>2. QED
    BY <1>2, <1>5, <2>1
<1>7. stored[item][QuantumOf(pos)] = new
      /\ \A s \in Quanta : s # QuantumOf(pos) => stored[item][s] = list[item][s]
  <2> HIDE DEF list, new, stored
  <2>1. list[item] \in Item
    BY <1>1, <1>2
  <2> HIDE DEF item
  <2>2. QED
    BY <1>1, <1>6, <2>1 DEF Item
<1>8. CASE ItemOf(p) = ItemOf(pos) /\ QuantumOf(p) = QuantumOf(pos)
  <2>1. p - pos = OffsetOf(p) - OffsetOf(pos)
    BY <1>8, SameQuantum
  <2>2. /\ At(stored, p) = new /\ ~(ItemOf(p) >= Len(stored))
    <3> HIDE DEF list, new, stored
    <3>1. ItemOf(p) + 1 = item
      BY <1>8
    <3>2. At(stored, p) = stored[item][QuantumOf(pos)]
      BY <1>8, <3>1, Zenon DEF At
    <3> HIDE DEF item
    <3>3. QED
      BY <1>1, <1>2, <1>6, <1>7, <3>1, <3>2
  <2>3. ByteIn(stored, p) = new[OffsetOf(p)]
    <3> HIDE DEF list, new, stored
    <3>1. QED
      BY <1>4, <2>2 DEF ByteIn
  <2>4. old[OffsetOf(p)] = ByteIn(items, p)
    <3>1. At(list, p) = At(list, pos) /\ ~(ItemOf(p) >= Len(list))
      <4> HIDE DEF list
      <4>1. QED
        BY <1>1, <1>2, <1>8 DEF At
    <3>2. ByteIn(list, p) = IF At(list, pos) = NULL THEN JUNK ELSE At(list, pos)[OffsetOf(p)]
      BY <3>1 DEF ByteIn
    <3>3. NewQuantum[OffsetOf(p)] = JUNK
      BY <1>1 DEF NewQuantum, Offsets
    <3> HIDE DEF list
    <3>4. QED
      BY <1>3, <3>2, <3>3
  <2>5. new[OffsetOf(p)] = IF OffsetOf(p) \in OffsetOf(pos) .. OffsetOf(pos) + Len(data) - 1
                           THEN data[OffsetOf(p) - OffsetOf(pos) + 1] ELSE old[OffsetOf(p)]
    <3> HIDE DEF old
    <3>1. QED
      BY <1>1 DEF Offsets
  <2>6. /\ OffsetOf(p) \in OffsetOf(pos) .. OffsetOf(pos) + Len(data) - 1
           <=> p \in pos .. pos + Len(data) - 1
        /\ OffsetOf(p) - OffsetOf(pos) + 1 = p - pos + 1
    <3>1. OffsetOf(p) \in Nat /\ OffsetOf(pos) \in Nat /\ Len(data) \in Nat
      BY <1>1, SizesAssumption
    <3> HIDE DEF list, old, new, item, stored
    <3>2. QED
      BY <2>1, <3>1, SMTT(40)
  <2> HIDE DEF old, new
  <2>7. QED
    BY <2>3, <2>4, <2>5, <2>6
<1>9. CASE ~(ItemOf(p) = ItemOf(pos) /\ QuantumOf(p) = QuantumOf(pos))
  <2>1. p \notin pos .. pos + Len(data) - 1
    <3>1. SUFFICES ASSUME p \in pos .. pos + Len(data) - 1 PROVE FALSE
      OBVIOUS
    <3> DEFINE d == p - pos
               r == OffsetOf(pos) + d
    <3>2. r \in 0 .. QUANTUM - 1
      <4>1. d \in 0 .. Len(data) - 1
        BY <1>1, <3>1
      <4>2. QUANTUM \in Nat /\ OffsetOf(pos) \in Nat /\ Len(data) \in Nat
        BY <1>1, SizesAssumption
      <4>3. OffsetOf(pos) + Len(data) <= QUANTUM
        BY <1>1
      <4> HIDE DEF d, list, old, new, item, stored
      <4>4. QED
        BY <4>1, <4>2, <4>3, SMTT(40)
    <3> HIDE DEF r
    <3>3. r = OffsetOf(pos) + (p - pos)
      BY DEF r
    <3>4. QED
      BY <1>9, <3>2, <3>3, NextInQuantum
  <2>2. ItemOf(p) < Len(list) => At(stored, p) = At(list, p)
    <3> HIDE DEF list, new, stored
    <3>1. CASE ItemOf(p) = ItemOf(pos)
      BY <1>1, <1>7, <1>9, <3>1 DEF At
    <3>2. CASE ItemOf(p) # ItemOf(pos)
      <4>1. ASSUME ItemOf(p) < Len(list)
            PROVE  stored[ItemOf(p) + 1] = list[ItemOf(p) + 1]
        <5>1. ItemOf(p) + 1 \in 1 .. Len(list) /\ ItemOf(p) + 1 # item
          BY <1>1, <1>2, <3>2, <4>1
        <5>2. QED
          BY <1>6, <5>1, Zenon
      <4>2. QED
        BY <4>1, Zenon DEF At
    <3>3. QED
      BY <3>1, <3>2
  <2>3. ByteIn(stored, p) = ByteIn(list, p)
    <3> HIDE DEF list, stored
    <3>1. QED
      BY <1>1, <1>2, <1>6, <2>2 DEF ByteIn
  <2>4. QED
    BY <1>3, <2>1, <2>3
<1>10. QED
  BY <1>8, <1>9

\* A write of some bytes keeps at least one of them, and no write keeps more than
\* the quantum has room for.
LEMMA ClippedLength ==
  ASSUME NEW pos \in Nat, NEW payload \in Payloads
  PROVE  /\ Clipped(pos, payload) \in Seq(Nat)
         /\ Len(payload) \in Nat /\ Len(Clipped(pos, payload)) \in 0 .. Len(payload)
         /\ Len(payload) # 0 => Len(Clipped(pos, payload)) # 0
         /\ OffsetOf(pos) + Len(Clipped(pos, payload)) <= QUANTUM
<1> DEFINE n == Least(Len(payload), QUANTUM - OffsetOf(pos))
<1>1. payload \in Seq(Nat) /\ Len(payload) \in Nat
  BY InputsAssumption
<1>2. OffsetOf(pos) \in 0 .. QUANTUM - 1
  BY PositionInRange DEF Offsets
<1>3. /\ n \in 0 .. Len(payload) /\ n \in 0 .. QUANTUM - OffsetOf(pos)
      /\ Len(payload) # 0 => n # 0
  BY <1>1, <1>2, SizesAssumption DEF Least
<1> HIDE DEF n
<1>4. SubSeq(payload, 1, n) \in Seq(Nat) /\ Len(SubSeq(payload, 1, n)) = n
  BY <1>1, <1>3
<1>5. OffsetOf(pos) + n <= QUANTUM
  BY <1>1, <1>2, <1>3, SizesAssumption
<1>6. QED
  BY <1>1, <1>3, <1>4, <1>5 DEF Clipped, n

\* The array the items stand for.
Content == [p \in 0 .. IntLimit - 1 |-> ByteAt(p)]

\* Its bytes before and after a step.
LEMMA ContentBytes ==
  /\ Content = [p \in 0 .. IntLimit - 1 |-> ByteIn(items, p)]
  /\ Content' = [p \in 0 .. IntLimit - 1 |-> ByteIn(items', p)]
  BY DEF Content, ByteAt, ByteIn, At

\* Adding items changes no byte.
LEMMA FollowContent ==
  ASSUME items \in Seq(Item), NEW n \in Nat, items' = Follow(n)
  PROVE  Content' = Content
<1>1. IntLimit \in Nat
  BY ItemSizePositive, SizesAssumption, Z3 DEF IntLimit
<1>2. \A p \in 0 .. IntLimit - 1 : ByteIn(items', p) = ByteIn(items, p)
  BY <1>1, FollowBytes
<1>3. QED
  BY <1>2, ContentBytes, Zenon

\* A store changes the bytes it is given.
LEMMA StoredContent ==
  ASSUME items \in Seq(Item), NEW pos \in Nat, pos < IntLimit, NEW data \in Seq(Nat),
         OffsetOf(pos) + Len(data) <= QUANTUM, items' = Stored(pos, data)
  PROVE  Content' = [p \in 0 .. IntLimit - 1 |->
                        IF p \in pos .. pos + Len(data) - 1 THEN data[p - pos + 1] ELSE Content[p]]
<1>1. IntLimit \in Nat
  BY ItemSizePositive, SizesAssumption, Z3 DEF IntLimit
<1>2. ASSUME NEW p \in 0 .. IntLimit - 1
      PROVE  ByteIn(items', p) =
                 IF p \in pos .. pos + Len(data) - 1 THEN data[p - pos + 1] ELSE Content[p]
  <2>1. p \in Nat /\ p < IntLimit
    BY <1>1
  <2>2. Content[p] = ByteIn(items, p)
    BY ContentBytes, Zenon
  <2>3. QED
    BY <2>1, <2>2, StoredBytes
<1>3. QED
  BY <1>2, ContentBytes, Zenon

\* A write is one of the array.
LEMMA WriteImplements ==
  ASSUME TypeOK, NEW own \in BOOLEAN, NEW pos \in Starts, NEW payload \in Payloads,
         Write(own, pos, payload), pos < IntLimit
  PROVE  File!Next
<1> DEFINE data == Clipped(pos, payload)
<1>1. pos \in Nat /\ items \in Seq(Item) /\ size \in Nat /\ f_pos \in Nat
  BY SizesAssumption DEF Starts, TypeOK, Item
<1>2. /\ data \in Seq(Nat) /\ OffsetOf(pos) + Len(data) <= QUANTUM
      /\ Len(payload) \in Nat /\ Len(data) \in 0 .. Len(payload)
      /\ Len(payload) # 0 => Len(data) # 0
  BY <1>1, ClippedLength
<1>3. /\ items' = Stored(pos, data)
      /\ size' = IF size < pos + Len(data) THEN pos + Len(data) ELSE size
      /\ Advance(own, pos, Len(data))
      /\ answer' = [call |-> "write", own |-> own, pos |-> pos, asked |-> Len(payload),
                   bytes |-> data]
  BY DEF Write, Answer
<1> HIDE DEF data
<1>4. Content' = [p \in 0 .. IntLimit - 1 |->
                     IF p \in pos .. pos + Len(data) - 1 THEN data[p - pos + 1] ELSE Content[p]]
  BY <1>1, <1>2, <1>3, StoredContent
<1>5. answer'.call = "write" /\ answer'.pos = pos /\ answer'.bytes = data
  BY <1>3
<1>6. answer'.own = own /\ answer'.asked = Len(payload)
  BY <1>3
<1>7. answer'.asked # 0 => answer'.bytes # << >>
  BY <1>2, <1>5, <1>6
<1>8. File!Advances
  BY <1>2, <1>3, <1>5, <1>6 DEF Advance, File!Advances
<1>9. Content' = [p \in 0 .. IntLimit - 1 |->
                     IF p \in File!Span(answer') THEN answer'.bytes[p - answer'.pos + 1]
                     ELSE Content[p]]
  BY <1>4, <1>5, Zenon DEF File!Span
<1>10. size' = IF answer'.pos + Len(answer'.bytes) > size
              THEN answer'.pos + Len(answer'.bytes) ELSE size
  BY <1>1, <1>2, <1>3, <1>5
<1>11. File!Write
  BY <1>5, <1>7, <1>8, <1>9, <1>10, Zenon DEF File!Write, Content
<1>12. QED
  BY <1>11 DEF File!Next

\* A write that could not copy its data loses what it was to overwrite.
LEMMA WriteFaultImplements ==
  ASSUME TypeOK, NEW pos \in Starts, NEW payload \in Payloads,
         WriteFault(pos, payload), pos < IntLimit
  PROVE  File!Next
<1> DEFINE data == Clipped(pos, payload)
           left(copied) == [i \in 1 .. Len(data) |-> IF i <= copied THEN data[i] ELSE 0]
<1>1. pos \in Nat /\ items \in Seq(Item)
  BY SizesAssumption DEF Starts, TypeOK, Item
<1>2. data \in Seq(Nat) /\ Len(data) \in Nat /\ OffsetOf(pos) + Len(data) <= QUANTUM
  BY <1>1, ClippedLength
<1>3. PICK copied \in 0 .. Len(data) - 1 :
          items' = Stored(pos, left(copied)) /\ Answer("badwrite", FALSE, pos, Len(payload), left(copied))
  BY DEF WriteFault
<1> DEFINE bytes == left(copied)
<1>4. bytes \in Seq(Nat) /\ Len(bytes) = Len(data)
  <2>1. bytes \in [1 .. Len(data) -> Nat]
    BY <1>2
  <2> HIDE DEF bytes, data
  <2>2. QED
    BY <1>2, <2>1, ListOf
<1>5. /\ UNCHANGED <<size, f_pos>>
      /\ answer'.call = "badwrite" /\ answer'.pos = pos /\ answer'.bytes = bytes
  BY <1>3 DEF WriteFault, Answer
<1>6. items' = Stored(pos, bytes)
  BY <1>3
<1> HIDE DEF bytes, data
<1>7. Content' = [p \in 0 .. IntLimit - 1 |->
                     IF p \in pos .. pos + Len(bytes) - 1 THEN bytes[p - pos + 1] ELSE Content[p]]
  <2>1. OffsetOf(pos) + Len(bytes) <= QUANTUM
    BY <1>2, <1>4
  <2>2. QED
    BY <1>1, <1>4, <1>6, <2>1, StoredContent
<1>8. \A p \in (0 .. IntLimit - 1) \ File!Span(answer') : Content'[p] = Content[p]
  BY <1>5, <1>7, Zenon DEF File!Span
<1>9. File!FailedWrite
  BY <1>5, <1>8, Zenon DEF File!FailedWrite, Content
<1>10. QED
  BY <1>9 DEF File!Next

\* A read returns bytes of the array.
LEMMA ReadImplements ==
  ASSUME TypeOK, NEW own \in BOOLEAN, NEW pos \in Starts, NEW count \in Counts,
         Read(own, pos, count), pos < IntLimit
  PROVE  File!Next
<1> DEFINE list == Follow(ItemOf(pos) + 1)
           quantum == At(list, pos)
           n == IF quantum = NULL THEN 0
                ELSE Least(Least(count, size - pos), QUANTUM - OffsetOf(pos))
           bytes == [i \in 1 .. n |-> quantum[OffsetOf(pos) + i - 1]]
<1>1. /\ pos \in Nat /\ items \in Seq(Item) /\ size \in Nat /\ f_pos \in Nat
      /\ count \in Nat /\ pos <= size /\ IntLimit \in Nat /\ QUANTUM \in Nat
  <2>1. IntLimit \in Nat
    BY ItemSizePositive, SizesAssumption, Z3 DEF IntLimit
  <2>2. QED
    BY <2>1, SizesAssumption, InputsAssumption DEF Starts, TypeOK, Item, Read
<1>2. ItemOf(pos) \in Nat /\ OffsetOf(pos) \in 0 .. QUANTUM - 1 /\ ItemOf(pos) + 1 \in Nat
  <2> HIDE DEF bytes, n, quantum, list
  <2>1. pos \in Nat
    BY <1>1
  <2>2. ItemOf(pos) \in Nat /\ OffsetOf(pos) \in 0 .. QUANTUM - 1
    BY <2>1, PositionInRange DEF Offsets
  <2>3. QED
    BY <2>2
<1>3. /\ items' = list /\ Advance(own, pos, n) /\ UNCHANGED size
      /\ answer' = [call |-> "read", own |-> own, pos |-> pos, asked |-> count, bytes |-> bytes]
  BY DEF Read, Answer
<1>4. /\ n \in 0 .. count
      /\ n # 0 => /\ quantum # NULL /\ n <= size - pos /\ n <= QUANTUM - OffsetOf(pos)
      /\ (n = 0 /\ quantum # NULL) => count = 0 \/ pos >= size
  BY <1>1, <1>2 DEF Least
<1>5. Content' = Content
  BY <1>1, <1>2, <1>3, FollowContent
<1>6. /\ ~(ItemOf(pos) >= Len(list))
      /\ ByteIn(list, pos) = IF quantum = NULL THEN JUNK ELSE quantum[OffsetOf(pos)]
  <2>1. Len(list) >= ItemOf(pos) + 1 /\ Len(list) \in Nat
    <3> DEFINE item == ItemOf(pos) + 1
    <3>1. item \in Nat
      BY <1>2
    <3> HIDE DEF item
    <3>2. Follow(item) \in Seq(Item) /\ Len(Follow(item)) >= item
      BY <1>1, <3>1, FollowType
    <3>3. list = Follow(item)
      BY DEF item
    <3> HIDE DEF bytes, n, quantum, list
    <3>4. list \in Seq(Item) /\ Len(list) >= item
      BY <3>2, <3>3
    <3>5. QED
      BY <3>4 DEF item
  <2>2. ~(ItemOf(pos) >= Len(list))
    BY <1>2, <2>1
  <2>3. QED
    BY <2>2, Zenon DEF ByteIn
<1> HIDE DEF list
<1> HIDE DEF quantum, n
<1>7. Len(bytes) = n /\ (bytes = << >> => n = 0)
  BY <1>4
<1>8. ASSUME NEW p \in pos .. pos + n - 1
      PROVE  p < size /\ p \in 0 .. IntLimit - 1 /\ Content[p] = bytes[p - pos + 1]
  <2>1. /\ p \in Nat /\ n # 0 /\ p - pos \in 0 .. n - 1 /\ p < size
    BY <1>1, <1>4, <1>8
  <2> DEFINE r == OffsetOf(pos) + (p - pos)
  <2>2. r \in 0 .. QUANTUM - 1 /\ p - pos + 1 \in 1 .. n
    BY <1>1, <1>2, <1>4, <2>1
  <2>3. p < IntLimit
    <3>1. pos + (QUANTUM - OffsetOf(pos)) <= IntLimit
      BY <1>1, QuantumEnds
    <3>2. QED
      BY <1>1, <1>2, <2>1, <2>2, <3>1, SMTT(30)
  <2>4. bytes[p - pos + 1] = quantum[r]
    <3>1. OffsetOf(pos) + (p - pos + 1) - 1 = r
      BY <1>2, <2>1
    <3>2. QED
      BY <2>2, <3>1
  <2> HIDE DEF r
  <2>5. ItemOf(p) = ItemOf(pos) /\ QuantumOf(p) = QuantumOf(pos) /\ OffsetOf(p) = r
    BY <1>1, <2>1, <2>2, <2>3, NextInQuantum DEF r
  <2>6. At(list, p) = quantum
    BY <2>5, Zenon DEF At, quantum
  <2>7. ByteIn(list, p) = quantum[r]
    BY <1>4, <1>6, <2>1, <2>5, <2>6, Zenon DEF ByteIn
  <2>8. ByteIn(items, p) = ByteIn(list, p)
    BY <1>1, <1>2, <2>1, FollowBytes DEF list
  <2>9. p \in 0 .. IntLimit - 1
    BY <1>1, <2>1, <2>3
  <2>10. Content[p] = ByteIn(items, p)
    BY <2>9, ContentBytes, Zenon
  <2>11. QED
    BY <2>1, <2>4, <2>7, <2>8, <2>9, <2>10
<1>9. n = 0 => count = 0 \/ pos >= size \/ Content[pos] = JUNK
  <2>1. SUFFICES ASSUME n = 0, count # 0, ~(pos >= size) PROVE Content[pos] = JUNK
    OBVIOUS
  <2>2. ByteIn(list, pos) = JUNK
    BY <1>4, <1>6, <2>1
  <2>3. ByteIn(items, pos) = ByteIn(list, pos)
    BY <1>1, <1>2, FollowBytes DEF list
  <2>4. pos \in 0 .. IntLimit - 1
    BY <1>1
  <2>5. Content[pos] = ByteIn(items, pos)
    BY <2>4, ContentBytes, Zenon
  <2>6. QED
    BY <2>2, <2>3, <2>5
<1> HIDE DEF bytes
<1>10. /\ answer'.call = "read" /\ answer'.pos = pos /\ answer'.bytes = bytes
       /\ answer'.own = own /\ answer'.asked = count
  BY <1>3
<1>11. File!Advances
  BY <1>1, <1>3, <1>4, <1>7, <1>10 DEF Advance, File!Advances
<1>12. \A p \in File!Span(answer') : p < size /\ Content[p] \in {JUNK, answer'.bytes[p - answer'.pos + 1]}
  BY <1>7, <1>8, <1>10 DEF File!Span
<1>13. answer'.bytes = << >> => answer'.asked = 0 \/ answer'.pos >= size \/ Content[answer'.pos] = JUNK
  BY <1>7, <1>9, <1>10
<1>14. File!Read
  BY <1>3, <1>5, <1>10, <1>11, <1>12, <1>13, Zenon DEF File!Read, Content
<1>15. QED
  BY <1>14 DEF File!Next

\* A call that gives up, wherever it starts, leaves every byte as it was.
LEMMA GivenUp ==
  ASSUME TypeOK, NEW n \in Nat, items' = Follow(n),
         NoAnswer, UNCHANGED <<size, f_pos>>
  PROVE  File!Next
<1>1. Content' = Content
  BY FollowContent DEF TypeOK, Item
<1>2. answer'.call = "none"
  BY DEF NoAnswer, Answer
<1>3. File!GiveUp
  BY <1>1, <1>2, Zenon DEF File!GiveUp, Content
<1>4. QED
  BY <1>3 DEF File!Next

LEMMA WriteNoMemoryImplements ==
  ASSUME TypeOK, NEW pos \in Starts, WriteNoMemory(pos)
  PROVE  File!Next
<1>1. pos \in Nat /\ ItemOf(pos) \in Nat /\ ItemOf(pos) + 1 \in Nat
  <2>1. pos \in Nat
    BY SizesAssumption DEF Starts
  <2>2. ItemOf(pos) \in Nat
    BY <2>1, PositionInRange
  <2>3. QED
    BY <2>1, <2>2
<1>2. PICK n \in Nat : items' = Follow(n)
  <2>1. Shortages(ItemOf(pos)) \subseteq Nat
    BY <1>1 DEF Shortages, TypeOK
  <2>2. QED
    BY <1>1, <2>1, Zenon DEF WriteNoMemory
<1>3. QED
  BY <1>2, GivenUp DEF WriteNoMemory

LEMMA ReadFailsImplements ==
  ASSUME TypeOK, NEW pos \in Starts, ReadFails(pos)
  PROVE  File!Next
<1>1. pos \in Nat /\ ItemOf(pos) \in Nat /\ ItemOf(pos) + 1 \in Nat
  <2>1. pos \in Nat
    BY SizesAssumption DEF Starts
  <2>2. ItemOf(pos) \in Nat
    BY <2>1, PositionInRange
  <2>3. QED
    BY <2>1, <2>2
<1>2. PICK n \in Nat : items' = Follow(n)
  <2>1. Shortages(ItemOf(pos)) \cup {ItemOf(pos) + 1} \subseteq Nat
    BY <1>1 DEF Shortages, TypeOK
  <2>2. QED
    BY <2>1, Zenon DEF ReadFails
<1>3. QED
  BY <1>2, GivenUp DEF ReadFails

LEMMA ReadBehindEndImplements ==
  ASSUME TypeOK, NEW own \in BOOLEAN, NEW pos \in Starts, NEW count \in Counts,
         ReadBehindEnd(own, pos, count)
  PROVE  File!Next
<1>1. pos \in Nat /\ size \in Nat /\ f_pos \in Nat /\ count \in Nat
  BY SizesAssumption, InputsAssumption DEF Starts, TypeOK
<1>2. /\ pos > size /\ UNCHANGED <<items, size>> /\ Advance(own, pos, 0)
      /\ answer'.call = "read" /\ answer'.pos = pos /\ answer'.bytes = << >>
      /\ answer'.own = own /\ answer'.asked = count
  BY DEF ReadBehindEnd, Answer
<1>3. Content' = Content
  BY <1>2, ContentBytes
<1>4. File!Advances
  BY <1>1, <1>2 DEF Advance, File!Advances
<1>5. \A p \in File!Span(answer') : p < size /\ Content[p] \in {JUNK, answer'.bytes[p - answer'.pos + 1]}
  BY <1>1, <1>2 DEF File!Span
<1>6. answer'.bytes = << >> => answer'.asked = 0 \/ answer'.pos >= size \/ Content[answer'.pos] = JUNK
  BY <1>1, <1>2
<1>7. File!Read
  BY <1>2, <1>3, <1>4, <1>5, <1>6, Zenon DEF File!Read, Content
<1>8. QED
  BY <1>7 DEF File!Next

LEMMA LlseekImplements ==
  ASSUME NEW origin, NEW off, Llseek(origin, off)
  PROVE  File!Next
<1>1. answer'.call = "seek" /\ f_pos' \in Nat /\ UNCHANGED <<items, size>>
  BY SizesAssumption DEF Llseek, Answer
<1>2. Content' = Content
  BY <1>1, ContentBytes
<1>3. File!Seek
  BY <1>1, <1>2, Zenon DEF File!Seek, Content
<1>4. QED
  BY <1>3 DEF File!Next

\* In a list without items no byte is stored.
LEMMA NothingStored ==
  ASSUME NEW p \in Nat
  PROVE  ByteIn(<< >>, p) = JUNK
<1>1. ItemOf(p) \in Nat
  BY PositionInRange
<1>2. QED
  BY <1>1 DEF ByteIn

LEMMA OpenWriteOnlyImplements ==
  ASSUME NEW own \in BOOLEAN, OpenWriteOnly(own)
  PROVE  File!Next
<1>1. answer'.call = "empty" /\ items' = << >> /\ size' = 0
      /\ f_pos' = IF answer'.own THEN 0 ELSE f_pos
  BY DEF OpenWriteOnly, Answer
<1>2. Content' = [p \in 0 .. IntLimit - 1 |-> JUNK]
  <2>1. IntLimit \in Nat
    BY ItemSizePositive, SizesAssumption, Z3 DEF IntLimit
  <2>2. \A p \in 0 .. IntLimit - 1 : ByteIn(items', p) = JUNK
    BY <1>1, <2>1, NothingStored
  <2>3. QED
    BY <2>2, ContentBytes, Zenon
<1>3. File!Empty
  BY <1>1, <1>2, Zenon DEF File!Empty, Content
<1>4. QED
  BY <1>3 DEF File!Next

LEMMA InitImplements == Init => File!Init
<1> SUFFICES ASSUME Init PROVE File!Init
  OBVIOUS
<1>1. IntLimit \in Nat
  BY ItemSizePositive, SizesAssumption, Z3 DEF IntLimit
<1>2. \A p \in 0 .. IntLimit - 1 : ByteIn(items, p) = JUNK
  BY <1>1, NothingStored DEF Init
<1>3. Content = [p \in 0 .. IntLimit - 1 |-> JUNK]
  BY <1>2, ContentBytes, Zenon
<1>4. QED
  BY <1>3, Zenon DEF File!Init, Init, Content

\* Every step of the file is one of the array or leaves the array alone, unless
\* it starts where an item number no longer fits.
LEMMA NextImplements ==
  TypeOK /\ [Next]_vars => [answer'.pos >= IntLimit \/ File!Next]_vars
<1> SUFFICES ASSUME TypeOK, Next, ~(answer'.pos >= IntLimit) PROVE File!Next
  BY Zenon
<1>1. ASSUME NEW pos \in Starts, answer'.pos = pos
      PROVE  pos < IntLimit
  <2>1. IntLimit \in Nat
    BY ItemSizePositive, SizesAssumption, Z3 DEF IntLimit
  <2>2. QED
    BY <1>1, <2>1, SizesAssumption DEF Starts
<1>2. ASSUME NEW own \in BOOLEAN, NEW pos \in Starts, NEW payload \in Payloads,
             Write(own, pos, payload)
      PROVE  File!Next
  BY <1>1, <1>2, WriteImplements DEF Write, Answer
<1>3. ASSUME NEW pos \in Starts, NEW payload \in Payloads, WriteFault(pos, payload)
      PROVE  File!Next
  <2>1. answer'.pos = pos
    BY <1>3 DEF WriteFault, Answer
  <2>2. QED
    BY <1>1, <1>3, <2>1, WriteFaultImplements
<1>4. ASSUME NEW pos \in Starts, WriteNoMemory(pos)
      PROVE  File!Next
  BY <1>4, WriteNoMemoryImplements
<1>5. ASSUME NEW own \in BOOLEAN, NEW pos \in Starts, NEW count \in Counts,
             Read(own, pos, count)
      PROVE  File!Next
  <2>1. answer'.pos = pos
    BY <1>5 DEF Read, Answer
  <2>2. QED
    BY <1>1, <1>5, <2>1, ReadImplements
<1>6. ASSUME NEW own \in BOOLEAN, NEW pos \in Starts, NEW count \in Counts,
             ReadBehindEnd(own, pos, count)
      PROVE  File!Next
  BY <1>6, ReadBehindEndImplements
<1>7. ASSUME NEW pos \in Starts, ReadFails(pos)
      PROVE  File!Next
  BY <1>7, ReadFailsImplements
<1>8. ASSUME NEW origin, NEW off, Llseek(origin, off)
      PROVE  File!Next
  BY <1>8, LlseekImplements
<1>9. ASSUME NEW own \in BOOLEAN, OpenWriteOnly(own)
      PROVE  File!Next
  BY <1>9, OpenWriteOnlyImplements
<1>10. QED
  BY <1>2, <1>3, <1>4, <1>5, <1>6, <1>7, <1>8, <1>9 DEF Next

\* The items and quanta implement one array of bytes, for any sizes of quanta
\* and items, any data and any counts, 0 included: reads return what was last
\* written, across quanta, items, failed allocations and the opens that empty the
\* file (file.c), for every position whose item number fits an int.
THEOREM FileIsByteArray == Spec => ImplementsByteFile
<1>1. Spec => []TypeOK
  BY TypeCorrect
<1>2. QED
  BY <1>1, InitImplements, NextImplements, PTL DEF Spec, ImplementsByteFile
=============================================================================
