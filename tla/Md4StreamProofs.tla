---------------------------- MODULE Md4StreamProofs ----------------------------
(***************************************************************************)
(* That the digest is made of the blocks of the padded message             *)
(* (hash/md4.c), for every size of the block, of its length field and of   *)
(* the pieces: what update buffers, and how final pads.                    *)
(***************************************************************************)
EXTENDS Md4Stream, SequenceTheorems, NatFacts

-----------------------------------------------------------------------------
(* The buffer *)

\* Block j of a message, in which nothing is stale.
Plain(j) == [q \in Cells |-> Data((j - 1) * BLOCK + q)]

\* The blocks compressed, and where in the message the bytes begin that wait.
Compressed == byte_count \div BLOCK
Start == BLOCK * Compressed

\* A block: a function on its cells, none beyond.
IsBlock(b) == b = [q \in Cells |-> b[q]]

\* What is compressed and what waits is as it should be, and the block a block.
IInv ==
    /\ byte_count \in Nat
    /\ IsBlock(block)
    /\ Buffered

\* The sizes are numbers.
LEMMA Sizes == BLOCK \in Nat \ {0} /\ \A n \in Pieces : n \in Nat
  BY SizesAssumption

\* The bytes that wait, and the room that is left.
LEMMA Waiting ==
  ASSUME byte_count \in Nat
  PROVE  /\ Compressed \in Nat /\ Start \in Nat /\ Offset \in 0 .. BLOCK - 1
         /\ Room \in 1 .. BLOCK /\ Offset + Room = BLOCK
         /\ byte_count = Start + Offset
<1>1. /\ Compressed \in Nat /\ Offset \in 0 .. BLOCK - 1
      /\ byte_count = BLOCK * Compressed + Offset
  BY Division, Sizes DEF Offset, Compressed
<1>2. BLOCK * Compressed \in Nat
  BY <1>1, Sizes, Z3
<1>3. QED
  BY <1>1, <1>2, Sizes DEF Room, Start

\* A copy that stays inside a block: it is a block, with the bytes put in.
LEMMA CopyInside ==
  ASSUME NEW b, NEW at \in Nat, NEW p, NEW n \in Nat, at + n <= BLOCK
  PROVE  /\ IsBlock(Copy(b, at, p, n))
         /\ \A q \in at .. at + n - 1 : Copy(b, at, p, n)[q] = Data(p + (q - at))
         /\ \A q \in Cells \ (at .. at + n - 1) : Copy(b, at, p, n)[q] = b[q]
<1>1. Cells \cup at .. at + n - 1 = Cells
  BY Sizes DEF Cells
<1>2. Copy(b, at, p, n) = [q \in Cells |->
        IF q \in at .. at + n - 1 THEN Data(p + (q - at)) ELSE b[q]]
  BY <1>1, Zenon DEF Copy
<1>3. \A q \in at .. at + n - 1 : q \in Cells
  BY <1>1
<1>4. QED
  BY <1>2, <1>3, Zenon DEF IsBlock

\* A copy to the start of a block.
LEMMA CopyToStart ==
  ASSUME NEW b, NEW p, NEW n \in Nat, n <= BLOCK
  PROVE  /\ IsBlock(Copy(b, 0, p, n))
         /\ \A q \in 0 .. n - 1 : Copy(b, 0, p, n)[q] = Data(p + q)
<1>1. Cells \cup 0 .. 0 + n - 1 = Cells
  BY Sizes DEF Cells
<1>2. Copy(b, 0, p, n) = [q \in Cells |->
        IF q \in 0 .. 0 + n - 1 THEN Data(p + (q - 0)) ELSE b[q]]
  BY <1>1, Zenon DEF Copy
<1>3. \A q \in 0 .. n - 1 : q \in Cells /\ q \in 0 .. 0 + n - 1 /\ q - 0 = q
  BY Sizes DEF Cells
<1>4. QED
  BY <1>2, <1>3, Zenon DEF IsBlock

\* A block is known by its cells.
LEMMA SameBlock ==
  ASSUME NEW b, NEW j, NEW m, IsBlock(b), m = (j - 1) * BLOCK,
         \A q \in Cells : b[q] = Data(m + q)
  PROVE  b = Plain(j)
<1>1. [q \in Cells |-> b[q]] = [q \in Cells |-> Data((j - 1) * BLOCK + q)]
  BY Zenon
<1>2. QED
  BY <1>1, Zenon DEF IsBlock, Plain

\* A sequence and the elements that follow.
LEMMA Joined ==
  ASSUME NEW f, NEW a \in Nat, NEW w \in Nat
  PROVE  [j \in 1 .. a |-> f[j]] \o [j \in 1 .. w |-> f[a + j]] = [j \in 1 .. a + w |-> f[j]]
<1> DEFINE S == {f[j] : j \in Nat}
           s == [j \in 1 .. a |-> f[j]]
           t == [j \in 1 .. w |-> f[a + j]]
           r == [j \in 1 .. a + w |-> f[j]]
<1>1. s \in Seq(S) /\ Len(s) = a /\ \A j \in 1 .. a : s[j] = f[j]
  OBVIOUS
<1>2. t \in Seq(S) /\ Len(t) = w /\ \A j \in 1 .. w : t[j] = f[a + j]
  OBVIOUS
<1>3. r \in Seq(S) /\ Len(r) = a + w /\ \A j \in 1 .. a + w : r[j] = f[j]
  OBVIOUS
<1> HIDE DEF S, s, t, r
<1>4. /\ s \o t \in Seq(S) /\ Len(s \o t) = Len(s) + Len(t)
      /\ \A j \in 1 .. Len(s) + Len(t) :
            (s \o t)[j] = IF j <= Len(s) THEN s[j] ELSE t[j - Len(s)]
  BY <1>1, <1>2, ConcatProperties, Zenon
<1>5. ASSUME NEW j \in 1 .. a + w PROVE (s \o t)[j] = r[j]
  <2>1. CASE j <= a
    BY <1>1, <1>2, <1>3, <1>4, <2>1, SMTT(40)
  <2>2. CASE ~(j <= a)
    <3>1. j - a \in 1 .. w /\ a + (j - a) = j
      BY <2>2
    <3>2. (s \o t)[j] = t[j - a]
      BY <1>1, <1>2, <1>4, <2>2
    <3>3. QED
      BY <1>2, <1>3, <3>1, <3>2
  <2>3. QED
    BY <2>1, <2>2
<1>6. s \o t = r
  BY <1>1, <1>2, <1>3, <1>4, <1>5, SeqEqual
<1>7. QED
  BY <1>6 DEF s, t, r

\* A sequence, the next element and some more.
LEMMA Appended ==
  ASSUME NEW f, NEW a \in Nat, NEW w \in Nat
  PROVE  [j \in 1 .. a |-> f[j]] \o <<f[a + 1]>> \o [j \in 1 .. w |-> f[a + 1 + j]]
           = [j \in 1 .. a + 1 + w |-> f[j]]
<1> DEFINE b == a + 1
<1>1. <<f[a + 1]>> = [j \in 1 .. 1 |-> f[a + j]]
  OBVIOUS
<1>2. [j \in 1 .. a |-> f[j]] \o [j \in 1 .. 1 |-> f[a + j]] = [j \in 1 .. b |-> f[j]]
  BY Joined
<1>3. b \in Nat
  OBVIOUS
<1> HIDE DEF b
<1>4. [j \in 1 .. b |-> f[j]] \o [j \in 1 .. w |-> f[b + j]] = [j \in 1 .. b + w |-> f[j]]
  BY <1>3, Joined
<1>5. QED
  BY <1>1, <1>2, <1>4 DEF b

\* The block when n bytes were put behind the waiting ones.
LEMMA FilledBlock ==
  ASSUME IInv, phase = "open", NEW n \in Nat, n <= Room
  PROVE  LET b == Copy(block, Offset, byte_count, n)
         IN  /\ IsBlock(b)
             /\ \A q \in 0 .. Offset + n - 1 : b[q] = Data(Start + q)
<1> DEFINE b == Copy(block, Offset, byte_count, n)
<1>1. /\ Offset \in Nat /\ Start \in Nat /\ byte_count = Start + Offset
      /\ Offset + n <= BLOCK
  BY Waiting, Sizes DEF IInv
<1>2. /\ IsBlock(b)
      /\ \A q \in Offset .. Offset + n - 1 : b[q] = Data(byte_count + (q - Offset))
      /\ \A q \in Cells \ (Offset .. Offset + n - 1) : b[q] = block[q]
  BY <1>1, CopyInside
<1>3. \A q \in 0 .. Offset - 1 : block[q] = Data(byte_count - Offset + q)
  BY Zenon DEF IInv, Buffered
<1> HIDE DEF b
<1>4. ASSUME NEW q \in 0 .. Offset + n - 1
      PROVE  b[q] = Data(Start + q)
  <2>1. CASE q < Offset
    <3>1. /\ q \in 0 .. Offset - 1 /\ byte_count - Offset + q = Start + q
          /\ q \in Cells \ (Offset .. Offset + n - 1)
      BY <1>1, <2>1, Sizes DEF Cells
    <3>2. b[q] = block[q] /\ block[q] = Data(byte_count - Offset + q)
      BY <1>2, <1>3, <3>1, Zenon
    <3>3. QED
      BY <3>1, <3>2, Zenon
  <2>2. CASE ~(q < Offset)
    <3>1. q \in Offset .. Offset + n - 1 /\ byte_count + (q - Offset) = Start + q
      BY <1>1, <2>2
    <3>2. b[q] = Data(byte_count + (q - Offset))
      BY <1>2, <3>1, Zenon
    <3>3. QED
      BY <3>1, <3>2, Zenon
  <2>3. QED
    BY <2>1, <2>2
<1>5. QED
  BY <1>2, <1>4, Zenon DEF b

\* An update that leaves the block short.
LEMMA ShortBuffers ==
  ASSUME IInv, NEW n \in Pieces, Update(n), UpdateShort(n)
  PROVE  IInv'
<1>1. /\ Compressed \in Nat /\ Start \in Nat /\ Offset \in 0 .. BLOCK - 1
      /\ byte_count = Start + Offset /\ Offset + Room = BLOCK /\ Room \in Nat
  BY Waiting, Sizes DEF IInv
<1>2. /\ n \in Nat /\ phase = "open" /\ byte_count' = byte_count + n
      /\ n < Room /\ hash' = hash /\ block' = Copy(block, Offset, byte_count, n)
  BY <1>1, Sizes DEF Update, UpdateShort
<1>3. /\ Offset + n \in 0 .. BLOCK - 1 /\ byte_count' = Start + (Offset + n)
      /\ byte_count' \in Nat /\ n <= Room
  BY <1>1, <1>2, Sizes
<1>4. Compressed' = Compressed /\ Offset' = Offset + n
  <2>1. byte_count' = BLOCK * Compressed + (Offset + n)
    BY <1>3 DEF Start
  <2>2. byte_count' \div BLOCK = Compressed /\ byte_count' % BLOCK = Offset + n
    <3>1. /\ BLOCK \in Nat \ {0} /\ Compressed \in Nat /\ Offset + n \in 0 .. BLOCK - 1
          /\ byte_count' \in Nat
      BY <1>1, <1>3, Sizes
    <3>2. QED
      BY <2>1, <3>1, Quotient
  <2>3. QED
    BY <2>2, Zenon DEF Compressed, Offset
<1>5. /\ IsBlock(Copy(block, Offset, byte_count, n))
      /\ \A q \in 0 .. Offset + n - 1 : Copy(block, Offset, byte_count, n)[q] = Data(Start + q)
  BY <1>2, <1>3, FilledBlock, Zenon
<1>6. hash' = [j \in 1 .. Compressed' |-> [q \in Cells |-> Data((j - 1) * BLOCK + q)]]
  BY <1>2, <1>4, Zenon DEF IInv, Buffered, Compressed
<1>7. ASSUME NEW q \in 0 .. Offset' - 1
      PROVE  block'[q] = Data(byte_count' - Offset' + q)
  <2>1. q \in 0 .. Offset + n - 1 /\ byte_count' - Offset' + q = Start + q
    BY <1>1, <1>2, <1>3, <1>4
  <2>2. block'[q] = Data(Start + q)
    BY <1>2, <1>5, <2>1, Zenon
  <2>3. QED
    BY <2>1, <2>2, Zenon
<1>8. IsBlock(block')
  BY <1>2, <1>5, Zenon
<1>9. QED
  BY <1>3, <1>6, <1>7, <1>8, Zenon DEF IInv, Buffered, IsBlock, Cells, Compressed

\* An update that fills the block and goes on with whole blocks.
LEMMA LongBuffers ==
  ASSUME IInv, NEW n \in Pieces, Update(n), UpdateLong(n)
  PROVE  IInv'
<1> DEFINE full == Copy(block, Offset, byte_count, Room)
           whole == (n - Room) \div BLOCK
           rest == (n - Room) % BLOCK
           Whole(j) == Copy(full, 0, byte_count + Room + (j - 1) * BLOCK, BLOCK)
           last == IF whole = 0 THEN full ELSE Whole(whole)
<1>1. /\ n \in Nat /\ phase = "open" /\ byte_count' = byte_count + n /\ Room <= n
      /\ hash' = hash \o <<full>> \o [j \in 1 .. whole |-> Whole(j)]
      /\ block' = Copy(last, 0, byte_count + n - rest, rest)
  BY Sizes DEF Update, UpdateLong
<1>2. /\ Compressed \in Nat /\ Start \in Nat /\ Offset \in 0 .. BLOCK - 1
      /\ byte_count = Start + Offset /\ Offset + Room = BLOCK /\ Room \in 1 .. BLOCK
      /\ byte_count \in Nat /\ Room \in Nat /\ Room <= Room
  BY Waiting, Sizes DEF IInv
<1>3. /\ whole \in Nat /\ rest \in 0 .. BLOCK - 1 /\ n - Room = BLOCK * whole + rest
  <2>1. n - Room \in Nat
    BY <1>1, <1>2
  <2>2. QED
    BY <2>1, Division, Sizes
<1>4. /\ IsBlock(full)
      /\ \A q \in 0 .. Offset + Room - 1 : full[q] = Data(Start + q)
  BY <1>1, <1>2, FilledBlock
<1> HIDE DEF full, whole, rest
<1>5. full = Plain(Compressed + 1)
  <2> DEFINE k == Compressed + 1
  <2>1. ASSUME NEW q \in Cells PROVE full[q] = Data(Start + q)
    <3>1. q \in 0 .. Offset + Room - 1
      BY <1>2, <2>1 DEF Cells
    <3>2. QED
      BY <1>4, <3>1, Zenon
  <2>2. Start = (k - 1) * BLOCK
    BY <1>2, Sizes, Z3 DEF Start
  <2> HIDE DEF k
  <2>3. full = Plain(k)
    BY <1>4, <2>1, <2>2, SameBlock, Zenon
  <2>4. QED
    BY <2>3 DEF k
<1>6. ASSUME NEW j \in 1 .. whole PROVE Whole(j) = Plain(Compressed + 1 + j)
  <2> DEFINE p == byte_count + Room + (j - 1) * BLOCK
             w == Copy(full, 0, p, BLOCK)
             k == Compressed + 1 + j
  <2>1. IsBlock(w) /\ \A q \in 0 .. BLOCK - 1 : w[q] = Data(p + q)
    <3>1. BLOCK \in Nat /\ BLOCK <= BLOCK
      BY Sizes
    <3>2. QED
      BY <3>1, CopyToStart, Zenon
  <2>2. p = (k - 1) * BLOCK
    BY <1>2, <1>3, Sizes, Z3 DEF Start
  <2> HIDE DEF p, w, k
  <2>3. w = Plain(k)
    BY <2>1, <2>2, SameBlock, Zenon DEF Cells
  <2>4. QED
    BY <2>3 DEF p, w, k
<1>7. /\ Compressed' = Compressed + 1 + whole /\ Offset' = rest /\ byte_count' \in Nat
  <2>1. byte_count' = BLOCK * (Compressed + 1 + whole) + rest
    BY <1>1, <1>2, <1>3, Sizes, Z3 DEF Start
  <2>2. Compressed + 1 + whole \in Nat /\ byte_count' \in Nat
    BY <1>1, <1>2, <1>3
  <2>3. byte_count' \div BLOCK = Compressed + 1 + whole /\ byte_count' % BLOCK = rest
    BY <1>3, <2>1, <2>2, Quotient, Sizes, SMTT(40)
  <2>4. QED
    BY <2>2, <2>3, Zenon DEF Compressed, Offset
<1>8. hash' = [j \in 1 .. Compressed + 1 + whole |-> Plain(j)]
  <2> DEFINE f == [j \in Nat |-> Plain(j)]
  <2>1. hash = [j \in 1 .. Compressed |-> Plain(j)]
    BY <1>1, Zenon DEF IInv, Buffered, Plain, Compressed
  <2>2. [j \in 1 .. Compressed |-> Plain(j)] = [j \in 1 .. Compressed |-> f[j]]
    BY <1>2
  <2>3. full = f[Compressed + 1]
    BY <1>2, <1>5
  <2>4. [j \in 1 .. whole |-> Whole(j)] = [j \in 1 .. whole |-> f[Compressed + 1 + j]]
    <3>1. \A j \in 1 .. whole : Compressed + 1 + j \in Nat
      BY <1>2, <1>3
    <3>2. \A j \in 1 .. whole : Whole(j) = f[Compressed + 1 + j]
      BY <1>6, <3>1, Zenon
    <3>3. QED
      BY <3>2, Zenon
  <2>5. \A j \in 1 .. Compressed + 1 + whole : f[j] = Plain(j)
    BY <1>2, <1>3
  <2> HIDE DEF f, Whole
  <2>6. hash' = [j \in 1 .. Compressed |-> f[j]] \o <<f[Compressed + 1]>>
                  \o [j \in 1 .. whole |-> f[Compressed + 1 + j]]
    BY <1>1, <2>1, <2>2, <2>3, <2>4, Zenon
  <2>7. hash' = [j \in 1 .. Compressed + 1 + whole |-> f[j]]
    BY <1>2, <1>3, <2>6, Appended
  <2>8. QED
    BY <2>5, <2>7
<1>9. /\ IsBlock(block')
      /\ \A q \in 0 .. rest - 1 : block'[q] = Data(byte_count + n - rest + q)
  <2>1. rest \in Nat /\ rest <= BLOCK
    BY <1>3, Sizes
  <2>2. QED
    BY <1>1, <2>1, CopyToStart, ZenonT(40)
<1>10. ASSUME NEW q \in 0 .. Offset' - 1
       PROVE  block'[q] = Data(byte_count' - Offset' + q)
  <2>1. q \in 0 .. rest - 1 /\ byte_count' - Offset' + q = byte_count + n - rest + q
    BY <1>1, <1>2, <1>3, <1>7
  <2>2. QED
    BY <1>9, <2>1, Zenon
<1>11. hash' = [j \in 1 .. Compressed' |-> [q \in Cells |-> Data((j - 1) * BLOCK + q)]]
  BY <1>7, <1>8, Zenon DEF Plain
<1>12. QED
  BY <1>7, <1>9, <1>10, <1>11, Zenon DEF IInv, Buffered, IsBlock, Cells, Compressed

-----------------------------------------------------------------------------
(* The invariant *)

LEMMA Inductive == IInv /\ [Next]_vars => IInv'
<1> SUFFICES ASSUME IInv, [Next]_vars PROVE IInv'
  OBVIOUS
<1>1. CASE UNCHANGED vars
  BY <1>1 DEF vars, IInv, Buffered, Offset, IsBlock
<1>2. CASE Begin
  <2>1. byte_count' = 0 /\ block' = block /\ hash' = << >>
    BY <1>2 DEF Begin
  <2>2. 0 \div BLOCK = 0 /\ 0 % BLOCK = 0
    BY Sizes
  <2>3. hash' = [j \in 1 .. byte_count' \div BLOCK |-> [q \in Cells |-> Data((j - 1) * BLOCK + q)]]
    BY <2>1, <2>2
  <2>4. IsBlock(block')
    BY <2>1 DEF IInv, IsBlock
  <2>5. QED
    BY <2>1, <2>2, <2>3, <2>4 DEF IInv, Buffered, Offset, IsBlock, Cells
<1>3. ASSUME NEW n \in Pieces, Update(n) PROVE IInv'
  BY <1>3, ShortBuffers, LongBuffers DEF Update
<1>4. CASE Final
  BY <1>4 DEF Final, IInv, Buffered, IsBlock
<1>5. QED
  BY <1>1, <1>2, <1>3, <1>4 DEF Next

\* Between two calls the whole blocks of the message were compressed, in order
\* and with nothing stale in them, and the rest waits at the start of the
\* block, wherever the updates were cut (update of hash/md4.c).
THEOREM UpdateBuffers == Spec => []Buffered
<1>1. Init => IInv
  BY DEF Init, IInv, Buffered, IsBlock
<1>2. IInv => Buffered
  BY DEF IInv
<1>3. QED
  BY <1>1, <1>2, Inductive, PTL DEF Spec

-----------------------------------------------------------------------------
(* Types *)

Contents == [Cells -> {"data", "byte", "junk"} \X Nat]

LEMMA CopyType ==
  ASSUME NEW b \in Contents, NEW at \in Nat, NEW p \in Nat, NEW n \in Nat, at + n <= BLOCK
  PROVE  Copy(b, at, p, n) \in Contents
<1>1. Cells \cup at .. at + n - 1 = Cells
  BY Sizes DEF Cells
<1>2. \A q \in at .. at + n - 1 : Data(p + (q - at)) \in {"data", "byte", "junk"} \X Nat
  BY DEF Data
<1>3. QED
  BY <1>1, <1>2 DEF Copy, Contents

LEMMA ClearType ==
  ASSUME NEW b \in Contents, NEW S
  PROVE  Clear(b, S) \in Contents
  BY DEF Clear, Contents, Byte

LEMMA BlockType ==
  ASSUME NEW b \in Contents
  PROVE  IsBlock(b) /\ DOMAIN b = Cells
  BY DEF IsBlock, Contents

-----------------------------------------------------------------------------
(* The bytes of a number *)

\* The weights are what their recursion says.
LEMMA PowerIs ==
  /\ Power \in [Nat -> Nat \ {0}]
  /\ Power[0] = 1
  /\ \A k \in Nat : Power[k + 1] = Times(Power[k], BYTE)
<1> DEFINE S == Nat \ {0}
           step == [a \in S \X Nat |-> BYTE * a[1]]
           F(f) == [k \in Nat |-> IF k = 0 THEN 1 ELSE BYTE * f[k - 1]]
<1>1. PICK f : Solves(f, S, 1, step)
  <2>1. \A x \in S : BYTE * x \in S
    BY SizesAssumption, Z3
  <2>2. step \in [S \X Nat -> S] /\ 1 \in S
    BY <2>1
  <2> HIDE DEF step, S
  <2>3. QED
    BY <2>2, Recursion, Zenon
<1>2. \A n \in Nat : f[n + 1] = BYTE * f[n]
  <2>1. \A n \in Nat : <<f[n], n>> \in S \X Nat /\ f[n + 1] = step[<<f[n], n>>]
    BY <1>1 DEF Solves
  <2>2. QED
    BY <2>1
<1>3. f = F(f)
  <2>1. \A k \in Nat : f[k] = IF k = 0 THEN 1 ELSE BYTE * f[k - 1]
    <3> TAKE k \in Nat
    <3>1. CASE k = 0
      BY <1>1, <3>1 DEF Solves
    <3>2. CASE k # 0
      <4>1. k - 1 \in Nat /\ (k - 1) + 1 = k
        BY <3>2
      <4>2. f[(k - 1) + 1] = BYTE * f[k - 1]
        BY <1>2, <4>1
      <4>3. QED
        BY <3>2, <4>1, <4>2
    <3>3. QED
      BY <3>1, <3>2
  <2>2. f = [k \in Nat |-> f[k]]
    BY <1>1 DEF Solves
  <2>3. QED
    BY <2>1, <2>2, Zenon
<1>4. Power = F(Power)
  <2>1. Power = CHOOSE g : g = F(g)
    BY Zenon DEF Power
  <2> HIDE DEF F
  <2>2. QED
    BY <1>3, <2>1, Zenon
<1>5. Power[0] = 1 /\ \A k \in Nat : Power[k + 1] = BYTE * Power[k]
  <2>1. \A k \in Nat : Power[k] = IF k = 0 THEN 1 ELSE BYTE * Power[k - 1]
    BY <1>4, Zenon
  <2>2. \A k \in Nat : k + 1 \in Nat /\ k + 1 # 0 /\ (k + 1) - 1 = k
    OBVIOUS
  <2>3. QED
    BY <2>1, <2>2
<1>6. \A k \in Nat : Power[k] \in S
  <2> DEFINE T == {k \in Nat : Power[k] \in S}
  <2>1. 0 \in T
    BY <1>5
  <2>2. \A k \in Nat : k \in T => k + 1 \in T
    <3>1. \A x \in S : BYTE * x \in S
      BY SizesAssumption, Z3
    <3>2. QED
      BY <1>5, <3>1
  <2>3. \A k \in Nat : k \in T
    <3> HIDE DEF T
    <3>1. QED
      BY <2>1, <2>2, Induction
  <2>4. QED
    BY <2>3
<1>7. Power \in [Nat -> S]
  <2>1. Power = [k \in Nat |-> Power[k]]
    <3> HIDE DEF S
    <3>1. DOMAIN Power = Nat /\ Power = [k \in DOMAIN Power |-> Power[k]]
      BY <1>4, Zenon
    <3>2. QED
      BY <3>1
  <2>2. QED
    BY <1>6, <2>1
<1>8. \A k \in Nat : Power[k + 1] = Times(Power[k], BYTE)
  <2>1. \A x \in Nat : BYTE * x = Times(x, BYTE)
    BY SizesAssumption, Z3 DEF Times
  <2>2. \A k \in Nat : Power[k] \in Nat
    BY <1>6
  <2>3. QED
    BY <1>5, <2>1, <2>2
<1>9. QED
  BY <1>5, <1>7, <1>8

LEMMA PowerSum ==
  ASSUME NEW j \in Nat, NEW k \in Nat
  PROVE  Power[j + k] = Times(Power[j], Power[k])
<1> DEFINE T == {i \in Nat : Power[j + i] = Times(Power[j], Power[i])}
<1>1. Power[j] \in Nat /\ Power[0] = 1 /\ BYTE \in Nat
  BY PowerIs, SizesAssumption
<1>2. 0 \in T
  <2>1. Times(Power[j], 1) = Power[j]
    BY <1>1 DEF Times
  <2>2. j + 0 = j
    OBVIOUS
  <2>3. QED
    BY <1>1, <2>1, <2>2
<1>3. ASSUME NEW i \in Nat, i \in T PROVE i + 1 \in T
  <2>1. Power[j + i] = Times(Power[j], Power[i])
    BY <1>3
  <2>2. j + i \in Nat /\ j + (i + 1) = (j + i) + 1 /\ i + 1 \in Nat
    OBVIOUS
  <2>3. Power[(j + i) + 1] = Times(Power[j + i], BYTE) /\ Power[i + 1] = Times(Power[i], BYTE)
    BY <2>2, PowerIs
  <2>4. Power[i] \in Nat
    BY PowerIs
  <2>5. Times(Times(Power[j], Power[i]), BYTE) = Times(Power[j], Times(Power[i], BYTE))
    BY <1>1, <2>4, TimesTimes
  <2>6. Power[j + (i + 1)] = Times(Power[j], Power[i + 1])
    BY <2>1, <2>2, <2>3, <2>5
  <2>7. QED
    BY <2>2, <2>6
<1>4. \A i \in Nat : i \in T
  <2> HIDE DEF T
  <2>1. QED
    BY <1>2, <1>3, Induction
<1>5. QED
  BY <1>4

\* Byte k of a number.
Digit(x, k) == Rest(Quot(x, Power[k]), BYTE)

\* The bytes of the low word are the low bytes of the number.
LEMMA LowDigits ==
  ASSUME NEW x \in Nat, NEW h \in Nat, NEW k \in 0 .. h - 1
  PROVE  Digit(Rest(x, Power[h]), k) = Digit(x, k)
<1> DEFINE b == Power[k]
           i == (h - k) - 1
           e == Power[i]
           c == Power[i + 1]
           d == Power[h]
           y == Quot(x, b)
<1>1. k \in Nat /\ i \in Nat /\ i + 1 \in Nat /\ h = (i + 1) + k /\ BYTE \in Nat \ {0}
  BY SizesAssumption
<1>2. b \in Nat \ {0} /\ c \in Nat \ {0} /\ e \in Nat \ {0} /\ d \in Nat
  BY <1>1, PowerIs
<1>3. c = Times(e, BYTE)
  BY <1>1, PowerIs
<1>4. d = Times(c, b)
  <2> HIDE DEF i
  <2>1. Power[(i + 1) + k] = Times(Power[i + 1], Power[k])
    BY <1>1, PowerSum
  <2>2. QED
    BY <1>1, <2>1
<1> HIDE DEF b, c, d, e
<1>5. Rest(Quot(x, b), c) = Quot(Rest(x, d), b)
  BY <1>2, <1>4, QuotTwice
<1>6. y \in Nat
  BY <1>2, QuotRest
<1> HIDE DEF y
<1>7. Rest(Rest(y, c), BYTE) = Rest(y, BYTE)
  BY <1>1, <1>2, <1>3, <1>6, QuotTwice
<1>8. QED
  BY <1>5, <1>7, Zenon DEF Digit, y, b, d

\* The bytes of the high word are the next ones.
LEMMA HighDigits ==
  ASSUME NEW x \in Nat, NEW h \in Nat, NEW k \in Nat
  PROVE  Digit(Quot(x, Power[h]), k) = Digit(x, h + k)
<1> DEFINE b == Power[h]
           c == Power[k]
           d == Power[k + h]
<1>1. b \in Nat \ {0} /\ c \in Nat \ {0}
  BY PowerIs
<1>2. d = Times(c, b)
  BY PowerSum
<1> HIDE DEF b, c, d
<1>3. Quot(Quot(x, b), c) = Quot(x, d)
  BY <1>1, <1>2, QuotTwice
<1>4. k + h = h + k
  OBVIOUS
<1>5. QED
  BY <1>3, <1>4 DEF Digit, b, c, d

-----------------------------------------------------------------------------
(* The length *)

Half == FIELD \div 2

LEMMA Halves ==
  /\ Half \in Nat \ {0} /\ FIELD = Half + Half /\ FIELD \in Nat /\ FIELD < BLOCK
  /\ WORD = Power[Half] /\ WORD \in Nat \ {0} /\ BYTE \in Nat \ {0}
<1>1. FIELD \in Nat /\ FIELD # 0 /\ FIELD < BLOCK /\ FIELD % 2 = 0 /\ BYTE \in Nat \ {0}
  BY SizesAssumption
<1>2. Half \in Nat /\ FIELD = 2 * Half + (FIELD % 2)
  BY <1>1, Z3 DEF Half
<1>3. Half \in Nat \ {0} /\ FIELD = Half + Half
  BY <1>1, <1>2
<1>4. WORD = Power[Half]
  BY DEF WORD, Half
<1>5. WORD \in Nat \ {0}
  BY <1>3, <1>4, PowerIs
<1>6. QED
  BY <1>1, <1>3, <1>4, <1>5

\* The high word is the number of bits without its low word.
LEMMA HighWord ==
  ASSUME NEW n \in Nat
  PROVE  n \div (WORD \div 8) = Quot(8 * n, WORD)
<1> DEFINE x == 8 * n
           w == WORD \div 8
<1>1. WORD \in Nat \ {0} /\ WORD % 8 = 0
  BY Halves, WordAssumption
<1>2. w \in Nat \ {0} /\ WORD = 8 * w
  <2> DEFINE v == WORD
  <2>1. v \in Nat \ {0} /\ v % 8 = 0
    BY <1>1
  <2> HIDE DEF v
  <2>2. v \div 8 \in Nat /\ v = 8 * (v \div 8) + (v % 8)
    BY <2>1, Z3
  <2>3. QED
    BY <2>1, <2>2 DEF v
<1>3. WORD = Times(w, 8) /\ x \in Nat /\ x = Times(n, 8) + 0
  BY <1>2 DEF Times
<1> HIDE DEF w, x
<1>4. Quot(Quot(x, 8), w) = Quot(x, WORD)
  <2> DEFINE eight == 8
  <2>1. eight \in Nat \ {0} /\ WORD = Times(w, eight)
    BY <1>3
  <2> HIDE DEF eight
  <2>2. Quot(Quot(x, eight), w) = Quot(x, WORD)
    <3>1. w \in Nat \ {0} /\ x \in Nat
      BY <1>2, <1>3
    <3>2. QED
      BY <2>1, <3>1, QuotTwice
  <2>3. QED
    BY <2>2 DEF eight
<1>5. Quot(x, 8) = n
  BY <1>3, QuotRestUnique
<1>6. QED
  BY <1>4, <1>5 DEF Quot, w, x

\* The last words of a block are given the number of bits, lowest byte first.
LEMMA LengthWritten ==
  ASSUME byte_count \in Nat, NEW b, IsBlock(b)
  PROVE  /\ DOMAIN WithLength(b) = Cells /\ IsBlock(WithLength(b))
         /\ \A q \in 0 .. BLOCK - FIELD - 1 : WithLength(b)[q] = b[q]
         /\ \A q \in BLOCK - FIELD .. BLOCK - 1 :
                WithLength(b)[q] = Byte(Digit(8 * byte_count, q - (BLOCK - FIELD)))
<1> DEFINE x == 8 * byte_count
           low == (8 * byte_count) % WORD
           high == byte_count \div (WORD \div 8) % WORD
           Cell(q) == IF q < BLOCK - FIELD THEN b[q]
                      ELSE IF q < BLOCK - FIELD \div 2
                      THEN Byte(low \div Power[q - (BLOCK - FIELD)] % BYTE)
                      ELSE Byte(high \div Power[q - (BLOCK - FIELD \div 2)] % BYTE)
<1>1. WithLength(b) = [q \in Cells |-> Cell(q)]
  <2>1. DOMAIN b = Cells
    BY DEF IsBlock
  <2>2. QED
    BY <2>1 DEF WithLength
<1>2. /\ Half \in Nat \ {0} /\ FIELD = Half + Half /\ FIELD \in Nat /\ FIELD < BLOCK
      /\ BLOCK \in Nat /\ WORD = Power[Half] /\ WORD \in Nat \ {0} /\ x \in Nat
  BY Halves, Sizes
<1>3. low = Rest(x, WORD) /\ high = Rest(Quot(x, WORD), WORD)
  <2>1. byte_count \div (WORD \div 8) = Quot(x, WORD)
    BY HighWord
  <2>2. QED
    BY <2>1 DEF Rest
<1>4. \A v, k : v \div Power[k] % BYTE = Digit(v, k)
  BY DEF Digit, Quot, Rest
<1> HIDE DEF x, low, high
<1>5. ASSUME NEW k \in 0 .. Half - 1
      PROVE  Digit(low, k) = Digit(x, k) /\ Digit(high, k) = Digit(x, Half + k)
  <2>1. Digit(Rest(x, Power[Half]), k) = Digit(x, k)
    BY <1>2, LowDigits
  <2> DEFINE y == Quot(x, WORD)
  <2>2. y \in Nat
    BY <1>2, QuotRest
  <2> HIDE DEF y
  <2>3. Digit(Rest(y, Power[Half]), k) = Digit(y, k)
    BY <1>2, <2>2, LowDigits
  <2>4. Digit(Quot(x, Power[Half]), k) = Digit(x, Half + k)
    BY <1>2, HighDigits
  <2>5. QED
    BY <1>2, <1>3, <2>1, <2>3, <2>4 DEF y
<1>6. ASSUME NEW q \in BLOCK - FIELD .. BLOCK - 1
      PROVE  Cell(q) = Byte(Digit(x, q - (BLOCK - FIELD)))
  <2>1. FIELD \div 2 = Half
    BY DEF Half
  <2>2. CASE q < BLOCK - Half
    <3> DEFINE k == q - (BLOCK - FIELD)
    <3>1. k \in 0 .. Half - 1 /\ ~(q < BLOCK - FIELD)
      BY <1>2, <2>2
    <3>2. Cell(q) = Byte(low \div Power[k] % BYTE)
      BY <2>1, <2>2, <3>1
    <3> HIDE DEF k
    <3>3. QED
      BY <1>4, <1>5, <3>1, <3>2 DEF k
  <2>3. CASE ~(q < BLOCK - Half)
    <3> DEFINE k == q - (BLOCK - Half)
    <3>1. k \in 0 .. Half - 1 /\ ~(q < BLOCK - FIELD) /\ Half + k = q - (BLOCK - FIELD)
      BY <1>2, <2>3
    <3>2. Cell(q) = Byte(high \div Power[k] % BYTE)
      BY <2>1, <2>3, <3>1
    <3> HIDE DEF k
    <3>3. Cell(q) = Byte(Digit(x, Half + k))
      BY <1>4, <1>5, <3>1, <3>2
    <3>4. QED
      BY <3>1, <3>3
  <2>4. QED
    BY <2>2, <2>3
<1>7. \A q \in 0 .. BLOCK - FIELD - 1 : Cell(q) = b[q] /\ q \in Cells
  BY <1>2 DEF Cells
<1>8. \A q \in BLOCK - FIELD .. BLOCK - 1 : q \in Cells
  BY <1>2 DEF Cells
<1> HIDE DEF Cell
<1>9. QED
  BY <1>1, <1>6, <1>7, <1>8, Zenon DEF IsBlock, x

-----------------------------------------------------------------------------
(* The last blocks *)

\* Block j of the padded message.
Ending(j) == [q \in Cells |-> Message!Padded(byte_count, (j - 1) * BLOCK + q)]

LEMMA SamePower == Message!Power = Power
  BY Zenon DEF Message!Power, Power

\* Byte p of the padded message, the message ending in block c + 1 and the
\* padding in block d.
LEMMA PaddedByte ==
  ASSUME byte_count \in Nat, NEW d \in Nat, Message!BlockCount(byte_count) = d, NEW p \in Nat
  PROVE  LET end == d * BLOCK - FIELD
         IN  /\ p < byte_count => Message!Padded(byte_count, p) = Data(p)
             /\ p = byte_count => Message!Padded(byte_count, p) = Byte(128)
             /\ (p > byte_count /\ p < end) => Message!Padded(byte_count, p) = Byte(0)
             /\ (p > byte_count /\ p >= end) =>
                    Message!Padded(byte_count, p) = Byte(Digit(8 * byte_count, p - end))
<1> DEFINE n == byte_count
           end == d * BLOCK - FIELD
           digit == Byte(Digit(8 * n, p - end))
<1>1. end \in Int
  BY Halves, Sizes, Z3
<1>2. digit = Message!Byte((8 * n) \div Message!Power[p - end] % BYTE)
  BY SamePower, Zenon DEF Digit, Quot, Rest, Byte, Message!Byte
<1>3. Message!Padded(n, p) = CASE p < n            -> Data(p)
                               [] p = n            -> Byte(128)
                               [] p > n /\ p < end -> Byte(0)
                               [] OTHER            -> digit
  BY <1>2, Zenon DEF Message!Padded, Message!Data, Message!Byte, Data, Byte
<1> HIDE DEF n, end, digit
<1>4. n \in Nat
  BY DEF n
<1>5. /\ p < n => Message!Padded(n, p) = Data(p)
      /\ p = n => Message!Padded(n, p) = Byte(128)
      /\ (p > n /\ p < end) => Message!Padded(n, p) = Byte(0)
      /\ (p > n /\ p >= end) => Message!Padded(n, p) = digit
  BY <1>1, <1>3, <1>4
<1>6. QED
  BY <1>5 DEF n, end, digit

\* The number of blocks, told from the room in the last one of the message.
LEMMA BlockCountIs ==
  ASSUME byte_count \in Nat
  PROVE  Message!BlockCount(byte_count) = IF Spills THEN Compressed + 2 ELSE Compressed + 1
<1>1. /\ Compressed \in Nat /\ Offset \in 0 .. BLOCK - 1 /\ Room = BLOCK - Offset
      /\ byte_count = Times(Compressed, BLOCK) + Offset
  BY Waiting, Sizes, Z3 DEF Start, Times, Room
<1>2. BLOCK \in Nat \ {0} /\ FIELD \in Nat /\ FIELD < BLOCK
  BY Halves, Sizes
<1>3. byte_count + FIELD \in Nat
  BY <1>2
<1>4. Message!BlockCount(byte_count) = Quot(byte_count + FIELD, BLOCK) + 1
  BY DEF Message!BlockCount, Quot
<1> DEFINE c == Compressed
           t == Times(c, BLOCK)
<1>5. c \in Nat /\ t \in Nat /\ Times(c + 1, BLOCK) = t + BLOCK
  BY <1>1, <1>2, TimesType, TimesNext
<1>6. CASE Spills
  <2> DEFINE r == (Offset + FIELD) - BLOCK
             x == byte_count + FIELD
             a == c + 1
  <2>1. r \in 0 .. BLOCK - 1 /\ x = Times(a, BLOCK) + r /\ a \in Nat /\ x \in Nat
    BY <1>1, <1>2, <1>5, <1>6 DEF Spills
  <2> HIDE DEF r, x, a
  <2>2. Quot(x, BLOCK) = a
    BY <1>2, <2>1, QuotRestUnique
  <2>3. QED
    BY <1>1, <1>4, <1>6, <2>2 DEF x, a
<1>7. CASE ~Spills
  <2> DEFINE r == Offset + FIELD
             x == byte_count + FIELD
  <2>1. r \in 0 .. BLOCK - 1 /\ x = Times(c, BLOCK) + r /\ x \in Nat
    BY <1>1, <1>2, <1>5, <1>7 DEF Spills
  <2> HIDE DEF r, x
  <2>2. Quot(x, BLOCK) = c
    BY <1>2, <1>5, <2>1, QuotRestUnique
  <2>3. QED
    BY <1>1, <1>4, <1>7, <2>2 DEF x
<1>8. QED
  BY <1>6, <1>7

\* Before its mark the message is not padded.
LEMMA PlainIsTail ==
  ASSUME byte_count \in Nat, NEW j \in 1 .. Compressed
  PROVE  Plain(j) = Ending(j)
<1>1. /\ Compressed \in Nat /\ byte_count \in Nat /\ byte_count >= Times(Compressed, BLOCK)
      /\ BLOCK \in Nat
  BY Waiting, Sizes, Z3 DEF Start, Times
<1>2. Message!BlockCount(byte_count) \in Nat
  BY <1>1, BlockCountIs
<1>3. j \in Nat /\ j - 1 \in Nat /\ j <= Compressed /\ (j - 1) + 1 = j
  BY <1>1
<1>4. /\ Times(j - 1, BLOCK) \in Nat /\ Times(j, BLOCK) <= Times(Compressed, BLOCK)
      /\ Times(j, BLOCK) = Times(j - 1, BLOCK) + BLOCK
      /\ Times(j, BLOCK) \in Nat /\ Times(Compressed, BLOCK) \in Nat
  <2> DEFINE i == j - 1
  <2>1. i \in Nat /\ i + 1 = j
    BY <1>3
  <2> HIDE DEF i
  <2>2. Times(i, BLOCK) \in Nat /\ Times(i + 1, BLOCK) = Times(i, BLOCK) + BLOCK
    BY <1>1, <2>1, TimesType, TimesNext
  <2>3. Times(j, BLOCK) <= Times(Compressed, BLOCK) /\ Times(j, BLOCK) \in Nat /\ Times(Compressed, BLOCK) \in Nat
    BY <1>1, <1>3, TimesType, TimesGrows
  <2>4. QED
    BY <2>1, <2>2, <2>3 DEF i
<1>5. (j - 1) * BLOCK = Times(j - 1, BLOCK)
  BY DEF Times
<1>6. ASSUME NEW q \in Cells
      PROVE  Message!Padded(byte_count, (j - 1) * BLOCK + q) = Data((j - 1) * BLOCK + q)
  <2> DEFINE p == (j - 1) * BLOCK + q
  <2>1. p \in Nat /\ p < byte_count
    BY <1>1, <1>4, <1>5 DEF Cells
  <2> HIDE DEF p
  <2>2. Message!Padded(byte_count, p) = Data(p)
    BY <1>2, <2>1, PaddedByte
  <2>3. QED
    BY <2>2 DEF p
<1>7. QED
  BY <1>6, Zenon DEF Plain, Ending

\* The block with the mark behind the message.
LEMMA MarkedIs ==
  ASSUME IInv, phase = "open"
  PROVE  /\ IsBlock(Marked)
         /\ \A q \in 0 .. Offset - 1 : Marked[q] = Data(Start + q)
         /\ Marked[Offset] = Byte(128)
<1>1. /\ Offset \in 0 .. BLOCK - 1 /\ byte_count = Start + Offset /\ Start \in Nat /\ BLOCK \in Nat
  BY Waiting, Sizes DEF IInv
<1>2. block = [q \in Cells |-> block[q]] /\ Offset \in Cells
  BY <1>1 DEF IInv, IsBlock, Cells
<1>3. \A q \in 0 .. Offset - 1 : block[q] = Data(Start + q)
  <2>1. byte_count - Offset = Start
    BY <1>1
  <2>2. QED
    BY <2>1 DEF IInv, Buffered
<1>4. \A q \in 0 .. Offset - 1 : q \in Cells /\ q # Offset
  BY <1>1 DEF Cells
<1> HIDE DEF Byte
<1>5. IsBlock(Marked) /\ Marked[Offset] = Byte(128)
  BY <1>2 DEF Marked, IsBlock
<1>6. \A q \in 0 .. Offset - 1 : Marked[q] = block[q]
  BY <1>2, <1>4 DEF Marked
<1>7. QED
  BY <1>3, <1>5, <1>6

LEMMA Cleared ==
  ASSUME NEW b, IsBlock(b), NEW S
  PROVE  /\ IsBlock(Clear(b, S))
         /\ \A q \in Cells : Clear(b, S)[q] = IF q \in S THEN Byte(0) ELSE b[q]
<1>1. DOMAIN b = Cells
  BY DEF IsBlock
<1>2. QED
  BY <1>1 DEF IsBlock, Clear

\* A block that has the bytes of the padded message is the one of the message.
LEMMA SameTail ==
  ASSUME byte_count \in Nat, NEW b, IsBlock(b), NEW k \in Nat, NEW m, m = Times(k, BLOCK),
         \A q \in Cells : b[q] = Message!Padded(byte_count, m + q)
  PROVE  b = Ending(k + 1)
<1>1. ((k + 1) - 1) * BLOCK = m
  BY Sizes DEF Times
<1>2. QED
  BY <1>1, Zenon DEF Ending, IsBlock

\* The blocks that final compresses are the last ones of the padded message.
LEMMA LastIsTail ==
  ASSUME IInv, phase = "open", ~Spills
  PROVE  LastBlocks = <<Ending(Compressed + 1)>>
<1> DEFINE b == Clear(Marked, Offset + 1 .. BLOCK - FIELD - 1)
           d == Compressed + 1
           end == d * BLOCK - FIELD
<1>1. /\ Compressed \in Nat /\ Start \in Nat /\ Offset \in 0 .. BLOCK - 1
      /\ byte_count = Start + Offset /\ byte_count \in Nat /\ Room = BLOCK - Offset
      /\ BLOCK \in Nat /\ FIELD \in Nat /\ FIELD < BLOCK
  BY Waiting, Sizes, Halves DEF IInv, Room
<1>2. d \in Nat /\ Message!BlockCount(byte_count) = d
  BY <1>1, BlockCountIs
<1>3. end = Start + (BLOCK - FIELD) /\ Start = Times(Compressed, BLOCK)
  BY <1>1, Z3 DEF Start, Times
<1>4. Offset < BLOCK - FIELD
  BY <1>1 DEF Spills
<1>5. /\ IsBlock(b)
      /\ \A q \in Cells : b[q] = IF q \in Offset + 1 .. BLOCK - FIELD - 1 THEN Byte(0) ELSE Marked[q]
  <2>1. IsBlock(Marked)
    BY MarkedIs
  <2>2. QED
    BY <2>1, Cleared, ZenonT(40)
<1> HIDE DEF b
<1>6. /\ IsBlock(WithLength(b))
      /\ \A q \in 0 .. BLOCK - FIELD - 1 : WithLength(b)[q] = b[q]
      /\ \A q \in BLOCK - FIELD .. BLOCK - 1 :
             WithLength(b)[q] = Byte(Digit(8 * byte_count, q - (BLOCK - FIELD)))
  BY <1>1, <1>5, LengthWritten
<1>7. ASSUME NEW q \in Cells
      PROVE  WithLength(b)[q] = Message!Padded(byte_count, Start + q)
  <2> DEFINE p == Start + q
  <2>1. p \in Nat /\ q \in 0 .. BLOCK - 1
    BY <1>1 DEF Cells
  <2> HIDE DEF p, d, end
  <2>2. /\ p < byte_count => Message!Padded(byte_count, p) = Data(p)
        /\ p = byte_count => Message!Padded(byte_count, p) = Byte(128)
        /\ (p > byte_count /\ p < end) => Message!Padded(byte_count, p) = Byte(0)
        /\ (p > byte_count /\ p >= end) =>
               Message!Padded(byte_count, p) = Byte(Digit(8 * byte_count, p - end))
    BY <1>1, <1>2, <2>1, PaddedByte DEF end
  <2>3. CASE q < Offset
    <3>1. WithLength(b)[q] = Marked[q] /\ Marked[q] = Data(p)
      BY <1>1, <1>4, <1>5, <1>6, <2>1, <2>3, MarkedIs DEF p
    <3>2. p < byte_count
      BY <1>1, <2>1, <2>3 DEF p
    <3>3. QED
      BY <2>2, <3>1, <3>2 DEF p
  <2>4. CASE q = Offset
    <3>1. WithLength(b)[q] = Marked[q] /\ Marked[q] = Byte(128)
      BY <1>1, <1>4, <1>5, <1>6, <2>1, <2>4, MarkedIs
    <3>2. p = byte_count
      BY <1>1, <2>4 DEF p
    <3>3. QED
      BY <2>2, <3>1, <3>2 DEF p
  <2>5. CASE q > Offset /\ q < BLOCK - FIELD
    <3>1. WithLength(b)[q] = Byte(0)
      BY <1>1, <1>5, <1>6, <2>1, <2>5
    <3>2. p > byte_count /\ p < end
      BY <1>1, <1>3, <2>1, <2>5 DEF p
    <3>3. QED
      BY <2>2, <3>1, <3>2 DEF p
  <2>6. CASE q >= BLOCK - FIELD
    <3>1. WithLength(b)[q] = Byte(Digit(8 * byte_count, q - (BLOCK - FIELD)))
      BY <1>1, <1>6, <2>1, <2>6
    <3>2. p > byte_count /\ p >= end /\ p - end = q - (BLOCK - FIELD)
      BY <1>1, <1>3, <1>4, <2>1, <2>6 DEF p
    <3>3. QED
      BY <2>2, <3>1, <3>2 DEF p
  <2>7. QED
    BY <1>1, <2>1, <2>3, <2>4, <2>5, <2>6
<1>8. WithLength(b) = Ending(Compressed + 1)
  <2> HIDE DEF d, end
  <2>1. QED
    BY <1>1, <1>3, <1>6, <1>7, SameTail
<1>9. QED
  BY <1>8 DEF LastBlocks, b

LEMMA SpilledIsTail ==
  ASSUME IInv, phase = "open", Spills
  PROVE  LastBlocks = <<Ending(Compressed + 1), Ending(Compressed + 2)>>
<1> DEFINE first == Clear(Marked, Offset + 1 .. BLOCK - 1)
           b == Clear(first, 0 .. BLOCK - FIELD - 1)
           c == Compressed + 1
           d == Compressed + 2
           end == d * BLOCK - FIELD
           next == Start + BLOCK
<1>1. /\ Compressed \in Nat /\ Start \in Nat /\ Offset \in 0 .. BLOCK - 1
      /\ byte_count = Start + Offset /\ byte_count \in Nat
      /\ BLOCK \in Nat /\ FIELD \in Nat /\ FIELD < BLOCK
  BY Waiting, Sizes, Halves DEF IInv
<1>2. d \in Nat /\ Message!BlockCount(byte_count) = d /\ c \in Nat /\ c + 1 = d
  BY <1>1, BlockCountIs
<1>3. /\ end = next + (BLOCK - FIELD) /\ Start = Times(Compressed, BLOCK)
      /\ next = Times(c, BLOCK)
  BY <1>1, Z3 DEF Start, Times
<1>4. /\ IsBlock(first)
      /\ \A q \in Cells : first[q] = IF q \in Offset + 1 .. BLOCK - 1 THEN Byte(0) ELSE Marked[q]
  <2>1. IsBlock(Marked)
    BY MarkedIs
  <2>2. QED
    BY <2>1, Cleared, ZenonT(40)
<1> HIDE DEF first
<1>5. /\ IsBlock(b)
      /\ \A q \in Cells : b[q] = IF q \in 0 .. BLOCK - FIELD - 1 THEN Byte(0) ELSE first[q]
  <2>1. IsBlock(first)
    BY <1>4
  <2>2. QED
    BY <2>1, Cleared, ZenonT(40)
<1> HIDE DEF b
<1>6. /\ IsBlock(WithLength(b))
      /\ \A q \in 0 .. BLOCK - FIELD - 1 : WithLength(b)[q] = b[q]
      /\ \A q \in BLOCK - FIELD .. BLOCK - 1 :
             WithLength(b)[q] = Byte(Digit(8 * byte_count, q - (BLOCK - FIELD)))
  BY <1>1, <1>5, LengthWritten
<1>7. ASSUME NEW p \in Nat
      PROVE  /\ p < byte_count => Message!Padded(byte_count, p) = Data(p)
             /\ p = byte_count => Message!Padded(byte_count, p) = Byte(128)
             /\ (p > byte_count /\ p < end) => Message!Padded(byte_count, p) = Byte(0)
             /\ (p > byte_count /\ p >= end) =>
                    Message!Padded(byte_count, p) = Byte(Digit(8 * byte_count, p - end))
  <2> HIDE DEF d, end
  <2>1. QED
    BY <1>1, <1>2, PaddedByte DEF end
<1>8. end \in Nat /\ next \in Nat
  BY <1>1, <1>3
<1> HIDE DEF c, d, end, next
<1>9. ASSUME NEW q \in Cells
      PROVE  first[q] = Message!Padded(byte_count, Start + q)
  <2> DEFINE p == Start + q
  <2>1. p \in Nat /\ q \in 0 .. BLOCK - 1 /\ p < end
    BY <1>1, <1>3 DEF Cells, next
  <2> HIDE DEF p
  <2>2. CASE q < Offset
    <3>1. first[q] = Data(p) /\ p < byte_count
      BY <1>1, <1>4, <2>1, <2>2, MarkedIs DEF p
    <3>2. QED
      BY <1>7, <2>1, <3>1 DEF p
  <2>3. CASE q = Offset
    <3>1. first[q] = Byte(128) /\ p = byte_count
      BY <1>1, <1>4, <2>1, <2>3, MarkedIs DEF p
    <3>2. QED
      BY <1>7, <2>1, <3>1 DEF p
  <2>4. CASE q > Offset
    <3>1. first[q] = Byte(0) /\ p > byte_count
      BY <1>1, <1>4, <2>1, <2>4 DEF p
    <3>2. QED
      BY <1>7, <2>1, <3>1 DEF p
  <2>5. QED
    BY <1>1, <2>1, <2>2, <2>3, <2>4
<1>10. ASSUME NEW q \in Cells
       PROVE  WithLength(b)[q] = Message!Padded(byte_count, next + q)
  <2> DEFINE p == next + q
  <2>1. p \in Nat /\ q \in 0 .. BLOCK - 1 /\ p > byte_count
    BY <1>1, <1>8 DEF Cells, next
  <2> HIDE DEF p
  <2>2. CASE q < BLOCK - FIELD
    <3>1. WithLength(b)[q] = Byte(0)
      BY <1>1, <1>5, <1>6, <2>1, <2>2
    <3>2. p < end
      BY <1>1, <1>3, <1>8, <2>1, <2>2 DEF p
    <3>3. QED
      BY <1>7, <2>1, <3>1, <3>2 DEF p
  <2>3. CASE q >= BLOCK - FIELD
    <3>1. WithLength(b)[q] = Byte(Digit(8 * byte_count, q - (BLOCK - FIELD)))
      BY <1>1, <1>6, <2>1, <2>3
    <3>2. p >= end /\ p - end = q - (BLOCK - FIELD)
      BY <1>1, <1>3, <1>8, <2>1, <2>3 DEF p
    <3>3. QED
      BY <1>7, <2>1, <3>1, <3>2 DEF p
  <2>4. QED
    BY <1>1, <2>1, <2>2, <2>3
<1>11. first = Ending(Compressed + 1) /\ WithLength(b) = Ending(c + 1)
  BY <1>1, <1>2, <1>3, <1>4, <1>6, <1>9, <1>10, SameTail
<1>12. QED
  BY <1>2, <1>11 DEF LastBlocks, first, b, d

\* The blocks compressed and the last ones are those of the padded message.
LEMMA DigestIsMessage ==
  ASSUME IInv, phase = "open"
  PROVE  hash \o LastBlocks = Message!Blocks(byte_count)
<1> DEFINE n == Compressed
           w == IF Spills THEN 2 ELSE 1
           f == [j \in Nat |-> Ending(j)]
<1>1. n \in Nat /\ w \in Nat /\ byte_count \in Nat
  BY Waiting DEF IInv
<1>2. Message!BlockCount(byte_count) = n + w
  BY <1>1, BlockCountIs
<1>3. hash = [j \in 1 .. n |-> f[j]]
  <2>1. hash = [j \in 1 .. n |-> Plain(j)]
    BY Zenon DEF IInv, Buffered, Plain, Compressed
  <2>2. \A j \in 1 .. n : Plain(j) = f[j]
    BY <1>1, PlainIsTail
  <2> HIDE DEF f, n
  <2>3. QED
    BY <2>1, <2>2, Zenon
<1>4. LastBlocks = [j \in 1 .. w |-> f[n + j]]
  <2>1. CASE Spills
    <3>1. LastBlocks = <<Ending(n + 1), Ending(n + 2)>>
      BY <2>1, SpilledIsTail
    <3> HIDE DEF n
    <3>2. [j \in 1 .. 2 |-> Ending(n + j)] = <<Ending(n + 1), Ending(n + 2)>>
      OBVIOUS
    <3>3. \A j \in 1 .. 2 : f[n + j] = Ending(n + j)
      BY <1>1
    <3>4. QED
      BY <2>1, <3>1, <3>2, <3>3
  <2>2. CASE ~Spills
    <3>1. LastBlocks = <<Ending(n + 1)>>
      BY <2>2, LastIsTail
    <3> HIDE DEF n
    <3>2. [j \in 1 .. 1 |-> Ending(n + j)] = <<Ending(n + 1)>>
      OBVIOUS
    <3>3. \A j \in 1 .. 1 : f[n + j] = Ending(n + j)
      BY <1>1
    <3>4. QED
      BY <2>2, <3>1, <3>2, <3>3
  <2>3. QED
    BY <2>1, <2>2
<1> HIDE DEF w
<1>5. Message!Blocks(byte_count) = [j \in 1 .. n + w |-> f[j]]
  <2>1. Message!Blocks(byte_count) = [j \in 1 .. n + w |-> Ending(j)]
    BY <1>2, Zenon DEF Message!Blocks, Ending, Cells
  <2>2. \A j \in 1 .. n + w : f[j] = Ending(j)
    BY <1>1
  <2> HIDE DEF f, n
  <2>3. QED
    BY <2>1, <2>2, Zenon
<1> HIDE DEF f, n
<1>6. [j \in 1 .. n |-> f[j]] \o [j \in 1 .. w |-> f[n + j]] = [j \in 1 .. n + w |-> f[j]]
  BY <1>1, Joined
<1>7. QED
  BY <1>3, <1>4, <1>5, <1>6

-----------------------------------------------------------------------------
(* The theorems on types and on the message *)

LEMMA BeginType ==
  ASSUME TypeOK, Begin
  PROVE  TypeOK'
  BY DEF TypeOK, Begin

LEMMA UpdateType ==
  ASSUME TypeOK, NEW n \in Pieces, Update(n)
  PROVE  TypeOK'
<1> DEFINE full == Copy(block, Offset, byte_count, Room)
           whole == (n - Room) \div BLOCK
           rest == (n - Room) % BLOCK
           Whole(j) == Copy(full, 0, byte_count + Room + (j - 1) * BLOCK, BLOCK)
           last == IF whole = 0 THEN full ELSE Whole(whole)
           blocks == [j \in 1 .. whole |-> Whole(j)]
<1>1. /\ hash \in Seq(Contents) /\ block \in Contents /\ byte_count \in Nat /\ n \in Nat
      /\ phase' \in {"idle", "open", "done"} /\ byte_count' = byte_count + n
  BY Sizes DEF TypeOK, Contents, Update
<1>2. Offset \in Nat /\ Room \in 1 .. BLOCK /\ Offset + Room = BLOCK /\ BLOCK \in Nat \ {0}
  BY <1>1, Waiting, Sizes
<1>3. CASE UpdateShort(n)
  <2>1. Copy(block, Offset, byte_count, n) \in Contents
    <3>1. Offset + n <= BLOCK
      BY <1>1, <1>2, <1>3 DEF UpdateShort
    <3>2. QED
      BY <1>1, <1>2, <3>1, CopyType
  <2>2. QED
    BY <1>1, <1>3, <2>1 DEF TypeOK, Contents, UpdateShort
<1>4. CASE UpdateLong(n)
  <2>1. full \in Contents
    <3>1. Offset + Room <= BLOCK /\ Room \in Nat
      BY <1>2
    <3>2. QED
      BY <1>1, <1>2, <3>1, CopyType
  <2>2. whole \in Nat /\ rest \in Nat /\ rest <= BLOCK /\ rest <= n
    <3> DEFINE x == n - Room
    <3>1. x \in Nat /\ x <= n
      BY <1>1, <1>2, <1>4 DEF UpdateLong
    <3> HIDE DEF x
    <3>2. x \div BLOCK \in Nat /\ x % BLOCK \in 0 .. BLOCK - 1 /\ x = BLOCK * (x \div BLOCK) + (x % BLOCK)
      BY <1>2, <3>1, Division
    <3>3. BLOCK * (x \div BLOCK) >= 0
      BY <1>2, <3>2, Z3
    <3>4. QED
      BY <1>1, <1>2, <3>1, <3>2, <3>3 DEF x
  <2> HIDE DEF full
  <2>3. ASSUME NEW j \in 1 .. whole PROVE Whole(j) \in Contents
    <3> DEFINE p == byte_count + Room + (j - 1) * BLOCK
    <3>1. p \in Nat
      <4>1. (j - 1) * BLOCK \in Nat
        BY <1>2, <2>2, Z3
      <4>2. QED
        BY <1>1, <1>2, <4>1
    <3> HIDE DEF p
    <3>2. Copy(full, 0, p, BLOCK) \in Contents
      BY <1>2, <2>1, <3>1, CopyType
    <3>3. QED
      BY <3>2 DEF p
  <2>4. last \in Contents
    BY <2>1, <2>2, <2>3
  <2>5. blocks \in Seq(Contents) /\ <<full>> \in Seq(Contents)
    BY <2>1, <2>2, <2>3
  <2>6. Copy(last, 0, byte_count + n - rest, rest) \in Contents
    <3> DEFINE p == byte_count + n - rest
    <3>1. p \in Nat /\ 0 + rest <= BLOCK
      BY <1>1, <2>2
    <3> HIDE DEF p, last, rest
    <3>2. QED
      BY <2>2, <2>4, <3>1, CopyType DEF p
  <2>7. /\ hash' = hash \o <<full>> \o blocks
        /\ block' = Copy(last, 0, byte_count + n - rest, rest)
    BY <1>4 DEF UpdateLong, full
  <2> HIDE DEF blocks, last, rest, whole
  <2>8. hash' \in Seq(Contents)
    BY <1>1, <2>5, <2>7
  <2>9. QED
    BY <1>1, <2>6, <2>7, <2>8 DEF TypeOK, Contents
<1>5. QED
  BY <1>3, <1>4 DEF Update

\* The bytes of a block with the length written are numbers.
LEMMA LengthType ==
  ASSUME byte_count \in Nat, NEW b \in Contents
  PROVE  WithLength(b) \in Contents
<1>1. IsBlock(b)
  BY BlockType
<1>2. BLOCK \in Nat /\ FIELD \in Nat /\ FIELD < BLOCK /\ BYTE \in Nat \ {0}
  BY Sizes, Halves
<1>3. /\ IsBlock(WithLength(b))
      /\ \A q \in 0 .. BLOCK - FIELD - 1 : WithLength(b)[q] = b[q]
      /\ \A q \in BLOCK - FIELD .. BLOCK - 1 :
             WithLength(b)[q] = Byte(Digit(8 * byte_count, q - (BLOCK - FIELD)))
  BY <1>1, LengthWritten
<1>4. ASSUME NEW q \in Cells PROVE WithLength(b)[q] \in {"data", "byte", "junk"} \X Nat
  <2>1. q \in 0 .. BLOCK - 1
    BY DEF Cells
  <2>2. CASE q < BLOCK - FIELD
    BY <1>2, <1>3, <2>1, <2>2 DEF Contents
  <2>3. CASE ~(q < BLOCK - FIELD)
    <3> DEFINE k == q - (BLOCK - FIELD)
               x == 8 * byte_count
    <3>1. k \in Nat /\ x \in Nat
      BY <1>2, <2>1, <2>3
    <3>2. Digit(x, k) \in Nat
      <4> HIDE DEF k, x
      <4>1. Power[k] \in Nat \ {0}
        BY <3>1, PowerIs
      <4>2. Quot(x, Power[k]) \in Nat
        BY <3>1, <4>1, QuotRest
      <4>3. Rest(Quot(x, Power[k]), BYTE) \in 0 .. BYTE - 1
        BY <1>2, <4>2, QuotRest
      <4>4. QED
        BY <1>2, <4>3 DEF Digit
    <3>3. WithLength(b)[q] = Byte(Digit(x, k))
      BY <1>2, <1>3, <2>1, <2>3
    <3>4. QED
      BY <3>2, <3>3 DEF Byte
  <2>4. QED
    BY <2>2, <2>3
<1>5. QED
  BY <1>3, <1>4 DEF IsBlock, Contents

LEMMA FinalType ==
  ASSUME TypeOK, Final
  PROVE  TypeOK'
<1>1. /\ hash \in Seq(Contents) /\ block \in Contents /\ byte_count \in Nat
  BY DEF TypeOK, Contents
<1>2. Marked \in Contents
  BY <1>1, ZenonT(40) DEF Marked, Contents, Byte
<1>3. LastBlocks \in Seq(Contents)
  <2>1. CASE Spills
    <3> DEFINE first == Clear(Marked, Offset + 1 .. BLOCK - 1)
    <3>1. first \in Contents
      BY <1>2, ClearType
    <3> HIDE DEF first
    <3>2. WithLength(Clear(first, 0 .. BLOCK - FIELD - 1)) \in Contents
      BY <1>1, <3>1, ClearType, LengthType
    <3>3. LastBlocks = <<first, WithLength(Clear(first, 0 .. BLOCK - FIELD - 1))>>
      BY <2>1 DEF LastBlocks, first
    <3>4. QED
      BY <3>1, <3>2, <3>3
  <2>2. CASE ~Spills
    <3>1. WithLength(Clear(Marked, Offset + 1 .. BLOCK - FIELD - 1)) \in Contents
      BY <1>1, <1>2, ClearType, LengthType
    <3>2. LastBlocks = <<WithLength(Clear(Marked, Offset + 1 .. BLOCK - FIELD - 1))>>
      BY <2>2 DEF LastBlocks
    <3>3. QED
      BY <3>1, <3>2
  <2>3. QED
    BY <2>1, <2>2
<1>4. hash' \in Seq(Contents) /\ block' \in Contents
  BY <1>1, <1>3 DEF Final, Contents, Byte
<1>5. QED
  BY <1>1, <1>4 DEF TypeOK, Contents, Final

\* Every copy of update and final ends inside the block, for every size of the
\* block and every cut of the message, and only whole blocks are compressed.
THEOREM TypeCorrect == Spec => []TypeOK
<1>1. Init => TypeOK
  BY DEF Init, TypeOK, Junk
<1>2. TypeOK /\ [Next]_vars => TypeOK'
  <2> SUFFICES ASSUME TypeOK, [Next]_vars PROVE TypeOK'
    OBVIOUS
  <2>1. CASE UNCHANGED vars
    BY <2>1 DEF vars, TypeOK
  <2>2. QED
    BY <2>1, BeginType, UpdateType, FinalType DEF Next
<1>3. QED
  BY <1>1, <1>2, PTL DEF Spec

LEMMA NextIsMessage ==
  IInv /\ [Next]_vars => [Message!Next]_<<phase, byte_count, IF phase = "done" THEN hash ELSE << >>>>
<1> SUFFICES ASSUME IInv, Next
             PROVE  Message!Next
  BY DEF vars
<1>1. CASE Begin
  BY <1>1 DEF Begin, Message!Next, Message!Begin
<1>2. ASSUME NEW n \in Pieces, Update(n) PROVE Message!Extend
  <2>1. n \in Nat /\ byte_count \in Nat
    BY Sizes DEF IInv
  <2>2. QED
    BY <1>2, <2>1 DEF Update, Message!Extend
<1>3. CASE Final
  <2>1. hash \o LastBlocks = Message!Blocks(byte_count)
    BY <1>3, DigestIsMessage DEF Final
  <2>2. QED
    BY <1>3, <2>1 DEF Final, Message!Next, Message!Finish
<1>4. QED
  BY <1>1, <1>2, <1>3 DEF Next, Message!Next

\* The digest is that of the padded message, for every block size and base,
\* every length of the message and every way to cut it (hash/md4.c).
THEOREM DigestOfPadded == Spec => ImplementsMessage
<1>1. Init => Message!Init
  BY DEF Init, Message!Init
<1>2. Init => IInv
  BY DEF Init, IInv, Buffered, IsBlock
<1>3. QED
  BY <1>1, <1>2, Inductive, NextIsMessage, PTL DEF Spec, ImplementsMessage, Message!Spec
=============================================================================
