------------------------------- MODULE Md4Stream -------------------------------
(***************************************************************************)
(* The buffering and padding of hash/md4.c: init, update and final on one  *)
(* descriptor.  Bytes wait in a block until it is full; what the block     *)
(* held before is overwritten in place, never cleared.  The compression of *)
(* a block is uninterpreted, and hash is the sequence of the blocks it was *)
(* given.  A byte of the message is told by its position in it, so one     *)
(* model stands for all data.  Words are stored lowest byte first, so the  *)
(* conversions to the processor's order change nothing.                    *)
(***************************************************************************)
EXTENDS Integers, Sequences

CONSTANTS
    BLOCK,     \* bytes of the block, 64
    FIELD,     \* bytes of its last two words, 8
    BYTE,      \* values of a byte, 256; in a message bytes are positions
    Pieces,    \* how many bytes an update passes
    MaxCount   \* bound: bytes of a message

ASSUME SizesAssumption ==
    /\ BLOCK \in Nat /\ FIELD \in Nat /\ BYTE \in Nat
    /\ 1 < BYTE /\ 0 < FIELD /\ FIELD < BLOCK
    /\ FIELD % 2 = 0
    /\ Pieces \subseteq Nat
    /\ MaxCount \in Nat

VARIABLES
    phase,       \* idle: no init yet; open; done: the digest was answered
    hash,        \* the blocks compressed
    block,       \* the bytes of ctx -> block
    byte_count   \* bytes of the message so far

vars == <<phase, hash, block, byte_count>>

Cells == 0 .. BLOCK - 1
Data(p) == <<"data", p>>
Byte(v) == <<"byte", v>>
Junk == <<"junk", 0>>

\* memcpy of n message bytes from position p on to the offset at of block b.  A
\* byte beyond the block would be a cell of its own.
Copy(b, at, p, n) ==
    [q \in Cells \cup at .. at + n - 1 |->
        IF q \in at .. at + n - 1 THEN Data(p + (q - at)) ELSE b[q]]

\* memset of the cells of S.
Clear(b, S) == [q \in DOMAIN b |-> IF q \in S THEN Byte(0) ELSE b[q]]

\* kmalloc gave the descriptor.
Init ==
    /\ phase = "idle"
    /\ hash = << >>
    /\ block = [q \in Cells |-> Junk]
    /\ byte_count = 0

Begin ==
    /\ phase' = "open"
    /\ hash' = << >>
    /\ byte_count' = 0
    /\ UNCHANGED block

-----------------------------------------------------------------------------
(* update *)

Offset == byte_count % BLOCK

\* Mutant of Room: what the block holds already is not looked at.
RoomInEmpty == BLOCK

\* avail_len
Room == BLOCK - Offset

\* Mutant of UpdateShort: a piece that just fills the block stays in it.
UpdateShortOrFull(n) ==
    /\ Room >= n
    /\ block' = Copy(block, Offset, byte_count, n)
    /\ UNCHANGED hash

\* The piece does not fill the block.
UpdateShort(n) ==
    /\ Room > n
    /\ block' = Copy(block, Offset, byte_count, n)
    /\ UNCHANGED hash

\* The block is filled and compressed, then every whole block of the piece, and
\* the rest waits at the start of the block.
UpdateLong(n) ==
    LET full == Copy(block, Offset, byte_count, Room)
        whole == (n - Room) \div BLOCK
        Whole(j) == Copy(full, 0, byte_count + Room + (j - 1) * BLOCK, BLOCK)
        last == IF whole = 0 THEN full ELSE Whole(whole)
        rest == (n - Room) % BLOCK
    IN  /\ Room <= n
        /\ hash' = hash \o <<full>> \o [j \in 1 .. whole |-> Whole(j)]
        /\ block' = Copy(last, 0, byte_count + n - rest, rest)

Update(n) ==
    /\ phase = "open"
    /\ byte_count + n <= MaxCount
    /\ byte_count' = byte_count + n
    /\ UpdateShort(n) \/ UpdateLong(n)
    /\ UNCHANGED phase

-----------------------------------------------------------------------------
(* final *)

\* The weight of byte k of a word.
Power[k \in Nat] == IF k = 0 THEN 1 ELSE BYTE * Power[k - 1]

\* The values of a word.
WORD == Power[FIELD \div 2]

ASSUME WordAssumption == WORD % 8 = 0

\* The last two words: the low and the high half of the number of bits, the
\* shift by 29 being a division by an eighth of the values of a word.
WithLength(b) ==
    LET low == (8 * byte_count) % WORD
        high == byte_count \div (WORD \div 8) % WORD
        ByteOf(w, k) == w \div Power[k] % BYTE
    IN  [q \in DOMAIN b |->
            IF q < BLOCK - FIELD THEN b[q]
            ELSE IF q < BLOCK - FIELD \div 2 THEN Byte(ByteOf(low, q - (BLOCK - FIELD)))
            ELSE Byte(ByteOf(high, q - (BLOCK - FIELD \div 2)))]

Marked == [block EXCEPT ![Offset] = Byte(128)]

\* Mutant of Spills: a mark that leaves just the room for the length spills.
SpillsEarly == Room - 1 <= FIELD

\* The mark leaves no room for the length in this block.
Spills == Room - 1 < FIELD

LastBlocks ==
    IF Spills
    THEN LET first == Clear(Marked, Offset + 1 .. BLOCK - 1)
         IN  <<first, WithLength(Clear(first, 0 .. BLOCK - FIELD - 1))>>
    ELSE <<WithLength(Clear(Marked, Offset + 1 .. BLOCK - FIELD - 1))>>

\* The digest is answered and the descriptor cleared; hash keeps the answer.
Final ==
    /\ phase = "open"
    /\ phase' = "done"
    /\ hash' = hash \o LastBlocks
    /\ block' = [q \in Cells |-> Byte(0)]
    /\ UNCHANGED byte_count

Next ==
    \/ Begin
    \/ \E n \in Pieces : Update(n)
    \/ Final

Spec == Init /\ [][Next]_vars

-----------------------------------------------------------------------------
(* Properties *)

\* Every copy ends inside the block, and what is compressed is a whole block.
TypeOK ==
    LET Contents == [Cells -> {"data", "byte", "junk"} \X Nat]
    IN  /\ phase \in {"idle", "open", "done"}
        /\ hash \in Seq(Contents)
        /\ block \in Contents
        /\ byte_count \in Nat

\* Between two calls the whole blocks of the message so far were compressed, in
\* order and with nothing stale in them, and the rest is at the start of the
\* block, wherever the updates were cut.
Buffered ==
    phase = "open" =>
        /\ hash = [j \in 1 .. byte_count \div BLOCK |->
                      [q \in Cells |-> Data((j - 1) * BLOCK + q)]]
        /\ \A q \in 0 .. Offset - 1 : block[q] = Data(byte_count - Offset + q)

Message == INSTANCE Md4Message
    WITH length <- byte_count, digest <- IF phase = "done" THEN hash ELSE << >>

\* The digest is that of the padded message in the fewest blocks that hold it,
\* for every length and every way to cut it, whatever the descriptor held.
ImplementsMessage == Message!Spec
=============================================================================
