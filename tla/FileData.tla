------------------------------- MODULE FileData -------------------------------
(***************************************************************************)
(* The data of one regular file (file.c): a list of items, each an array   *)
(* of QSET pointers to quanta of QUANTUM bytes, and the size.  Readers,    *)
(* writers and openers of any number of descriptors work on it; the        *)
(* position of one descriptor is followed through its calls, the others    *)
(* come with any position.                                                 *)
(*                                                                         *)
(* read, write and the trim in open hold the file's mutex from end to end, *)
(* so each is one step.  Any kmalloc may fail.  A call that is interrupted *)
(* while it waits for the mutex changes nothing and is not a step.         *)
(*                                                                         *)
(* An item whose data pointer is NULL and one whose pointers are all NULL  *)
(* are told apart by no call and are one value here.                       *)
(***************************************************************************)
EXTENDS Integers, Sequences

CONSTANTS
    QUANTUM,   \* LKE_FILE_QUANTUM, bytes in a quantum
    QSET,      \* LKE_FILE_QSET, quanta in an item
    INTS,      \* the non-negative values of an int, 2^31
    Payloads,  \* the data that writers pass, sequences of numbers
    Counts,    \* the byte counts that readers pass
    Seeks,     \* the offsets that seekers pass
    NULL,      \* the null pointer
    JUNK,      \* what kmalloc leaves in a byte
    MaxPos,    \* bound: no call starts behind this position
    MaxWrites  \* bound: writes that reach the copy

ASSUME SizesAssumption ==
    /\ QUANTUM \in Nat \ {0}
    /\ QSET \in Nat \ {0}
    /\ INTS \in Nat \ {0}
    /\ Seeks \subseteq Int
    /\ MaxPos \in Nat
    /\ MaxWrites \in Nat

ASSUME InputsAssumption == Payloads \subseteq Seq(Nat) /\ Counts \subseteq Nat

\* A quantum is not the null pointer.
ASSUME NullAssumption == NULL \notin [0 .. QUANTUM - 1 -> Nat \cup {JUNK}]

VARIABLES
    items,    \* the list lke_file_entity -> data
    size,     \* lke_file_entity -> size
    f_pos,    \* the position of the descriptor that is followed
    answer,   \* history: the last call, whether it came through that
              \* descriptor, its position, the bytes it asked for and moved
    writes    \* history: how many writes reached the copy

vars == <<items, size, f_pos, answer, writes>>

ItemSize == QSET * QUANTUM
Quanta == 0 .. QSET - 1
Offsets == 0 .. QUANTUM - 1
EmptyItem == [s \in Quanta |-> NULL]
NewQuantum == [q \in Offsets |-> JUNK]

\* item is an int: the quotient wraps, and to a negative item the list is
\* followed no step, as to item 0.
ItemOf(pos) ==
    LET wrapped == (pos \div ItemSize) % (2 * INTS)
    IN  IF wrapped < INTS THEN wrapped ELSE 0
QuantumOf(pos) == (pos % ItemSize) \div QUANTUM
OffsetOf(pos) == pos % QUANTUM

Least(a, b) == IF a < b THEN a ELSE b
Largest(a, b) == IF a < b THEN b ELSE a

\* The list after lke_fs_file_follow added items up to n of them.
Follow(n) ==
    [i \in 1 .. Largest(n, Len(items)) |-> IF i <= Len(items) THEN items[i] ELSE EmptyItem]

\* The list lengths at which following to an item can give up without memory.
Shortages(item) == Len(items) .. item

At(list, pos) == list[ItemOf(pos) + 1][QuantumOf(pos)]

Init ==
    /\ items = << >>
    /\ size = 0
    /\ f_pos = 0
    /\ answer = [call |-> "none", own |-> FALSE, pos |-> 0, asked |-> 0, bytes |-> << >>]
    /\ writes = 0

Answer(call, own, pos, asked, bytes) ==
    answer' = [call |-> call, own |-> own, pos |-> pos, asked |-> asked, bytes |-> bytes]

\* The call failed and moved nothing.
NoAnswer == Answer("none", FALSE, 0, 0, << >>)

\* A call at pos moved n bytes; own says whether it comes through the followed
\* descriptor, whose position it takes and then advances.
Advance(own, pos, n) ==
    /\ own => pos = f_pos
    /\ f_pos' = IF own THEN pos + n ELSE f_pos

-----------------------------------------------------------------------------
(* write *)

\* Without memory for an item, an array or a quantum the write returns 0; the
\* items it added stay.
WriteNoMemory(pos) ==
    /\ \/ \E n \in Shortages(ItemOf(pos)) : items' = Follow(n)
       \/ /\ items' = Follow(ItemOf(pos) + 1)
          /\ At(items', pos) = NULL
    /\ NoAnswer
    /\ UNCHANGED <<size, f_pos, writes>>

\* The list in which the quantum for pos is there and holds data from pos on.
Stored(pos, data) ==
    LET list == Follow(ItemOf(pos) + 1)
        old == IF At(list, pos) = NULL THEN NewQuantum ELSE At(list, pos)
        new == [q \in Offsets |-> IF q \in OffsetOf(pos) .. OffsetOf(pos) + Len(data) - 1
                                  THEN data[q - OffsetOf(pos) + 1] ELSE old[q]]
    IN  [list EXCEPT ![ItemOf(pos) + 1][QuantumOf(pos)] = new]

\* Mutant of Clipped: the limit forgets where in the quantum the write starts.
ClippedToQuantum(pos, payload) == SubSeq(payload, 1, Least(Len(payload), QUANTUM))

\* A write ends at the end of its quantum.
Clipped(pos, payload) == SubSeq(payload, 1, Least(Len(payload), QUANTUM - OffsetOf(pos)))

Write(own, pos, payload) ==
    LET data == Clipped(pos, payload) IN
    /\ writes < MaxWrites
    /\ items' = Stored(pos, data)
    /\ size' = IF size < pos + Len(data) THEN pos + Len(data) ELSE size
    /\ Advance(own, pos, Len(data))
    /\ Answer("write", own, pos, Len(payload), data)
    /\ writes' = writes + 1

\* copy_from_user fails after some bytes and clears the rest; the write answers
\* -EFAULT and neither the size nor the position moves.
WriteFault(pos, payload) ==
    LET data == Clipped(pos, payload) IN
    /\ writes < MaxWrites
    /\ \E copied \in 0 .. Len(data) - 1 :
           LET left == [i \in 1 .. Len(data) |-> IF i <= copied THEN data[i] ELSE 0]
           IN  /\ items' = Stored(pos, left)
               /\ Answer("badwrite", FALSE, pos, Len(payload), left)
    /\ writes' = writes + 1
    /\ UNCHANGED <<size, f_pos>>

-----------------------------------------------------------------------------
(* read *)

\* Behind the end the file is not looked at.
ReadBehindEnd(own, pos, count) ==
    /\ pos > size
    /\ Advance(own, pos, 0)
    /\ Answer("read", own, pos, count, << >>)
    /\ UNCHANGED <<items, size, writes>>

\* Following the list adds the items it finds missing, for a read too.
Read(own, pos, count) ==
    LET list == Follow(ItemOf(pos) + 1)
        quantum == At(list, pos)
        n == IF quantum = NULL THEN 0
             ELSE Least(Least(count, size - pos), QUANTUM - OffsetOf(pos))
    IN  /\ pos <= size
        /\ items' = list
        /\ Advance(own, pos, n)
        /\ Answer("read", own, pos, count, [i \in 1 .. n |-> quantum[OffsetOf(pos) + i - 1]])
        /\ UNCHANGED <<size, writes>>

\* Without memory for an item, and when copy_to_user fails, nothing is read.
ReadFails(pos) ==
    /\ pos <= size
    /\ \E n \in Shortages(ItemOf(pos)) \cup {ItemOf(pos) + 1} : items' = Follow(n)
    /\ NoAnswer
    /\ UNCHANGED <<size, f_pos, writes>>

-----------------------------------------------------------------------------
(* llseek and open *)

\* Mutant of Llseek: a negative position is not refused.
SeekAnywhere(origin, off) ==
    /\ origin + off <= MaxPos
    /\ f_pos' = origin + off
    /\ Answer("seek", TRUE, 0, 0, << >>)
    /\ UNCHANGED <<items, size, writes>>

\* The origin is 0, the position or the size, which is read without the mutex.
\* A seek to a negative position is refused and is not a step.
Llseek(origin, off) ==
    /\ origin + off \in 0 .. MaxPos
    /\ f_pos' = origin + off
    /\ Answer("seek", TRUE, 0, 0, << >>)
    /\ UNCHANGED <<items, size, writes>>

\* An open for writing only empties the file, whoever else has it open.
OpenWriteOnly(own) ==
    /\ items' = << >>
    /\ size' = 0
    /\ f_pos' = IF own THEN 0 ELSE f_pos
    /\ Answer("empty", own, 0, 0, << >>)
    /\ UNCHANGED writes

Starts == 0 .. MaxPos

Next ==
    \/ \E own \in BOOLEAN, pos \in Starts, payload \in Payloads : Write(own, pos, payload)
    \/ \E pos \in Starts, payload \in Payloads : WriteFault(pos, payload)
    \/ \E pos \in Starts : WriteNoMemory(pos)
    \/ \E own \in BOOLEAN, pos \in Starts, count \in Counts :
           Read(own, pos, count) \/ ReadBehindEnd(own, pos, count)
    \/ \E pos \in Starts : ReadFails(pos)
    \/ \E origin \in {0, f_pos, size}, off \in Seeks : Llseek(origin, off)
    \/ \E own \in BOOLEAN : OpenWriteOnly(own)

Spec == Init /\ [][Next]_vars

-----------------------------------------------------------------------------
(* Properties *)

Bytes == Nat \cup {JUNK}

\* The types of the variables: every quantum is QUANTUM bytes, every item QSET
\* pointers, and no call makes a position or the size negative.
TypeOK ==
    /\ items \in Seq([Quanta -> {NULL} \cup [Offsets -> Bytes]])
    /\ size \in Nat
    /\ f_pos \in Nat
    /\ answer.call \in {"none", "write", "badwrite", "read", "seek", "empty"}
    /\ writes \in 0 .. MaxWrites

\* The positions below which an item number fits an int, 2^53 in the program.
IntLimit == INTS * ItemSize

\* The byte a read at p would find.
ByteAt(p) ==
    IF ItemOf(p) >= Len(items) \/ At(items, p) = NULL THEN JUNK ELSE At(items, p)[OffsetOf(p)]

File == INSTANCE ByteFile
    WITH content <- [p \in 0 .. IntLimit - 1 |-> ByteAt(p)],
         Unknown <- JUNK, position <- f_pos, Positions <- 0 .. IntLimit - 1

\* The items and quanta implement one array of bytes for every call whose
\* position fits: a read returns what was last written there since the file was
\* emptied, across quanta and items, whatever allocations failed and whoever
\* emptied or extended the file in between; a call that asks for bytes moves some
\* unless it fails or finds none; and the followed descriptor goes on behind the
\* bytes it moved, and only then.
ImplementsByteFile == File!Init /\ [][answer'.pos >= IntLimit \/ File!Next]_vars
=============================================================================
