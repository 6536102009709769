------------------------------ MODULE Md4Message ------------------------------
(***************************************************************************)
(* What a hash of the MD4 family promises of its input: the digest is made *)
(* of the blocks of the padded message, however the message was cut into   *)
(* pieces.  The compression of a block is left uninterpreted: a digest is  *)
(* the sequence of the blocks compressed.  A byte of the message is told   *)
(* by its position in it.                                                  *)
(***************************************************************************)
EXTENDS Integers, Sequences

CONSTANTS
    BLOCK,   \* bytes in a block
    FIELD,   \* bytes of the length at the end of the last block
    BYTE     \* values of a byte of the length

VARIABLES
    phase,   \* idle, open, done
    length,  \* bytes of the message so far
    digest   \* the answer, when done

Data(p) == <<"data", p>>
Byte(v) == <<"byte", v>>

\* The weight of byte k of a number.
Power[k \in Nat] == IF k = 0 THEN 1 ELSE BYTE * Power[k - 1]

\* The fewest whole blocks with room for the message, the mark and the length.
BlockCount(n) == (n + FIELD) \div BLOCK + 1

\* Byte p of the padded message of n bytes: a mark, zeros, and the number of
\* bits, lowest byte first.
Padded(n, p) ==
    LET end == BlockCount(n) * BLOCK - FIELD
    IN  CASE p < n             -> Data(p)
          [] p = n             -> Byte(128)
          [] p > n /\ p < end  -> Byte(0)
          [] OTHER             -> Byte((8 * n) \div Power[p - end] % BYTE)

Blocks(n) ==
    [j \in 1 .. BlockCount(n) |->
        [q \in 0 .. BLOCK - 1 |-> Padded(n, (j - 1) * BLOCK + q)]]

Init == phase = "idle" /\ length = 0 /\ digest = << >>

Begin == phase' = "open" /\ length' = 0 /\ digest' = << >>

Extend ==
    /\ phase = "open" /\ phase' = "open"
    /\ length' >= length
    /\ UNCHANGED digest

Finish ==
    /\ phase = "open" /\ phase' = "done"
    /\ digest' = Blocks(length)
    /\ UNCHANGED length

Next == Begin \/ Extend \/ Finish

Spec == Init /\ [][Next]_<<phase, length, digest>>
=============================================================================
