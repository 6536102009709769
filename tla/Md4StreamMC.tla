----------------------------- MODULE Md4StreamMC -----------------------------
(* Values of the constants for checking the hash on small blocks. *)
EXTENDS Md4Stream

\* Up to a block and two bytes, and more than two blocks at once.
ShortAndLong == 0 .. BLOCK + 2 \cup {2 * BLOCK + 3}
=============================================================================
