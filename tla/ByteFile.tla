------------------------------- MODULE ByteFile -------------------------------
(***************************************************************************)
(* What a file promises to its readers and writers: one array of bytes.    *)
(* A byte that was never written since the file was last emptied is        *)
(* Unknown, and reading it may yield anything.                             *)
(***************************************************************************)
EXTENDS Integers, Sequences

CONSTANTS
    Unknown,    \* a byte nobody stored
    Positions   \* the positions looked at, an interval from 0

VARIABLES
    content,   \* the byte at each position
    size,      \* the end of the file
    position,  \* where the next call of one of the descriptors starts
    answer     \* the last call: its name, whether it came through that
               \* descriptor, its position, the bytes it asked for and moved

vars == <<content, size, position, answer>>

Init ==
    /\ content = [p \in Positions |-> Unknown]
    /\ size = 0
    /\ position = 0
    /\ answer = [call |-> "none", own |-> FALSE, pos |-> 0, asked |-> 0, bytes |-> << >>]

\* The positions of the bytes moved by an answer.
Span(a) == a.pos .. a.pos + Len(a.bytes) - 1

\* A call through the descriptor takes its position and moves it on behind the
\* bytes, and one through another leaves it.  No more is moved than asked for.
Advances ==
    /\ answer'.own => answer'.pos = position
    /\ position' = IF answer'.own THEN position + Len(answer'.bytes) ELSE position
    /\ Len(answer'.bytes) <= answer'.asked

\* Stores a prefix of the data, and nothing elsewhere: at least one byte, but
\* for a write of none, which can only move the end.
Write ==
    /\ answer'.call = "write"
    /\ answer'.asked # 0 => answer'.bytes # << >>
    /\ Advances
    /\ content' = [p \in Positions |-> IF p \in Span(answer')
                                       THEN answer'.bytes[p - answer'.pos + 1]
                                       ELSE content[p]]
    /\ size' = IF answer'.pos + Len(answer'.bytes) > size
               THEN answer'.pos + Len(answer'.bytes) ELSE size

\* The data could not be copied: what the call was to overwrite is lost.
FailedWrite ==
    /\ answer'.call = "badwrite"
    /\ \A p \in Positions \ Span(answer') : content'[p] = content[p]
    /\ UNCHANGED <<size, position>>

\* Returns stored bytes below the end.  Nothing is returned at or behind the
\* end, where no byte was stored and if none was asked for, and only then.
Read ==
    /\ answer'.call = "read"
    /\ Advances
    /\ \A p \in Span(answer') :
           p < size /\ content[p] \in {Unknown, answer'.bytes[p - answer'.pos + 1]}
    /\ answer'.bytes = << >> =>
           answer'.asked = 0 \/ answer'.pos >= size \/ content[answer'.pos] = Unknown
    /\ UNCHANGED <<content, size>>

\* An open that empties the file gives its own descriptor position 0; the
\* others keep theirs.
Empty ==
    /\ answer'.call = "empty"
    /\ content' = [p \in Positions |-> Unknown]
    /\ size' = 0
    /\ position' = IF answer'.own THEN 0 ELSE position

Seek == answer'.call = "seek" /\ position' \in Nat /\ UNCHANGED <<content, size>>

\* The call gave up without an effect.
GiveUp == answer'.call = "none" /\ UNCHANGED <<content, size, position>>

Next == Write \/ FailedWrite \/ Read \/ Empty \/ Seek \/ GiveUp

Spec == Init /\ [][Next]_vars
=============================================================================
