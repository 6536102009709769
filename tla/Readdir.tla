-------------------------------- MODULE Readdir --------------------------------
(***************************************************************************)
(* Listing a directory (dir.c): one call of readdir puts the entries of    *)
(* the tree, in the order of their keys, into the reader's buffer.         *)
(***************************************************************************)
EXTENDS Filesystem, Sequences, Functions

CONSTANT Width   \* the room the entry of a name takes; a dot entry takes 1

\* A name has at most 255 bytes.
ASSUME NamesAssumption == IsFiniteSet(Names)

ASSUME WidthAssumption == Width \in [Names -> Nat \ {0}]

\* The entries in the order of the traversal, that of their keys.
Traversal(d) ==
    [i \in 1 .. Cardinality(tree[d]) |->
        CHOOSE e \in tree[d] : Cardinality({f \in tree[d] : f[1] < e[1]}) = i - 1]

\* The name lke_mkdir and lke_create copied into the inode.
NameOf(i) == (CHOOSE t \in hashed : t[3] = i)[2]

\* dir_emit refuses an entry there is no room for; the traversal goes on, and a
\* shorter one may still fit.
Emit(buffer, n) ==
    IF buffer.room < Width[n] THEN buffer
    ELSE [room |-> buffer.room - Width[n], names |-> Append(buffer.names, n),
          pos |-> buffer.pos + 1]

\* The dot entries, and what the traversal puts behind them.
Fill(d, room) ==
    LET walk == Traversal(d)
        buffer[i \in 0 .. Len(walk)] ==
            IF i = 0 THEN [room |-> room - 2, names |-> << >>, pos |-> 2]
            ELSE Emit(buffer[i - 1], NameOf(walk[i][2]))
    IN  buffer[Len(walk)]

\* Mutant of ReadDir: a listing that was begun is begun again.
ReadDirAgain(d, pos, room) ==
    IF room < 2 THEN [room |-> 0, names |-> << >>, pos |-> room]
    ELSE Fill(d, room)

\* What one call at position pos puts into a buffer: nothing unless it is the
\* first, and only dot entries unless both fit.
ReadDir(d, pos, room) ==
    IF pos > 0 THEN [room |-> room, names |-> << >>, pos |-> pos]
    ELSE IF room < 2 THEN [room |-> 0, names |-> << >>, pos |-> room]
    ELSE Fill(d, room)

-----------------------------------------------------------------------------
(* Properties *)

\* The room some names take together.
WidthOf(names) == Cardinality(UNION {{n} \X (1 .. Width[n]) : n \in names})

\* Calling until nothing more comes lists no name twice and none that is not in
\* the directory, however small the buffers are; and it lists every name whose
\* entry could be stored if the first buffer has room for them all.
ListingExact ==
    misled \/ \A d \in Called : \A first, second \in 0 .. 2 + WidthOf(Names) :
        LET one == ReadDir(d, 0, first)
            two == ReadDir(d, one.pos, second)
            listed == one.names \o two.names
            here == {t \in hashed : t[1] = d}
            stored == {t[2] : t \in {u \in here : made[u[3]] = "whole"}}
        IN  /\ IsInjective(listed)
            /\ Range(listed) \subseteq stored
            /\ first >= 2 + WidthOf(stored) => Range(listed) = stored
=============================================================================
