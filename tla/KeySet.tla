-------------------------------- MODULE KeySet --------------------------------
(***************************************************************************)
(* What the callers of the B-tree count on: a set of keys and the last     *)
(* call made on it.  inode.c keeps one such set per directory (the hash    *)
(* values of its entries).                                                 *)
(***************************************************************************)
CONSTANT Keys

VARIABLES
    keys,   \* the keys stored
    last    \* the last call: its name and its key

vars == <<keys, last>>

Init == keys = {} /\ last = <<"new", 0>>

\* Inserting a key that is stored already changes nothing.
Insert(k) == last' = <<"insert", k>> /\ keys' = keys \cup {k}

Remove(k) == last' = <<"remove", k>> /\ keys' = keys \ {k}

\* A call that is refused: key 0, or no memory.
Refuse(op, k) == last' = <<op, k>> /\ keys' = keys

Clear == last' = <<"destroy", 0>> /\ keys' = {}

New == last' = <<"new", 0>> /\ keys' = {}

Next ==
    \/ \E k \in Keys : Insert(k) \/ Remove(k) \/ Refuse("nomem", k)
    \/ \E op \in {"insert", "remove"} : Refuse(op, 0)
    \/ Clear
    \/ New

Spec == Init /\ [][Next]_vars
=============================================================================
