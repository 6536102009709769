-------------------------------- MODULE Btree --------------------------------
(***************************************************************************)
(* The kernel B-tree of btree/btree.c: one head, its root and the calls    *)
(* lke_btree_insert, lke_btree_remove, lke_btree_lookup,                   *)
(* lke_btree_value_traversal and lke_btree_destroy.                        *)
(*                                                                         *)
(* A call is one action: every caller holds the directory's i_rwsem for    *)
(* the whole of it.  An allocation may fail at any level of the tree.      *)
(* A child pointer that the code follows without a test may be NULL once   *)
(* the tree is damaged; the call then never returns (state "oops").        *)
(***************************************************************************)
EXTENDS BtreeNode, Sequences

CONSTANTS
    Keys,     \* the keys callers use, a set of positive numbers
    Levels,   \* the depths at which an allocation can be made to fail; 0 is
              \* the new root, 1 the root, 2 its children and so on
    MaxLive,       \* bound on live: no insert starts above it
    MaxHeight,     \* bound: the levels of a tree, which an insert may add to
    PastRotation   \* bound on histories: FALSE makes the first call that
                   \* rotates the last call

ASSUME KeysAssumption == Keys \subseteq Nat \ {0}
ASSUME BoundsAssumption == MaxLive \in Nat /\ MaxHeight \in Nat \ {0} /\ PastRotation \in BOOLEAN

VARIABLES
    head,      \* the head: "absent", "fresh" (no mempool yet), "ready", or
               \* "oops" after a NULL pointer was followed
    root,      \* head -> root
    live,      \* nodes taken from the mempool and not given back
    rotated,   \* history: a rotation has run since the head was made
    result,    \* what the last call returned
    last       \* history: the last call and its key

vars == <<head, root, live, rotated, result, last>>

\* The trees of at most h levels, whatever their arrays hold.
Tree[h \in Nat] ==
    IF h = 0 THEN {NULL}
    ELSE {NULL} \cup Node(Tree[h - 1])

Trees == Tree[MaxHeight]

\* The null pointer is no node and no key.
ASSUME NullAssumption == NULL \notin Nat /\ NULL \notin Node(Trees)

-----------------------------------------------------------------------------
(* lke_btree_insert *)

\* What a recursive insert leaves: the node, its return value ("done",
\* "split", "exists", "nomem" or "oops"), the nodes allocated, and for a split
\* the key that goes up and the new right sibling.
Answer(n, rtval) ==
    [node |-> n, rtval |-> rtval, allocated |-> 0, upkey |-> 0, right |-> NULL]

\* The node with the child at pos replaced by what the call below made of it.
WithChild(n, pos, c) == IF Child(n, pos) = NULL THEN n ELSE SetChild(n, pos, c)

\* Mutant of Adopt: the keys and children behind pos are not moved away first.
AdoptNoShift(n, pos, sub) == NodeInsert(n, pos, sub.upkey, sub.node, sub.right)

\* Takes the key a split child sent up; append and make-room differ as in the leaf.
Adopt(n, pos, sub) ==
    LET room == IF pos = KeyLen(n) THEN n ELSE RightShift(n, pos, sub.upkey, sub.right)
    IN  NodeInsert(room, pos, sub.upkey, sub.node, sub.right)

\* Mutant of SplitIfFull: splits one key too early.
SplitTooEarly(n, allocated, nomem) ==
    IF KeyLen(n) < M - 1 \/ nomem THEN [Answer(n, "done") EXCEPT !.allocated = allocated]
    ELSE [node |-> SplitLeft(n), rtval |-> "split", allocated |-> allocated + 1,
          upkey |-> SplitKey(n), right |-> SplitRight(n)]

\* Splits the node if the insert filled it and memory is there.
SplitIfFull(n, allocated, nomem) ==
    IF KeyLen(n) # M THEN [Answer(n, "done") EXCEPT !.allocated = allocated]
    ELSE IF nomem THEN [Answer(n, "nomem") EXCEPT !.allocated = allocated]
    ELSE [node |-> SplitLeft(n), rtval |-> "split", allocated |-> allocated + 1,
          upkey |-> SplitKey(n), right |-> SplitRight(n)]

\* What the insert makes of an inner node n when the call on its child at pos
\* answered sub.
InsertAbove(n, pos, sub, nomem) ==
    LET here == WithChild(n, pos, sub.node)
    IN  IF sub.rtval = "oops" THEN Answer(n, "oops")
        ELSE SplitIfFull(IF sub.rtval = "split" THEN Adopt(here, pos, sub) ELSE here,
                         sub.allocated, nomem)

\* The answer of the recursive insert of k on the root n.
InsertInto(n, k, failing) ==
    LET into[m \in Trees] == [depth \in Nat |->
            LET pos == FindPos(m, k) IN
            IF m = NULL THEN Answer(m, "oops")
            ELSE IF Key(m, pos) = k THEN Answer(m, "exists")
            ELSE IF IsLeaf(m) THEN SplitIfFull(LeafInsert(m, pos, k), 0, depth \in failing)
            ELSE InsertAbove(m, pos, into[Child(m, pos)][depth + 1], depth \in failing)]
    IN  into[n][1]

\* The new root above the two halves of the old one.
NewRoot(answer) == NodeInsert(NewNode, 0, answer.upkey, answer.node, answer.right)

-----------------------------------------------------------------------------
(* lke_btree_lookup and the traversals *)

\* The pair found, or 0.
Lookup(n, k) ==
    LET look[m \in Trees] ==
            LET i == FindPos(m, k) IN
            IF m = NULL THEN 0 ELSE IF Key(m, i) = k THEN k ELSE look[Child(m, i)]
    IN  look[n]

\* The values in the order lke_btree_value_traversal visits them.  A damaged
\* inner node is skipped with everything below it.
ValueTraversal(n) ==
    LET walk[m \in Trees] ==
            IF m = NULL THEN << >>
            ELSE IF IsLeaf(m) THEN [i \in 1 .. KeyLen(m) |-> m.key[i - 1]]
            ELSE IF KeyLen(m) # ChildLen(m) - 1 THEN << >>
            ELSE LET upto[i \in 0 .. KeyLen(m)] ==
                         IF i = 0 THEN walk[Child(m, 0)]
                         ELSE upto[i - 1] \o <<m.key[i - 1]>> \o walk[Child(m, i)]
                 IN  upto[KeyLen(m)]
    IN  walk[n]

\* The nodes lke_btree_destroy gives back and lke_btree_traversal visits.
NodeCount(n) ==
    LET count[m \in Trees] ==
            IF m = NULL THEN 0
            ELSE LET upto[i \in 0 .. ChildLen(m)] ==
                         IF i = 0 THEN 1 ELSE upto[i - 1] + count[Child(m, i - 1)]
                 IN  upto[ChildLen(m)]
    IN  count[n]

-----------------------------------------------------------------------------
(* lke_btree_remove *)

\* Mutant of FindBiggest: stops at the first key of the last leaf.
FindFirstOfLast(n) ==
    LET find[m \in Trees] ==
            IF m = NULL THEN NULL
            ELSE IF IsLeaf(m) THEN Key(m, 0) ELSE find[Child(m, KeyLen(m))]
    IN  find[n]

\* The rightmost key below a node: 0 if the last leaf is empty, NULL if the way
\* down ends at a null pointer.
FindBiggest(n) ==
    LET find[m \in Trees] ==
            IF m = NULL THEN NULL
            ELSE IF IsLeaf(m) THEN Key(m, KeyLen(m) - 1) ELSE find[Child(m, KeyLen(m))]
    IN  find[n]

\* What a recursive remove leaves: the node, its return value ("enough" or
\* "short" of keys, "failed" or "oops"), the nodes freed, whether it rotated.
Left(n, rtval) == [node |-> n, rtval |-> rtval, freed |-> 0, rotates |-> FALSE]

\* Mutants of MergeAt: the merged sibling is not freed; both siblings are.
MergeWithoutFree(n, pos, sub) == [sub EXCEPT !.node = Merge(n, pos)]
MergeFreesBoth(n, pos, sub) == [sub EXCEPT !.node = Merge(n, pos), !.freed = @ + 2]

\* Merges the children around the key at pos, or calls a rotation.
MergeAt(n, pos, sub) ==
    [sub EXCEPT !.node = Merge(n, pos),
                !.freed = @ + (IF CanRearrange(n, pos) THEN 1 ELSE 0)]
RotateTo(n, sub) == [sub EXCEPT !.node = n, !.rotates = TRUE]

\* The child at pos came back short of keys.
Rearrange(n, pos, sub) ==
    LET here == Child(n, pos)
        before == Child(n, pos - 1)
        after == Child(n, pos + 1)
        needed == IF pos = KeyLen(n) THEN {before, here}
                  ELSE IF pos = 0 THEN {here, after} ELSE {before, here, after}
    IN  IF NULL \in needed THEN Left(n, "oops")
        ELSE IF pos > 0 /\ Fits(before, here) THEN MergeAt(n, pos - 1, sub)
        ELSE IF pos = KeyLen(n) THEN RotateTo(LeftRotate(n, pos - 1), sub)
        ELSE IF Fits(here, after) THEN MergeAt(n, pos, sub)
        ELSE RotateTo(RightRotate(n, pos), sub)

\* The return value counts the node's keys when everything below is settled.
Settle(answer) ==
    [answer EXCEPT !.rtval = IF KeyLen(answer.node) < M \div 2 THEN "short" ELSE "enough"]

\* What the remove makes of an inner node n, moved being n with its own key
\* replaced if that is the one to remove, when the call on its child at pos
\* answered sub.
RemoveAbove(n, moved, pos, sub) ==
    LET here == WithChild(moved, pos, sub.node)
        fixed == IF sub.rtval = "short" THEN Rearrange(here, pos, sub)
                                        ELSE [sub EXCEPT !.node = here]
    IN  IF fixed.rtval = "oops" \/ (sub.rtval = "failed" /\ pos = KeyLen(n))
        THEN Left(n, fixed.rtval)
        ELSE Settle(fixed)

\* The answer of the recursive remove of k on the root n.  In place of a key of
\* an inner node the biggest one below it is removed.
RemoveFrom(n, k) ==
    LET from[m \in Trees] == [j \in Nat |->
            LET pos == FindPos(m, j)
                found == Key(m, pos) = j
                below == Child(m, pos)
                biggest == FindBiggest(below)
            IN
            IF m = NULL \/ j = 0 THEN Left(m, "failed")
            ELSE IF IsLeaf(m)
            THEN IF found THEN Settle(Left(LeafLeftShift(m, pos), "enough")) ELSE Left(m, "failed")
            ELSE IF found /\ biggest = NULL THEN Left(m, "failed")
            ELSE IF found THEN RemoveAbove(m, SetKey(m, pos, biggest), pos, from[below][biggest])
            ELSE RemoveAbove(m, m, pos, from[below][j])]
    IN  from[n][k]

-----------------------------------------------------------------------------
(* The calls *)

Init ==
    /\ head = "absent"
    /\ root = NULL
    /\ live = 0
    /\ rotated = FALSE
    /\ result = "none"
    /\ last = <<"new", 0>>

HeadAlloc ==
    /\ head = "absent"
    /\ head' = "fresh"
    /\ root' = NULL
    /\ live' = 0
    /\ rotated' = FALSE
    /\ result' = "none"
    /\ last' = <<"new", 0>>

\* lke_btree_init, which callers use on a fresh head only: makes the mempool.
InitHead ==
    /\ head = "fresh"
    /\ \/ head' = "ready" /\ result' = "ok"
       \/ head' = "fresh" /\ result' = "ENOMEM"
    /\ last' = <<"new", 0>>
    /\ UNCHANGED <<root, live, rotated>>

Usable == head \in {"fresh", "ready"}
WithinBounds == rotated => PastRotation

\* Nothing was changed but the answer.
Returns(rtval, call, k) ==
    /\ result' = rtval
    /\ last' = <<call, k>>
    /\ UNCHANGED <<root, live, rotated>>

\* A NULL pointer was followed: the caller is killed inside the call and the
\* directory's lock is never given back, so no later call gets here.
Oops(call, k) == head' = "oops" /\ Returns("none", call, k)

InsertKeyZero == Usable /\ Returns("EINVAL", "insert", 0) /\ UNCHANGED head

\* The mempool is made by the first insert; without it the insert gives up.
InsertNoMempool(k) == head = "fresh" /\ Returns("EPERM", "nomem", k) /\ UNCHANGED head

\* No memory for the first node of the tree.
InsertNoRoot(k) ==
    /\ Usable
    /\ root = NULL
    /\ head' = "ready"
    /\ Returns("ENOMEM", "nomem", k)

\* An insert of key k during which the allocations at the depths in failing fail.
InsertWith(k, failing) ==
    LET answer == InsertInto(IF root = NULL THEN NewNode ELSE root, k, failing)
        fresh == answer.allocated + (IF root = NULL THEN 1 ELSE 0)
        grows == answer.rtval = "split"
    IN  /\ Usable
        /\ WithinBounds
        /\ live <= MaxLive /\ root \in Tree[MaxHeight - 1]
        /\ IF answer.rtval = "oops" THEN Oops("insert", k)
           ELSE /\ head' = "ready"
                /\ last' = <<"insert", k>>
                /\ rotated' = rotated
                /\ IF grows /\ 0 \in failing
                   THEN /\ root' = answer.node
                        /\ live' = live + fresh
                        /\ result' = "ENOMEM"
                   ELSE /\ root' = IF grows THEN NewRoot(answer) ELSE answer.node
                        /\ live' = live + fresh + (IF grows THEN 1 ELSE 0)
                        /\ result' = "ok"

Insert(k) == InsertWith(k, {})
InsertShortOfMemory(k) == \E failing \in SUBSET Levels \ {{}} : InsertWith(k, failing)

RemoveRefused(k) ==
    /\ Usable
    /\ k = 0 \/ root = NULL
    /\ Returns("EINVAL", "remove", k)
    /\ UNCHANGED head

\* The root left behind: a root without keys gives way to its only child, or to
\* nothing.
Shrunk(n) ==
    IF KeyLen(n) = 0 /\ ChildLen(n) = 1 THEN Child(n, 0)
    ELSE IF KeyLen(n) = 0 /\ ChildLen(n) = 0 THEN NULL ELSE n

\* On this path the code returns a variable it never assigned.
Remove(k) ==
    LET answer == RemoveFrom(root, k)
        freed == answer.freed + (IF Shrunk(answer.node) # answer.node THEN 1 ELSE 0)
    IN  /\ Usable
        /\ WithinBounds
        /\ k # 0
        /\ root # NULL
        /\ IF answer.rtval = "oops" THEN Oops("remove", k)
           ELSE /\ root' = Shrunk(answer.node)
                /\ live' = live - freed
                /\ rotated' = (rotated \/ answer.rotates)
                /\ result' = "undefined"
                /\ last' = <<"remove", k>>
                /\ UNCHANGED head

\* Mutant of Destroy: the root pointer outlives its node.
DestroyKeepsRoot ==
    /\ Usable
    /\ head' = "absent"
    /\ live' = live - NodeCount(root)
    /\ result' = "none"
    /\ last' = <<"destroy", 0>>
    /\ UNCHANGED <<root, rotated>>

Destroy ==
    /\ Usable
    /\ head' = "absent"
    /\ root' = NULL
    /\ live' = live - NodeCount(root)
    /\ rotated' = rotated
    /\ result' = "none"
    /\ last' = <<"destroy", 0>>

\* The callers that hand over entries only: creating and looking up.
NextInsertOnly ==
    \/ HeadAlloc
    \/ InitHead
    \/ InsertKeyZero
    \/ \E k \in Keys : InsertNoMempool(k) \/ InsertNoRoot(k) \/ Insert(k)
    \/ Destroy

NextShortOfMemory == NextInsertOnly \/ \E k \in Keys : InsertShortOfMemory(k)

NextRemoving ==
    \/ NextInsertOnly
    \/ \E k \in Keys \cup {0} : RemoveRefused(k)
    \/ \E k \in Keys : Remove(k)

Next == NextRemoving \/ NextShortOfMemory

Spec == Init /\ [][Next]_vars
SpecInsertOnly == Init /\ [][NextInsertOnly]_vars
SpecShortOfMemory == Init /\ [][NextShortOfMemory]_vars
SpecRemoving == Init /\ [][NextRemoving]_vars

-----------------------------------------------------------------------------
(* Properties *)

\* The keys a lookup finds.
Stored == {k \in Keys : Lookup(root, k) = k}

\* The types of the variables: the arrays of every node keep their sizes.
TypeOK ==
    /\ head \in {"absent", "fresh", "ready", "oops"}
    /\ root \in Trees
    /\ head \in {"absent", "fresh"} => root = NULL
    /\ live \in Nat
    /\ rotated \in BOOLEAN
    /\ result \in {"none", "ok", "EINVAL", "EPERM", "ENOMEM", "undefined"}
    /\ last \in {"new", "insert", "nomem", "remove", "destroy"} \X (Keys \cup {0})

Ascending(s) == \A i \in 1 .. Len(s) - 1 : s[i] < s[i + 1]

\* What readdir walks is what lookups find: the traversal of
\* lke_btree_value_traversal gives each stored key once, in rising order.
TraversalIsStored ==
    rotated \/ LET walk == ValueTraversal(root) IN
               /\ Ascending(walk)
               /\ {walk[i] : i \in DOMAIN walk} = Stored

\* The height of a subtree whose leaves all have one depth and whose inner nodes
\* have one child more than keys; 0 stands for a subtree that has not this shape.
EvenHeight(n) ==
    LET height[m \in Trees] ==
            LET below == {height[Child(m, i)] : i \in 0 .. ChildLen(m) - 1} IN
            IF m = NULL THEN 0
            ELSE IF IsLeaf(m) THEN 1
            ELSE IF ChildLen(m) = KeyLen(m) + 1 /\ 0 \notin below /\ (\A h, g \in below : h = g)
            THEN 1 + (CHOOSE h \in below : TRUE)
            ELSE 0
    IN  height[n]

\* Every leaf is equally deep and every inner node has one child more than keys,
\* whatever allocations failed: the condition that the test in
\* _lke_btree_value_traversal relies on before it walks a node.
Balanced == rotated \/ root = NULL \/ EvenHeight(root) > 0

\* No call follows a NULL pointer, however deep it goes: up to the first rotation
\* every child that insert, remove and _find_biggest_key_and_data go down to, and
\* every sibling whose keys are counted, is there: lke_btree_key_len reads its node
\* without a test.
CallsReturn == rotated \/ head # "oops"

\* The nodes that hang below n, and n.
Nodes(n) ==
    LET nodes[m \in Trees] ==
            IF m = NULL THEN {}
            ELSE {m} \cup UNION {nodes[Child(m, i)] : i \in 0 .. ChildLen(m) - 1}
    IN  nodes[n]

\* When every allocation succeeds and no rotation ran, no node is empty or
\* over-full between two calls: every node but the root keeps between (M-1)/2
\* and M-1 keys.
Occupancy ==
    rotated \/ root = NULL \/
        /\ KeyLen(root) \in 1 .. M - 1
        /\ \A n \in Nodes(root) : \A i \in 0 .. ChildLen(n) - 1 :
               KeyLen(Child(n, i)) \in (M - 1) \div 2 .. M - 1

\* Every node taken from the mempool hangs in the tree, so destroying the tree
\* gives all of them back.
NoNodeLost == rotated \/ live = NodeCount(root)

\* A node reachable from the root was never given back, whatever rotations and
\* failed allocations came before: no merge frees a node that stays linked.
NoNodeFreedInUse == live >= NodeCount(root)

KS == INSTANCE KeySet WITH keys <- Stored

\* The tree implements the set of keys the callers count on, as seen through
\* lookups: an insert adds its key, a remove takes away its key, and neither
\* touches another one.  It does so up to the first rotation.
ImplementsKeySet == KS!Init /\ [][rotated' \/ KS!Next]_vars

\* The same with no exception, for a tree that only grows.
ImplementsKeySetFully == KS!Spec

-----------------------------------------------------------------------------
(* What comments and messages of btree.c say, and the code does not do *)

\* "split_fail remove key" (btree.c:425): a node that could not be split is
\* relieved of the key that filled it, so no node stays full after a call.
FailedSplitRemovesKey == \A n \in Nodes(root) : KeyLen(n) # M

\* "already in btree, insert failed" (btree.c:406): inserting a key that is
\* stored is reported as a failure.
DuplicateFails ==
    [][(last'[1] = "insert" /\ last'[2] \in Stored) => result' # "ok"]_vars
=============================================================================
