------------------------------- MODULE Namespace -------------------------------
(***************************************************************************)
(* The directories and inodes of one mounted file system (inode.c,         *)
(* namei.c).  A directory has a tree of its entries, by the hash of the    *)
(* name; the kernel keeps a dentry for every name it was given.  create    *)
(* and mkdir take a reference to the dentry that nobody drops, so a name   *)
(* stays cached until it is removed, and a removed one stays in memory     *)
(* unhashed.                                                               *)
(*                                                                         *)
(* The kernel holds the directory locked in every call made here (and the  *)
(* victim of rmdir), so a call is one step.  A handler is entered only for *)
(* directories that have operations and were not removed; a directory      *)
(* below a removed one can still be somebody's working directory.  Any     *)
(* allocation may fail.  A tree is what KeySet promises, with the inodes   *)
(* stored under the keys; it holds fewer names than a node has slots, so   *)
(* an insert allocates only when the tree is empty.                        *)
(*                                                                         *)
(* sbi_inode_count is left out: nothing reads it.                          *)
(***************************************************************************)
EXTENDS Integers, FiniteSets

CONSTANTS
    Inodes,    \* the inode objects, a bound on how many are in memory
    Names,     \* file names
    KeyOf,     \* the first 8 bytes of the hash of a name
    Garbage,   \* what an uninitialised key may hold
    NULL       \* no inode

\* Two names with one key are one entry to the tree; the names are such that
\* this does not happen.
ASSUME KeysAssumption ==
    /\ KeyOf \in [Names -> Nat]
    /\ \A m, n \in Names : KeyOf[m] = KeyOf[n] => m = n
    /\ Garbage \subseteq Nat

ASSUME InodesAssumption == NULL \notin Inodes

VARIABLES
    root,      \* the inode of s_root
    kind,      \* free; lost: in memory, but nobody will give it back; dir;
               \* file; evicted: to be given back after a grace period
    made,      \* half: new_inode gave up before the operations were set;
               \* unlisted: whole, but not in the parent's tree; whole
    entity,    \* what inode->data points to
    nlink,     \* inode->i_nlink
    fileNum,   \* lke_dir_entity -> fileNum
    tree,      \* the entries of a directory, <<key, inode>>
    hashed,    \* the dentries that can be found, <<directory, name, inode>>
    unhashed,  \* those of removed names, still referenced, <<directory, inode>>
    fd,        \* the file of a descriptor, from the path walk of its open on
    misled,    \* history: a call worked with a key that is not its name's
    fate       \* runs; oops; stolen: an inode was handed out uncounted; stray:
               \* the entity of another inode was freed

links == <<nlink, fileNum>>
dentries == <<hashed, unhashed>>
inodes == <<kind, made, entity>>
vars == <<root, inodes, links, tree, dentries, fd, misled, fate>>

Init ==
    /\ root = NULL
    /\ kind = [i \in Inodes |-> "free"]
    /\ made = [i \in Inodes |-> "half"]
    /\ entity = [i \in Inodes |-> "none"]
    /\ nlink = [i \in Inodes |-> 0]
    /\ fileNum = [i \in Inodes |-> 0]
    /\ tree = [i \in Inodes |-> {}]
    /\ hashed = {}
    /\ unhashed = {}
    /\ fd = NULL
    /\ misled = FALSE
    /\ fate = "runs"

Removed == {t[2] : t \in unhashed}
IsNamed(d, n) == \E t \in hashed : t[1] = d /\ t[2] = n
Hits(d, k) == {e \in tree[d] : e[1] = k}

\* The directories whose handlers the kernel calls.
Called == {d \in Inodes : kind[d] = "dir" /\ made[d] # "half" /\ d \notin Removed}

\* namei: without memory or without the hash the key stays what it was, or is
\* copied from a digest nobody wrote; the callers do not look at the answer.
KeysFor(n) == {KeyOf[n]} \cup Garbage

\* kfree; corrupt is a pointer that was freed twice, or was none of kmalloc's.
Kfree(e) == CASE e = "none" -> "none" [] e = "live" -> "freed" [] OTHER -> "corrupt"

\* What inode->data of an inode made half points to may be anything by now.
Dangling(i) == made[i] = "half" /\ entity[i] \in {"freed", "wild"}

\* inode->data is passed to kfree, and left is what it points to then; a
\* dangling pointer may lead to the entity of another inode.  What becomes of
\* that one is not followed any further.
Free(i, left) ==
    \/ /\ entity' = [entity EXCEPT ![i] = left]
       /\ UNCHANGED fate
    \/ /\ Dangling(i)
       /\ \E j \in Inodes : /\ entity[j] = "live"
                            /\ entity' = [entity EXCEPT ![i] = "corrupt", ![j] = "freed"]
       /\ fate' = "stray"

-----------------------------------------------------------------------------
(* create and mkdir *)

\* new_inode finds no memory for the path or finds the key in the tree: the
\* inode it allocated is forgotten.
Forget(i) ==
    /\ kind[i] = "free"
    /\ kind' = [kind EXCEPT ![i] = "lost"]
    /\ UNCHANGED <<root, made, entity, links, tree, dentries, fd, misled, fate>>

\* The new inode of the given type, what its data points to and its link count.
Allocate(i, type, how, data) ==
    /\ kind[i] = "free"
    /\ kind' = [kind EXCEPT ![i] = type]
    /\ made' = [made EXCEPT ![i] = how]
    /\ entity' = [entity EXCEPT ![i] = data]

\* A new inode that lacks its entity has the pointer the slab left in it; a
\* directory that lacks only its tree head points to the entity just freed.
\* Neither is an error to the caller.
HalfMade(type) ==
    {[data |-> "none", count |-> 0], [data |-> "wild", count |-> 0]}
        \cup (IF type = "dir" THEN {[data |-> "freed", count |-> 1]} ELSE {})

\* Mutant of LinksOf: a new directory does not count its own entry.
LinksOfOne(type) == 1

\* The link count of a whole inode.
LinksOf(type) == IF type = "dir" THEN 2 ELSE 1

\* Mutant of Bind: no reference to the dentry is taken, and it is reclaimed.
BindUnpinned(d, n, i, count) ==
    /\ fileNum' = [fileNum EXCEPT ![d] = @ + 1, ![i] = 0]
    /\ nlink' = [nlink EXCEPT ![d] = @ + 1, ![i] = count]
    /\ hashed' \in {hashed, hashed \cup {<<d, n, i>>}}

\* Mutant of Bind: the link to the parent is counted for neither.
BindUncounted(d, n, i, count) ==
    /\ fileNum' = [fileNum EXCEPT ![d] = @ + 1, ![i] = 0]
    /\ nlink' = [nlink EXCEPT ![i] = count]
    /\ hashed' = hashed \cup {<<d, n, i>>}

\* What create and mkdir do with the new inode; the parent's link count rises
\* for a file, too.
Bind(d, n, i, count) ==
    /\ fileNum' = [fileNum EXCEPT ![d] = @ + 1, ![i] = 0]
    /\ nlink' = [nlink EXCEPT ![d] = @ + 1, ![i] = count]
    /\ hashed' = hashed \cup {<<d, n, i>>}

\* The insert is refused for key 0 and when the tree's first node finds no
\* memory, and its answer is ignored.
Create(d, n, i, type, k) ==
    /\ ~IsNamed(d, n)
    /\ Hits(d, k) = {}
    /\ \/ /\ k # 0
          /\ Allocate(i, type, "whole", "live")
          /\ tree' = [tree EXCEPT ![d] = @ \cup {<<k, i>>}]
          /\ misled' = (misled \/ k # KeyOf[n])
       \/ /\ k = 0 \/ tree[d] = {}
          /\ Allocate(i, type, "unlisted", "live")
          /\ UNCHANGED <<tree, misled>>
    /\ Bind(d, n, i, LinksOf(type))
    /\ UNCHANGED <<root, unhashed, fd, fate>>

CreateHalf(d, n, i, type, k) ==
    /\ ~IsNamed(d, n)
    /\ Hits(d, k) = {}
    /\ \E half \in HalfMade(type) :
           Allocate(i, type, "half", half.data) /\ Bind(d, n, i, half.count)
    /\ UNCHANGED <<root, tree, unhashed, fd, misled, fate>>

CreateForgets(d, n, i) == ~IsNamed(d, n) /\ Forget(i)

Oops == fate' = "oops" /\ UNCHANGED <<root, inodes, links, tree, dentries, fd, misled>>

\* new_inode returns NULL, which is no error to create and mkdir; or the tree
\* of a new directory has no mempool, and drop_nlink is given the error.
CreateOops(d, n) == ~IsNamed(d, n) /\ Oops

-----------------------------------------------------------------------------
(* unlink, rmdir and lookup *)

\* Mutant of Unhash: the reference of create is dropped, and the kernel evicts
\* the inode and gives it back.
UnhashAndEvict(d, n, i) ==
    /\ hashed' = hashed \ {<<d, n, i>>}
    /\ kind' = [kind EXCEPT ![i] = "evicted"]
    /\ UNCHANGED unhashed

\* Mutant of Unhash: the removal is answered with an error after it was done,
\* and the kernel keeps the name.
UnhashNot(d, n, i) == UNCHANGED <<hashed, unhashed, kind>>

\* The kernel's d_delete finds the dentry referenced: it can no longer be
\* found, and nothing is given back.
Unhash(d, n, i) ==
    /\ hashed' = hashed \ {<<d, n, i>>}
    /\ unhashed' = unhashed \cup {<<d, i>>}
    /\ UNCHANGED kind

\* Mutant of Forsake: the entry stays in the tree.
ForsakeNot(d, n, i, k) ==
    /\ fileNum[d] # 0
    /\ fileNum' = [fileNum EXCEPT ![d] = @ - 1]
    /\ tree' = [tree EXCEPT ![i] = {}]
    /\ misled' = (misled \/ k # KeyOf[n])

\* Mutant of Forsake: the entry goes but the parent still counts it.
ForsakeUncounted(d, n, i, k) ==
    /\ fileNum[d] # 0
    /\ tree' = [tree EXCEPT ![d] = @ \ Hits(d, k), ![i] = {}]
    /\ misled' = (misled \/ k # KeyOf[n])
    /\ UNCHANGED fileNum

\* The trees and the parent's count when i goes: its entry is removed by the
\* key, and a directory's own tree is destroyed (a file has none).  A count of
\* 0 would make unlink and rmdir do nothing; it never is (FileNumExact).
Forsake(d, n, i, k) ==
    /\ fileNum[d] # 0
    /\ fileNum' = [fileNum EXCEPT ![d] = @ - 1]
    /\ tree' = [tree EXCEPT ![d] = @ \ Hits(d, k), ![i] = {}]
    /\ misled' = (misled \/ k # KeyOf[n])

Unlink(d, n, i, k) ==
    /\ <<d, n, i>> \in hashed
    /\ kind[i] = "file"
    /\ Forsake(d, n, i, k)
    /\ Free(i, Kfree(entity[i]))
    /\ nlink' = [nlink EXCEPT ![i] = @ - 1]
    /\ Unhash(d, n, i)
    /\ UNCHANGED <<root, made, fd>>

\* Mutant of Rmdir: the entities below the directory are freed with it.
RmdirBelow(d, n, i, k) ==
    /\ <<d, n, i>> \in hashed
    /\ kind[i] = "dir" /\ made[i] # "half"
    /\ Forsake(d, n, i, k)
    /\ entity' = [j \in Inodes |-> IF j = i \/ \E t \in hashed : t[1] = i /\ t[3] = j
                                   THEN Kfree(entity[j]) ELSE entity[j]]
    /\ nlink' = [nlink EXCEPT ![i] = @ - 2, ![d] = @ - 1]
    /\ Unhash(d, n, i)
    /\ UNCHANGED <<root, made, fd, fate>>

\* Whether the victim has entries is not looked at.  What a dangling pointer
\* leads to may pass for an entity with a tree, or with none.
Rmdir(d, n, i, k) ==
    /\ <<d, n, i>> \in hashed
    /\ kind[i] = "dir"
    /\ made[i] # "half" \/ Dangling(i)
    /\ Forsake(d, n, i, k)
    /\ Free(i, Kfree(entity[i]))
    /\ nlink' = [nlink EXCEPT ![i] = @ - 2, ![d] = @ - 1]
    /\ Unhash(d, n, i)
    /\ UNCHANGED <<root, made, fd>>

\* Or the tree of a directory that was made half is read through a pointer that
\* is NULL, freed or wild, and there is none.
RmdirOops(d, n, i) ==
    /\ <<d, n, i>> \in hashed
    /\ kind[i] = "dir" /\ made[i] = "half"
    /\ Oops

\* lookup is called for names that are not cached.  Without a hit the kernel
\* caches that there is no such name, which it may forget; a hit is handed out
\* without taking the reference that d_splice_alias consumes.
Lookup(d, n, k) ==
    /\ ~IsNamed(d, n)
    /\ Hits(d, k) # {}
    /\ fate' = "stolen"
    /\ misled' = (misled \/ k # KeyOf[n])
    /\ UNCHANGED <<root, inodes, links, tree, dentries, fd>>

\* The walk of an open and the open itself are not under the directory's lock;
\* an inode without operations is refused.
Open(i) ==
    /\ fd = NULL
    /\ kind[i] = "file" /\ made[i] # "half"
    /\ \E t \in hashed : t[3] = i
    /\ fd' = i
    /\ UNCHANGED <<root, inodes, links, tree, dentries, misled, fate>>

Close ==
    /\ fd # NULL
    /\ fd' = NULL
    /\ UNCHANGED <<root, inodes, links, tree, dentries, misled, fate>>

-----------------------------------------------------------------------------
(* mount and unmount *)

MakeRoot(i) ==
    /\ root = NULL
    /\ root' = i
    /\ \/ /\ Allocate(i, "dir", "whole", "live")
          /\ nlink' = [nlink EXCEPT ![i] = LinksOf("dir")]
       \/ \E half \in HalfMade("dir") :
             /\ Allocate(i, "dir", "half", half.data)
             /\ nlink' = [nlink EXCEPT ![i] = half.count]
    /\ fileNum' = [fileNum EXCEPT ![i] = 0]
    /\ UNCHANGED <<tree, dentries, fd, misled, fate>>

\* d_make_root finds no memory for the dentry and gives the inode up.
RootEvicted(i) ==
    /\ root = NULL
    /\ \/ Allocate(i, "evicted", "whole", "live")
       \/ \E half \in HalfMade("dir") : Allocate(i, "evicted", "half", half.data)
    /\ UNCHANGED <<root, links, tree, dentries, fd, misled, fate>>

RootForgotten(i) == root = NULL /\ Forget(i)

\* All that can be reached from S through dentries.
Below(S) ==
    LET inside == {<<t[1], t[3]>> : t \in hashed} \cup unhashed
    IN  {i \in Inodes : \A C \in SUBSET Inodes :
            (S \subseteq C /\ \A e \in inside : e[1] \in C => e[2] \in C) => i \in C}

\* The inodes that an unmount leaves in memory.  d_genocide drops the
\* references of create for every dentry it can find, and does not look below
\* the ones it cannot; a dentry that stays keeps its parents.
Kept == {i \in Inodes : \E r \in Removed : i \in Below({r}) \/ r \in Below({i})}

InUse(i) == kind[i] \in {"dir", "file"}

\* kill_litter_super with a root: every inode that is not kept is evicted.  The
\* counts and the trees that stay behind are not followed any further.
Shutdown ==
    /\ root # NULL /\ fd = NULL
    /\ root' = NULL
    /\ kind' = [i \in Inodes |-> IF InUse(i) THEN IF i \in Kept THEN "lost" ELSE "evicted"
                                 ELSE kind[i]]
    /\ hashed' = {} /\ unhashed' = {}
    /\ tree' = [i \in Inodes |-> {}]
    /\ nlink' = [i \in Inodes |-> 0]
    /\ fileNum' = [i \in Inodes |-> 0]
    /\ misled' = FALSE
    /\ UNCHANGED <<made, entity, fd, fate>>

\* lke_fs_destroy_inode, which RCU calls after a grace period.  The tree of a
\* directory and the items of a file are given back by nobody.
Destroy(i) ==
    /\ kind[i] = "evicted"
    /\ kind' = [kind EXCEPT ![i] = "free"]
    /\ Free(i, IF Kfree(entity[i]) = "corrupt" THEN "corrupt" ELSE "none")
    /\ made' = [made EXCEPT ![i] = "half"]
    /\ UNCHANGED <<root, links, tree, dentries, fd, misled>>

\* The calls on a mounted file system.
Calls ==
    \/ \E d \in Called, n \in Names :
           \/ \E i \in Inodes, type \in {"dir", "file"}, k \in KeysFor(n) :
                  Create(d, n, i, type, k) \/ CreateHalf(d, n, i, type, k)
           \/ \E i \in Inodes : CreateForgets(d, n, i)
           \/ CreateOops(d, n)
           \/ \E i \in Inodes, k \in KeysFor(n) : Unlink(d, n, i, k) \/ Rmdir(d, n, i, k)
           \/ \E i \in Inodes : RmdirOops(d, n, i)
           \/ \E k \in KeysFor(n) : Lookup(d, n, k)
    \/ \E i \in Inodes : Open(i)
    \/ Close

Next ==
    /\ fate = "runs"
    /\ \/ Calls
       \/ \E i \in Inodes : MakeRoot(i) \/ RootEvicted(i) \/ RootForgotten(i) \/ Destroy(i)
       \/ Shutdown
       \/ Oops

Spec == Init /\ [][Next]_vars

-----------------------------------------------------------------------------
(* Properties *)

\* The types of the variables; the link count of an inode that was made whole
\* never goes below 0.
TypeOK ==
    /\ root \in Inodes \cup {NULL}
    /\ kind \in [Inodes -> {"free", "lost", "dir", "file", "evicted"}]
    /\ made \in [Inodes -> {"half", "unlisted", "whole"}]
    /\ entity \in [Inodes -> {"none", "live", "freed", "wild", "corrupt"}]
    /\ nlink \in [Inodes -> Int]
    /\ \A i \in Inodes : made[i] # "half" => nlink[i] >= 0
    /\ fileNum \in [Inodes -> Nat]
    /\ tree \in [Inodes -> SUBSET (Nat \X Inodes)]
    /\ hashed \subseteq Inodes \X Names \X Inodes
    /\ unhashed \subseteq Inodes \X Inodes
    /\ fd \in Inodes \cup {NULL}
    /\ misled \in BOOLEAN
    /\ fate \in {"runs", "oops", "stolen", "stray"}

\* The tree of a directory and the names the kernel has cached for it say the
\* same, but for the names whose key is 0 and those whose creation ran short of
\* memory: no name is found in only one of them, and none leads to another inode.
Coherent ==
    misled \/ \A d \in Called :
        tree[d] = {<<KeyOf[t[2]], t[3]>> :
                   t \in {u \in hashed : u[1] = d /\ made[u[3]] = "whole"}}

\* The directory counts its names exactly, whatever ran short and with whatever
\* keys: the tests of fileNum in unlink and rmdir never see 0.
FileNumExact ==
    \A d \in Called : fileNum[d] = Cardinality({t \in hashed : t[1] = d})

\* No link count runs out while it is needed: a directory has its two and one
\* for each directory in it, however that was made, and a named file has one.
\* The inodes that were made half have no count to speak of themselves.
LinksSuffice ==
    /\ \A d \in Called :
           nlink[d] >= 2 + Cardinality({t \in hashed : t[1] = d /\ kind[t[3]] = "dir"})
    /\ \A t \in hashed :
           kind[t[3]] = "file" /\ made[t[3]] # "half" => nlink[t[3]] >= 1

\* The inodes that handlers, readers and writers still reach (directories that
\* were not removed, wherever they are, and named files, even below a removed
\* directory) have their entity, but for those new_inode gave out half made
\* (inode.c:302-303, 342-343), which never do.  This ends when an entity is
\* freed through the dangling pointer of one of those.
ReachedIsLive ==
    fate = "stray" \/ \A i \in Inodes :
        (InUse(i) /\ i \notin Removed) => (entity[i] = "live" <=> made[i] # "half")

\* Only unlink takes the entity from under an open descriptor, or a call that
\* frees through a dangling pointer.
OpenIsLive == (fd # NULL /\ fate # "stray") => entity[fd] = "live" \/ fd \in Removed

\* No entity is freed twice, by the removal of its name and by the unmount, and
\* no pointer that is none, unless new_inode gave its inode out half made.
FreedOnce ==
    [][\A i \in Inodes : entity'[i] = "corrupt" => entity[i] = "corrupt" \/ made[i] = "half"]_vars

\* A directory is removed only while it is empty: rmdir's answer begins as
\* -ENOTEMPTY (inode.c:87), for the case that its fileNum test is to refuse.
RemovedEmpty ==
    [][\A i \in Removed' \ Removed : \A t \in hashed : t[1] # i]_vars

\* lookup, which does not count the inode it hands out, never hands one out as
\* long as every call had the right key.
NeverStolen == fate = "stolen" => misled
=============================================================================
