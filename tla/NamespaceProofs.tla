---------------------------- MODULE NamespaceProofs ----------------------------
(***************************************************************************)
(* Proofs about the name space, the life of a mount and the listing of a   *)
(* directory, for any number of inodes, any names with different keys and  *)
(* any garbage in a key.                                                   *)
(***************************************************************************)
EXTENDS Readdir, FiniteSetTheorems, SequenceTheorems, NatFacts, TLAPS

Kinds == {"free", "lost", "dir", "file", "evicted"}
Mades == {"half", "unlisted", "whole"}
Pointers == {"none", "live", "freed", "wild", "corrupt"}

\* The types alone.
WellTyped ==
    /\ root \in Inodes \cup {NULL}
    /\ kind \in [Inodes -> Kinds]
    /\ made \in [Inodes -> Mades]
    /\ entity \in [Inodes -> Pointers]
    /\ nlink \in [Inodes -> Int]
    /\ fileNum \in [Inodes -> Int]
    /\ tree \in [Inodes -> SUBSET (Nat \X Inodes)]
    /\ hashed \subseteq Inodes \X Names \X Inodes
    /\ unhashed \subseteq Inodes \X Inodes
    /\ fd \in Inodes \cup {NULL}
    /\ misled \in BOOLEAN
    /\ fate \in {"runs", "oops", "stolen", "stray"}

\* Every dentry is one of an inode in use in a directory, and removed inodes
\* have no name.
NamesInUse ==
    \A t \in hashed : /\ kind[t[1]] = "dir" /\ t[1] # t[3]
                      /\ InUse(t[3]) /\ t[3] \notin Removed
RemovedInUse == \A i \in Removed : InUse(i)

\* No inode has two names, and no name two inodes.
OneName ==
    \A t, u \in hashed : (t[3] = u[3] \/ (t[1] = u[1] /\ t[2] = u[2])) => t = u

OpenInUse == fd # NULL => InUse(fd) /\ made[fd] # "half"

Placed == NamesInUse /\ RemovedInUse /\ OneName /\ OpenInUse

\* The unmount gives back no inode that lost its entity.
EvictedIsLive ==
    fate = "stray" \/ \A i \in Inodes :
        (kind[i] = "evicted" /\ made[i] # "half") => entity[i] = "live"

Entities == ReachedIsLive /\ EvictedIsLive

\* What the link counts need beside LinksSuffice: a count of no inode in use is
\* taken over by the next one.
LinksLeft ==
    \A i \in Inodes : (~InUse(i) \/ made[i] # "half") => nlink[i] >= 0

Counts ==
    /\ IsFiniteSet(hashed)
    /\ FileNumExact /\ LinksSuffice /\ LinksLeft
    /\ \A i \in Inodes : fileNum[i] >= 0

\* A new inode finds no entries.
EmptyElsewhere == \A i \in Inodes : kind[i] # "dir" => tree[i] = {}

Trees == Coherent /\ EmptyElsewhere

IInv == WellTyped /\ Placed /\ Entities /\ Counts /\ Trees

\* The keys a call may work with are numbers.
LEMMA KeyType == ASSUME NEW n \in Names, NEW k \in KeysFor(n) PROVE k \in Nat
  BY KeysAssumption DEF KeysFor

\* kfree leaves one of the pointers that are told apart.
LEMMA KfreeType == ASSUME NEW e \in Pointers PROVE Kfree(e) \in Pointers
  BY DEF Kfree, Pointers

\* Whatever is freed, the pointers are of those that are told apart, and no call
\* comes to its end as one that has not begun.
LEMMA FreeType ==
  ASSUME WellTyped, NEW i \in Inodes, NEW left \in Pointers, Free(i, left)
  PROVE  entity' \in [Inodes -> Pointers] /\ fate' \in {fate, "stray"}
<1>1. CASE entity' = [entity EXCEPT ![i] = left] /\ UNCHANGED fate
  BY <1>1 DEF WellTyped
<1>2. CASE fate' = "stray" /\ \E j \in Inodes : entity' = [entity EXCEPT ![i] = "corrupt", ![j] = "freed"]
  BY <1>2 DEF WellTyped, Pointers
<1>3. QED
  BY <1>1, <1>2 DEF Free

\* As long as no other entity is freed, i's pointer is the only one that changes.
LEMMA FreeOwn ==
  ASSUME WellTyped, NEW i \in Inodes, NEW left, Free(i, left), fate' # "stray"
  PROVE  entity' = [entity EXCEPT ![i] = left]
  BY DEF Free

\* A pointer that becomes corrupt is i's, and was one to be freed no more.
LEMMA FreeCorrupts ==
  ASSUME WellTyped, NEW i \in Inodes, NEW left, Free(i, left),
         NEW j \in Inodes, entity'[j] = "corrupt"
  PROVE  entity[j] = "corrupt" \/ (j = i /\ (left = "corrupt" \/ made[i] = "half"))
<1>1. CASE entity' = [entity EXCEPT ![i] = left]
  BY <1>1 DEF WellTyped
<1>2. CASE Dangling(i) /\ \E l \in Inodes : entity' = [entity EXCEPT ![i] = "corrupt", ![l] = "freed"]
  BY <1>2 DEF WellTyped, Dangling
<1>3. QED
  BY <1>1, <1>2 DEF Free

\* What is left of the pointer of an inode made half.
LEMMA HalfType ==
  ASSUME NEW type, NEW half \in HalfMade(type)
  PROVE  half.data \in Pointers /\ half.count \in Nat /\ half.data # "live"
  BY DEF HalfMade, Pointers

USE DEF vars, inodes, links, dentries

\* The steps that change no inode, no dentry, no tree and no count.
Quiet == UNCHANGED <<root, inodes, links, tree, dentries>> /\ (misled => misled')

\* Every step keeps the types.
LEMMA TypesKept == ASSUME WellTyped, [Next]_vars PROVE WellTyped'
<1>1. CASE UNCHANGED vars
  BY <1>1 DEF WellTyped
<1>2. ASSUME NEW d \in Called, NEW n \in Names, NEW i \in Inodes,
             NEW type \in {"dir", "file"}, NEW k \in KeysFor(n), Create(d, n, i, type, k)
      PROVE  WellTyped'
  <2>1. d \in Inodes /\ k \in Nat /\ LinksOf(type) \in Int
    BY KeyType DEF Called, LinksOf
  <2>2. \E how \in {"whole", "unlisted"} : Allocate(i, type, how, "live")
    BY <1>2 DEF Create
  <2>3. kind' \in [Inodes -> Kinds] /\ made' \in [Inodes -> Mades] /\ entity' \in [Inodes -> Pointers]
    BY <2>2 DEF WellTyped, Allocate, Kinds, Mades, Pointers
  <2>4. nlink' \in [Inodes -> Int] /\ fileNum' \in [Inodes -> Int]
          /\ hashed' \subseteq Inodes \X Names \X Inodes
    BY <1>2, <2>1 DEF WellTyped, Create, Bind
  <2>5. tree' = tree \/ tree' = [tree EXCEPT ![d] = @ \cup {<<k, i>>}]
    BY <1>2 DEF Create
  <2>6. tree' \in [Inodes -> SUBSET (Nat \X Inodes)]
    BY <2>1, <2>5 DEF WellTyped
  <2>7. misled' \in BOOLEAN
    BY <1>2 DEF WellTyped, Create
  <2>8. QED
    BY <1>2, <2>3, <2>4, <2>6, <2>7 DEF WellTyped, Create
<1>3. ASSUME NEW d \in Called, NEW n \in Names, NEW i \in Inodes,
             NEW type \in {"dir", "file"}, NEW k \in KeysFor(n), CreateHalf(d, n, i, type, k)
      PROVE  WellTyped'
  BY <1>3, HalfType, SMTT(30) DEF WellTyped, CreateHalf, Allocate, Bind, Kinds, Mades, Called
<1>4. ASSUME NEW i \in Inodes, Forget(i)
      PROVE  WellTyped'
  BY <1>4 DEF WellTyped, Forget, Kinds
<1>5. ASSUME NEW d \in Called, NEW n \in Names, NEW i \in Inodes, NEW k \in KeysFor(n),
             Unlink(d, n, i, k)
      PROVE  WellTyped'
  <2>1. Kfree(entity[i]) \in Pointers
    BY KfreeType DEF WellTyped
  <2>2. entity' \in [Inodes -> Pointers] /\ fate' \in {fate, "stray"}
    BY <1>5, <2>1, FreeType DEF Unlink
  <2>3. d \in Inodes
    BY DEF Called
  <2>4. fileNum' \in [Inodes -> Int] /\ nlink' \in [Inodes -> Int] /\ misled' \in BOOLEAN
    BY <1>5, <2>3 DEF WellTyped, Unlink, Forsake
  <2>5. tree' = [tree EXCEPT ![d] = @ \ Hits(d, k), ![i] = {}]
    BY <1>5 DEF Unlink, Forsake
  <2>6. tree' \in [Inodes -> SUBSET (Nat \X Inodes)]
    BY <2>3, <2>5 DEF WellTyped
  <2>7. /\ hashed' \subseteq Inodes \X Names \X Inodes /\ unhashed' \subseteq Inodes \X Inodes
        /\ UNCHANGED <<root, kind, made, fd>>
    BY <1>5, <2>3 DEF WellTyped, Unlink, Unhash
  <2>8. fate' \in {"runs", "oops", "stolen", "stray"}
    BY <2>2 DEF WellTyped
  <2>9. QED
    BY <2>2, <2>4, <2>6, <2>7, <2>8 DEF WellTyped
<1>6. ASSUME NEW d \in Called, NEW n \in Names, NEW i \in Inodes, NEW k \in KeysFor(n),
             Rmdir(d, n, i, k)
      PROVE  WellTyped'
  <2>1. Kfree(entity[i]) \in Pointers
    BY KfreeType DEF WellTyped
  <2>2. entity' \in [Inodes -> Pointers] /\ fate' \in {fate, "stray"}
    BY <1>6, <2>1, FreeType DEF Rmdir
  <2>3. d \in Inodes
    BY DEF Called
  <2>4. fileNum' \in [Inodes -> Int] /\ nlink' \in [Inodes -> Int] /\ misled' \in BOOLEAN
    BY <1>6, <2>3 DEF WellTyped, Rmdir, Forsake
  <2>5. tree' = [tree EXCEPT ![d] = @ \ Hits(d, k), ![i] = {}]
    BY <1>6 DEF Rmdir, Forsake
  <2>6. tree' \in [Inodes -> SUBSET (Nat \X Inodes)]
    BY <2>3, <2>5 DEF WellTyped
  <2>7. /\ hashed' \subseteq Inodes \X Names \X Inodes /\ unhashed' \subseteq Inodes \X Inodes
        /\ UNCHANGED <<root, kind, made, fd>>
    BY <1>6, <2>3 DEF WellTyped, Rmdir, Unhash
  <2>8. fate' \in {"runs", "oops", "stolen", "stray"}
    BY <2>2 DEF WellTyped
  <2>9. QED
    BY <2>2, <2>4, <2>6, <2>7, <2>8 DEF WellTyped
<1>7. CASE Oops
  BY <1>7 DEF WellTyped, Oops
<1>8. ASSUME NEW d \in Called, NEW n \in Names, NEW k \in KeysFor(n), Lookup(d, n, k)
      PROVE  WellTyped'
  BY <1>8 DEF WellTyped, Lookup
<1>9. ASSUME NEW i \in Inodes, Open(i) PROVE WellTyped'
  BY <1>9 DEF WellTyped, Open
<1>10. CASE Close
  BY <1>10 DEF WellTyped, Close
<1>11. ASSUME NEW i \in Inodes, MakeRoot(i) PROVE WellTyped'
  BY <1>11, HalfType DEF WellTyped, MakeRoot, Allocate, LinksOf, Kinds, Mades, Pointers
<1>12. ASSUME NEW i \in Inodes, RootEvicted(i) PROVE WellTyped'
  BY <1>12, HalfType DEF WellTyped, RootEvicted, Allocate, Kinds, Mades, Pointers
<1>13. ASSUME NEW i \in Inodes, Destroy(i) PROVE WellTyped'
  <2>1. entity' \in [Inodes -> Pointers] /\ fate' \in {fate, "stray"}
    BY <1>13, FreeType DEF Destroy, Pointers
  <2>2. QED
    BY <1>13, <2>1 DEF WellTyped, Destroy, Kinds, Mades
<1>14. CASE Shutdown
  <2>1. ASSUME NEW i \in Inodes PROVE kind'[i] \in Kinds
    <3>1. kind'[i] \in {"lost", "evicted", kind[i]}
      BY <1>14, Zenon DEF Shutdown
    <3>2. QED
      BY <3>1 DEF WellTyped, Kinds
  <2>2. kind' \in [Inodes -> Kinds]
    BY <1>14, <2>1 DEF Shutdown
  <2>3. /\ root' = NULL /\ hashed' = {} /\ unhashed' = {} /\ misled' = FALSE
        /\ UNCHANGED <<made, entity, fd, fate>>
        /\ tree' = [i \in Inodes |-> {}]
        /\ nlink' = [i \in Inodes |-> 0] /\ fileNum' = [i \in Inodes |-> 0]
    BY <1>14, Zenon DEF Shutdown
  <2>4. tree' \in [Inodes -> SUBSET (Nat \X Inodes)]
    BY <2>3, Zenon
  <2>5. nlink' \in [Inodes -> Int] /\ fileNum' \in [Inodes -> Int]
    BY <2>3
  <2>6. hashed' \subseteq Inodes \X Names \X Inodes /\ unhashed' \subseteq Inodes \X Inodes
    BY <2>3, Zenon
  <2>7. QED
    BY <2>2, <2>3, <2>4, <2>5, <2>6 DEF WellTyped
<1>15. QED
  BY <1>1, <1>2, <1>3, <1>4, <1>5, <1>6, <1>7, <1>8, <1>9, <1>10, <1>11, <1>12, <1>13, <1>14, ZenonT(40)
  DEF Next, Calls, CreateForgets, CreateOops, RmdirOops, RootForgotten

\* What is common to create and mkdir as far as names go: one dentry more, of an
\* inode that was free.
Added(d, n, i, how) ==
    /\ ~IsNamed(d, n) /\ kind[i] = "free"
    /\ \E type \in {"dir", "file"} : kind' = [kind EXCEPT ![i] = type]
    /\ made' = [made EXCEPT ![i] = how]
    /\ hashed' = hashed \cup {<<d, n, i>>}
    /\ UNCHANGED <<root, unhashed, fd>>

\* And to unlink and rmdir: one dentry moves to the unhashed ones.
Taken(d, n, i) ==
    /\ <<d, n, i>> \in hashed
    /\ hashed' = hashed \ {<<d, n, i>>}
    /\ unhashed' = unhashed \cup {<<d, i>>}
    /\ UNCHANGED <<root, kind, made, fd>>

\* Creation adds a name.
LEMMA CreateAdds ==
  ASSUME NEW d, NEW n, NEW i \in Inodes, NEW type \in {"dir", "file"}, NEW k,
         Create(d, n, i, type, k) \/ CreateHalf(d, n, i, type, k)
  PROVE  \E how : Added(d, n, i, how)
  BY DEF Create, CreateHalf, Added, Allocate, Bind

\* Removal takes one.
LEMMA RemovalTakes ==
  ASSUME NEW d, NEW n, NEW i \in Inodes, NEW k,
         Unlink(d, n, i, k) \/ Rmdir(d, n, i, k)
  PROVE  Taken(d, n, i)
  BY DEF Unlink, Rmdir, Unhash, Taken

\* The removed inodes after a step that takes a name, and after one that does not.
LEMMA RemovedAfter ==
  /\ \A d, n, i : Taken(d, n, i) => Removed' = Removed \cup {i}
  /\ UNCHANGED unhashed => Removed' = Removed
<1>1. ASSUME NEW d, NEW n, NEW i, Taken(d, n, i) PROVE Removed' = Removed \cup {i}
  <2>1. unhashed' = unhashed \cup {<<d, i>>}
    BY <1>1 DEF Taken
  <2>2. \A t \in unhashed' : t \in unhashed \/ t[2] = i
    BY <2>1
  <2>3. Removed' \subseteq Removed \cup {i}
    BY <2>2, Zenon DEF Removed
  <2>4. <<d, i>>[2] = i /\ <<d, i>> \in unhashed' /\ unhashed \subseteq unhashed'
    BY <2>1
  <2>5. Removed \cup {i} \subseteq Removed'
    BY <2>4, Zenon DEF Removed
  <2>6. QED
    BY <2>3, <2>5
<1>2. QED
  BY <1>1 DEF Removed

\* A directory whose handlers are called.
LEMMA CalledType ==
  ASSUME NEW d \in Called PROVE d \in Inodes /\ kind[d] = "dir" /\ made[d] # "half" /\ d \notin Removed
  BY DEF Called

\* The steps that are neither a creation, a removal nor about inodes without a
\* name change no inode, name, tree or count.
LEMMA QuietSteps ==
  ASSUME UNCHANGED vars \/ Oops \/ Close \/ (\E i \in Inodes : Open(i))
           \/ (\E d \in Called, n \in Names : \E k \in KeysFor(n) : Lookup(d, n, k))
  PROVE  Quiet
<1>1. CASE UNCHANGED vars \/ Oops \/ Close \/ \E i \in Inodes : Open(i)
  BY <1>1 DEF Quiet, Oops, Close, Open
<1>2. ASSUME NEW d \in Called, NEW n \in Names, NEW k \in KeysFor(n), Lookup(d, n, k)
      PROVE  Quiet
  <2>1. misled' = (misled \/ k # KeyOf[n])
    BY <1>2, Zenon DEF Lookup
  <2>2. misled => misled'
    BY <2>1, Zenon
  <2>3. QED
    BY <1>2, <2>2 DEF Quiet, Lookup
<1>3. QED
  BY <1>1, <1>2

\* Every step keeps names, removed inodes and the open file in order.
LEMMA PlacedKept == ASSUME WellTyped, Placed, [Next]_vars PROVE Placed'
<1>1. ASSUME NEW d \in Called, NEW n \in Names, NEW i \in Inodes, NEW how,
             Added(d, n, i, how)
      PROVE  Placed'
  <2>1. d \in Inodes /\ kind[d] = "dir" /\ d # i
    BY <1>1, CalledType DEF Added
  <2>2. \A j \in Inodes : j # i => kind'[j] = kind[j] /\ made'[j] = made[j]
    BY <1>1 DEF Added, WellTyped
  <2>3. InUse(i)' /\ kind[i] = "free"
    BY <1>1 DEF Added, WellTyped, InUse
  <2>4. \A j \in Inodes : InUse(j) => j # i /\ InUse(j)'
    BY <2>2, <2>3 DEF InUse
  <2>5. Removed' = Removed /\ i \notin Removed
    BY <1>1, <2>4, RemovedAfter DEF Added, Placed, RemovedInUse
  <2>6. NamesInUse'
    <3>1. ASSUME NEW t \in hashed
          PROVE  kind'[t[1]] = "dir" /\ t[1] # t[3] /\ InUse(t[3])' /\ t[3] \notin Removed'
      BY <2>2, <2>3, <2>4, <2>5 DEF Placed, NamesInUse, WellTyped
    <3>2. kind'[d] = "dir" /\ d # i /\ InUse(i)' /\ i \notin Removed'
      BY <2>1, <2>2, <2>3, <2>5
    <3>3. QED
      BY <1>1, <3>1, <3>2 DEF Added, NamesInUse
  <2>7. RemovedInUse'
    BY <2>4, <2>5 DEF Placed, RemovedInUse, Removed, WellTyped
  <2>8. OneName'
    <3>1. \A t \in hashed : t[3] # i /\ ~(t[1] = d /\ t[2] = n)
      BY <1>1, <2>4 DEF Placed, NamesInUse, WellTyped, Added, IsNamed
    <3>2. QED
      BY <1>1, <3>1 DEF Added, Placed, OneName
  <2>9. OpenInUse'
    BY <1>1, <2>2, <2>4 DEF Added, Placed, OpenInUse, WellTyped
  <2>10. QED
    BY <2>6, <2>7, <2>8, <2>9 DEF Placed
<1>2. ASSUME NEW d \in Called, NEW n \in Names, NEW i \in Inodes, Taken(d, n, i)
      PROVE  Placed'
  <2>1. Removed' = Removed \cup {i}
    BY <1>2, RemovedAfter
  <2>2. \A j : InUse(j)' = InUse(j)
    BY <1>2 DEF Taken, InUse
  <2>3. \A t \in hashed' : t \in hashed /\ t[3] # i
    BY <1>2 DEF Taken, Placed, OneName
  <2>4. NamesInUse'
    BY <1>2, <2>1, <2>2, <2>3 DEF Taken, Placed, NamesInUse
  <2>5. InUse(i)
    BY <1>2 DEF Taken, Placed, NamesInUse
  <2>6. RemovedInUse'
    BY <2>1, <2>2, <2>5 DEF Placed, RemovedInUse
  <2>7. OneName'
    BY <2>3 DEF Placed, OneName
  <2>8. OpenInUse'
    BY <1>2, <2>2 DEF Taken, Placed, OpenInUse
  <2>9. QED
    BY <2>4, <2>6, <2>7, <2>8 DEF Placed
<1>3. ASSUME Quiet, OpenInUse'
      PROVE  Placed'
  BY <1>3, RemovedAfter DEF Quiet, Placed, NamesInUse, RemovedInUse, OneName, OpenInUse, InUse
<1>4. ASSUME NEW i \in Inodes, kind[i] \in {"free", "evicted"}, UNCHANGED <<dentries, fd>>,
             \A j \in Inodes : j # i => kind'[j] = kind[j] /\ made'[j] = made[j]
      PROVE  Placed'
  <2>1. \A j \in Inodes : InUse(j) => j # i /\ InUse(j)' /\ kind'[j] = kind[j] /\ made'[j] = made[j]
    BY <1>4 DEF InUse
  <2>2. Removed' = Removed
    BY <1>4, RemovedAfter
  <2>3. NamesInUse'
    BY <1>4, <2>1, <2>2 DEF Placed, NamesInUse, WellTyped
  <2>4. RemovedInUse'
    BY <2>1, <2>2 DEF Placed, RemovedInUse, Removed, WellTyped
  <2>5. OneName' /\ OpenInUse'
    BY <1>4, <2>1 DEF Placed, OneName, OpenInUse, WellTyped
  <2>6. QED
    BY <2>3, <2>4, <2>5 DEF Placed
<1>5. CASE Shutdown
  BY <1>5 DEF Shutdown, Placed, NamesInUse, RemovedInUse, OneName, OpenInUse, Removed
<1>6. ASSUME NEW i \in Inodes, Forget(i) \/ MakeRoot(i) \/ RootEvicted(i) \/ Destroy(i)
      PROVE  Placed'
  <2>1. kind[i] \in {"free", "evicted"} /\ UNCHANGED <<dentries, fd>>
    BY <1>6 DEF Forget, MakeRoot, RootEvicted, Destroy, Allocate
  <2>2. \A j \in Inodes : j # i => kind'[j] = kind[j] /\ made'[j] = made[j]
    BY <1>6 DEF Forget, MakeRoot, RootEvicted, Destroy, Allocate, WellTyped
  <2>3. QED
    BY <1>4, <2>1, <2>2
<1>7. ASSUME NEW d \in Called, NEW n \in Names, NEW i \in Inodes, NEW type \in {"dir", "file"},
             NEW k \in KeysFor(n), Create(d, n, i, type, k) \/ CreateHalf(d, n, i, type, k)
      PROVE  Placed'
  BY <1>1, <1>7, CreateAdds
<1>8. ASSUME NEW d \in Called, NEW n \in Names, NEW i \in Inodes, NEW k \in KeysFor(n),
             Unlink(d, n, i, k) \/ Rmdir(d, n, i, k)
      PROVE  Placed'
  BY <1>2, <1>8, RemovalTakes
<1>9. ASSUME NEW i \in Inodes, Open(i) PROVE Placed'
  <2>1. OpenInUse'
    BY <1>9 DEF Open, OpenInUse, InUse
  <2>2. QED
    BY <1>3, <1>9, <2>1, QuietSteps
<1>10. ASSUME UNCHANGED vars \/ Oops \/ Close
                \/ (\E d \in Called, n \in Names : \E k \in KeysFor(n) : Lookup(d, n, k))
       PROVE  Placed'
  <2>1. Quiet
    BY <1>10, QuietSteps
  <2>2. fd' # NULL => fd' = fd
    BY <1>10 DEF Oops, Close, Lookup
  <2>3. OpenInUse'
    BY <2>1, <2>2 DEF Quiet, Placed, OpenInUse, InUse
  <2>4. QED
    BY <1>3, <2>1, <2>3
<1>11. QED
  BY <1>5, <1>6, <1>7, <1>8, <1>9, <1>10, ZenonT(40)
  DEF Next, Calls, CreateForgets, CreateOops, RmdirOops, RootForgotten

-----------------------------------------------------------------------------
(* The entities *)

\* The steps that allocate an inode: its entity is live unless it is made half.
LEMMA AllocatesLive ==
  ASSUME NEW i \in Inodes,
         \/ \E d \in Called, n \in Names, type \in {"dir", "file"} : \E k \in KeysFor(n) :
                Create(d, n, i, type, k) \/ CreateHalf(d, n, i, type, k)
         \/ MakeRoot(i) \/ RootEvicted(i)
  PROVE  /\ kind[i] = "free" /\ UNCHANGED <<unhashed, fate>>
         /\ \E type, how, data : /\ Allocate(i, type, how, data)
                                 /\ how # "half" => data = "live"
                                 /\ how = "half" => data \notin {"live", "corrupt"}
<1>1. ASSUME NEW type, Allocate(i, type, "whole", "live") \/ Allocate(i, type, "unlisted", "live")
      PROVE  \E t, how, data : /\ Allocate(i, t, how, data)
                               /\ how # "half" => data = "live"
                               /\ how = "half" => data \notin {"live", "corrupt"}
  BY <1>1
<1>2. ASSUME NEW type, NEW of, NEW half \in HalfMade(of), Allocate(i, type, "half", half.data)
      PROVE  \E t, how, data : /\ Allocate(i, t, how, data)
                               /\ how # "half" => data = "live"
                               /\ how = "half" => data \notin {"live", "corrupt"}
  BY <1>2 DEF HalfMade
<1>3. ASSUME NEW type, NEW how, NEW data, Allocate(i, type, how, data)
      PROVE  kind[i] = "free"
  BY <1>3 DEF Allocate
<1>4. CASE \E d \in Called, n \in Names, type \in {"dir", "file"} : \E k \in KeysFor(n) :
              Create(d, n, i, type, k)
  <2>1. PICK type : Allocate(i, type, "whole", "live") \/ Allocate(i, type, "unlisted", "live")
    BY <1>4 DEF Create
  <2>2. UNCHANGED <<unhashed, fate>>
    BY <1>4 DEF Create
  <2>3. QED
    BY <1>1, <1>3, <2>1, <2>2
<1>5. CASE \E d \in Called, n \in Names, type \in {"dir", "file"} : \E k \in KeysFor(n) :
              CreateHalf(d, n, i, type, k)
  <2>1. PICK type, of : \E half \in HalfMade(of) : Allocate(i, type, "half", half.data)
    BY <1>5 DEF CreateHalf
  <2>2. UNCHANGED <<unhashed, fate>>
    BY <1>5 DEF CreateHalf
  <2>3. QED
    BY <1>2, <1>3, <2>1, <2>2
<1>6. CASE MakeRoot(i) \/ RootEvicted(i)
  <2>1. PICK type : \/ Allocate(i, type, "whole", "live")
                    \/ \E half \in HalfMade("dir") : Allocate(i, type, "half", half.data)
    BY <1>6 DEF MakeRoot, RootEvicted
  <2>2. UNCHANGED <<unhashed, fate>>
    BY <1>6 DEF MakeRoot, RootEvicted, dentries
  <2>3. QED
    BY <1>1, <1>2, <1>3, <2>1, <2>2
<1>7. QED
  BY <1>4, <1>5, <1>6

\* An unmount leaves the removed inodes in memory.
LEMMA RemovedStay == ASSUME WellTyped PROVE Removed \subseteq Kept
<1>1. \A r \in Removed : r \in Inodes
  BY DEF WellTyped, Removed
<1>2. ASSUME NEW r \in Inodes PROVE r \in Below({r})
  BY DEF Below
<1>3. QED
  BY <1>1, <1>2 DEF Kept

\* Every step keeps the entities of the inodes that are reached or will be
\* given back.
LEMMA EntitiesKept == ASSUME WellTyped, Placed, Entities, [Next]_vars PROVE Entities'
<1> SUFFICES ASSUME fate' # "stray" PROVE Entities'
  BY DEF Entities, ReachedIsLive, EvictedIsLive
<1>1. ASSUME NEW i \in Inodes,
             \/ \E d \in Called, n \in Names, type \in {"dir", "file"} : \E k \in KeysFor(n) :
                    Create(d, n, i, type, k) \/ CreateHalf(d, n, i, type, k)
             \/ MakeRoot(i) \/ RootEvicted(i)
      PROVE  Entities'
  <2>1. Removed' = Removed /\ fate' = fate
    BY <1>1, AllocatesLive, RemovedAfter
  <2>2. \A j \in Inodes : j # i => kind'[j] = kind[j] /\ made'[j] = made[j] /\ entity'[j] = entity[j]
    BY <1>1, AllocatesLive DEF Allocate, WellTyped
  <2>3. entity'[i] = "live" <=> made'[i] # "half"
    BY <1>1, AllocatesLive DEF Allocate, WellTyped
  <2>4. QED
    BY <2>1, <2>2, <2>3 DEF Entities, ReachedIsLive, EvictedIsLive, InUse
<1>2. ASSUME NEW d \in Called, NEW n \in Names, NEW i \in Inodes, NEW k \in KeysFor(n),
             Unlink(d, n, i, k) \/ Rmdir(d, n, i, k)
      PROVE  Entities'
  <2>1. Taken(d, n, i) /\ Removed' = Removed \cup {i}
    BY <1>2, RemovalTakes, RemovedAfter
  <2>2. Free(i, Kfree(entity[i]))
    BY <1>2 DEF Unlink, Rmdir
  <2>3. fate # "stray" /\ \A j \in Inodes : j # i => entity'[j] = entity[j]
    BY <2>2, FreeOwn DEF Free, WellTyped
  <2>4. kind[i] # "evicted"
    BY <1>2 DEF Unlink, Rmdir
  <2>5. QED
    BY <2>1, <2>3, <2>4 DEF Taken, Entities, ReachedIsLive, EvictedIsLive, InUse
<1>3. ASSUME NEW i \in Inodes, Forget(i) \/ Destroy(i)
      PROVE  Entities'
  <2>1. Removed' = Removed
    BY <1>3, RemovedAfter DEF Forget, Destroy
  <2>2. fate # "stray" /\ \A j \in Inodes : j # i => entity'[j] = entity[j]
    <3>1. CASE Forget(i)
      BY <3>1 DEF Forget
    <3>2. CASE Destroy(i)
      BY <3>2, FreeOwn DEF Destroy, Free, WellTyped
    <3>3. QED
      BY <1>3, <3>1, <3>2
  <2>3. /\ kind'[i] \in {"free", "lost"}
        /\ \A j \in Inodes : j # i => kind'[j] = kind[j] /\ made'[j] = made[j]
    BY <1>3 DEF Forget, Destroy, WellTyped
  <2>4. QED
    BY <2>1, <2>2, <2>3 DEF Entities, ReachedIsLive, EvictedIsLive, InUse
<1>4. CASE Quiet /\ fate # "stray"
  BY <1>4, RemovedAfter DEF Quiet, Entities, ReachedIsLive, EvictedIsLive, InUse
<1>5. CASE Shutdown
  <2>1. ASSUME NEW i \in Inodes
        PROVE  \/ InUse(i) /\ i \notin Removed /\ kind'[i] = "evicted"
               \/ ~InUse(i) /\ kind'[i] = kind[i]
               \/ kind'[i] = "lost"
    <3>1. kind'[i] = IF InUse(i) THEN IF i \in Kept THEN "lost" ELSE "evicted" ELSE kind[i]
      BY <1>5, Zenon DEF Shutdown
    <3>2. QED
      BY <3>1, RemovedStay
  <2>2. UNCHANGED <<made, entity, fate>>
    BY <1>5 DEF Shutdown
  <2>3. QED
    BY <2>1, <2>2 DEF Entities, ReachedIsLive, EvictedIsLive, InUse
<1>6. CASE UNCHANGED vars
  BY <1>4, <1>6, QuietSteps
<1>7. CASE Next
  <2>1. fate # "stray"
    BY <1>7 DEF Next
  <2>2. QED
    BY <1>1, <1>2, <1>3, <1>4, <1>5, <1>7, <2>1, QuietSteps
    DEF Next, Calls, CreateForgets, CreateOops, RmdirOops, RootForgotten
<1>8. QED
  BY <1>6, <1>7

\* No step frees an entity twice, or what is none.
LEMMA FreedOnceStep ==
  ASSUME WellTyped, Placed, Entities, [Next]_vars, NEW j \in Inodes, entity'[j] = "corrupt"
  PROVE  entity[j] = "corrupt" \/ made[j] = "half"
<1>1. ASSUME NEW i \in Inodes,
             \/ \E d \in Called, n \in Names, type \in {"dir", "file"} : \E k \in KeysFor(n) :
                    Create(d, n, i, type, k) \/ CreateHalf(d, n, i, type, k)
             \/ MakeRoot(i) \/ RootEvicted(i)
      PROVE  entity'[j] = entity[j]
  BY <1>1, AllocatesLive DEF Allocate, WellTyped
<1>2. ASSUME NEW d \in Called, NEW n \in Names, NEW i \in Inodes, NEW k \in KeysFor(n),
             Unlink(d, n, i, k) \/ Rmdir(d, n, i, k), fate # "stray"
      PROVE  entity[j] = "corrupt" \/ made[j] = "half"
  <2>1. Free(i, Kfree(entity[i]))
    BY <1>2 DEF Unlink, Rmdir
  <2>2. InUse(i) /\ i \notin Removed
    <3>1. <<d, n, i>> \in hashed
      BY <1>2, RemovalTakes DEF Taken
    <3>2. QED
      BY <3>1 DEF Placed, NamesInUse
  <2>3. made[i] = "half" \/ Kfree(entity[i]) = "freed"
    BY <1>2, <2>2 DEF Entities, ReachedIsLive, Kfree
  <2>4. QED
    BY <2>1, <2>3, FreeCorrupts
<1>3. ASSUME NEW i \in Inodes, Destroy(i), fate # "stray"
      PROVE  entity[j] = "corrupt" \/ made[j] = "half"
  <2>1. made[i] = "half" \/ Kfree(entity[i]) = "freed"
    BY <1>3 DEF Destroy, Entities, EvictedIsLive, Kfree
  <2>2. PICK left : Free(i, left) /\ (made[i] = "half" \/ left # "corrupt")
    BY <1>3, <2>1 DEF Destroy
  <2>3. QED
    BY <2>2, FreeCorrupts
<1>4. CASE Shutdown \/ Quiet \/ \E i \in Inodes : Forget(i)
  BY <1>4 DEF Shutdown, Quiet, Forget
<1>5. CASE UNCHANGED vars
  BY <1>5
<1>6. CASE Next
  <2>1. fate # "stray"
    BY <1>6 DEF Next
  <2>2. QED
    BY <1>1, <1>2, <1>3, <1>4, <1>6, <2>1, QuietSteps
    DEF Next, Calls, CreateForgets, CreateOops, RmdirOops, RootForgotten
<1>7. QED
  BY <1>5, <1>6

-----------------------------------------------------------------------------
(* The trees *)

\* The entries that the names of directory d should have in its tree.
Listed(d) ==
    {<<KeyOf[t[2]], t[3]>> : t \in {u \in hashed : u[1] = d /\ made[u[3]] = "whole"}}

\* What a creation adds to them.
LEMMA ListedAdded ==
  ASSUME WellTyped, Placed, NEW d \in Called, NEW n \in Names, NEW i \in Inodes,
         NEW how, Added(d, n, i, how), NEW c \in Inodes
  PROVE  /\ c = d /\ how = "whole" => Listed(c)' = Listed(c) \cup {<<KeyOf[n], i>>}
         /\ ~(c = d /\ how = "whole") => Listed(c)' = Listed(c)
<1>1. \A u \in hashed : u[3] \in Inodes /\ u[3] # i
  BY DEF Added, Placed, NamesInUse, InUse, WellTyped
<1>2. made'[i] = how /\ \A u \in hashed : made'[u[3]] = made[u[3]]
  BY <1>1 DEF Added, WellTyped
<1>3. hashed' = hashed \cup {<<d, n, i>>}
  BY DEF Added
<1>4. {u \in hashed' : u[1] = c /\ made'[u[3]] = "whole"} =
        {u \in hashed : u[1] = c /\ made[u[3]] = "whole"}
           \cup (IF c = d /\ how = "whole" THEN {<<d, n, i>>} ELSE {})
  BY <1>2, <1>3
<1>5. <<d, n, i>>[2] = n /\ <<d, n, i>>[3] = i
  OBVIOUS
<1>6. CASE c = d /\ how = "whole"
  BY <1>4, <1>5, <1>6 DEF Listed
<1>7. CASE ~(c = d /\ how = "whole")
  BY <1>4, <1>7 DEF Listed
<1>8. QED
  BY <1>6, <1>7

\* What a removal takes from them: no other name of the directory has the key.
LEMMA ListedTaken ==
  ASSUME WellTyped, Placed, NEW d \in Called, NEW n \in Names, NEW i \in Inodes,
         Taken(d, n, i), NEW c \in Inodes
  PROVE  Listed(c)' = IF c = d THEN {e \in Listed(c) : e[1] # KeyOf[n]} ELSE Listed(c)
<1>1. <<d, n, i>> \in hashed /\ hashed' = hashed \ {<<d, n, i>>} /\ made' = made
  BY DEF Taken
<1>2. ASSUME NEW t \in hashed, t[1] = d
      PROVE  KeyOf[t[2]] = KeyOf[n] <=> t = <<d, n, i>>
  BY <1>1, <1>2, KeysAssumption DEF Placed, OneName, WellTyped
<1>3. CASE c # d
  <2>1. {u \in hashed' : u[1] = c /\ made'[u[3]] = "whole"} =
          {u \in hashed : u[1] = c /\ made[u[3]] = "whole"}
    BY <1>1, <1>3
  <2>2. QED
    BY <1>3, <2>1 DEF Listed
<1>4. CASE c = d
  <2>1. ASSUME NEW e \in Listed(c)' PROVE e \in Listed(c) /\ e[1] # KeyOf[n]
    BY <1>1, <1>2, <1>4 DEF Listed
  <2>2. ASSUME NEW e \in Listed(c), e[1] # KeyOf[n] PROVE e \in Listed(c)'
    <3>1. PICK t \in hashed : t[1] = c /\ made[t[3]] = "whole" /\ e = <<KeyOf[t[2]], t[3]>>
      BY DEF Listed
    <3>2. t \in hashed' /\ made'[t[3]] = "whole"
      BY <1>1, <2>2, <3>1
    <3>3. QED
      BY <3>1, <3>2 DEF Listed
  <2>3. QED
    BY <1>4, <2>1, <2>2
<1>5. QED
  BY <1>3, <1>4

\* Coherent says that a tree has exactly the entries listed.
LEMMA CoherentListed == Coherent <=> misled \/ \A d \in Called : tree[d] = Listed(d)
  BY DEF Coherent, Listed

\* Every step keeps the trees and the names alike.
LEMMA TreesKept == ASSUME WellTyped, Placed, Trees, [Next]_vars PROVE Trees'
<1>1. ASSUME NEW d \in Called, NEW n \in Names, NEW i \in Inodes, NEW type \in {"dir", "file"},
             NEW k \in KeysFor(n), Create(d, n, i, type, k) \/ CreateHalf(d, n, i, type, k)
      PROVE  Trees'
  <2>1. PICK how : Added(d, n, i, how)
    BY <1>1, CreateAdds
  <2>2. d \in Inodes /\ kind[d] = "dir" /\ kind[i] = "free" /\ d # i
    BY <2>1, CalledType DEF Added
  <2>3. \A j \in Inodes : j # i => kind'[j] = kind[j] /\ made'[j] = made[j]
    BY <2>1, <2>2 DEF Added, WellTyped
  <2>4. Removed' = Removed
    BY <2>1, RemovedAfter DEF Added
  <2>5. \A j \in Inodes : tree'[j] # tree[j] => j = d
    BY <1>1, <2>2 DEF Create, CreateHalf, WellTyped
  <2>6. EmptyElsewhere'
    BY <2>2, <2>3, <2>5 DEF Trees, EmptyElsewhere
  <2>7. ASSUME ~misled', NEW c \in Called' PROVE tree'[c] = Listed(c)'
    <3>1. ~misled
      <4>1. misled => misled'
        BY <1>1, Zenon DEF Create, CreateHalf
      <4>2. QED
        BY <2>7, <4>1
    <3>2. c \in Inodes
      BY DEF Called
    <3>3. CASE c = i
      <4>1. tree'[c] = {} /\ c # d
        BY <2>2, <2>5, <3>3 DEF Trees, EmptyElsewhere
      <4>2. Listed(c) = {}
        BY <2>2, <3>3 DEF Listed, Placed, NamesInUse
      <4>3. QED
        BY <2>1, <3>2, <4>1, <4>2, ListedAdded
    <3>4. CASE c # i
      <4>1. c \in Called
        BY <2>3, <2>4, <3>2, <3>4 DEF Called
      <4>2. tree[c] = Listed(c)
        BY <3>1, <4>1, CoherentListed DEF Trees
      <4>3. tree'[d] = IF how = "whole" THEN tree[d] \cup {<<KeyOf[n], i>>} ELSE tree[d]
        <5>1. made'[i] = how
          BY <2>1 DEF Added, WellTyped
        <5>2. CASE how = "whole"
          <6>1. tree' = [tree EXCEPT ![d] = @ \cup {<<k, i>>}] /\ misled' = (misled \/ k # KeyOf[n])
            BY <1>1, <5>1, <5>2 DEF Create, CreateHalf, Allocate, WellTyped
          <6>2. k = KeyOf[n]
            BY <2>7, <6>1, Zenon
          <6>3. QED
            BY <2>2, <5>2, <6>1, <6>2 DEF WellTyped
        <5>3. CASE how # "whole"
          BY <1>1, <5>1, <5>3 DEF Create, CreateHalf, Allocate, WellTyped
        <5>4. QED
          BY <5>2, <5>3
      <4>4. QED
        <5>1. CASE c = d
          <6>1. CASE how = "whole"
            BY <2>1, <3>2, <4>2, <4>3, <5>1, <6>1, ListedAdded, ZenonT(40)
          <6>2. CASE how # "whole"
            BY <2>1, <3>2, <4>2, <4>3, <5>1, <6>2, ListedAdded
          <6>3. QED
            BY <6>1, <6>2
        <5>2. CASE c # d
          BY <2>1, <2>5, <3>2, <4>2, <5>2, ListedAdded
        <5>3. QED
          BY <5>1, <5>2
    <3>5. QED
      BY <3>3, <3>4
  <2>8. Coherent'
    <3>1. misled' \/ \A c \in Called' : tree'[c] = Listed(c)'
      BY <2>7
    <3>2. QED
      BY <3>1 DEF Coherent, Listed
  <2>9. QED
    BY <2>6, <2>8 DEF Trees
<1>2. ASSUME NEW d \in Called, NEW n \in Names, NEW i \in Inodes, NEW k \in KeysFor(n),
             Unlink(d, n, i, k) \/ Rmdir(d, n, i, k)
      PROVE  Trees'
  <2>1. /\ Taken(d, n, i) /\ Removed' = Removed \cup {i}
        /\ d \in Inodes /\ kind[d] = "dir" /\ <<d, n, i>> \in hashed
    BY <1>2, RemovalTakes, RemovedAfter, CalledType DEF Taken
  <2>2. d # i
    BY <2>1 DEF Placed, NamesInUse
  <2>3. Forsake(d, n, i, k)
    BY <1>2 DEF Unlink, Rmdir
  <2>4. tree' = [tree EXCEPT ![d] = @ \ Hits(d, k), ![i] = {}]
    BY <2>3 DEF Forsake
  <2>5. EmptyElsewhere'
    <3>1. kind' = kind
      BY <2>1 DEF Taken
    <3>2. QED
      BY <2>1, <2>4, <3>1 DEF Trees, EmptyElsewhere, WellTyped
  <2>6. ASSUME ~misled', NEW c \in Called' PROVE tree'[c] = Listed(c)'
    <3>1. ~misled /\ k = KeyOf[n]
      BY <2>3, <2>6, Zenon DEF Forsake
    <3>2. c \in Called /\ c \in Inodes /\ c # i
      BY <2>1 DEF Called, Taken
    <3>3. tree[c] = Listed(c)
      BY <3>1, <3>2, CoherentListed DEF Trees
    <3>4. CASE c = d
      <4>1. tree'[c] = {e \in tree[c] : e[1] # k}
        BY <2>1, <2>2, <2>4, <3>4 DEF Hits, WellTyped
      <4>2. QED
        BY <2>1, <3>1, <3>2, <3>3, <3>4, <4>1, ListedTaken
    <3>5. CASE c # d
      <4>1. tree'[c] = tree[c]
        BY <2>4, <3>2, <3>5 DEF WellTyped
      <4>2. QED
        BY <2>1, <3>2, <3>3, <3>5, <4>1, ListedTaken
    <3>6. QED
      BY <3>4, <3>5
  <2>7. Coherent'
    <3>1. misled' \/ \A c \in Called' : tree'[c] = Listed(c)'
      BY <2>6
    <3>2. QED
      BY <3>1 DEF Coherent, Listed
  <2>8. QED
    BY <2>5, <2>7 DEF Trees
<1>3. ASSUME NEW i \in Inodes, Forget(i) \/ MakeRoot(i) \/ RootEvicted(i) \/ Destroy(i)
      PROVE  Trees'
  <2>1. kind[i] \in {"free", "evicted"} /\ UNCHANGED <<dentries, tree, misled>>
    BY <1>3 DEF Forget, MakeRoot, RootEvicted, Destroy, Allocate
  <2>2. \A j \in Inodes : j # i => kind'[j] = kind[j] /\ made'[j] = made[j]
    BY <1>3 DEF Forget, MakeRoot, RootEvicted, Destroy, Allocate, WellTyped
  <2>3. tree[i] = {} /\ Listed(i) = {}
    BY <2>1 DEF Trees, EmptyElsewhere, Listed, Placed, NamesInUse
  <2>4. EmptyElsewhere'
    BY <2>1, <2>2, <2>3 DEF Trees, EmptyElsewhere
  <2>5. ASSUME NEW c PROVE Listed(c)' = Listed(c)
    <3>1. \A u \in hashed : made'[u[3]] = made[u[3]]
      BY <2>1, <2>2 DEF Placed, NamesInUse, InUse, WellTyped
    <3>2. {u \in hashed' : u[1] = c /\ made'[u[3]] = "whole"} =
            {u \in hashed : u[1] = c /\ made[u[3]] = "whole"}
      BY <2>1, <3>1
    <3>3. QED
      BY <3>2 DEF Listed
  <2>6. ASSUME ~misled', NEW c \in Called' PROVE tree'[c] = Listed(c)'
    <3>1. c \in Called \/ c = i
      BY <2>1, <2>2, RemovedAfter DEF Called
    <3>2. c \in Called => tree[c] = Listed(c)
      BY <2>1, <2>6, CoherentListed DEF Trees
    <3>3. QED
      BY <2>1, <2>3, <2>5, <3>1, <3>2
  <2>7. Coherent'
    <3>1. misled' \/ \A c \in Called' : tree'[c] = Listed(c)'
      BY <2>6
    <3>2. QED
      BY <3>1 DEF Coherent, Listed
  <2>8. QED
    BY <2>4, <2>7 DEF Trees
<1>4. CASE Quiet
  <2>1. Removed' = Removed
    BY <1>4, RemovedAfter DEF Quiet
  <2>2. QED
    BY <1>4, <2>1 DEF Quiet, Trees, EmptyElsewhere, Coherent, Called
<1>5. CASE Shutdown
  <2>1. ASSUME NEW j \in Inodes PROVE kind'[j] # "dir" /\ tree'[j] = {}
    <3>1. kind'[j] = IF InUse(j) THEN IF j \in Kept THEN "lost" ELSE "evicted" ELSE kind[j]
      BY <1>5, Zenon DEF Shutdown
    <3>2. tree'[j] = {}
      BY <1>5, Zenon DEF Shutdown
    <3>3. QED
      BY <3>1, <3>2 DEF InUse
  <2>2. QED
    BY <2>1 DEF Trees, EmptyElsewhere, Coherent, Called
<1>6. QED
  BY <1>1, <1>2, <1>3, <1>4, <1>5, QuietSteps, ZenonT(40)
  DEF Next, Calls, CreateForgets, CreateOops, RmdirOops, RootForgotten

\* A lookup that has the right key finds no entry of a name that is not cached.
LEMMA LookupMisled ==
  ASSUME WellTyped, Placed, Trees, NEW d \in Called, NEW n \in Names, NEW k \in KeysFor(n),
         Lookup(d, n, k)
  PROVE  misled'
<1>1. ~IsNamed(d, n) /\ Hits(d, k) # {} /\ misled' = (misled \/ k # KeyOf[n])
  BY Zenon DEF Lookup
<1>2. SUFFICES ASSUME ~misled, k = KeyOf[n] PROVE FALSE
  BY <1>1, Zenon
<1>3. PICK e \in tree[d] : e[1] = k
  BY <1>1 DEF Hits
<1>4. e \in Listed(d)
  BY <1>2, <1>3, CoherentListed DEF Trees
<1>5. PICK t \in hashed : t[1] = d /\ e = <<KeyOf[t[2]], t[3]>>
  BY <1>4 DEF Listed
<1>6. t[2] = n
  BY <1>2, <1>3, <1>5, KeysAssumption DEF WellTyped
<1>7. QED
  BY <1>1, <1>5, <1>6 DEF IsNamed

-----------------------------------------------------------------------------
(* The counts *)

\* The names in directory d, and those that are directories.
NamesOf(d) == {t \in hashed : t[1] = d}
DirsOf(d) == {t \in hashed : t[1] = d /\ kind[t[3]] = "dir"}

\* A named file has a link to lose.
FileLinked ==
    \A t \in hashed : kind[t[3]] = "file" /\ made[t[3]] # "half" => nlink[t[3]] >= 1

\* The names of a directory are finitely many as long as all names are.
LEMMA NamesFinite ==
  ASSUME IsFiniteSet(hashed), NEW d
  PROVE  /\ IsFiniteSet(NamesOf(d)) /\ Cardinality(NamesOf(d)) \in Nat
         /\ IsFiniteSet(DirsOf(d)) /\ Cardinality(DirsOf(d)) \in Nat
<1>1. NamesOf(d) \subseteq hashed /\ DirsOf(d) \subseteq hashed
  BY DEF NamesOf, DirsOf
<1>2. QED
  BY <1>1, FS_Subset, FS_CardinalityType

\* The counts in these terms.
LEMMA CountsListed ==
  /\ FileNumExact <=> \A d \in Called : fileNum[d] = Cardinality(NamesOf(d))
  /\ LinksSuffice <=> /\ \A d \in Called : nlink[d] >= 2 + Cardinality(DirsOf(d))
                      /\ FileLinked
  BY DEF FileNumExact, LinksSuffice, NamesOf, DirsOf, FileLinked

\* The directories called after a step that takes an inode that was not in use.
LEMMA CalledAdded ==
  ASSUME WellTyped, NEW i \in Inodes, ~InUse(i), UNCHANGED unhashed,
         \A j \in Inodes : j # i => kind'[j] = kind[j] /\ made'[j] = made[j]
  PROVE  /\ i \notin Called /\ Called' \ {i} = Called
         /\ i \in Called' => kind'[i] = "dir" /\ made'[i] # "half"
<1>1. Removed' = Removed
  BY RemovedAfter
<1>2. QED
  BY <1>1 DEF Called, InUse

\* The counts after a step that takes an inode that was not in use and changes
\* no name.
LEMMA CountsUnnamed ==
  ASSUME WellTyped, WellTyped', Placed, Counts, NEW i \in Inodes, ~InUse(i), UNCHANGED dentries,
         \A j \in Inodes : j # i => /\ kind'[j] = kind[j] /\ made'[j] = made[j]
                                   /\ nlink'[j] = nlink[j] /\ fileNum'[j] = fileNum[j],
         fileNum'[i] >= 0,
         kind'[i] = "dir" => fileNum'[i] = 0,
         kind'[i] = "dir" /\ made'[i] # "half" => nlink'[i] >= 2,
         kind'[i] # "file",
         ~InUse(i)' => nlink'[i] >= 0
  PROVE  Counts'
<1>1. i \notin Called /\ Called' \ {i} = Called
        /\ (i \in Called' => kind'[i] = "dir" /\ made'[i] # "half")
  BY CalledAdded
<1>2. \A t \in hashed : t[1] # i /\ t[3] # i /\ t[1] \in Inodes /\ t[3] \in Inodes
  BY DEF Placed, NamesInUse, InUse, WellTyped
<1>3. hashed' = hashed
  OBVIOUS
<1>4. ASSUME NEW c PROVE NamesOf(c)' = NamesOf(c) /\ DirsOf(c)' = DirsOf(c)
  <2>1. \A t \in hashed : kind'[t[3]] = kind[t[3]]
    BY <1>2
  <2>2. QED
    BY <1>3, <2>1 DEF NamesOf, DirsOf
<1>5. NamesOf(i) = {} /\ DirsOf(i) = {}
  BY <1>2 DEF NamesOf, DirsOf
<1>6. ASSUME NEW c \in Called'
      PROVE  /\ fileNum'[c] = Cardinality(NamesOf(c)')
             /\ nlink'[c] >= 2 + Cardinality(DirsOf(c)')
  <2>1. CASE c = i
    <3>1. nlink'[i] >= 2 /\ fileNum'[i] = 0
      BY <1>1, <1>6, <2>1
    <3>2. NamesOf(c)' = {} /\ DirsOf(c)' = {}
      BY <1>4, <1>5, <2>1
    <3>3. QED
      BY <2>1, <3>1, <3>2, FS_EmptySet
  <2>2. CASE c # i
    <3>1. c \in Called /\ c \in Inodes
      BY <1>1, <2>2 DEF Called
    <3>2. QED
      BY <1>4, <2>2, <3>1, CountsListed DEF Counts
  <2>3. QED
    BY <2>1, <2>2
<1>7. FileLinked'
  BY <1>2, <1>3, CountsListed DEF Counts, FileLinked
<1>8. ASSUME NEW j \in Inodes, ~InUse(j)' \/ made'[j] # "half"
      PROVE  nlink'[j] >= 0
  <2>1. CASE j = i
    BY <1>8, <2>1 DEF InUse, WellTyped, Kinds
  <2>2. CASE j # i
    BY <1>8, <2>2 DEF Counts, LinksLeft, InUse
  <2>3. QED
    BY <2>1, <2>2
<1>9. FileNumExact' /\ LinksSuffice'
  BY <1>6, <1>7 DEF FileNumExact, LinksSuffice, NamesOf, DirsOf, FileLinked
<1>10. \A j \in Inodes : fileNum'[j] >= 0
  BY DEF Counts
<1>11. IsFiniteSet(hashed)'
  BY <1>3 DEF Counts
<1>12. QED
  BY <1>8, <1>9, <1>10, <1>11 DEF Counts, LinksLeft

\* The counts after a creation.
LEMMA CountsAdded ==
  ASSUME WellTyped, WellTyped', Placed, Counts, NEW d \in Called, NEW n \in Names,
         NEW i \in Inodes, NEW how, Added(d, n, i, how), NEW count \in Int,
         Bind(d, n, i, count),
         made'[i] # "half" => count >= 1,
         kind'[i] = "dir" /\ made'[i] # "half" => count >= 2
  PROVE  Counts'
<1>1. d \in Inodes /\ kind[d] = "dir" /\ d # i /\ ~InUse(i)
  BY CalledType DEF Added, InUse
<1>2. hashed' = hashed \cup {<<d, n, i>>} /\ UNCHANGED unhashed
  BY DEF Added
<1>3. /\ \A j \in Inodes : j # i => kind'[j] = kind[j] /\ made'[j] = made[j]
      /\ kind'[i] \in {"dir", "file"}
  BY DEF Added, WellTyped
<1>4. /\ fileNum'[i] = 0 /\ nlink'[i] = count
      /\ fileNum'[d] = fileNum[d] + 1 /\ nlink'[d] = nlink[d] + 1
      /\ \A j \in Inodes : j # i /\ j # d => fileNum'[j] = fileNum[j] /\ nlink'[j] = nlink[j]
  BY <1>1 DEF Bind, WellTyped
<1>5. i \notin Called /\ Called' \ {i} = Called
        /\ (i \in Called' => kind'[i] = "dir" /\ made'[i] # "half")
  BY <1>1, <1>2, <1>3, CalledAdded
<1>6. \A t \in hashed : /\ t[1] # i /\ t[3] # i /\ t[1] \in Inodes /\ t[3] \in Inodes
                        /\ t # <<d, n, i>>
  BY <1>1 DEF Placed, NamesInUse, InUse, WellTyped
<1>7. \A t \in hashed : kind'[t[3]] = kind[t[3]]
  BY <1>3, <1>6
<1>8. IsFiniteSet(hashed')
  BY <1>2, FS_AddElement DEF Counts
<1>9. NamesOf(i)' = {} /\ DirsOf(i)' = {}
  BY <1>1, <1>2, <1>6 DEF NamesOf, DirsOf
<1>10. NamesOf(d)' = NamesOf(d) \cup {<<d, n, i>>} /\ <<d, n, i>> \notin NamesOf(d)
  BY <1>2, <1>6 DEF NamesOf
<1>11. Cardinality(NamesOf(d)') = Cardinality(NamesOf(d)) + 1
  BY <1>10, NamesFinite, FS_AddElement DEF Counts
<1>12. Cardinality(DirsOf(d)') <= Cardinality(DirsOf(d)) + 1
  <2> DEFINE D == DirsOf(d)
  <2>0. IsFiniteSet(D) /\ Cardinality(D) \in Nat
    BY NamesFinite DEF Counts
  <2>1. DirsOf(d)' = DirsOf(d) \/ DirsOf(d)' = DirsOf(d) \cup {<<d, n, i>>}
    <3>1. CASE kind'[i] = "dir"
      BY <1>2, <1>7, <3>1 DEF DirsOf
    <3>2. CASE kind'[i] # "dir"
      BY <1>2, <1>7, <3>2 DEF DirsOf
    <3>3. QED
      BY <3>1, <3>2
  <2>2. Cardinality(D \cup {<<d, n, i>>}) <= Cardinality(D) + 1
    <3> HIDE DEF D
    <3>1. Cardinality(D \cup {<<d, n, i>>}) \in {Cardinality(D), Cardinality(D) + 1}
      BY <2>0, FS_AddElement, Zenon
    <3>2. QED
      BY <2>0, <3>1
  <2>3. CASE DirsOf(d)' = DirsOf(d)
    BY <2>0, <2>3
  <2>4. CASE DirsOf(d)' = DirsOf(d) \cup {<<d, n, i>>}
    BY <2>2, <2>4
  <2>5. QED
    BY <2>1, <2>3, <2>4
<1>13. ASSUME NEW c, c # d PROVE NamesOf(c)' = NamesOf(c) /\ DirsOf(c)' = DirsOf(c)
  BY <1>2, <1>7, <1>13 DEF NamesOf, DirsOf
<1>14. ASSUME NEW c \in Called'
       PROVE  /\ fileNum'[c] = Cardinality(NamesOf(c)')
              /\ nlink'[c] >= 2 + Cardinality(DirsOf(c)')
  <2>1. CASE c = i
    <3>1. NamesOf(c)' = {} /\ DirsOf(c)' = {}
      BY <1>1, <1>2, <1>6, <2>1 DEF NamesOf, DirsOf
    <3>2. QED
      BY <1>4, <1>5, <2>1, <3>1, FS_EmptySet
  <2>2. CASE c = d
    <3>1. fileNum[d] = Cardinality(NamesOf(d)) /\ nlink[d] >= 2 + Cardinality(DirsOf(d))
      BY CountsListed DEF Counts
    <3>2. Cardinality(DirsOf(d)) \in Nat /\ Cardinality(DirsOf(d)') \in Nat
      BY <1>2, <1>8, NamesFinite, FS_Subset, FS_CardinalityType DEF Counts, DirsOf
    <3>3. nlink[d] \in Int
      BY <1>1 DEF WellTyped
    <3>4. fileNum'[d] = Cardinality(NamesOf(d)') /\ nlink'[d] >= 2 + Cardinality(DirsOf(d)')
      BY <1>4, <1>11, <1>12, <3>1, <3>2, <3>3
    <3>5. QED
      BY <2>2, <3>4, Zenon DEF NamesOf, DirsOf
  <2>3. CASE c # i /\ c # d
    <3>1. c \in Called /\ c \in Inodes
      BY <1>5, <2>3 DEF Called
    <3>2. QED
      BY <1>4, <1>13, <2>3, <3>1, CountsListed DEF Counts
  <2>4. QED
    BY <2>1, <2>2, <2>3
<1>15. FileLinked'
  <2>1. FileLinked
    BY CountsListed DEF Counts
  <2>2. QED
    BY <1>1, <1>2, <1>3, <1>4, <1>6, <2>1 DEF FileLinked, WellTyped
<1>16. LinksLeft'
  BY <1>1, <1>3, <1>4 DEF Counts, LinksLeft, InUse, WellTyped
<1>17. FileNumExact' /\ LinksSuffice'
  BY <1>14, <1>15 DEF FileNumExact, LinksSuffice, NamesOf, DirsOf, FileLinked
<1>18. \A j \in Inodes : fileNum'[j] >= 0
  BY <1>1, <1>4 DEF Counts, WellTyped
<1>19. QED
  BY <1>8, <1>16, <1>17, <1>18 DEF Counts

\* The counts after a removal.
LEMMA CountsTaken ==
  ASSUME WellTyped, WellTyped', Placed, Counts, NEW d \in Called, NEW n \in Names,
         NEW i \in Inodes, NEW k, Unlink(d, n, i, k) \/ Rmdir(d, n, i, k)
  PROVE  Counts'
<1>1. /\ Taken(d, n, i) /\ Removed' = Removed \cup {i}
      /\ d \in Inodes /\ kind[d] = "dir"
  BY RemovalTakes, RemovedAfter, CalledType
<1>2. /\ <<d, n, i>> \in hashed /\ hashed' = hashed \ {<<d, n, i>>}
      /\ kind' = kind /\ made' = made
  BY <1>1 DEF Taken
<1>3. d # i /\ i \notin Removed
  BY <1>2 DEF Placed, NamesInUse
<1>4. Called' = Called \ {i}
  BY <1>1, <1>2 DEF Called
<1>5. \A t \in hashed' : t \in hashed /\ t[3] # i
  BY <1>2 DEF Placed, OneName
<1>6. fileNum' = [fileNum EXCEPT ![d] = @ - 1] /\ fileNum[d] # 0
  BY DEF Unlink, Rmdir, Forsake
<1>7. IsFiniteSet(hashed')
  BY <1>2, FS_RemoveElement DEF Counts
<1>8. /\ IsFiniteSet(NamesOf(d)) /\ IsFiniteSet(DirsOf(d))
      /\ Cardinality(NamesOf(d)) \in Nat /\ Cardinality(DirsOf(d)) \in Nat
      /\ fileNum[d] = Cardinality(NamesOf(d)) /\ nlink[d] >= 2 + Cardinality(DirsOf(d))
      /\ nlink[d] \in Int /\ FileLinked
  BY <1>1, NamesFinite, CountsListed DEF Counts, WellTyped
<1>9. Cardinality(NamesOf(d)') = Cardinality(NamesOf(d)) - 1
  <2>1. NamesOf(d)' = NamesOf(d) \ {<<d, n, i>>} /\ <<d, n, i>> \in NamesOf(d)
    BY <1>2 DEF NamesOf
  <2>2. QED
    BY <1>8, <2>1, FS_RemoveElement, ZenonT(40)
<1>10. DirsOf(d)' = DirsOf(d) \ {<<d, n, i>>}
  BY <1>2 DEF DirsOf
<1>11. ASSUME NEW c, c # d PROVE NamesOf(c)' = NamesOf(c) /\ DirsOf(c)' = DirsOf(c)
  <2>1. \A t \in hashed : t[1] = c => t \in hashed'
    BY <1>2, <1>11
  <2>2. QED
    BY <1>2, <1>5, <2>1 DEF NamesOf, DirsOf
<1>12. /\ nlink'[d] >= 2 + Cardinality(DirsOf(d)') /\ Cardinality(DirsOf(d)') \in Nat
       /\ made[i] # "half" => nlink'[i] >= 0
  <2>1. CASE Unlink(d, n, i, k)
    <3>1. kind[i] = "file" /\ nlink' = [nlink EXCEPT ![i] = @ - 1]
      BY <2>1 DEF Unlink
    <3>2. DirsOf(d)' = DirsOf(d)
      BY <1>10, <3>1 DEF DirsOf
    <3>3. made[i] # "half" => nlink[i] >= 1
      BY <1>2, <1>8, <3>1 DEF FileLinked
    <3>4. QED
      BY <1>1, <1>3, <1>8, <3>1, <3>2, <3>3 DEF WellTyped
  <2>2. CASE Rmdir(d, n, i, k)
    <3>1. /\ kind[i] = "dir"
          /\ nlink' = [nlink EXCEPT ![i] = @ - 2, ![d] = @ - 1]
      BY <2>2 DEF Rmdir
    <3>2. made[i] # "half" => i \in Called
      BY <1>3, <3>1 DEF Called
    <3>3. Cardinality(DirsOf(d)') = Cardinality(DirsOf(d)) - 1
      <4>1. <<d, n, i>> \in DirsOf(d)
        BY <1>2, <3>1 DEF DirsOf
      <4>2. QED
        BY <1>8, <1>10, <4>1, FS_RemoveElement, ZenonT(40)
    <3>4. made[i] # "half" => nlink[i] >= 2
      BY <3>2, NamesFinite, CountsListed DEF Counts, WellTyped
    <3>5. Cardinality(DirsOf(d)') \in Nat
      BY <1>8, <1>10, FS_RemoveElement, FS_CardinalityType
    <3>6. QED
      BY <1>1, <1>3, <1>8, <3>1, <3>3, <3>4, <3>5 DEF WellTyped
  <2>3. QED
    BY <2>1, <2>2
<1>13. \A j \in Inodes : j # i /\ j # d => nlink'[j] = nlink[j]
  BY DEF Unlink, Rmdir, WellTyped
<1>14. ASSUME NEW c \in Called'
       PROVE  /\ fileNum'[c] = Cardinality(NamesOf(c)')
              /\ nlink'[c] >= 2 + Cardinality(DirsOf(c)')
  <2>1. CASE c = d
    <3>1. fileNum'[d] = Cardinality(NamesOf(d)') /\ nlink'[d] >= 2 + Cardinality(DirsOf(d)')
      BY <1>1, <1>6, <1>8, <1>9, <1>12 DEF WellTyped
    <3>2. QED
      BY <2>1, <3>1, Zenon DEF NamesOf, DirsOf
  <2>2. CASE c # d
    <3>1. c \in Called /\ c \in Inodes /\ c # i
      BY <1>4 DEF Called
    <3>2. QED
      BY <1>6, <1>11, <1>13, <2>2, <3>1, CountsListed DEF Counts, WellTyped
  <2>3. QED
    BY <2>1, <2>2
<1>15. FileLinked'
  <2>1. \A t \in hashed' : t[3] \in Inodes /\ (kind[t[3]] = "file" => t[3] # d)
    BY <1>1, <1>5 DEF WellTyped
  <2>2. QED
    BY <1>2, <1>5, <1>8, <1>13, <2>1 DEF FileLinked
<1>16. ASSUME NEW j \in Inodes, ~InUse(j)' \/ made'[j] # "half"
       PROVE  nlink'[j] >= 0
  <2>1. CASE j = i
    <3>1. InUse(i)
      BY <1>2 DEF Placed, NamesInUse
    <3>2. QED
      BY <1>2, <1>12, <1>16, <2>1, <3>1 DEF InUse
  <2>2. CASE j = d
    <3>1. nlink'[d] \in Int
      BY <1>1 DEF WellTyped
    <3>2. QED
      BY <1>12, <2>2, <3>1
  <2>3. CASE j # i /\ j # d
    BY <1>2, <1>13, <1>16, <2>3 DEF Counts, LinksLeft, InUse
  <2>4. QED
    BY <2>1, <2>2, <2>3
<1>17. FileNumExact' /\ LinksSuffice'
  BY <1>14, <1>15 DEF FileNumExact, LinksSuffice, NamesOf, DirsOf, FileLinked
<1>18. \A j \in Inodes : fileNum'[j] >= 0
  BY <1>1, <1>6 DEF Counts, WellTyped
<1>19. QED
  BY <1>7, <1>16, <1>17, <1>18 DEF Counts, LinksLeft

\* Every step keeps the counts.
LEMMA CountsKept == ASSUME WellTyped, WellTyped', Placed, Counts, [Next]_vars PROVE Counts'
<1>1. ASSUME NEW d \in Called, NEW n \in Names, NEW i \in Inodes, NEW type \in {"dir", "file"},
             NEW k \in KeysFor(n), Create(d, n, i, type, k)
      PROVE  Counts'
  <2>1. PICK how : Added(d, n, i, how)
    BY <1>1, CreateAdds
  <2>2. Bind(d, n, i, LinksOf(type)) /\ kind'[i] = type
    BY <1>1 DEF Create, Allocate, WellTyped
  <2>3. LinksOf(type) \in Int /\ LinksOf(type) >= 1 /\ (type = "dir" => LinksOf(type) >= 2)
    BY DEF LinksOf
  <2>4. QED
    BY <2>1, <2>2, <2>3, CountsAdded
<1>2. ASSUME NEW d \in Called, NEW n \in Names, NEW i \in Inodes, NEW type \in {"dir", "file"},
             NEW k \in KeysFor(n), CreateHalf(d, n, i, type, k)
      PROVE  Counts'
  <2>1. PICK how : Added(d, n, i, how)
    BY <1>2, CreateAdds
  <2>2. PICK half \in HalfMade(type) : Allocate(i, type, "half", half.data) /\ Bind(d, n, i, half.count)
    BY <1>2 DEF CreateHalf
  <2>3. made'[i] = "half" /\ half.count \in Int
    BY <2>2, HalfType DEF Allocate, WellTyped
  <2>4. QED
    BY <2>1, <2>2, <2>3, CountsAdded
<1>3. ASSUME NEW d \in Called, NEW n \in Names, NEW i \in Inodes, NEW k \in KeysFor(n),
             Unlink(d, n, i, k) \/ Rmdir(d, n, i, k)
      PROVE  Counts'
  BY <1>3, CountsTaken
<1>4. ASSUME NEW i \in Inodes, MakeRoot(i)
      PROVE  Counts'
  <2>1. /\ kind[i] = "free" /\ kind'[i] = "dir" /\ fileNum'[i] = 0 /\ UNCHANGED dentries
        /\ \A j \in Inodes : j # i => /\ kind'[j] = kind[j] /\ made'[j] = made[j]
                                      /\ nlink'[j] = nlink[j] /\ fileNum'[j] = fileNum[j]
    BY <1>4 DEF MakeRoot, Allocate, WellTyped
  <2>2. made'[i] # "half" => nlink'[i] >= 2
    BY <1>4 DEF MakeRoot, Allocate, LinksOf, WellTyped
  <2>3. ~InUse(i) /\ InUse(i)'
    BY <2>1 DEF InUse
  <2>4. QED
    BY <2>1, <2>2, <2>3, CountsUnnamed
<1>5. ASSUME NEW i \in Inodes, Forget(i) \/ RootEvicted(i) \/ Destroy(i)
      PROVE  Counts'
  <2>1. /\ kind[i] \in {"free", "evicted"} /\ kind'[i] \in {"lost", "evicted", "free"}
        /\ UNCHANGED <<links, dentries>>
        /\ \A j \in Inodes : j # i => kind'[j] = kind[j] /\ made'[j] = made[j]
    BY <1>5 DEF Forget, RootEvicted, Destroy, Allocate, WellTyped
  <2>2. ~InUse(i)
    BY <2>1 DEF InUse
  <2>3. nlink'[i] >= 0 /\ fileNum'[i] >= 0
    BY <2>1, <2>2 DEF Counts, LinksLeft
  <2>4. QED
    BY <2>1, <2>2, <2>3, CountsUnnamed
<1>6. CASE Quiet
  <2>1. Called' = Called
    BY <1>6, RemovedAfter DEF Quiet, Called
  <2>2. QED
    BY <1>6, <2>1
    DEF Quiet, Counts, FileNumExact, LinksSuffice, LinksLeft, InUse
<1>7. CASE Shutdown
  <2>1. ASSUME NEW j \in Inodes PROVE kind'[j] # "dir" /\ nlink'[j] = 0 /\ fileNum'[j] = 0
    <3>1. kind'[j] = IF InUse(j) THEN IF j \in Kept THEN "lost" ELSE "evicted" ELSE kind[j]
      BY <1>7, Zenon DEF Shutdown
    <3>2. nlink'[j] = 0 /\ fileNum'[j] = 0
      BY <1>7, Zenon DEF Shutdown
    <3>3. QED
      BY <3>1, <3>2 DEF InUse
  <2>2. hashed' = {}
    BY <1>7 DEF Shutdown
  <2>3. IsFiniteSet(hashed')
    BY <2>2, FS_EmptySet
  <2>4. QED
    BY <2>1, <2>2, <2>3 DEF Counts, FileNumExact, LinksSuffice, LinksLeft, Called
<1>8. QED
  BY <1>1, <1>2, <1>3, <1>4, <1>5, <1>6, <1>7, QuietSteps, ZenonT(40)
  DEF Next, Calls, CreateForgets, CreateOops, RmdirOops, RootForgotten

-----------------------------------------------------------------------------
(* The theorems *)

\* The invariant holds at first.
LEMMA InitIInv == Init => IInv
<1> SUFFICES ASSUME Init PROVE IInv
  OBVIOUS
<1>1. WellTyped
  <2>1. tree \in [Inodes -> SUBSET (Nat \X Inodes)]
    BY Zenon DEF Init
  <2>2. hashed \subseteq Inodes \X Names \X Inodes /\ unhashed \subseteq Inodes \X Inodes
    BY Zenon DEF Init
  <2>3. kind \in [Inodes -> Kinds] /\ made \in [Inodes -> Mades] /\ entity \in [Inodes -> Pointers]
    BY DEF Init, Kinds, Mades, Pointers
  <2>4. nlink \in [Inodes -> Int] /\ fileNum \in [Inodes -> Int]
    BY DEF Init
  <2>5. root = NULL /\ fd = NULL /\ misled = FALSE /\ fate = "runs"
    BY DEF Init
  <2>6. QED
    BY <2>1, <2>2, <2>3, <2>4, <2>5 DEF WellTyped
<1>2. Removed = {} /\ Called = {}
  BY DEF Init, Removed, Called
<1>3. Placed
  BY <1>2 DEF Init, Placed, NamesInUse, RemovedInUse, OneName, OpenInUse
<1>4. Entities
  BY DEF Init, Entities, ReachedIsLive, EvictedIsLive, InUse
<1>5. Counts
  BY <1>2, FS_EmptySet DEF Init, Counts, FileNumExact, LinksSuffice, LinksLeft
<1>6. Trees
  BY <1>2 DEF Init, Trees, Coherent, EmptyElsewhere
<1>7. QED
  BY <1>1, <1>3, <1>4, <1>5, <1>6 DEF IInv

\* Every step keeps it.
LEMMA NextIInv == IInv /\ [Next]_vars => IInv'
  BY TypesKept, PlacedKept, EntitiesKept, CountsKept, TreesKept DEF IInv

\* Every behaviour keeps it.
LEMMA Invariance == Spec => []IInv
  BY InitIInv, NextIInv, PTL DEF Spec

\* The variables keep their types, and the link count of an inode that was made
\* whole never goes below 0 (drop_nlink in inode.c).
THEOREM TypeCorrect == Spec => []TypeOK
<1>1. IInv => TypeOK
  <2> SUFFICES ASSUME IInv PROVE TypeOK
    OBVIOUS
  <2>1. \A i \in Inodes : made[i] # "half" => nlink[i] >= 0
    BY DEF IInv, Counts, LinksLeft
  <2>2. fileNum \in [Inodes -> Nat]
    BY DEF IInv, Counts, WellTyped
  <2>3. QED
    BY <2>1, <2>2 DEF IInv, WellTyped, TypeOK, Kinds, Mades, Pointers
<1>2. QED
  BY <1>1, Invariance, PTL

\* The tree of a directory and its cached names say the same (create, mkdir,
\* unlink and rmdir of inode.c), but for the names that were not listed, as long
\* as every call had the right key.
THEOREM TreesAndNames == Spec => []Coherent
<1>1. IInv => Coherent
  BY DEF IInv, Trees
<1>2. QED
  BY <1>1, Invariance, PTL

\* fileNum is the number of names, whatever ran short and with whatever keys.
THEOREM FilesCounted == Spec => []FileNumExact
<1>1. IInv => FileNumExact
  BY DEF IInv, Counts
<1>2. QED
  BY <1>1, Invariance, PTL

\* No link count that is needed runs out: of a directory whose handlers are
\* called, and of a named file (inode.c).
THEOREM LinksCounted == Spec => []LinksSuffice
<1>1. IInv => LinksSuffice
  BY DEF IInv, Counts
<1>2. QED
  BY <1>1, Invariance, PTL

\* What handlers reach has its entity, exactly if new_inode finished it, until an
\* entity is freed through a dangling pointer (inode.c).
THEOREM FinishedHaveEntity == Spec => []ReachedIsLive
<1>1. IInv => ReachedIsLive
  BY DEF IInv, Entities
<1>2. QED
  BY <1>1, Invariance, PTL

\* An open descriptor's entity is live, unless its file was unlinked or an entity
\* was freed through a dangling pointer.
THEOREM OnlyUnlinkCloses == Spec => []OpenIsLive
<1>1. IInv => OpenIsLive
  BY DEF IInv, Entities, ReachedIsLive, Placed, OpenInUse, OpenIsLive, WellTyped
<1>2. QED
  BY <1>1, Invariance, PTL

\* No entity of a finished inode is freed twice: not by unlink or rmdir and by
\* lke_fs_destroy_inode.
THEOREM NoDoubleFree == Spec => FreedOnce
<1>1. IInv /\ [Next]_vars =>
        [\A i \in Inodes : entity'[i] = "corrupt" => entity[i] = "corrupt" \/ made[i] = "half"]_vars
  BY FreedOnceStep DEF IInv
<1>2. QED
  BY <1>1, Invariance, PTL DEF Spec, FreedOnce

\* lookup hands out no inode as long as every call had the right key.
THEOREM LookupFindsNothing == Spec => []NeverStolen
<1>1. Init => NeverStolen
  BY DEF Init, NeverStolen
<1>2. IInv /\ NeverStolen /\ [Next]_vars => NeverStolen'
  <2> SUFFICES ASSUME IInv, NeverStolen, [Next]_vars, fate' = "stolen" PROVE misled'
    BY DEF NeverStolen
  <2>1. CASE UNCHANGED vars
    BY <2>1 DEF NeverStolen
  <2>2. CASE Next
    <3>1. PICK d \in Called, n \in Names : \E k \in KeysFor(n) : Lookup(d, n, k)
      BY <2>2
      DEF Next, Calls, Create, CreateHalf, CreateForgets, CreateOops, Forget, Oops, Unlink,
          Rmdir, Free, RmdirOops, Open, Close, MakeRoot, RootEvicted, RootForgotten, Destroy,
          Shutdown
    <3>2. QED
      BY <3>1, LookupMisled DEF IInv
  <2>3. QED
    BY <2>1, <2>2
<1>3. QED
  BY <1>1, <1>2, Invariance, PTL DEF Spec

\* Loading, mounting, unmounting and releasing (super.c) do to the name space
\* only what Namespace describes: the theorems above hold of them, too.
THEOREM MountKeepsNamespace == FsSpec => Spec
<1>1. FsInit => Init
  BY DEF FsInit
<1>2. [FsNext]_fsVars => [Next]_vars
  BY DEF FsNext, fsVars, Next, Register, CreateCache, Unregister, Unload, Mount, MountFails,
         MountOops, KillSuper, GracePeriod, DestroyUnloaded
<1>3. QED
  BY <1>1, <1>2, PTL DEF FsSpec, Spec

\* The super block's information is there while the file system is mounted, and
\* is given back once (fill_super, put_super).
THEOREM SuperGivenBackOnce == FsSpec => []SuperOnce
<1>1. FsInit => SuperOnce
  BY DEF FsInit, Init, SuperOnce
<1>2. SuperOnce /\ [FsNext]_fsVars => SuperOnce'
  <2> SUFFICES ASSUME SuperOnce, [FsNext]_fsVars PROVE SuperOnce'
    OBVIOUS
  <2>1. CASE UNCHANGED fsVars
    BY <2>1 DEF fsVars, SuperOnce
  <2>2. ASSUME fate = "runs", UNCHANGED <<root, sbi>>
        PROVE  SuperOnce'
    BY <2>2 DEF SuperOnce
  <2>3. ASSUME fate = "runs", Mount PROVE SuperOnce'
    BY <2>3, InodesAssumption DEF SuperOnce, Mount, MakeRoot, FillSuper
  <2>4. ASSUME fate = "runs", MountFails PROVE SuperOnce'
    BY <2>4 DEF SuperOnce, MountFails, FillSuper, RootForgotten, Forget, RootEvicted
  <2>5. CASE MountOops
    BY <2>5 DEF SuperOnce, MountOops, Oops
  <2>6. ASSUME fate = "runs", KillSuper PROVE SuperOnce'
    BY <2>6 DEF SuperOnce, KillSuper, PutSuper, Shutdown
  <2>7. CASE Register \/ CreateCache \/ Unregister \/ Unload
    BY <2>7 DEF Register, CreateCache, Unregister, Unload, SuperOnce
  <2>8. ASSUME fate = "runs", GracePeriod \/ DestroyUnloaded
        PROVE  SuperOnce'
    BY <2>8 DEF GracePeriod, Destroy, DestroyUnloaded, Oops, SuperOnce
  <2>9. ASSUME Calls PROVE UNCHANGED root
    <3>1. ASSUME NEW d, NEW n, NEW i, NEW type, NEW k,
                 Create(d, n, i, type, k) \/ CreateHalf(d, n, i, type, k)
          PROVE  UNCHANGED root
      BY <3>1 DEF Create, CreateHalf
    <3>2. ASSUME NEW d, NEW n, NEW i, NEW k, Unlink(d, n, i, k) \/ Rmdir(d, n, i, k)
          PROVE  UNCHANGED root
      BY <3>2 DEF Unlink, Rmdir
    <3>3. ASSUME NEW d, NEW n, NEW i, NEW k,
                 \/ CreateForgets(d, n, i) \/ CreateOops(d, n) \/ RmdirOops(d, n, i)
                 \/ Lookup(d, n, k) \/ Open(i) \/ Close
          PROVE  UNCHANGED root
      BY <3>3 DEF CreateForgets, CreateOops, RmdirOops, Forget, Oops, Lookup, Open, Close
    <3>4. QED
      BY <2>9, <3>1, <3>2, <3>3 DEF Calls
  <2>10. CASE FsNext
    <3>1. fate = "runs"
      BY <2>10 DEF FsNext
    <3>2. \/ Register \/ CreateCache \/ Unregister \/ Unload \/ Mount \/ MountFails \/ MountOops
          \/ KillSuper \/ GracePeriod \/ DestroyUnloaded \/ (UNCHANGED root /\ UNCHANGED sbi)
      BY <2>9, <2>10 DEF FsNext
    <3>3. QED
      BY <2>2, <2>3, <2>4, <2>5, <2>6, <2>7, <2>8, <3>1, <3>2
  <2>11. QED
    BY <2>1, <2>10
<1>3. QED
  BY <1>1, <1>2, PTL DEF FsSpec

-----------------------------------------------------------------------------
(* Listing a directory *)

\* The elements of T differ in their first components.
KeysDiffer(T) == \A e, f \in T : e[1] = f[1] => e = f

\* w has the elements of T in the order of their first components.
InOrder(w, T) ==
    w = [i \in 1 .. Cardinality(T) |->
            CHOOSE e \in T : Cardinality({f \in T : f[1] < e[1]}) = i - 1]

\* w passes each element of T once.
Walks(w, T) ==
    /\ Cardinality(T) \in Nat
    /\ w \in [1 .. Cardinality(T) -> T]
    /\ \A i, j \in 1 .. Cardinality(T) : w[i] = w[j] => i = j
    /\ \A e \in T : \E i \in 1 .. Cardinality(T) : w[i] = e

\* Each element of a finite set with different keys is in its walk, once.
LEMMA WalkIsBijection ==
  ASSUME NEW X, NEW T \in SUBSET (Nat \X X), IsFiniteSet(T), NEW w, InOrder(w, T), KeysDiffer(T)
  PROVE  Walks(w, T)
<1> DEFINE n == Cardinality(T)
           Lower(e) == {f \in T : f[1] < e[1]}
           r == [e \in T |-> Cardinality(Lower(e)) + 1]
<1>1. n \in Nat
  BY FS_CardinalityType
<1>2. \A e \in T : e[1] \in Nat
  OBVIOUS
<1>3. \A e \in T : IsFiniteSet(Lower(e)) /\ Cardinality(Lower(e)) \in Nat
  <2> TAKE e \in T
  <2>1. Lower(e) \in SUBSET T
    OBVIOUS
  <2> HIDE DEF Lower
  <2>2. IsFiniteSet(Lower(e))
    BY <2>1, FS_Subset
  <2>3. QED
    BY <2>2, FS_CardinalityType
\* Whatever is above e has e and those below e below it.
<1>4. ASSUME NEW e \in T, NEW S \in SUBSET T, Lower(e) \subseteq S, e \in S
      PROVE  Cardinality(Lower(e)) + 1 <= Cardinality(S)
  <2>1. IsFiniteSet(S)
    BY FS_Subset
  <2>2. e \notin Lower(e)
    BY <1>2
  <2>3. IsFiniteSet(Lower(e))
    BY <1>3
  <2> HIDE DEF Lower
  <2>4. Cardinality(Lower(e) \cup {e}) = Cardinality(Lower(e)) + 1
    BY <2>2, <2>3, FS_AddElement
  <2>5. (Lower(e) \cup {e}) \in SUBSET S
    BY <1>4
  <2>6. Cardinality(Lower(e) \cup {e}) <= Cardinality(S)
    BY <2>1, <2>5, FS_Subset
  <2>7. QED
    BY <2>4, <2>6
<1>5. \A e \in T : r[e] \in 1 .. n
  <2> TAKE e \in T
  <2>1. Lower(e) \subseteq T
    OBVIOUS
  <2>2. Cardinality(Lower(e)) + 1 <= n
    BY <1>4, <2>1
  <2>3. QED
    BY <1>1, <1>3, <2>2
<1>6. \A e, f \in T : e[1] < f[1] => r[e] < r[f]
  <2> TAKE e, f \in T
  <2> HAVE e[1] < f[1]
  <2>1. Lower(f) \in SUBSET T /\ e \in Lower(f)
    OBVIOUS
  <2>2. Lower(e) \subseteq Lower(f)
    BY <1>2
  <2>3. Cardinality(Lower(e)) + 1 <= Cardinality(Lower(f))
    BY <1>4, <2>1, <2>2
  <2>4. QED
    BY <1>3, <2>3
<1> HIDE DEF r
<1>7. r \in [T -> 1 .. n]
  <2>1. r = [e \in T |-> r[e]]
    BY DEF r
  <2>2. QED
    BY <1>5, <2>1
<1>8. \A e, f \in T : r[e] = r[f] => e = f
  <2> TAKE e, f \in T
  <2> HAVE r[e] = r[f]
  <2>1. ~(e[1] < f[1]) /\ ~(f[1] < e[1])
    BY <1>5, <1>6
  <2>2. e[1] = f[1]
    BY <1>2, <2>1
  <2>3. QED
    BY <2>2 DEF KeysDiffer
<1>9. r \in Surjection(T, 1 .. n)
  <2>1. r \in Injection(T, 1 .. n)
    BY <1>7, <1>8 DEF Injection, IsInjective
  <2>2. IsFiniteSet(1 .. n) /\ Cardinality(1 .. n) = n
    BY <1>1, FS_Interval
  <2>3. QED
    BY <2>1, <2>2, FS_Injection
<1>10. \A i \in 1 .. n : \E e \in T : r[e] = i
  BY <1>9 DEF Surjection
<1>11. ASSUME NEW i \in 1 .. n PROVE w[i] \in T /\ r[w[i]] = i
  <2>1. w[i] = CHOOSE e \in T : Cardinality(Lower(e)) = i - 1
    BY DEF InOrder
  <2>2. \E e \in T : Cardinality(Lower(e)) = i - 1
    <3>1. PICK e \in T : r[e] = i
      BY <1>10
    <3>2. Cardinality(Lower(e)) + 1 = i /\ Cardinality(Lower(e)) \in Nat
      BY <1>3, <3>1 DEF r
    <3> HIDE DEF Lower
    <3>3. Cardinality(Lower(e)) = i - 1
      BY <3>2
    <3>4. QED
      BY <3>3
  <2>3. w[i] \in T /\ Cardinality(Lower(w[i])) = i - 1
    BY <2>1, <2>2, Zenon
  <2>4. QED
    BY <1>1, <2>3 DEF r
<1>12. w \in [1 .. n -> T]
  <2> DEFINE g(i) == CHOOSE e \in T : Cardinality(Lower(e)) = i - 1
  <2>0. w = [i \in 1 .. n |-> g(i)]
    BY DEF InOrder
  <2> HIDE DEF g
  <2>1. w = [i \in 1 .. n |-> w[i]]
    BY <2>0
  <2>2. QED
    BY <1>11, <2>1
<1>13. \A i, j \in 1 .. n : w[i] = w[j] => i = j
  BY <1>11
<1>14. \A e \in T : \E i \in 1 .. n : w[i] = e
  <2> TAKE e \in T
  <2>1. r[e] \in 1 .. n
    BY <1>5
  <2>2. w[r[e]] \in T /\ r[w[r[e]]] = r[e]
    BY <1>11, <2>1
  <2>3. w[r[e]] = e
    BY <1>8, <2>2
  <2>4. QED
    BY <2>1, <2>3
<1>15. QED
  BY <1>1, <1>12, <1>13, <1>14 DEF Walks

\* What the entries of the names in S take of a buffer.
Slots(S) == UNION {{n} \X (1 .. Width[n]) : n \in S}

\* A slot of S is one of a name in S.
LEMMA SlotsAre ==
  \A S : \A p : p \in Slots(S) <=> p[1] \in S /\ p \in {p[1]} \X (1 .. Width[p[1]])
<1> TAKE S
<1> TAKE p
<1>1. ASSUME p \in Slots(S) PROVE p[1] \in S /\ p \in {p[1]} \X (1 .. Width[p[1]])
  <2>1. PICK n \in S : p \in {n} \X (1 .. Width[n])
    BY <1>1 DEF Slots
  <2>2. p[1] = n
    BY <2>1
  <2>3. QED
    BY <2>1, <2>2
<1>2. ASSUME p[1] \in S, p \in {p[1]} \X (1 .. Width[p[1]]) PROVE p \in Slots(S)
  BY <1>2 DEF Slots
<1>3. QED
  BY <1>1, <1>2

\* The room of some names is a number, and each name more adds its own.
LEMMA WidthsAdd ==
  /\ IsFiniteSet(Slots({})) /\ WidthOf({}) = 0
  /\ \A S \in SUBSET Names : IsFiniteSet(Slots(S)) => WidthOf(S) \in Nat
  /\ \A S \in SUBSET Names : \A n \in Names :
        (IsFiniteSet(Slots(S)) /\ n \notin S) =>
            /\ IsFiniteSet(Slots(S \cup {n}))
            /\ WidthOf(S \cup {n}) = WidthOf(S) + Width[n]
<1>0. \A S : WidthOf(S) = Cardinality(Slots(S))
  BY DEF WidthOf, Slots
<1>1. Slots({}) = {}
  BY DEF Slots
<1>2. ASSUME NEW S \in SUBSET Names, IsFiniteSet(Slots(S)) PROVE WidthOf(S) \in Nat
  BY <1>0, <1>2, FS_CardinalityType
<1>3. ASSUME NEW S \in SUBSET Names, NEW n \in Names, IsFiniteSet(Slots(S)), n \notin S
      PROVE  /\ IsFiniteSet(Slots(S \cup {n}))
             /\ WidthOf(S \cup {n}) = WidthOf(S) + Width[n]
  <2> DEFINE new == {n} \X (1 .. Width[n])
  <2>1. Width[n] \in Nat
    BY WidthAssumption
  <2>2. IsFiniteSet(new) /\ Cardinality(new) = Width[n]
    <3>1. IsFiniteSet({n}) /\ Cardinality({n}) = 1
      BY FS_Singleton
    <3>2. IsFiniteSet(1 .. Width[n]) /\ Cardinality(1 .. Width[n]) = Width[n]
      BY <2>1, FS_Interval
    <3>3. IsFiniteSet(new) /\ Cardinality(new) = 1 * Width[n]
      BY <3>1, <3>2, FS_Product
    <3>4. QED
      BY <2>1, <3>3
  <2>3. Slots(S \cup {n}) = Slots(S) \cup new
    BY DEF Slots
  <2>4. Slots(S) \cap new = {}
    BY <1>3, SlotsAre
  <2> HIDE DEF new
  <2>5. /\ IsFiniteSet(Slots(S) \cup new)
        /\ Cardinality(Slots(S) \cup new) =
             Cardinality(Slots(S)) + Cardinality(new) - Cardinality(Slots(S) \cap new)
    BY <1>3, <2>2, FS_Union
  <2>6. Cardinality(Slots(S) \cap new) = 0
    BY <2>4, FS_EmptySet
  <2>7. Cardinality(Slots(S)) \in Nat
    BY <1>3, FS_CardinalityType
  <2>8. Cardinality(Slots(S \cup {n})) = Cardinality(Slots(S)) + Width[n]
    <3>1. Cardinality(Slots(S) \cup new) = Cardinality(Slots(S)) + Width[n] - 0
      BY <2>2, <2>5, <2>6
    <3>2. Cardinality(Slots(S)) + Width[n] - 0 = Cardinality(Slots(S)) + Width[n]
      BY <2>1, <2>7
    <3>3. QED
      BY <2>3, <3>1, <3>2, Zenon
  <2>9. WidthOf(S) = Cardinality(Slots(S)) /\ WidthOf(S \cup {n}) = Cardinality(Slots(S \cup {n}))
    BY <1>0, Zenon
  <2>10. QED
    BY <2>3, <2>5, <2>8, <2>9
<1>4. QED
  BY <1>0, <1>1, <1>2, <1>3, FS_EmptySet

\* A buffer, and what it holds after an attempt to emit each name of S to one of
\* some room.
Buffers == [room : Nat, names : Seq(Names), pos : Nat]

Holds(b, S, room) ==
    /\ b \in Buffers /\ b.pos # 0
    /\ IsInjective(b.names) /\ Range(b.names) \subseteq S
    /\ IsFiniteSet(Slots(S))
    /\ room >= WidthOf(S) => Range(b.names) = S /\ b.room = room - WidthOf(S)

\* A buffer stays one.
LEMMA EmitType == ASSUME NEW n \in Names, NEW b \in Buffers PROVE Emit(b, n) \in Buffers
<1>1. Width[n] \in Nat
  BY WidthAssumption
<1>2. b.room \in Nat /\ b.names \in Seq(Names) /\ b.pos \in Nat
  BY DEF Buffers
<1>3. CASE b.room < Width[n]
  BY <1>3 DEF Emit
<1>4. CASE ~(b.room < Width[n])
  <2>1. b.room - Width[n] \in Nat /\ b.pos + 1 \in Nat /\ Append(b.names, n) \in Seq(Names)
    BY <1>1, <1>2, <1>4, AppendProperties
  <2>2. QED
    BY <1>4, <2>1 DEF Emit, Buffers
<1>5. QED
  BY <1>3, <1>4

\* Emitting one more name.
LEMMA EmitHolds ==
  ASSUME NEW S \in SUBSET Names, NEW n \in Names, n \notin S, NEW room \in Nat,
         NEW b, Holds(b, S, room)
  PROVE  Holds(Emit(b, n), S \cup {n}, room)
<1>1. b.room \in Nat /\ b.names \in Seq(Names) /\ b.pos \in Nat /\ b.pos # 0
  BY DEF Holds, Buffers
<1>2. Width[n] \in Nat
  BY WidthAssumption
<1>3. /\ IsFiniteSet(Slots(S \cup {n})) /\ WidthOf(S) \in Nat
      /\ WidthOf(S \cup {n}) = WidthOf(S) + Width[n]
  <2>1. IsFiniteSet(Slots(S))
    BY DEF Holds
  <2>2. QED
    BY <2>1, WidthsAdd, Zenon
<1>4. CASE b.room < Width[n]
  <2>1. Emit(b, n) = b
    BY <1>4 DEF Emit
  <2>2. ~(room >= WidthOf(S \cup {n}))
    BY <1>1, <1>2, <1>3, <1>4 DEF Holds
  <2>3. QED
    BY <1>3, <2>1, <2>2 DEF Holds
<1>5. CASE ~(b.room < Width[n])
  <2> DEFINE names == Append(b.names, n)
             k == Len(b.names)
  <2>1. Emit(b, n) = [room |-> b.room - Width[n], names |-> names, pos |-> b.pos + 1]
    BY <1>5 DEF Emit
  <2>2. b.room - Width[n] \in Nat /\ b.pos + 1 \in Nat /\ b.pos + 1 # 0
    BY <1>1, <1>2, <1>5
  <2>3. /\ names \in Seq(Names) /\ Len(names) = k + 1
        /\ \A i \in 1 .. k : names[i] = b.names[i]
        /\ names[k + 1] = n
    BY <1>1, AppendProperties
  <2>4. k \in Nat /\ DOMAIN b.names = 1 .. k /\ DOMAIN names = 1 .. k + 1
    BY <1>1, <2>3, LenProperties
  <2>5. \A i \in 1 .. k + 1 : i \in 1 .. k \/ i = k + 1
    BY <2>4
  <2>6. \A i \in 1 .. k : i \in 1 .. k + 1 /\ i # k + 1
    BY <2>4
  <2>7. k + 1 \in 1 .. k + 1
    BY <2>4
  <2> HIDE DEF names, k
  <2>8. Range(names) = Range(b.names) \cup {n}
    BY <2>3, <2>4, <2>5, <2>6, <2>7 DEF Range
  <2>9. \A i \in 1 .. k : b.names[i] # n
    BY <2>4 DEF Holds, Range
  <2>10. IsInjective(names)
    <3>1. \A i, j \in 1 .. k : b.names[i] = b.names[j] => i = j
      BY <2>4 DEF Holds, IsInjective
    <3>2. \A i, j \in 1 .. k + 1 : names[i] = names[j] => i = j
      BY <2>3, <2>5, <2>9, <3>1
    <3>3. QED
      BY <2>4, <3>2 DEF IsInjective
  <2>11. room >= WidthOf(S \cup {n}) =>
           /\ Range(names) = S \cup {n}
           /\ b.room - Width[n] = room - WidthOf(S \cup {n})
    <3> HAVE room >= WidthOf(S \cup {n})
    <3>1. room >= WidthOf(S)
      BY <1>2, <1>3
    <3>2. Range(b.names) = S /\ b.room = room - WidthOf(S)
      BY <3>1 DEF Holds
    <3>3. b.room - Width[n] = room - WidthOf(S \cup {n})
      BY <1>2, <1>3, <3>2
    <3>4. QED
      BY <2>8, <3>2, <3>3
  <2>12. Range(names) \subseteq S \cup {n}
    BY <2>8 DEF Holds
  <2>13. Emit(b, n) \in Buffers
    BY EmitType DEF Holds
  <2>14. /\ Emit(b, n).pos = b.pos + 1 /\ Emit(b, n).names = names
         /\ Emit(b, n).room = b.room - Width[n]
    BY <2>1
  <2>15. QED
    BY <1>3, <2>2, <2>10, <2>11, <2>12, <2>13, <2>14 DEF Holds
<1>6. QED
  BY <1>4, <1>5

\* The entries of d have different keys and are of different names.
Listable(d) ==
    /\ tree[d] \in SUBSET (Nat \X Inodes) /\ IsFiniteSet(tree[d])
    /\ KeysDiffer(tree[d])
    /\ \A e \in tree[d] : NameOf(e[2]) \in Names
    /\ \A e, f \in tree[d] : NameOf(e[2]) = NameOf(f[2]) => e = f

\* What a listing holds that starts with both dot entries.
LEMMA FillHolds ==
  ASSUME NEW d, NEW room \in Nat, room >= 2, Listable(d)
  PROVE  Holds(Fill(d, room), {NameOf(e[2]) : e \in tree[d]}, room - 2)
<1> DEFINE walk == Traversal(d)
           n == Cardinality(tree[d])
           empty == [room |-> room - 2, names |-> << >>, pos |-> 2]
           named == [i \in 1 .. n |-> NameOf(walk[i][2])]
           F(f) == [i \in 0 .. Len(walk) |->
                       IF i = 0 THEN empty ELSE Emit(f[i - 1], NameOf(walk[i][2]))]
           buffer == CHOOSE f : f = F(f)
           Upto(k) == {named[i] : i \in 1 .. k}
<1>1. /\ n \in Nat /\ walk \in [1 .. n -> tree[d]]
      /\ \A i, j \in 1 .. n : walk[i] = walk[j] => i = j
      /\ \A e \in tree[d] : \E i \in 1 .. n : walk[i] = e
  <2>1. InOrder(walk, tree[d])
    BY DEF InOrder, Traversal
  <2>2. tree[d] \in SUBSET (Nat \X Inodes) /\ IsFiniteSet(tree[d]) /\ KeysDiffer(tree[d])
    BY DEF Listable
  <2> HIDE DEF walk
  <2>3. Walks(walk, tree[d])
    BY <2>1, <2>2, WalkIsBijection
  <2>4. QED
    BY <2>3 DEF Walks
<1> HIDE DEF n
<1>2. Len(walk) = n
  <2>1. walk \in Seq(tree[d])
    BY <1>1
  <2>2. DOMAIN walk = 1 .. n
    BY <1>1
  <2> HIDE DEF walk
  <2>3. Len(walk) \in Nat /\ 1 .. Len(walk) = 1 .. n
    BY <2>1, <2>2, LenProperties
  <2>4. QED
    BY <1>1, <2>3
<1>3. Fill(d, room) = buffer[n]
  BY <1>2 DEF Fill
<1> HIDE DEF walk
<1>4. /\ \A i \in 1 .. n : named[i] \in Names /\ walk[i] \in tree[d]
      /\ \A i, j \in 1 .. n : named[i] = named[j] => i = j
  BY <1>1 DEF Listable
<1>5. Upto(n) = {NameOf(e[2]) : e \in tree[d]}
  BY <1>1
<1>6. \A i \in 1 .. n : named[i] = NameOf(walk[i][2])
  OBVIOUS
<1> HIDE DEF named
<1> DEFINE step == [p \in Buffers \X Nat |->
                       IF p[2] < n THEN Emit(p[1], named[p[2] + 1]) ELSE p[1]]
<1>7. empty \in Buffers
  BY DEF Buffers
<1>8. step \in [Buffers \X Nat -> Buffers]
  <2>1. ASSUME NEW p \in Buffers \X Nat
        PROVE  (IF p[2] < n THEN Emit(p[1], named[p[2] + 1]) ELSE p[1]) \in Buffers
    <3>1. p[1] \in Buffers /\ p[2] \in Nat
      OBVIOUS
    <3>2. p[2] < n => p[2] + 1 \in 1 .. n
      BY <1>1, <3>1
    <3>3. QED
      BY <1>4, <3>1, <3>2, EmitType
  <2>2. QED
    BY <2>1
<1>9. PICK f : Solves(f, Buffers, empty, step)
  <2> HIDE DEF step, empty
  <2>1. QED
    BY <1>7, <1>8, Recursion
<1>10. /\ f \in [Nat -> Buffers] /\ f[0] = empty
       /\ \A i \in Nat : i < n => f[i + 1] = Emit(f[i], named[i + 1])
  <2>1. f \in [Nat -> Buffers] /\ f[0] = empty /\ \A i \in Nat : f[i + 1] = step[<<f[i], i>>]
    BY <1>9 DEF Solves
  <2>2. \A i \in Nat : <<f[i], i>> \in Buffers \X Nat
    BY <2>1
  <2>3. QED
    BY <2>1, <2>2
<1> HIDE DEF empty
<1>11. buffer = F(buffer)
  <2> DEFINE g == [i \in 0 .. n |-> f[i]]
  <2>1. \A i \in 0 .. n :
           f[i] = IF i = 0 THEN empty ELSE Emit(g[i - 1], NameOf(walk[i][2]))
    <3> TAKE i \in 0 .. n
    <3>1. CASE i = 0
      BY <1>10, <3>1
    <3>2. CASE i # 0
      <4>1. i - 1 \in Nat /\ i - 1 < n /\ (i - 1) + 1 = i /\ i \in 1 .. n /\ i - 1 \in 0 .. n
        BY <1>1, <3>2
      <4>2. f[i] = Emit(f[i - 1], named[i])
        BY <1>10, <4>1
      <4>3. g[i - 1] = f[i - 1] /\ named[i] = NameOf(walk[i][2])
        BY <1>6, <4>1
      <4>4. QED
        BY <3>2, <4>2, <4>3
    <3>3. QED
      BY <3>1, <3>2
  <2>2. g = F(g)
    BY <1>2, <2>1
  <2> HIDE DEF F, g
  <2>3. QED
    BY <2>2
<1> HIDE DEF buffer
<1>12. /\ buffer[0] = empty
       /\ \A i \in Nat : i < n => buffer[i + 1] = Emit(buffer[i], named[i + 1])
  <2>1. \A i \in 0 .. n :
           buffer[i] = IF i = 0 THEN empty ELSE Emit(buffer[i - 1], NameOf(walk[i][2]))
    BY <1>2, <1>11
  <2>2. ASSUME NEW i \in Nat, i < n PROVE buffer[i + 1] = Emit(buffer[i], named[i + 1])
    <3>1. i + 1 \in 0 .. n /\ i + 1 # 0 /\ (i + 1) - 1 = i /\ i + 1 \in 1 .. n
      BY <1>1, <2>2
    <3>2. QED
      BY <1>6, <2>1, <3>1
  <2>3. 0 \in 0 .. n
    BY <1>1
  <2>4. QED
    BY <2>1, <2>2, <2>3
<1> HIDE DEF F
<1>13. \A i \in Nat : i < n => Upto(i + 1) = Upto(i) \cup {named[i + 1]} /\ named[i + 1] \notin Upto(i)
  <2> TAKE i \in Nat
  <2> HAVE i < n
  <2>1. i + 1 \in 1 .. n /\ i + 1 \in 1 .. i + 1
    BY <1>1
  <2>2. \A j \in 1 .. i : j \in 1 .. n /\ j # i + 1 /\ j \in 1 .. i + 1
    BY <1>1
  <2>3. \A j \in 1 .. i + 1 : j \in 1 .. i \/ j = i + 1
    OBVIOUS
  <2>4. QED
    BY <1>4, <2>1, <2>2, <2>3
<1>14. Upto(0) = {} /\ \A i \in Nat : i <= n => Upto(i) \in SUBSET Names
  <2>1. ASSUME NEW i \in Nat, i <= n PROVE Upto(i) \in SUBSET Names
    <3>1. \A j \in 1 .. i : j \in 1 .. n
      BY <1>1, <2>1
    <3>2. QED
      BY <1>4, <3>1
  <2>2. QED
    BY <2>1
<1> HIDE DEF Upto
<1> DEFINE A == {i \in Nat : i <= n => Holds(buffer[i], Upto(i), room - 2)}
<1>15. 0 \in A
  <2>1. /\ empty.names = << >> /\ empty.pos = 2 /\ empty.room = room - 2
    BY DEF empty
  <2>2. IsInjective(<< >>) /\ Range(<< >>) = {}
    BY DEF IsInjective, Range
  <2>3. (room - 2) - 0 = room - 2
    OBVIOUS
  <2>4. Holds(empty, {}, room - 2)
    BY <1>7, <2>1, <2>2, <2>3, WidthsAdd DEF Holds
  <2>5. QED
    BY <1>12, <1>14, <2>4
<1>16. ASSUME NEW i \in Nat, i \in A PROVE i + 1 \in A
  <2>1. SUFFICES ASSUME i + 1 <= n PROVE Holds(buffer[i + 1], Upto(i + 1), room - 2)
    OBVIOUS
  <2>2. i < n /\ i <= n /\ i + 1 \in 1 .. n
    BY <1>1, <2>1
  <2>3. Holds(buffer[i], Upto(i), room - 2)
    BY <1>16, <2>2
  <2>4. Upto(i) \in SUBSET Names /\ named[i + 1] \in Names /\ named[i + 1] \notin Upto(i)
    BY <1>4, <1>13, <1>14, <2>2
  <2>5. room - 2 \in Nat
    OBVIOUS
  <2>6. Holds(Emit(buffer[i], named[i + 1]), Upto(i) \cup {named[i + 1]}, room - 2)
    BY <2>3, <2>4, <2>5, EmitHolds
  <2>7. buffer[i + 1] = Emit(buffer[i], named[i + 1]) /\ Upto(i + 1) = Upto(i) \cup {named[i + 1]}
    BY <1>12, <1>13, <2>2
  <2>8. QED
    BY <2>6, <2>7
<1>17. n \in A
  <2> HIDE DEF A
  <2>1. \A i \in Nat : i \in A
    BY <1>15, <1>16, Induction
  <2>2. QED
    BY <1>1, <2>1
<1>18. Holds(buffer[n], Upto(n), room - 2)
  BY <1>1, <1>17
<1>19. QED
  BY <1>3, <1>5, <1>18

\* The names whose entry could be stored, as in ListingExact.
Stored(d) == {t[2] : t \in {u \in {t \in hashed : t[1] = d} : made[u[3]] = "whole"}}

\* The tree of a directory that was called with the right keys can be listed.
LEMMA CoherentListable ==
  ASSUME WellTyped, OneName, IsFiniteSet(hashed), NEW d \in Called, tree[d] = Listed(d)
  PROVE  Listable(d) /\ {NameOf(e[2]) : e \in tree[d]} = Stored(d)
<1> DEFINE here == {u \in hashed : u[1] = d /\ made[u[3]] = "whole"}
           entry(t) == <<KeyOf[t[2]], t[3]>>
<1>1. \A t \in here : t \in hashed /\ t[1] = d /\ t[2] \in Names /\ t[3] \in Inodes
  BY DEF WellTyped
<1>2. tree[d] = {entry(t) : t \in here}
  BY DEF Listed
<1>3. \A t \in here : NameOf(entry(t)[2]) = t[2]
  <2> TAKE t \in here
  <2>1. \A u \in hashed : u[3] = t[3] => u = t
    BY DEF OneName
  <2>2. (CHOOSE u \in hashed : u[3] = t[3]) = t
    BY <1>1, <2>1
  <2>3. entry(t)[2] = t[3]
    OBVIOUS
  <2>4. QED
    BY <2>2, <2>3 DEF NameOf
<1>4. \A t \in here : entry(t)[1] = KeyOf[t[2]] /\ KeyOf[t[2]] \in Nat /\ entry(t) \in Nat \X Inodes
  BY <1>1, KeysAssumption
<1>5. \A t, u \in here : t[2] = u[2] => t = u
  BY <1>1 DEF OneName
<1>6. \A t, u \in here : entry(t)[1] = entry(u)[1] => t = u
  BY <1>1, <1>4, <1>5, KeysAssumption
<1>7. IsFiniteSet(tree[d])
  <2> DEFINE g == [t \in here |-> entry(t)]
  <2>1. here \in SUBSET hashed
    OBVIOUS
  <2>2. g \in Surjection(here, tree[d])
    BY <1>2 DEF Surjection
  <2> HIDE DEF here, g
  <2>3. IsFiniteSet(here)
    BY <2>1, FS_Subset
  <2>4. QED
    BY <2>2, <2>3, FS_Surjection
<1>8. Stored(d) = {t[2] : t \in here}
  BY DEF Stored
<1> HIDE DEF here, entry
<1>9. tree[d] \in SUBSET (Nat \X Inodes)
  BY <1>2, <1>4
<1>10. KeysDiffer(tree[d])
  BY <1>2, <1>6 DEF KeysDiffer
<1>11. \A e \in tree[d] : NameOf(e[2]) \in Names
  BY <1>1, <1>2, <1>3
<1>12. \A e, f \in tree[d] : NameOf(e[2]) = NameOf(f[2]) => e = f
  BY <1>2, <1>3, <1>5
<1>13. {NameOf(e[2]) : e \in tree[d]} = {t[2] : t \in here}
  BY <1>2, <1>3
<1>14. QED
  BY <1>7, <1>8, <1>9, <1>10, <1>11, <1>12, <1>13 DEF Listable

\* All names together take a room that is a number.
LEMMA RoomForAll == WidthOf(Names) \in Nat
<1> DEFINE f == [n \in Names |-> {n} \X (1 .. Width[n])]
           R == {f[n] : n \in Names}
<1>1. IsFiniteSet(R)
  <2>1. f \in Surjection(Names, R)
    BY DEF Surjection
  <2> HIDE DEF f, R
  <2>2. QED
    BY <2>1, NamesAssumption, FS_Surjection
<1>2. \A s \in R : IsFiniteSet(s)
  <2>1. ASSUME NEW n \in Names PROVE IsFiniteSet(f[n])
    <3>1. Width[n] \in Nat
      BY WidthAssumption
    <3>2. IsFiniteSet({n}) /\ IsFiniteSet(1 .. Width[n])
      <4>1. IsFiniteSet({n})
        BY FS_Singleton
      <4>2. IsFiniteSet(1 .. Width[n])
        BY <3>1, FS_Interval
      <4>3. QED
        BY <4>1, <4>2
    <3>3. IsFiniteSet({n} \X (1 .. Width[n]))
      BY <3>2, FS_Product
    <3>4. QED
      BY <3>3
  <2>2. QED
    BY <2>1
<1>3. Slots(Names) = UNION R
  BY DEF Slots
<1> HIDE DEF R
<1>4. IsFiniteSet(Slots(Names))
  BY <1>1, <1>2, <1>3, FS_UNION
<1>5. QED
  BY <1>4, WidthsAdd

\* Calling readdir until nothing more comes (lke_fs_readdir and travesal_readdir
\* of dir.c) lists no name twice, none that is not stored, and all that are if
\* there is room.
THEOREM ListingsComplete == FsSpec => []ListingExact
<1>1. IInv => ListingExact
  <2> SUFFICES ASSUME IInv, ~misled, NEW d \in Called,
                      NEW first \in 0 .. 2 + WidthOf(Names), NEW second \in 0 .. 2 + WidthOf(Names)
               PROVE  LET one == ReadDir(d, 0, first)
                          two == ReadDir(d, one.pos, second)
                          listed == one.names \o two.names
                      IN  /\ IsInjective(listed)
                          /\ Range(listed) \subseteq Stored(d)
                          /\ first >= 2 + WidthOf(Stored(d)) => Range(listed) = Stored(d)
    BY DEF ListingExact, Stored
  <2> DEFINE one == ReadDir(d, 0, first)
             two == ReadDir(d, one.pos, second)
             listed == one.names \o two.names
  <2>1. first \in Nat /\ second \in Nat
    BY RoomForAll
  <2>2. Listable(d) /\ {NameOf(e[2]) : e \in tree[d]} = Stored(d)
    <3>1. tree[d] = Listed(d)
      BY CoherentListed DEF IInv, Trees
    <3>2. WellTyped /\ OneName /\ IsFiniteSet(hashed)
      BY DEF IInv, Placed, Counts
    <3>3. QED
      BY <3>1, <3>2, CoherentListable
  <2>3. \A room \in Nat : room >= 2 => Holds(Fill(d, room), Stored(d), room - 2)
    BY <2>2, FillHolds
  <2>4. Stored(d) \in SUBSET Names
    BY <2>2 DEF Listable
  <2>5. WidthOf(Stored(d)) \in Nat
    <3>1. IsFiniteSet(Slots(Stored(d)))
      <4>1. Holds(Fill(d, 2), Stored(d), 2 - 2)
        BY <2>3
      <4>2. QED
        BY <4>1 DEF Holds
    <3>2. QED
      BY <2>4, <3>1, WidthsAdd
  <2>6. /\ << >> \in Seq(Names) /\ IsInjective(<< >>) /\ Range(<< >>) = {}
    BY DEF IsInjective, Range
  <2>7. CASE first >= 2
    <3>1. one = Fill(d, first)
      BY <2>7 DEF ReadDir
    <3> DEFINE b == Fill(d, first)
    <3>2. Holds(b, Stored(d), first - 2)
      BY <2>1, <2>3, <2>7
    <3> HIDE DEF b
    <3>3. /\ b.names \in Seq(Names) /\ b.pos \in Nat /\ b.pos # 0
          /\ IsInjective(b.names) /\ Range(b.names) \subseteq Stored(d)
          /\ first - 2 >= WidthOf(Stored(d)) => Range(b.names) = Stored(d)
      BY <3>2 DEF Holds, Buffers
    <3>4. two.names = << >>
      BY <3>1, <3>3 DEF ReadDir, b
    <3>5. listed = b.names
      BY <3>1, <3>3, <3>4, ConcatEmptySeq DEF b
    <3>6. first >= 2 + WidthOf(Stored(d)) => first - 2 >= WidthOf(Stored(d))
      BY <2>1, <2>5
    <3>7. QED
      BY <3>3, <3>5, <3>6
  <2>8. CASE ~(first >= 2)
    <3>1. one = [room |-> 0, names |-> << >>, pos |-> first]
      BY <2>1, <2>8 DEF ReadDir
    <3>2. ~(first >= 2 + WidthOf(Stored(d)))
      BY <2>1, <2>5, <2>8
    <3>3. two = ReadDir(d, first, second) /\ one.names = << >>
      BY <3>1
    <3>4. /\ two.names \in Seq(Names) /\ IsInjective(two.names)
          /\ Range(two.names) \subseteq Stored(d)
      <4>1. CASE first = 0 /\ second >= 2
        <5>1. two = Fill(d, second)
          BY <3>3, <4>1 DEF ReadDir
        <5>2. Holds(Fill(d, second), Stored(d), second - 2)
          BY <2>1, <2>3, <4>1
        <5> HIDE DEF two
        <5>3. QED
          BY <5>1, <5>2 DEF Holds, Buffers
      <4>2. CASE ~(first = 0 /\ second >= 2)
        <5>1. two.names = << >>
          BY <2>1, <3>3, <4>2 DEF ReadDir
        <5>2. QED
          BY <2>6, <5>1
      <4>3. QED
        BY <4>1, <4>2
    <3>5. listed = two.names
      BY <3>3, <3>4, ConcatEmptySeq
    <3>6. QED
      BY <3>2, <3>4, <3>5
  <2>9. QED
    BY <2>7, <2>8
<1>2. QED
  BY <1>1, Invariance, MountKeepsNamespace, PTL
=============================================================================
