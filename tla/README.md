# A verification project for lkefs

lkefs is an in-memory Linux file system: a kernel module that keeps directories
in B-trees and file contents in lists of quanta, and lets a program poll a file
for an announcement another program makes. Names are hashed by a MD4 module of its own. This directory holds TLA+ modules
translated from its code, TLC configurations that check them on small instances,
and proofs checked by TLAPS.

## 1. Inventory

| Component | Code | State | Operations |
|---|---|---|---|
| B-tree node | `btree/btree.c` 63-371, 611-772 | `pair[M]`, `child[M+1]`; no lengths are stored | getters, setters, shifts, insert, split, merge, two rotations |
| B-tree | `btree/btree.c` 10-60, 379-610, 774-964 | head: `mempool`, `root` | head_alloc, init, insert, remove, lookup, traversal, value_traversal, destroy |
| File data | `file.c` 12-52, 79-210 | per file: list of items, `size`; per descriptor: `f_pos` | open (with trim), read, write, llseek |
| File notification | `file.c` 54-77, 129-168, 216-227 | per file: `lock`, `ready`, `outq` | poll, the ready ioctl; write lowers the flag |
| Directories and inodes | `inode.c`, `dir.c` | per directory: a B-tree, `fileNum`; per inode: link count, `data`; `sbi_inode_count` | create, mkdir, unlink, rmdir, lookup, readdir, alloc and destroy inode |
| Name hashing | `namei.c` | none | name to 64-bit key, through the MD4 module |
| MD4 | `hash/md4.c` | `hash`, `block`, `byte_count` | init, update, final |
| Super block, module life cycle | `super.c` | inode cache, registration, root dentry | load, mount, put_super, unload |
| Tests and tools | `btree_test/`, `hashtest/`, `userProgram/` | - | a tree built and pruned, digests, a poll loop, an ioctl call |

How they interact:

- The VFS calls `inode.c` with the directory's `i_rwsem` held; `inode.c` hashes the
  name and calls the directory's B-tree, which has no lock of its own. So a B-tree
  call is one step as far as other calls on the same tree can see. The mutex in the
  super block's information is initialised and used by nobody.
- The names the kernel looks up live in its dentry cache as well as in the trees. `create`
  and `mkdir` take a reference to the dentry that nobody drops before the unmount, so the
  kernel asks `lookup` only for names that do not exist.
- `super.c` makes the root through `new_inode`; an unmount goes over the dentries and evicts
  the inodes; RCU calls `destroy_inode` for each of them after a grace period.
- `readdir` walks the tree by a callback (`lke_btree_value_traversal`).
- `open` stores the file's entity in the descriptor; from then on `file.c` uses only
  the entity. read, write and the trim in open hold its mutex from end to end; poll
  holds it for its scan; **llseek and ioctl do not take it**.
- The kernel's poll loop (`do_poll`) calls `lke_fs_file_poll`, sleeps on the queue the
  call registered with, and calls it again. The ioctl and a poll meet in the flag
  `ready` and in `outq`.
- Nothing is persisted: there is no crash recovery. There is no message passing.

What is hard: interleavings of polls, ioctls and writes; allocation failures in the
middle of a recursive insert and of making an inode; long sequences of removes; boundaries of nodes, quanta,
items, hash blocks and of the `int` item number; lifetimes of entities against open descriptors.
`PROJECT.json` lists each hazard at its line.

What makes each component correct:

- B-tree: lookups, inserts and removes are those of a set of keys; the traversal gives
  each key once and in order; leaves are equally deep; nodes are neither empty nor
  over-full; no node is leaked or freed while it is linked.
- File data: one array of bytes, whoever empties or extends it.
- Notification: a one-slot mailbox; no sleeping poller misses its wake-up; an
  announcement is reported once; a sleeping poller is answered.
- Directories: trees and cached names say the same; file and link counts agree with them;
  an entity is not freed while it can be reached, and never twice; a listing is exact.
- MD4: the digest is that of the padded message, however it was cut into updates.
- Super block: its information is there while it is mounted and is given back once.

## 2. Modules

| Module | Models |
|---|---|
| `BtreeNode` | one node and its neighbours as pure operators, from `btree.c` |
| `Btree` | a head, its root, and the calls on it as actions |
| `KeySet` | abstract: a set of keys and the last call |
| `BtreeMC`, `BtreeTest` | values for TLC; the tree of `btree_test.c` |
| `BtreeProofs` | theorems on trees that only grow, also short of memory |
| `BtreeRemoveProofs` | theorems on trees that lose keys, to the first rotation |
| `BtreeWeightProofs` | theorems on the nodes of a tree: types, frees, none lost |
| `NatFacts` | lemmas the proof modules share: division, induction, recursion, sums |
| `FileNotify` | poll, ioctl and the locking of write, read and open, one access per step |
| `EventFlag` | abstract: a one-slot mailbox |
| `FileNotifyMC`, `FileNotifyProofs` | values for TLC; the theorems |
| `FileData` | items, quanta, size and positions |
| `ByteFile` | abstract: an array of bytes |
| `FileDataMC`, `FileDataProofs` | values for TLC; the theorems |
| `Namespace` | directories, inodes, dentries and keys, from `inode.c` and `namei.c` |
| `Filesystem` | load, mount, unmount and unload of `super.c`, around `Namespace` |
| `Readdir` | a listing of a directory of `Filesystem`, from `dir.c` |
| `FilesystemMC`, `NamespaceProofs` | values for TLC; the theorems |
| `Md4Stream` | buffering and padding of `md4.c` |
| `Md4Message` | abstract: the blocks of the padded message |
| `Md4StreamMC`, `Md4StreamProofs` | values for TLC; the theorems |

Operators whose comment begins with "Mutant of" are deliberate errors. No specification
uses them; putting one in the place of the operator it is a mutant of makes the property
named in `PROJECT.json` fail, which shows that the property depends on that code.

### B-tree

A node is a record of two functions, `key` (0 for an empty slot) and `child` (NULL for an
empty link), of the fixed lengths the C arrays have. The number of keys is found by
scanning for the first 0, as in the code, so a slot left uncleared or a hole has the
effects it has in the program. The data pointer of a pair always moves with its key and is
left out. A child pointer is represented by the child itself; no operation duplicates a
pointer.

`Tree[h]` are the trees of at most h levels, whatever their arrays hold, and `Trees` those of
`MaxHeight`. The recursive functions of `btree.c` are functions over that set which answer a
record: the new node, the return value, the nodes allocated or freed. What a recursive insert
or remove makes of an inner node, given the answer from below, is an operator of its own
(`InsertAbove`, `RemoveAbove`). `Rearrange` stands for the three
copies of the code that handles a child short of keys (lines 801-811, 826-852 and 859-885,
which differ only in which neighbour exists). The calls are actions. `failing` says at which
depth of the tree an allocation fails; `live` counts nodes taken from the mempool. `head`
becomes "oops" where the code would follow a NULL child. `lke_btree_remove` returns a
variable it never assigned when the tree is not empty: `result` is then "undefined".

`rotated` is a history variable. Before the first rotation the tree is exact and every
property holds without exception. After one, almost nothing does, because the rotations run
in the wrong direction (see Findings): keys are lost or come twice, the traversal leaves out
subtrees, and a later remove may follow a NULL pointer. Properties that need it therefore end
at the first rotation and say so; `NoNodeFreedInUse` does not need it.

### File notification

`pc[t]` is the next step of thread t's system call. The mutex is `owner`. Every access to
`ready` and every lock operation is a step of its own, so the ioctl, which takes no lock, can
fall between any two of them; so can it fall between the test (line 221) and the clear
(line 223) of a poll. External, and modelled from how `lke_fs_file_poll` uses it: `do_poll`
scans, sleeps until `triggered` or until the time is over or a signal comes, and scans again;
`poll_wait` puts the entry on the queue in the first scan only; a poll with no timeout never
registers; `wake_up_interruptible` triggers every entry in the queue.

A write's bytes are left to `FileData`; here it either stored something and lowers the flag,
or left early.

`EventFlag` is what a poller may count on: an announcement waits in the slot until a poll
takes it or a write withdraws it, and only one made between the taking and the emptying is
swallowed. `ImplementsEventFlag` is the refinement.

### File data

`items` is the list of `lke_file_qset`, each a function from the quanta of an item to NULL or
a quantum, each quantum a function from offsets to bytes. A byte of a fresh quantum is
`JUNK`: the code does not clear it. Calls come with any position; one descriptor (`f_pos`) is
followed through its calls. `ItemOf` wraps as the C `int` does, from position 2^53 on
(`INTS * ItemSize`); the refinement to one array of bytes is stated for calls below it, since
two positions share a byte above it. A write of no byte allocates like any other, and behind the
end it moves the size though nothing is stored: the bytes before it are ones nobody wrote.
`answer` records the call, whether it came through the followed descriptor, what it asked for
and got. `ByteFile` holds the position to it: a call of the descriptor starts at its position
and moves it by exactly the bytes it got, and no other call moves it but seek and open.

### Directories, inodes and mounts

An inode object is a member of `Inodes`; `kind` is its life, from the cache to a directory or
a file and by way of `evicted` back. `entity` is what its `data` points to, and `Kfree` marks
a pointer that is freed twice. `made` tells how far `new_inode` came: `half` when it returned
before the operations were set, `unlisted` when the answer of the B-tree's insert was an error
that the caller ignored. `nlink` and `fileNum` are the counts; `tree[d]` is what the
directory's B-tree holds, as `KeySet` promises it of a tree without rotations, and a tree
here never has more names than one node has slots.

Each call of `inode.c` is one action with every failure of its allocations as a disjunct or an
action of its own: `Create`, `CreateHalf`, `CreateForgets` and `CreateOops` are the ways
through `lke_create`, `lke_mkdir` and `lke_new_inode`; `Unlink`, `Rmdir`, `RmdirOops` and
`Lookup` are the other handlers; `Open` and `Close` are the descriptor that keeps the entity
in `private_data`. `KeysFor` is `namei`: without memory or without the hash the caller works
with whatever its variable held. After a call that used a key which is not its name's,
`misled` is set; `Coherent`, `ListingExact` and `NeverStolen` hold up to there and say so, the
other properties hold whatever the key was.

External, and modelled from how the handlers rely on it: the kernel locks the directory (and
the victim of rmdir), calls a handler only for a directory that was not removed, calls create,
mkdir and lookup only for names it has not cached, and unlink and rmdir only for names it
has; `d_delete` unhashes a dentry that somebody else holds and gives back nothing;
`d_splice_alias` consumes a reference to the inode, which `lookup` did not take
(`fate = "stolen"`; the behaviour ends there, as it does at an oops). An unmount drops the
references of create by `d_genocide`, which finds only hashed dentries and does not look below
unhashed ones: a removed inode, what is below it, and the directories above it stay in memory
for good (`Kept`). put_super is called only for a super block that has a root. Unload is
refused while something is mounted.

An inode made half (inode.c:302-303, 342-343) is given out all the same, with `data` NULL,
freed, or as the slab left it. Where it dangles, `Free` - the kfree of unlink, rmdir and
destroy_inode - may hit the entity of another inode (`fate = "stray"`, the end of the
behaviour). rmdir of such a directory stops in `RmdirOops` or gets through its stale memory
(`Rmdir`). So the properties about entities and links say of the inodes that were made half only
that they have no entity, and that they do not disturb the others until such a kfree.

`Filesystem` adds the order of `lke_fs_init` and `lke_fs_exit`, and what `s_fs_info` points
to. The release of inodes is a step of its own, possible at any time after the eviction, also
when the cache was destroyed (`DestroyUnloaded`) - nothing waits for it.

`Readdir` has no steps: `ReadDir` is the result of one call in a given state, for a buffer with
a given room. `ListingExact` asks it of every directory of every reachable state, for all sizes
of two successive buffers.

### MD4

`hash` is the sequence of the blocks that were compressed; the compression itself is
uninterpreted. A byte of the message is its position in it, a byte the padding adds is a value,
and one that was never written is junk, so a stale, lost or repeated byte shows in the blocks.
`block` is overwritten in place as in the code, and a descriptor may be initialised anew at any
time. The last two words are the low and the high half of the number of bits, with the
arithmetic of the code; `Power` is the weight of a byte in a word. `ImplementsMessage` is the refinement to `Md4Message`, in which the
digest is made of the padded message at once.

## 3. Runs

| Run | Instance | Shows |
|---|---|---|
| `btree_insert` | M=4, 8 keys | a tree that only grows implements a set; nodes stay between half empty and not full |
| `btree_nomem` | M=3, 7 keys, any allocation fails | shape and traversal survive every failed split and failed new root |
| `btree_remove` | M=3, 7 keys, to the first rotation | inserts and removes implement a set; shape and traversal are exact; no leak; no call goes down to a NULL child |
| `btree_rotated` | M=4, 5 keys, everything | types; no linked node was freed, in any damaged tree |
| `btree_duplicate` | M=4 | violated: an insert of a stored key answers success |
| `btree_split_fail` | M=4 | violated: a failed split leaves the node full |
| `btree_test_tree` | M=5, the test's 22 keys | violated: removing 53 and then 39 breaks an inner node |
| `file_notify` | 3 threads, ioctls start until one has set the flag | safety, refinement and liveness of the notification |
| `file_data` | 2 bytes per quantum, 2 quanta per item, 2 items before the `int` wraps, 2 writes of 0, 1 or 3 bytes, reads of 2 | the file is one array of bytes |
| `file_system` | 4 inodes, 3 names (one with key 0), wrong keys | trees, names, counts and lifetimes agree through every failure, mount and unmount; listings are exact |
| `rmdir_not_empty` | 3 inodes, 3 names | violated: a directory with entries is removed |
| `md4_stream` | block of 12, length field of 8, bytes of 2 values, up to 37 bytes | the digest is that of the padded message |

Bounds and why they are enough:

- `M`: the code needs at least 3 for a split to leave both halves a key. An odd and an even
  value are used, since `M / 2` splits them differently (the program's value, 170 or 42, is
  even). With M=3, 7 keys give trees of three levels, in which inner nodes are split and
  merged and the root grows and shrinks twice; the operations on deeper levels are the same
  code. With M=4, 8 keys give a root with up to four leaves, none of it deeper than two
  levels.
- `MaxLive` bounds how many nodes an insert may start with. It limits runs that leak
  nodes by failed allocations.
- `MaxHeight` bounds the levels of a tree: an insert, which may add one, starts only with
  fewer. Only the damaged trees of `btree_rotated` reach it, by links behind a node's length;
  in the other runs no tree has more than three levels. The theorems hold for every value.
- `Levels` names the depths at which an allocation may fail, 0 for the new root;
  `btree_nomem` covers every level its trees have.
- `PastRotation` = FALSE ends a behaviour for inserts and removes at the first rotation.
  destroy is still possible, so this introduces no deadlock of its own.
- `MaxAnnounced`: no ioctl starts after that many have set the flag. With three threads
  up to three can be under way at once, so announcements do overlap and coalesce.
- `MaxPos`, `MaxWrites`: the positions reach both items and go past the wrapped item
  number; two writes are what it takes to overwrite, extend, and write into a hole. The payloads are the
  empty one, one that fits a quantum and one that is cut off at its end; reads ask for 2 bytes,
  more than some quanta have left. Reads of other counts are covered by the proof only.
- `Inodes`: with four there are a root, a directory in it, a file or directory in that, and
  one more - to be removed above an entry that stays, to be lost, or to be used again after a
  grace period. Three are enough to remove a directory with an entry.
- `Names`: two names with keys and one whose key is 0, which the tree refuses. `Garbage` holds
  one number, which is the key of one of the names: a wrong key can be that of another name,
  that of none in the directory, or by chance the right one. `rmdir_not_empty` has none,
  so its counterexample needs no failure.
- `Width`: entries of two lengths, so that a shorter one may fit behind one that did not.
- `BLOCK`, `FIELD`, `BYTE`: as in the code the field is of two words, and the padding spills
  into a second block for some lengths and not for others. With bytes of two values a word
  has 16, so the low word of the length wraps within 37 bytes, and so does the
  high word's count. Pieces of 0 to a block and two, and of two blocks and three, end before,
  at and behind every boundary. `MaxCount` is three blocks and one byte.
- Symmetry is used for the inodes of `file_system` and `rmdir_not_empty` only: nothing there
  orders them, the choice in `NameOf` is of the one name an inode has, and all the properties
  are safety properties. Elsewhere keys are ordered, or liveness is checked with the threads.

Deadlock is not checked in `btree_rotated`, `file_system` and `rmdir_not_empty`, where an oops
really stops the system, nor in `btree_test_tree`, which ends when the tree is empty.

### Fairness

Only `file_notify` has a liveness property. `WF_vars(Proceed(t))`: a thread inside a system
call goes on by itself. `SF_vars(Lock(t))`: a thread waiting for the mutex gets it if it is
free again and again, because the Linux mutex hands itself over to a waiter that was passed
over. Starting calls, time running out and signals are not fair: nothing forces them.
Under weak fairness of `Lock` alone other threads could take the mutex for ever.

## 4. Proofs

The theorems hold for every value of the constants that the assumptions allow. Those on the
B-tree rest on lemmas about one node, then about one call on a whole tree, then about the
root; they are in three modules, each of which extends the one before.

### B-tree

Assumptions: `MAssumption` (at least 3 slots), `KeysAssumption` (keys are positive),
`BoundsAssumption`, and `NullAssumption`: the null pointer is neither a node nor a number.

`BtreeProofs`, of a tree that only grows:

- `NodesWellFilled`: `SpecInsertOnly => []Occupancy`;
- `GrowingTreeIsKeySet`: `SpecInsertOnly => ImplementsKeySetFully`;
- `ShapeOutlivesNoMemory`, `TraversalOutlivesNoMemory`, `InsertsReturn`:
  `SpecShortOfMemory => []P` for `Balanced`, `TraversalIsStored`, `CallsReturn`.

`BtreeRemoveProofs`, up to the first rotation:

- `RemovalKeepsNodesFilled`, `RemovalKeepsShape`, `RemovalKeepsTraversal`, `RemovesReturn`:
  `SpecRemoving => []P` for `Occupancy`, `Balanced`, `TraversalIsStored`, `CallsReturn`;
- `TreeIsKeySet`: `SpecRemoving => ImplementsKeySet`.

`BtreeWeightProofs`, of any tree but in the last:

- `TypesHold`: `Spec => []TypeOK`;
- `NoNodeFreedWhileLinked`: `Spec => []NoNodeFreedInUse`;
- `NodesGivenBack`: `SpecRemoving => []NoNodeLost`, the other half, up to the first rotation.

None of the properties is inductive: what a lookup finds says nothing about where a split or a
merge will put a key. The invariants `Growing` and `Settled` say that the root is a search
tree. `Sound(hi)[h]` is the set of the search trees of exactly h levels: the keys of a node are
packed at its front in rising order (`Packed`), it has one child more than keys and nothing
behind them (`Hung`), each child's keys lie between their neighbours (`Separated`), and no
node but the top has fewer than `Half` = (M-1)/2 or more than `hi` keys. `hi` is M-1 while
every allocation succeeds, and M when splits may fail. It is the emptiness of the slots behind
the lengths that the code relies on without saying so, since it finds the lengths by scanning.

The argument has three steps. An insert into a leaf or of a key sent up is `InsertAt`, a
removal from a leaf or by a merge `RemoveAt`; these, the split and the merge are shown to keep
nodes packed and hung. Then, by induction over levels, a recursive insert
on a sound tree answers a sound tree of the same height with the key added, or two of them
around a key (`Inserted`), and a remove answers a sound tree that lost the key and at most one
key at the top (`Removed`), unless it rotated. Last, the new root and the root that gives way
keep the tree sound. That an inner node's own key is replaced by the biggest one below it is
lemma `IsBiggest` and those that cite it. Merges free the right sibling; the code never merges what would
not fit, which is where `Half` is needed.

A damaged tree has none of this, so the first two theorems use another invariant, `Held`: the
types, and `Weight(root) <= live`. `Weight` counts the nodes behind every link, behind stale
ones too: a node that a lookup does not see is kept by the invariant because a later shift or
rotation may uncover it. It is shown of every operation on a node that it makes no weight but
that of the node it is given, and takes away what it frees. A merge frees one node and drops
its weight; a node that was linked from two places would weigh twice.

`NodesGivenBack` is about search trees again. `Whole` adds to `Settled` and `Held` that
`live <= Weight(root)`, and a search tree has as many nodes as it weighs (`AllLinked`), since
nothing hangs behind its lengths. The rest is induction over levels once more: an insert
answers at least the weight it was given and what it allocated (`Keeps`), a remove what it was
given but the nodes it freed (`Stays`). Here the lengths matter that `Held` does without: a
split, a shift or a merge copies as many children as it counted keys, and one child it did not
count would be lost.

### File notification

`FileNotifyProofs` proves, for every set of threads and every bound on the ioctls:

- `TypeCorrect`: `Spec => []TypeOK`;
- `WakeupNotLost`: `Spec => []NoLostWakeup`;
- `ReportedOnce`: `Spec => []DeliveredAtMostOnce`;
- `FlagIsMailbox`: `Spec => ImplementsEventFlag`.

The assumptions are `NoOwner \notin Threads` and `MaxAnnounced \in Nat`.

None of the safety properties is inductive. `IInv` adds four facts. `MutexHeld`: a thread is
in a critical step exactly if it owns the mutex; so at most one poll is between its test
and its clear. `Registered`: a poll that may sleep is on the queue from its test on.
`WakeupComes` extends `NoLostWakeup` backwards to the moment where the poll found the flag
down: if the flag is up by now, the ioctl that raised it has not yet woken the queue, or
has triggered the entry. `Unreported`: if the flag is up and no poll is clearing it,
one announcement has not been reported yet. For the refinement each step is shown to be a
step of the mailbox or to leave it alone; the tests, clears and withdrawals are the only
steps where `MutexHeld` is needed, to know that no other poll is in the gap.

### File data

`FileDataProofs` proves `TypeCorrect`, `Spec => []TypeOK`, and `FileIsByteArray`,
`Spec => ImplementsByteFile`, for every size of quanta, items and `int`, from
`SizesAssumption`, `InputsAssumption` (the sizes are positive, payloads are sequences of
numbers, counts are numbers; both may be empty or 0) and `NullAssumption`. `TypeOK` is inductive by itself and is all the
refinement needs. What both rest on is the arithmetic: the quantum number computed from any
position is below `QSET` and the offset below `QUANTUM` (`PositionInRange`), and below the
wrap two positions share item, quantum and offset only if they are equal. `StoredBytes` then
says that a store changes the bytes of its payload and no other, and what `Follow` appends on
the way, even for a call that fails later, reads as bytes nobody wrote.

### Directories, inodes and mounts

`NamespaceProofs` proves, for any number of inodes, any names with different keys and any
garbage, `Spec => []P` (`Spec => P` for `FreedOnce`) for every property that `file_system`
checks; the last two are about the mounts around it, and start from `FsSpec`:

- `TypeCorrect` (`TypeOK`), `TreesAndNames` (`Coherent`), `FilesCounted` (`FileNumExact`),
  `LinksCounted` (`LinksSuffice`), `FinishedHaveEntity` (`ReachedIsLive`), `OnlyUnlinkCloses`
  (`OpenIsLive`), `NoDoubleFree` (`FreedOnce`), `LookupFindsNothing` (`NeverStolen`);
- `MountKeepsNamespace`: `FsSpec => Spec`, so all of these hold of a module that is loaded,
  mounted, unmounted and unloaded at will;
- `SuperGivenBackOnce`: `FsSpec => []SuperOnce`;
- `ListingsComplete`: `FsSpec => []ListingExact`.

The assumptions are `KeysAssumption` and `InodesAssumption`, and for the listing
`WidthAssumption` and `NamesAssumption` (a name has at most 255 bytes, so there are finitely
many, and the sizes of buffers asked about have a bound). The inductive invariant `IInv`
has five parts. `WellTyped`. `Placed`: dentries belong to inodes in use, no inode has two names
and no name two inodes, a removed inode has none - without it an unlink could free an entity
another name leads to. `Entities`: what can be reached, and what an unmount evicted, has its
entity if `new_inode` finished it, until a stray kfree; the second half is what keeps `lke_fs_destroy_inode` from freeing again what unlink or
rmdir freed, and it rests on the unmount leaving removed inodes in memory. `Counts`: the
dentries are finite, `fileNum` is their number; a directory has two links and one for
each directory in it, a named file one, and no inode that is free has a negative count left
over. `Trees`: `Coherent`, and that an inode which is no directory has no entries, since
`new_inode` starts from whatever its slot of the cache was. Each part has a lemma for
the whole of `Next`, or one for each kind of step: names added, taken, or none changed.

A listing needs no invariant of its own: `Coherent` and `OneName` make the entries of a tree
differ in their keys and in the names of their inodes (`CoherentListable`), so the traversal
passes each once (`WalkIsBijection`), and by induction over it the buffer always holds
different names of those passed, and all of them if there is room for them (`FillHolds`).

### MD4

`Md4StreamProofs` proves, for every size of block, of its length field, of a byte and of the
pieces, from `SizesAssumption` and `WordAssumption` (the values of a word are a multiple of 8):

- `TypeCorrect`: `Spec => []TypeOK`;
- `UpdateBuffers`: `Spec => []Buffered`;
- `DigestOfPadded`: `Spec => ImplementsMessage`.

The invariant is `Buffered` and that `block` has cells 0 to `BLOCK - 1` and no other. A copy
stays inside a block, and what was compressed is a prefix of the message. For the padding, the
code's two halves of the bit count are shown to be the lower and the upper digits of 8 times
the byte count (`Digit`, from lemmas on quotients and powers), and the last one or two blocks
those of the padded message, whether or not the field fits behind the mark.

### Induction and recursion

The library's theorems on induction and recursion take an operator as a parameter, which none
of the provers can instantiate. `NatFacts` derives from the well-founded order of the numbers
forms that take a set (`Induction`) and a function (`Recursion`) instead; from these,
`BtreeProofs` has the two for trees (`TreeInduction`, `TreeRecursion`), by the levels of `Tree`.
They show that the recursive functions of `Btree` satisfy their equations. `Total` in `NatFacts`
is the sum of a function's first values.

### Only model-checked

- `SleeperAnswered`: liveness under fairness is out of the prover's reach.
- The four violations.

## 5. Findings

1. `btree_duplicate`: the log says the insert of a stored key failed, and the call answers 0.
2. `btree_split_fail`: the comment says the key is removed, and it stays.
3. `btree_test_tree`: a child that is short of keys gives a key away instead of getting one,
   because `right_rotate` is called where `left_rotate` is needed and the other way round.
   From the tree of the test, removing 53 and then 39 is enough (a run with several workers
   may show a longer way). The test itself removes four other keys.
4. `rmdir_not_empty`: `lke_rmdir` begins with the answer -ENOTEMPTY and tests the file count
   of the parent, which is never 0 here, instead of the victim's. A directory with entries is
   removed and its tree destroyed. What is below stays usable for whoever works there
   (`ReachedIsLive`) and stays in memory after the unmount.

## 6. Not modelled

- The compression function of MD4: arithmetic on 16 words, compared by `hashtest/` with
  fixed strings. Registration of the algorithm: two calls without a state of this code.
- Two names with one key: the tree takes them for one entry, and whether two exist depends on
  the hash. `KeysAssumption` excludes them.
- The event mask of a poll: `do_poll` reports what the mask lets through, and every caller in
  the model waits for the announcement.
- What happens in damaged memory: a behaviour ends at an oops, at a kfree that hits another
  inode's entity, and at an inode handed out without a reference.
- `sbi_inode_count`, which is changed without a lock and read by nobody; times, modes and
  owners; `statfs`, which answers constants.
- Several mounts at a time: they share the inode cache and nothing else.
- A name space over trees that were rotated: it has the trees of `KeySet`, which the code
  keeps up to the first rotation only (finding 3). In a directory of that size the properties
  of `Namespace` inherit the exceptions of `Btree`.
- Memory that the code never gives back: the items of a file and the tree of a directory when
  their inode is destroyed, the transform of `namei`, forgotten inodes. They are in the model
  as steps that free nothing; no property could ask for more.
- A mount before the inode cache exists, and an unload while releases are pending, lead to an
  oops in the model (`MountOops`, `DestroyUnloaded`). Nothing in the code prevents either.
- `hashtest/`, `userProgram/`: no state; their calls are among those of `FileNotify`.
- `lke_btree_node_print`, `PDEBUG` and the printing callbacks: output only.
- `include/btree.h`, `include/treetest_fs.h`, `btree/include/btree.h`: leftovers that no
  source file includes.
- Loading and unloading of the B-tree and MD4 modules.

## 7. Plan

Done: `BtreeNode`, `KeySet`, `Btree` and its three proof modules; `EventFlag`, `FileNotify` and
its proofs; `ByteFile`, `FileData` and its proofs; `Namespace`, `Filesystem`, `Readdir` and
their proofs; `Md4Message`, `Md4Stream` and its proofs. Every safety property that a passing
run checks is also proved.

1. An abstract specification of the name space, names that are bound and given up again, and
   the refinement by `Namespace`, from `Coherent` and `OneName`.
