------------------------------ MODULE Filesystem ------------------------------
(***************************************************************************)
(* The life of the module and of a mount (super.c) around the name space.  *)
(* Loading registers the file system first and creates the cache of its    *)
(* inodes then; unloading takes both away again.  A mount allocates its    *)
(* super block information, then the root.  One mount is followed at a     *)
(* time.  The kernel does not unload the module while it is mounted and    *)
(* mounts nothing once it is unregistered.                                 *)
(***************************************************************************)
EXTENDS Namespace

VARIABLES
    module,  \* out; registered: no cache yet; in; unregistered
    sbi      \* what s_fs_info points to: none, live, freed, corrupt

fsVars == <<vars, module, sbi>>

FsInit == Init /\ module = "out" /\ sbi = "none"

-----------------------------------------------------------------------------
(* lke_fs_init and lke_fs_exit *)

Register == module = "out" /\ module' = "registered" /\ UNCHANGED <<vars, sbi>>

\* Without memory for the cache, the registration is taken back.
CreateCache ==
    /\ module = "registered"
    /\ module' \in {"in", "out"}
    /\ UNCHANGED <<vars, sbi>>

Unregister ==
    /\ module = "in" /\ root = NULL /\ sbi = "none"
    /\ module' = "unregistered"
    /\ UNCHANGED <<vars, sbi>>

\* The cache cannot go while inodes are in it; the code goes regardless.
Unload == module = "unregistered" /\ module' = "out" /\ UNCHANGED <<vars, sbi>>

-----------------------------------------------------------------------------
(* fill_super, kill_sb and put_super *)

\* The information is allocated before the root.  On failure it is given back,
\* but the super block keeps pointing to it.
FillSuper ==
    /\ module = "in" /\ sbi = "none"
    /\ sbi' = IF root' = NULL THEN "freed" ELSE "live"
    /\ UNCHANGED module

\* A root that was made half is no failure.
Mount == (\E i \in Inodes : MakeRoot(i)) /\ FillSuper

\* No memory for the root inode, for the path in new_inode or for the root's
\* dentry.
MountFails ==
    /\ \/ UNCHANGED vars
       \/ \E i \in Inodes : RootForgotten(i) \/ RootEvicted(i)
    /\ FillSuper

\* alloc_inode takes the root from a cache that is NULL still; or the root's
\* tree has no mempool, and drop_nlink is given the error.
MountOops ==
    /\ module \in {"registered", "in"} /\ sbi = "none"
    /\ sbi' = "live"
    /\ Oops
    /\ UNCHANGED module

\* Mutant of PutSuper: it runs for a super block without a root, too.
PutSuperAlways == sbi' = IF sbi = "live" THEN "none" ELSE "corrupt"

\* The kernel calls put_super for a super block with a root only.
PutSuper ==
    sbi' = CASE root = NULL -> "none" [] sbi = "live" -> "none" [] OTHER -> "corrupt"

\* deactivate_locked_super, after an unmount or a mount that failed.
KillSuper ==
    /\ sbi # "none"
    /\ PutSuper
    /\ IF root = NULL THEN UNCHANGED vars ELSE Shutdown
    /\ UNCHANGED module

-----------------------------------------------------------------------------
(* The release of inodes *)

GracePeriod ==
    /\ module # "out"
    /\ \E i \in Inodes : Destroy(i)
    /\ UNCHANGED <<module, sbi>>

\* Nothing waits for the grace periods: the callback is gone with the module.
DestroyUnloaded ==
    /\ module = "out"
    /\ \E i \in Inodes : kind[i] = "evicted"
    /\ Oops
    /\ UNCHANGED <<module, sbi>>

FsNext ==
    /\ fate = "runs"
    /\ \/ Register \/ CreateCache \/ Unregister \/ Unload
       \/ Mount \/ MountFails \/ MountOops \/ KillSuper
       \/ GracePeriod \/ DestroyUnloaded
       \/ Calls /\ UNCHANGED <<module, sbi>>

FsSpec == FsInit /\ [][FsNext]_fsVars

-----------------------------------------------------------------------------
(* Properties *)

\* The information of the super block is there for as long as the file system
\* is mounted, and is given back once, by put_super or by the mount that failed.
SuperOnce ==
    /\ sbi # "corrupt"
    /\ fate # "oops" => (sbi = "live" <=> root # NULL)
=============================================================================
