------------------------------- MODULE Threads -------------------------------
(***************************************************************************)
(* A mount without -s: libfuse calls the handlers from several threads.    *)
(* create_inode and remove_inode take no lock, so each is cut here into    *)
(* its reads and writes of the shared tables and its pwrites.              *)
(*                                                                         *)
(* The kernel is external: it holds the lock of the directory that a       *)
(* request changes, and of what it removes, until the request is answered. *)
(* A comparison of the names of one lookup, and a scan of one array, is    *)
(* one step.  One session is modelled, on a disk that was just mounted.    *)
(***************************************************************************)
EXTENDS Padding

CONSTANTS
    Thread,        \* the threads of the fuse loop
    DirPaths,      \* the paths that mkdir is called with
    MaxRequests    \* bound on the requests of the session

ASSUME RequestsAssumption == DirPaths \subseteq Paths /\ MaxRequests \in Nat

VARIABLES
    pc,      \* where each thread is in its request
    local,   \* path, mode, and the locals of create_inode and remove_inode
    unit,    \* what its flush writes next: -1 is the superblock, then inodes
    begun    \* the number of requests so far

threadVars == <<inodes, sBlock, disk, pc, local, unit, begun>>

NoRequest == [path |-> <<>>, op |-> "create", mode |-> 0,
              i |-> 0, parent |-> 0, k |-> 0, last |-> 0]

Idle(t) == pc[t] = "idle"
Goto(t, label) == pc' = [pc EXCEPT ![t] = label]

(* A request that is answered leaves nothing behind in its thread. *)
Returns(t) ==
    /\ Goto(t, "idle")
    /\ local' = [local EXCEPT ![t] = NoRequest]
    /\ unit' = [unit EXCEPT ![t] = -1]

------------------------------------------------------------------------------
(***************************************************************************)
(* The kernel: which requests come, and which of them come together.       *)
(***************************************************************************)
IsDirectory(path) ==
    path = <<>> \/ \E f \in findFileOrDir(path) : inodes[f].mode = S_IFDIR

Walkable(path) == \A n \in 0 .. Len(path) - 1 : IsDirectory(SubSeq(path, 1, n))

Locks(op, path) ==
    {ParentPath(path)} \cup (IF op = "remove" THEN {path} ELSE {})

Unlocked(op, path) ==
    \A t \in Thread : ~Idle(t) =>
        Locks(op, path) \cap Locks(local[t].op, local[t].path) = {}

Begin(t, op, path, mode, label) ==
    /\ Idle(t) /\ begun < MaxRequests /\ begun' = begun + 1
    /\ Walkable(path) /\ Unlocked(op, path)
    /\ Goto(t, label)
    /\ local' = [local EXCEPT ![t] = [NoRequest EXCEPT
            !.path = path, !.op = op, !.mode = mode, !.i = 1]]
    /\ UNCHANGED <<tableVars, unit>>

sfs_create(t, path) ==
    findFileOrDir(path) = {} /\ Begin(t, "create", path, 33188, "probe")
sfs_mkdir(t, path) ==
    findFileOrDir(path) = {} /\ Begin(t, "create", path, S_IFDIR, "probe")
sfs_remove(t, path) ==
    findFileOrDir(path) # {} /\ Begin(t, "remove", path, 0, "find")

------------------------------------------------------------------------------
(***************************************************************************)
(* create_inode.                                                           *)
(***************************************************************************)
(* Mutant: the loop does not advance. *)
probe_again(t) ==
    /\ pc[t] = "probe" /\ local[t].i < sBlock.numInodes
    /\ sBlock.ibmap[local[t].i] = 1
    /\ UNCHANGED <<local, pc, tableVars, unit, begun>>

probe_taken(t) ==
    /\ pc[t] = "probe" /\ local[t].i < sBlock.numInodes
    /\ sBlock.ibmap[local[t].i] = 1
    /\ local' = [local EXCEPT ![t].i = @ + 1]
    /\ UNCHANGED <<pc, tableVars, unit, begun>>

probe_free(t) ==
    /\ pc[t] = "probe" /\ local[t].i < sBlock.numInodes
    /\ sBlock.ibmap[local[t].i] # 1
    /\ Goto(t, "parent")
    /\ UNCHANGED <<local, tableVars, unit, begun>>

no_inode(t) ==
    /\ pc[t] = "probe" /\ local[t].i >= sBlock.numInodes
    /\ Returns(t) /\ UNCHANGED <<tableVars, begun>>

find_parent(t) ==
    /\ pc[t] = "parent"
    /\ \E p \in findParent(local[t].path) : local' = [local EXCEPT ![t].parent = p]
    /\ Goto(t, "entry")
    /\ UNCHANGED <<tableVars, unit, begun>>

no_parent(t) ==
    /\ pc[t] = "parent" /\ findParent(local[t].path) = {}
    /\ Returns(t) /\ UNCHANGED <<tableVars, begun>>

find_entry(t) ==
    /\ pc[t] = "entry"
    /\ LET d == inodes[local[t].parent].dirContents
       IN  \E k \in Idx :
            /\ d[k] = NULL /\ \A j \in 0 .. k - 1 : d[j] # NULL
            /\ local' = [local EXCEPT ![t].k = k]
    /\ Goto(t, "link")
    /\ UNCHANGED <<tableVars, unit, begun>>

no_entry(t) ==
    /\ pc[t] = "entry" /\ Full(inodes[local[t].parent].dirContents)
    /\ Goto(t, "fileName")
    /\ UNCHANGED <<local, tableVars, unit, begun>>

link(t) ==
    /\ pc[t] = "link"
    /\ inodes' = [inodes EXCEPT ![local[t].parent].dirContents[local[t].k] = local[t].i]
    /\ Goto(t, "fileName")
    /\ UNCHANGED <<local, sBlock, disk, unit, begun>>

set_fileName(t) ==
    /\ pc[t] = "fileName"
    /\ inodes' = [inodes EXCEPT ![local[t].i].fileName = relativeName(local[t].path)]
    /\ Goto(t, "parentDir")
    /\ UNCHANGED <<local, sBlock, disk, unit, begun>>

set_parentDir(t) ==
    /\ pc[t] = "parentDir"
    /\ inodes' = [inodes EXCEPT ![local[t].i].parentDir = getRelativeParentName(local[t].path)]
    /\ Goto(t, "numbers")
    /\ UNCHANGED <<local, sBlock, disk, unit, begun>>

set_numbers(t) ==
    /\ pc[t] = "numbers"
    /\ LET l == local[t]
           numbered == [inodes EXCEPT ![l.i].inumber = l.i, ![l.i].mode = ToShort(l.mode)]
       IN  inodes' = [numbered EXCEPT ![l.i].parent_inumber = numbered[l.parent].inumber]
    /\ Goto(t, "take")
    /\ UNCHANGED <<local, sBlock, disk, unit, begun>>

take(t) ==
    /\ pc[t] = "take"
    /\ sBlock' = [sBlock EXCEPT !.ibmap[local[t].i] = 1]
    /\ Goto(t, "pad")
    /\ UNCHANGED <<local, inodes, disk, unit, begun>>

------------------------------------------------------------------------------
(***************************************************************************)
(* remove_inode.  i is the inode found; an entry that is not found counts  *)
(* as removed.                                                             *)
(***************************************************************************)
find(t) ==
    /\ pc[t] = "find"
    /\ \E f \in findFileOrDir(local[t].path) :
        local' = [local EXCEPT ![t].i = f, ![t].parent = getParentFcb(f)]
    /\ Goto(t, "scan")
    /\ UNCHANGED <<tableVars, unit, begun>>

not_found(t) ==
    /\ pc[t] = "find" /\ findFileOrDir(local[t].path) = {}
    /\ Returns(t) /\ UNCHANGED <<tableVars, begun>>

Hit(t, k) ==
    LET d == inodes[local[t].parent].dirContents
    IN  d[k] # NULL /\ inodes[d[k]].inumber = inodes[local[t].i].inumber

scan(t) ==
    /\ pc[t] = "scan"
    /\ \E k \in Idx :
        /\ Hit(t, k) /\ \A j \in 0 .. k - 1 : ~Hit(t, j)
        /\ LET last == lastEntryInDirentry(inodes[local[t].parent].dirContents)
           IN  /\ local' = [local EXCEPT ![t].k = k, ![t].last = last]
               /\ Goto(t, IF last = k THEN "clear" ELSE "move")
    /\ UNCHANGED <<tableVars, unit, begun>>

no_hit(t) ==
    /\ pc[t] = "scan" /\ \A k \in Idx : ~Hit(t, k)
    /\ Goto(t, "release")
    /\ UNCHANGED <<local, tableVars, unit, begun>>

(***************************************************************************)
(* The kernel's locks go by path.  Two paths with the same last two names  *)
(* are one directory here and two for the kernel, so an edit of its array  *)
(* may overlap with this one, and a later scan end one behind the array:   *)
(* in the next inode's fileName.                                           *)
(***************************************************************************)
move(t) ==
    /\ pc[t] = "move"
    /\ LET l == local[t]
           d == inodes[l.parent].dirContents
       IN  inodes' = [inodes EXCEPT ![l.parent].dirContents[l.k] =
                          IF l.last \in Idx THEN d[l.last] ELSE WILD]
    /\ Goto(t, "clear")
    /\ UNCHANGED <<local, sBlock, disk, unit, begun>>

clear(t) ==
    /\ pc[t] = "clear"
    /\ LET l == local[t]
       IN  inodes' = IF l.last \in Idx
                     THEN [inodes EXCEPT ![l.parent].dirContents[l.last] = NULL]
                     ELSE [inodes EXCEPT ![l.parent + 1].fileName = ""]
    /\ Goto(t, "release")
    /\ UNCHANGED <<local, sBlock, disk, unit, begun>>

release(t) ==
    /\ pc[t] = "release"
    /\ sBlock' = [sBlock EXCEPT !.ibmap[inodes[local[t].i].inumber] = 0]
    /\ Goto(t, "pad")
    /\ UNCHANGED <<local, inodes, disk, unit, begun>>

------------------------------------------------------------------------------
(***************************************************************************)
(* flushAllInodesTodisk(FALSE): for each unit a pwrite of '0' characters,  *)
(* then one of what memory holds at that moment.                           *)
(***************************************************************************)
Pad(u) == IF u = -1 THEN PadSuperBlock ELSE PadFCB
InMemory(u) == IF u = -1 THEN sBlock ELSE inodes[u]
OnDisk(u) == IF u = -1 THEN disk.sBlock ELSE disk.inodes[u]

pwrite(u, content) ==
    disk' = IF u = -1 THEN [disk EXCEPT !.sBlock = content]
                      ELSE [disk EXCEPT !.inodes[u] = content]

(* Mutant: a flush that meets another one leaves the work to it. *)
pad_if_alone(t) ==
    /\ pc[t] = "pad" /\ unit[t] < sBlock.numInodes - 1
    /\ IF \E o \in Thread \ {t} : pc[o] \in {"pad", "data"}
       THEN Returns(t) /\ UNCHANGED disk
       ELSE /\ pwrite(unit[t], Pad(unit[t]))
            /\ Goto(t, "data") /\ UNCHANGED <<local, unit>>
    /\ UNCHANGED <<inodes, sBlock, begun>>

write_pad(t) ==
    /\ pc[t] = "pad" /\ unit[t] < sBlock.numInodes - 1
    /\ pwrite(unit[t], Pad(unit[t]))
    /\ Goto(t, "data")
    /\ UNCHANGED <<local, inodes, sBlock, unit, begun>>

(* Mutant: free inodes are not written. *)
write_if_allocated(t) ==
    /\ pc[t] = "data"
    /\ IF unit[t] > 0 /\ sBlock.ibmap[unit[t]] = 0 THEN UNCHANGED disk
       ELSE pwrite(unit[t], InMemory(unit[t]))
    /\ unit' = [unit EXCEPT ![t] = @ + 1]
    /\ Goto(t, "pad")
    /\ UNCHANGED <<local, inodes, sBlock, begun>>

write_data(t) ==
    /\ pc[t] = "data"
    /\ pwrite(unit[t], InMemory(unit[t]))
    /\ unit' = [unit EXCEPT ![t] = @ + 1]
    /\ Goto(t, "pad")
    /\ UNCHANGED <<local, inodes, sBlock, begun>>

flushed(t) ==
    /\ pc[t] = "pad" /\ unit[t] >= sBlock.numInodes - 1
    /\ Returns(t) /\ UNCHANGED <<tableVars, begun>>

------------------------------------------------------------------------------
create_inode_step(t) ==
    \/ probe_taken(t) \/ probe_free(t) \/ no_inode(t)
    \/ find_parent(t) \/ no_parent(t)
    \/ find_entry(t) \/ no_entry(t) \/ link(t)
    \/ set_fileName(t) \/ set_parentDir(t) \/ set_numbers(t) \/ take(t)

remove_inode_step(t) ==
    \/ find(t) \/ not_found(t) \/ scan(t) \/ no_hit(t)
    \/ move(t) \/ clear(t) \/ release(t)

flush_step(t) == write_pad(t) \/ write_data(t) \/ flushed(t)

Step(t) == create_inode_step(t) \/ remove_inode_step(t) \/ flush_step(t)

ThreadInit ==
    /\ sBlock = FormattedSuperBlock(NumInodes)
    /\ inodes = FormattedTable
    /\ disk = FormattedDisk(NumInodes)
    /\ pc = [t \in Thread |-> "idle"]
    /\ local = [t \in Thread |-> NoRequest]
    /\ unit = [t \in Thread |-> -1]
    /\ begun = 0

ThreadNext ==
    \E t \in Thread :
        \/ \E path \in Paths : sfs_create(t, path) \/ sfs_remove(t, path)
        \/ \E path \in DirPaths : sfs_mkdir(t, path)
        \/ Step(t)

(* Every thread is scheduled: a handler blocks on nothing. *)
ThreadSpec ==
    /\ ThreadInit /\ [][ThreadNext]_threadVars
    /\ \A t \in Thread : WF_threadVars(Step(t))

------------------------------------------------------------------------------
(***************************************************************************)
(* Properties.                                                             *)
(***************************************************************************)
Units == -1 .. NumInodes - 2

(***************************************************************************)
(* When no request is under way, the disk has the superblock and all       *)
(* inodes but the last as memory has them, however the flushes overlapped  *)
(* with each other and with changes: a flush never stores an old state     *)
(* over a newer one, because each pwrite takes memory as it is then.       *)
(***************************************************************************)
QuiescentDisk ==
    (\A t \in Thread : Idle(t)) => \A u \in Units : OnDisk(u) = InMemory(u)

(***************************************************************************)
(* Every unit of '0' characters on the disk is about to be overwritten: a  *)
(* kill leaves at most as many of them as there are threads in a flush.    *)
(***************************************************************************)
PadHasWriter ==
    \A u \in Units : OnDisk(u) = Pad(u) =>
        \E t \in Thread : pc[t] = "data" /\ unit[t] = u

(***************************************************************************)
(* Every request is answered.                                              *)
(***************************************************************************)
RequestsEnd == \A t \in Thread : ~Idle(t) ~> Idle(t)

(***************************************************************************)
(* README: "Each directory's inode contains an array of pointers to the    *)
(* inodes of the files within its directory".  When no request is under    *)
(* way, an entry points at an inode that has the directory as its parent.  *)
(* Two create_inode that overlap take the same free inode, and two         *)
(* directories list it.                                                    *)
(***************************************************************************)
EntriesOwned ==
    (\A t \in Thread : Idle(t)) =>
        \A p \in Slots : \A c \in Children(inodes[p].dirContents) :
            inodes[c].parent_inumber = p

------------------------------------------------------------------------------
(***************************************************************************)
(* The inductive invariant.  From its first change of a table on, a        *)
(* request is going to flush; a flush is going to write the unit it stands *)
(* at and those behind.  Every unit is current on the disk, or some thread *)
(* is going to write it.                                                   *)
(***************************************************************************)
Clean == {"idle", "probe", "parent", "entry", "link", "find", "scan"}
Dirty == {"fileName", "parentDir", "numbers", "take", "move", "clear", "release"}

Linking == {"entry", "link", "fileName", "parentDir", "numbers"}

SharedFCB == [fileName : NameField, parentDir : NameField,
              inumber : Slots, parent_inumber : ParentNumber,
              mode : SHRT_MIN .. SHRT_MAX,
              dirContents : [Idx -> Entries \cup {WILD}]]

SharedSuperBlock == [numInodes : {NumInodes}, inodeStartIndex : {INODE_START_INDEX},
                     ibmap : [Slots -> {0, 1}]]

Local == [path : Paths \cup {<<>>}, op : {"create", "remove"}, mode : Nat,
          i : Nat, parent : ParentNumber, k : Idx, last : Nat]

ThreadTypeOK ==
    /\ inodes \in [Slots -> SharedFCB]
    /\ sBlock \in SharedSuperBlock
    /\ disk \in [touched : BOOLEAN, sBlock : SharedSuperBlock \cup {PadSuperBlock},
                 inodes : [Slots -> SharedFCB \cup {PadFCB}]]
    /\ pc \in [Thread -> Clean \cup Dirty \cup {"pad", "data"}]
    /\ local \in [Thread -> Local]
    /\ unit \in [Thread -> -1 .. NumInodes - 1]
    /\ begun \in Nat

(* What a thread knows of its own place. *)
ThreadInStep(t) ==
    /\ pc[t] \in Clean \cup Dirty => unit[t] = -1
    /\ pc[t] = "data" => unit[t] \in Units
    /\ ~Idle(t) => local[t].path \in Paths
    /\ pc[t] \in Linking \cup {"parent"} => local[t].i \in Slots
    /\ pc[t] \in Linking => local[t].parent \in Slots

WillWrite(t, u) == pc[t] \in Dirty \/ (pc[t] \in {"pad", "data"} /\ unit[t] <= u)

StoredOrDue ==
    \A u \in Units : OnDisk(u) = InMemory(u) \/ \E t \in Thread : WillWrite(t, u)

ThreadInv ==
    /\ ThreadTypeOK
    /\ \A t \in Thread : ThreadInStep(t)
    /\ StoredOrDue
    /\ PadHasWriter
==============================================================================
