# Verification of SimpelDateisystem (sfs)

SimpelDateisystem is a FUSE file system in C. It keeps an array of inodes and a
superblock in global variables, answers FUSE requests from them, and writes
both to a disk file after every change. This directory holds a TLA+ model of
it, configurations for TLC, and proofs that TLAPS checks.

## The system

| Component | State | Operations | Code |
|---|---|---|---|
| Directory entries | `dirContents[30]` in each inode, pointers to inodes | add, indexed remove, walk | `DateiSteuerBlock.c`, `sfs_readdir` |
| Inode table | `inodes[100]`, `sBlockData` with its `ibmap` | lookup by path, create, remove, flush, format, load | `DateiSteuerBlock.c`, `sfs_init` |
| Disk file | superblock, then inodes, four in a block | padded write, read | `block.c` |
| FUSE operations | `errno`, and the table | 12 handlers, mount, unmount | `sfs.c` |
| Kernel and libfuse | external | look paths up, then send requests | `fuse.h` |
| Start-up | the name of the disk file | `main`, `disk_open` | `sfs.c`, `block.c` |
| Log, build | none that matters here | | `log.c` |

The handlers call the table operations directly; there are no messages and no
locks. `montiere.sh` mounts with `-s`, so there is one thread and a handler runs
to its end; without `-s` libfuse runs handlers on several threads over the same
globals. `create_inode` and `remove_inode` end with a flush of the whole table.
A flush writes the superblock and then each inode, and each of them twice: '0'
characters first, then the data.

Three things are hard here. *History*: removed inodes keep names, numbers and
entries, and are found and used again; arrays get holes; one index is computed
by a loop that steps by one or by two; the flush leaves one inode out. *Failure*:
the process may die between any two pwrites of a flush, and the loops go on
after a call that failed. *Threads*: creates, removes and flushes overlap. What
the table and the disk hold after twenty requests and two crashes is hard to see
from the code and hard to reach with a test. `PROJECT.json` lists these hazards
with their lines.

What makes each part correct:

- directory entries: array edits stay inside the array, add or remove exactly
  one child, and keep the others;
- inode table: an entry points at an allocated inode that points back; an inode
  is listed once; a path that shares its last two names with no other has one
  inode; a free inode is in no directory;
- disk: after each request the disk has what memory has, and a mount reads it
  back; a flush that is cut short damages little, and in an order that does not
  make a used inode look free;
- threads: when all requests are answered, the disk is as if they had come one
  by one;
- operations: what a handler answers is what it did. Here the code and its
  comments part, see *Disagreements*.

## Modules

| Module | Content |
|---|---|
| `DirContents` | operators on one `dirContents` array |
| `ScanLoop` | the loop of `indexed_remove_from_direntry`, iteration by iteration |
| `InodeTable` | inodes, superblock, disk; lookup, create, remove, flush, format, load |
| `Sfs` | the process: one action for each FUSE operation, mount, unmount, kill; the properties |
| `LinkTable` | abstract specification of allocation and links, implemented by `Sfs` |
| `BlockLayer` | `block.c`: the load and the flush call by call, with failing calls, kills and start-up |
| `Padding` | what '0' characters read as |
| `SfsCrash` | `Sfs` with flushes cut short, and what later sessions make of it |
| `Threads` | a mount without `-s`: creates, removes and their flushes on several threads |
| `SfsClaims` | what README and comments say and the code does not do |
| `SfsInvariant`, `SfsCrashInvariant` | the inductive invariants of `Sfs` and `SfsCrash` |
| `DirContentsProofs`, `ScanLoopProofs`, `TableFacts`, `TableProofs`, `SfsProofs`, `SfsCrashProofs`, `BlockLayerProofs`, `ThreadsProofs` | the proofs |
| `MCSfs`, `MCScanLoop`, `MCBlockLayer`, `MCSfsCrash`, `MCThreads` | constants for TLC |

`Sfs` extends `InodeTable`, which extends `DirContents`. `SfsCrash` extends `Sfs`
and `Padding`; `Threads` extends `Padding`, which extends `InodeTable`: both use
the operators of the table as they are. `BlockLayer` stands alone; its property
`FlushIsPrefix` is what `SfsCrash` takes as the outcomes of a cut flush, and its
`ServedIsStored` is what allows `Sfs` to read and write whole tables.

### State

| Model | Code |
|---|---|
| `inodes[i]` | `inodes[i]`, its members `fileName`, `parentDir`, `inumber`, `parent_inumber`, `mode`, `dirContents` |
| an entry `c` or `NULL` | the pointer `&inodes[c]` or `NULL` |
| `sBlock` | `sBlockData`: `numInodes`, `inodeStartIndex`, `ibmap` |
| `disk` | the disk file; `touched` is FALSE while it is empty |
| `up` | `sfs_init` has returned and the process lives |
| `pending` | (the kernel) the paths it has looked up, not found, and is to create |
| `errno`, `ret` | `errno`, and what the last handler returned |

A path is the sequence of its names. `findFileOrDir` is the set of the inode it
returns, empty for `NULL`. In `Sfs` a handler is one action with everything it
calls, the flush included.

`BlockLayer` has the loops themselves: `i`, `currBlock` and `currBlockFillNum`
are the variables of the code, `cell` is the file by offset, `eof` its length,
and each pread or pwrite is an action, with a second action for its failure.
What an inode holds is abstract there: a version, zero bytes, or '0' characters.
Offsets are bytes, with the 32-bit product that a block number of '0'
characters gives.

`Threads` has `pc`, the locals of each thread and the unit its flush writes next.
A step is one access to the shared tables that another thread can tell apart: a
test of one bit of `ibmap`, the search of one array, one assignment to a name, an
entry or a bit, one pwrite. The assignments to numbers and mode of one inode are
one step, as is the comparison of the names in one lookup.

Left out: `uid`, `time` and `block`, which no decision reads; `fileSize` and
`numBlocks`, always 0; `dbmap`, which is written and never read; and the log.

The values of the C build appear as such: `mode` is cut to a `short` by
`ToShort`, `sizeof(superblock)` is 11744, `sizeof(fileControlBlock)` is 840.
`InodesFor` is the closed form of the loop in `formatDisk`.

### Environment

- The kernel looks up the components of a path with `getattr` before it sends a
  create or mkdir. The lookup is a request of its own (`LookupToCreate`), and
  requests of other clients come between it and the create. The kernel keeps the
  directory locked in the meantime (`Locked`): nobody else creates or removes
  there, and nobody removes the directory. But it knows directories by their
  paths: `/a` and `/a/a` have locks of their own, although `findFileOrDir` takes
  `/a/b` and `/a/a/b` for the same file.
- `unlink` and `rmdir` come for a path that is found with the right type, or for
  one that has gone since its lookup. The other requests are for what was opened
  or listed at any time before, so they come for any path.
- `errno` is 0 when the process starts, and library calls that succeed leave it
  alone. Heap allocation succeeds.
- The superblock read of a mount may fail. In `BlockLayer` every open, pread and
  pwrite may fail, in `Sfs` no other does. A pread or pwrite is whole or fails.
- In `Sfs` the process may be killed between two requests; in `BlockLayer` and
  `SfsCrash` at any point of a load or flush.
- In `Threads` the kernel holds the lock of the directory that a request changes,
  and of what it removes, until the request is answered. It knows directories by
  path, so two paths with the same last two names are not excluded although they
  are one directory to `findFileOrDir`.
- To follow a pointer made of '0' characters ends the process, and so does a
  load loop that has left the array `inodes`.
- Addresses stay valid between two runs of the binary: it is not built as PIE.
- The disk file is empty, or all zero bytes, or laid out with `NumInodes`
  inodes, when the first mount meets it. The third is an input: `sfs_init`
  formats empty files only and gives them no inodes (run
  `success_means_done`).
- `ReaddirFaults`: when the walk of `sfs_readdir` uses bytes of a file name as a
  pointer, the process dies or lists garbage. Both are allowed.

## Runs

| Run | Instance | Checked | States |
|---|---|---|---|
| `tree` | 2 names, the 4 paths `/a`, `/a/a`, `/a/b`, `/a/a/b`, 4 inodes, 2 entries to a directory, 2 modes | `NamesUnambiguous`, `EntriesAllocated`, `EntriesBackLinked`, `DiskCurrent`, `AllocatedKeepsNames`, `ImplementsLinkTable` | 224166 |
| `flat` | 5 names and the trash name in `/`, 6 inodes, 4 entries, small and large writes, symmetric in the names | `TypeOK`, `IInv`, `ScanInBounds`, `EntriesUnique`, `FailedReadKeepsDisk` | 12996 |
| `scan` | every array of 8 entries | `ExitIsLastEntry`, `ExitInBounds` | 1678 |
| `block` | 6 inodes in an array of 8, 2 versions, 1 failing call, 1 kill | `BlockInv`, `FlushIsPrefix`, `ServedIsStored`, `LoadKeepsPlaces`, `ClearedKeepsFile`, `PaddedNotServed`, `LoopsEnd` | 256860 |
| `crash` | 3 paths, 5 inodes, 2 entries, 1 cut flush | `CrashInv`, `NamesUnambiguous`, `ScanInBounds`, `DiskCurrent`, `GainedIsAllocated`, `LostIsFree`, `DamageIsLocal` | 512965 |
| `threads` | 2 threads, 4 requests, 4 paths, 4 inodes, 2 entries | `ThreadInv`, `QuiescentDisk`, `PadHasWriter`, `RequestsEnd` | 186253 |

Why these bounds are enough: with two entries to a directory it fills up,
overflows and gets a hole; with 4 inodes one is `/` and one is never flushed,
and the other two are reused in any order; the four paths have the two with the
same last two names and a chain of three directories. `flat` has more files than
entries, so the tail of the array is filled and emptied in every order. In
`block` six inodes fill a block and begin the next, and the array is short
enough for the `memset` of a failed read to go beyond it. In `crash` one cut is followed by any
number of mounts and requests. In `threads` four requests are enough for a
directory, a file in it and two requests that overlap. The proofs remove the
bounds where there are proofs.

`NamesUnambiguous` leaves out the paths that have an alias (`HasAlias`), `/a/b`
and `/a/a/b` in `tree`: two clients may create both at once, and then two inodes
have these names (run `creates_absent_only`). For all other paths the kernel's
lock is enough, though `create_inode` checks nothing.

What the three runs about failure and threads show:

- A flush cut by a kill leaves the new superblock, a prefix of the new inodes,
  one inode of '0' characters at most, and old inodes behind
  (`FlushIsPrefix`). So a bit reaches the disk before its entry: an interrupted
  create is not taken again (`GainedIsAllocated`), an interrupted remove leaves
  an entry of a free inode and never a used inode without entry
  (`LostIsFree`). The converse does not hold, `EntriesAllocated` is lost with
  an interrupted remove. At most two inodes of the request and the padded one
  differ from before (`DamageIsLocal`).
- A superblock of '0' characters, left by a kill between its two pwrites, makes
  every later mount die in the load loop (`PaddedNotServed`).
- An `inode_read` that fails loses that inode only (`LoadKeepsPlaces`): an error
  is taken for a success and the position advances; at the end of the file it
  does not, but there all later inodes are behind the end too. Its `memset`
  clears four inodes and more, which are not loaded yet. On a disk with 97 to 100
  inodes it goes beyond the array (`ClearsBehind`), and what is there is a matter
  of the build: nothing of importance, the end of memory (`ClearFaults`), or
  `sBlockData`. A session that lost its superblock that way, or never read it,
  writes nothing to the file, not even when it ends (`ClearedKeepsFile`): the
  positions that its flush would write to come from the superblock that is gone,
  and so does the number of inodes.
- Overlapping flushes agree: each pwrite takes memory as it is then, so the disk
  is current when all requests are answered (`QuiescentDisk`), and padding on the
  disk always has a thread that is about to overwrite it (`PadHasWriter`).
  Allocation is not safe: see `entries_owned`. `GainedIsAllocated` does not hold
  with threads, since the flush of one request may store the entry of another
  before its bit, and an edit of one array through two paths may break
  `TailRule`.

Fairness: `LoopsEnd` assumes weak fairness of the load and of the flush, which
one thread runs without waiting for anything; calls on a regular file return.
`RequestsEnd` assumes it of each thread's steps: handlers take no lock, so a
thread that the system schedules always has a step. Nothing is assumed about
requests, faults or kills. Deadlock checking is off in `threads`, whose bound on
requests ends the session, and in `scan`, whose loop ends; the other passing runs
check it.

### Disagreements

Each of these runs checks one formula that restates lines of the repository,
and TLC shows a history in which the code does something else.

| Run | The repository says | The code |
|---|---|---|
| `readdir_lists_all` | "the whole directory is read" (`sfs.c:492`) | stops at the first hole |
| `parents_allocated` | "hierarchical tree structure" (`README.md:3`) | a file's parent can be a removed directory or the file |
| `creates_absent_only` | "If the file does not exist, first create it" (`sfs.c:263`) | of two paths with the same last two names, both are created, though the second is found by then |
| `created_is_stored` | each directory has "pointers to the inodes of the files" (`README.md:17`), "write to disk" (`DateiSteuerBlock.c:264`) | a full directory drops the new file, the flush stops before the last inode, and the create reports success |
| `success_means_done` | return -errno (`fuse.h:72`) | 0 for a create or mkdir that did nothing, as on every disk that `sfs_init` formats: it has no inodes |
| `entries_owned` | "pointers to the inodes of the files within its directory" (`README.md:17`) | without `-s`, two creates take one inode for two directories |

More of this kind is in the model without a run of its own: an unlinked file is
still found by its path, as `remove_inode` keeps the names
(`DateiSteuerBlock.c:286`; `SuccessMeansDone` states this, too, but has shorter
counterexamples); `inode_read` clears the length of a block in a buffer of one
inode (`block.c:82`, `Clear`), where "the only difference" to `block_read` is said
to be the offset (`block.c:74`); the number of inodes of a disk that is formatted
is not calculated from its size (`README.md:9`), which is always 0; `findFileOrDir`
compares the parent's last name, not the "path of parent directory"
(`knoten.h:37`), so `/a/b` and `/a/a/b` are one file; the walk over a full
directory reads behind the array (`sfs.c:526`, `ReaddirFaults`);
`how_many_pointers` is 60, not the 15 of its comment (`sfs.c:401`); a file created
with a mode other than 0644 is reported without a type (`sfs.c:237`, `StMode`).

`LinkTable` is an abstraction of what the code does, its disagreements included:
`Link` drops the child of a full directory and `ForgetLast` loses the last inode.
So `ImplementsLinkTable` says that nothing else is dropped or lost;
`created_is_stored` shows what is.

## Proofs

TLAPS proves, for every `NumInodes` in 2 .. 96, every even `MAX_FILES_IN_DIR`,
and all sets of names, paths, modes and sizes that the assumptions in
`DirContents`, `InodeTable` and `Sfs` allow:

- `Invariant`: `IInv` holds in every reachable state. From it follow
  `TypeCorrect`, `ScanSafe`, `LookupUnambiguous`, `NoEntryForFreeInode`,
  `OneEntryPerInode`, `EntriesPointBack` and `DiskStaysCurrent`, one for each
  state invariant of the runs, and the action properties `NamesKept` and
  `ReadErrorHarmless`;
- `RefinesLinkTable`: `Sfs` implements `LinkTable` (`ImplementsLinkTable`);
- `CrashInvariant`: `CrashInv` holds in every reachable state of `SfsCrash`, for
  any number of cut flushes (`MaxCuts`). From it follow `CrashLookupUnambiguous`,
  `CrashScanSafe` and `CrashDiskStaysCurrent`, and the action properties
  `NoEntryBeforeItsBit` (`GainedIsAllocated`), `NoBitWithoutItsEntry`
  (`LostIsFree`) and `DamageStaysLocal` (`DamageIsLocal`);
- `LoopComputesLastEntry` and `LoopStaysInBounds`: the loop of
  `indexed_remove_from_direntry` computes the index that `DirContents` defines
  as a least closed set, and stays inside an array that obeys `TailRule`;
- `BlockInvariant`, and from it one theorem for each safety property of run
  `block`, for every number of inodes up to the length of the array, every
  length up to 100 that is a multiple of four, all contents, and any number of
  failing calls and kills;
- `ThreadInvariant`, `OverlappingFlushesAgree` and `PaddingIsTransient`, for any
  set of threads and any number of requests.

The argument for `Sfs`:

1. *Arrays.* `add_to_direntry` takes the first free entry, so the last one is
   filled last; removal moves the array's last element and clears it. Hence
   `TailRule`: the last entry is used only when all are. Under it the scan ends
   at the length of the array: over a full array it visits the even numbers,
   and the length is even; otherwise the last entry is `NULL` and the last step
   is a single one. For an odd length this would fail, and the assumption says
   so.
2. *Table.* The properties are not inductive one by one. That removal drops the
   right entry needs back links; back links survive the reuse of an inode
   because no entry points at a free inode; that holds because removal drops the
   right entry. And a mount replaces memory by the disk, so the same must hold
   of the disk. `TableInv` collects these facts, and `IInv` states them of both
   tables, with the facts that connect the two: the last inode on the disk is
   blank, the disk is current, a dead process has no memory.
3. *Lost inode.* The last inode is never written, so after a mount an entry may
   point at a blank inode. It has `inumber` 0, which no removed inode has, so
   `remove_from_direntry` never takes it for another; it has no name, so nobody
   is linked into it.
4. *Lookup.* `findFileOrDir` returns the first match, so a path that is not
   found is carried by no inode. This has to stay so from the lookup to the
   create: `PendingAbsent` says that no inode carries a path which the kernel is
   about to create, if the path has no alias. A create gives an inode the names
   of its own path only, and another path with the same names would be an alias.
   So the new inode is the only one of its names.

The refinement maps a bit of `ibmap` to membership in `alloc` and an array to the
set of its entries. It reads memory while the process serves a disk, and the disk
otherwise; the two have the same bits and the same arrays but for the last inode
(`DiskCurrent`). Then:

- a create is `Link`. The first free entry of the array is filled, so one child
  is added (`AddedChildren`); there is none exactly when the directory has as
  many children as entries (`FullIsAtCapacity`), because an inode is listed once;
- a remove is `Unlink`. The array loses the entry of the removed inode and no
  other (`RemovedChildren`), and by back links no other directory lists it;
- the end of the process is `ForgetLast`: the mapping turns to the disk, where
  the last inode is blank and every other is as in memory;
- the mount of an empty file is `Format`. This needs the last part of `IInv`,
  `UntouchedEmpty`: a disk that nothing was written to has no bits and no
  entries. Every other mount, and every other request, changes nothing.

The argument for `SfsCrash`: most of `IInv` is lost there, since a cut flush mixes
inodes of two states of the table with '0' characters, and entries, parent
numbers and bits need not agree. `CrashInv` keeps what each inode says of itself:
its number is its own, 0 or '0' characters, and its own if it has a name
(`Numbered`); its array obeys `TailRule`. These survive any mixture. That names
are distinct relates two inodes and would not, but a request changes the names of
one inode at most, so the names in the mixture are those of the old or of the new
table, with one inode padded (`Changes`, `MixedDisk`); and that the path of a create
is still absent is `PendingAbsent`, as for `Sfs`, since a cut ends all requests. '0' characters are the name
of no path, which `PadAssumption` in `Padding` says. A remove by a stale number
cannot hit another inode, since what is found has a name and so its own number
(`WildFound`).

For the action properties, a request changes the directory and the inode it
creates or removes and nothing else (`Edited`), and memory before the request was
on the disk. So a flush, cut anywhere, changes these two inodes and the padded one
(`DamageIsLocal`). Each cut behind the superblock has the new bits: an entry that
appears is that of the new inode, whose bit is set, and one that disappears is
that of the removed inode, whose bit is clear, or was in the padded directory. A
cut inside the superblock write changes no inode.

The argument for `BlockLayer`: the position of a loop is a function of its
counter (`CursorAt`), for the load up to the end of the file, where it stands
still (`LoadPosition`). Places of different inodes differ, so a pwrite changes
one of them, and the prefix property survives it. A file that was never longer
than `PAD_OFFSET` gives nothing to a reader with a superblock of '0' characters,
so that loop clears inodes until it leaves the array. A superblock that the
`memset` clears makes the loop go on at the place where it stands: `LoadInv` has
the number of inodes to read from the file (`endCond`), and says that from there
on nothing is read any more. With a superblock of zero bytes the flush has no
inode to write and its superblock write has length 0 (`ClearedKeepsFile`).

The argument for `Threads`: every unit is current on the disk or some thread will
write it (`StoredOrDue`). From its first change of a table on, a thread is going
to write every unit; in its flush, those from the current one on. A change makes
units stale, but its own thread owes them all; a pwrite of padding makes one
stale, but its thread writes it next; a pwrite of data makes it current. Memory
never is '0' characters, which gives `PadHasWriter`.

Only model-checked: `LoopsEnd` and `RequestsEnd`, the liveness properties.
Liveness and `ENABLED` are out of the prover's reach, and so is induction over
data: what a recursive definition computes for every input. No module here has a recursive
operator; `Scanned` is a least closed set for that reason, and `ScanLoopProofs`
ties it to the loop.

## Not modelled, and the plan

Left to do: `SfsCrash` takes its cut flushes from `FlushIsPrefix` of `BlockLayer`
by hand; a refinement between the two would connect them. The types of `Threads`
are part of `ThreadInv`; which of the properties of the table survive two threads
that edit one array is open beyond what `entries_owned` shows.

Not modelled:

- Entries as addresses, and a binary whose `inodes` moved between two mounts:
  what lies at the old addresses is a matter of the build.
- Disks with 97 to 100 inodes outside `BlockLayer`: loading them may clear the
  superblock. Disks with more than 100: the load leaves the array, as it does for
  a superblock of '0' characters.
- In `SfsCrash`, requests that only look a path up, and removals of what is gone:
  they change `errno` and `ret`, as in `Sfs`.
- `formatDisk` for sizes other than 0. The code calls it for empty files only,
  and the length of an empty file is 0.
- That the superblock write is 12288 bytes from an object of 11744: the rest goes
  to the file in front of the inodes and is never read back.
- `getFreeInodeNum`, `block_read`, `block_write`, `disk_close`: nothing calls them.
- Requests that change nothing, in `Threads`: they write no shared state.
- A pread or pwrite that is cut short; an image shorter than a superblock.
- The log, which nothing reads; argument handling in `main` beyond the fact that
  the process may end there; file contents, of which the code stores none; and
  libfuse beyond the order and the overlap of its calls.
