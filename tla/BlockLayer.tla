------------------------------ MODULE BlockLayer ------------------------------
(***************************************************************************)
(* block.c and the two loops that use it: the flush of                     *)
(* flushAllInodesTodisk(FALSE), pwrite by pwrite, and the load of          *)
(* sfs_init, pread by pread, with failing calls and with the process       *)
(* killed at any point, start-up included.                                 *)
(*                                                                         *)
(* What a superblock or an inode holds is abstract: a version from Data,   *)
(* zero bytes, or the '0' characters that every padded write stores first. *)
(* A pread or pwrite is whole or fails; the disk file is not empty (module *)
(* Sfs has the empty one).                                                 *)
(***************************************************************************)
EXTENDS Integers

CONSTANTS
    NumInodes,   \* numInodes of the superblocks in Data
    ArrayLen,    \* the length of the array inodes, 100 in sfs.c
    Data,        \* contents that requests write
    Zero,        \* zero bytes
    Pad,         \* '0' characters
    Changes,     \* the sets of inodes that one request changes
    MaxFaults,   \* bound on failing calls
    MaxKills     \* bound on kills

ASSUME SizeAssumption ==
    /\ NumInodes \in Nat \ {0, 1}
    /\ ArrayLen \in 1 .. 100 /\ ArrayLen % 4 = 0
    /\ NumInodes <= ArrayLen

ASSUME ContentAssumption == Zero # Pad /\ Zero \notin Data /\ Pad \notin Data

ASSUME ChangesAssumption == Changes \subseteq SUBSET (0 .. NumInodes - 1)

ASSUME BoundsAssumption == MaxFaults \in Nat /\ MaxKills \in Nat

VARIABLES
    proc,               \* "off", "started", "loading", "serving", "flushing"
    sb,                 \* the superblock in memory
    table,              \* the array inodes
    dsb,                \* the superblock in the file
    cell,               \* the inodes in the file, by their offset
    eof,                \* the length of the file
    i,                  \* the loop counter; -1 while the superblock is written
    endCond,            \* the number of inodes that the load is to read
    currBlock,          \* the position of the loops in the file
    currBlockFillNum,
    stage,              \* which pwrite of a padded write is next
    leaving,            \* the flush is the one of sfs_destroy
    faults, kills,
    oldSb, oldCell,     \* the file when the flush began
    clean               \* no call failed in the current load or flush

loopVars == <<i, endCond, currBlock, currBlockFillNum, stage>>
memVars == <<sb, table>>
fileVars == <<dsb, cell, eof>>
ghostVars == <<oldSb, oldCell>>
boundVars == <<faults, kills>>
blockVars == <<proc, sb, table, dsb, cell, eof, loopVars, leaving,
               faults, kills, ghostVars, clean>>

------------------------------------------------------------------------------
(***************************************************************************)
(* The layout.  Sizes are those of the x86-64 build.                       *)
(***************************************************************************)
BLOCK_SIZE == 4096
FCB_SIZE == 840               \* sizeof(fileControlBlock)
START == 3                    \* inodeStartIndex: 1 + sizeof(superblock) / BLOCK_SIZE
PER_BLOCK == 4                \* numInodesPerBlock: BLOCK_SIZE / sizeof(fileControlBlock)
PAD_INT == 808464432          \* an int of four '0' characters
PAD_OFFSET == 50528256        \* PAD_INT * BLOCK_SIZE in an int

Index == 0 .. ArrayLen - 1
Content == Data \cup {Zero, Pad}

(* Mutant: a number of inodes that is out of range is set right. *)
clamped_inodes(s) == IF s = Zero THEN 0 ELSE NumInodes

numInodes(s) == IF s = Zero THEN 0 ELSE IF s = Pad THEN PAD_INT ELSE NumInodes
inodeStartIndex(s) ==
    IF s = Zero THEN 0 ELSE IF s = Pad THEN PAD_INT ELSE START
numInodesPerBlock(s) ==
    IF s = Zero THEN 0 ELSE IF s = Pad THEN PAD_INT ELSE PER_BLOCK

(* The offset is an int: the product of a padded block number wraps round. *)
Offset(block, fill) ==
    (IF block >= PAD_INT THEN PAD_OFFSET + (block - PAD_INT) * BLOCK_SIZE
                         ELSE block * BLOCK_SIZE) + fill * FCB_SIZE

(* Where inode k is stored, the reference for the positions of the loops. *)
Place(k) == Offset(START + k \div PER_BLOCK, k % PER_BLOCK)
Places == {Place(k) : k \in Index}

At == Offset(currBlock, currBlockFillNum)

Advance(s) ==
    IF currBlockFillNum + 1 >= numInodesPerBlock(s)
    THEN currBlockFillNum' = 0 /\ currBlock' = currBlock + 1
    ELSE currBlockFillNum' = currBlockFillNum + 1 /\ UNCHANGED currBlock

------------------------------------------------------------------------------
(***************************************************************************)
(* Start-up and the end of the process.                                    *)
(***************************************************************************)
Fault == faults < MaxFaults /\ faults' = faults + 1 /\ UNCHANGED kills

(* The globals are zero in a new process. *)
NoMemory ==
    /\ proc' = "off"
    /\ sb' = Zero /\ table' = [k \in Index |-> Zero]
    /\ i' = 0 /\ endCond' = 0 /\ currBlock' = 0 /\ currBlockFillNum' = 0
    /\ stage' = "pad"
    /\ leaving' = FALSE

(* Without its two arguments or without a log file the process ends here. *)
main ==
    /\ proc = "off"
    /\ proc' = "started"
    /\ UNCHANGED <<memVars, fileVars, loopVars, leaving, boundVars, ghostVars,
                   clean>>

disk_open_fails ==
    /\ proc = "started"
    /\ Fault
    /\ NoMemory
    /\ UNCHANGED <<fileVars, ghostVars, clean>>

Kill ==
    /\ proc # "off"
    /\ kills < MaxKills /\ kills' = kills + 1
    /\ NoMemory
    /\ UNCHANGED <<fileVars, faults, ghostVars, clean>>

------------------------------------------------------------------------------
(***************************************************************************)
(* sfs_init: the superblock, then the loop over the inodes.                *)
(***************************************************************************)
sBlock_read_fails ==
    /\ proc = "started"
    /\ Fault
    /\ proc' = "serving"
    /\ UNCHANGED <<memVars, fileVars, loopVars, leaving, ghostVars, clean>>

sBlock_read ==
    /\ proc = "started"
    /\ proc' = "loading"
    /\ sb' = dsb
    /\ i' = 0 /\ endCond' = numInodes(dsb)
    /\ currBlock' = inodeStartIndex(dsb) /\ currBlockFillNum' = 0
    /\ clean' = TRUE
    /\ UNCHANGED <<table, fileVars, stage, leaving, boundVars, ghostVars>>

LoadingInode == proc = "loading" /\ i < endCond /\ i < ArrayLen

LoadFrame == UNCHANGED <<proc, endCond, fileVars, stage, leaving, ghostVars>>

(* Mutant: a new block is begun at the start of the old one. *)
read_first_block ==
    /\ LoadingInode /\ At < eof
    /\ table' = [table EXCEPT ![i] = cell[At]]
    /\ currBlockFillNum' = (currBlockFillNum + 1) % PER_BLOCK
    /\ i' = i + 1
    /\ LoadFrame /\ UNCHANGED <<sb, currBlock, boundVars, clean>>

inode_read ==
    /\ LoadingInode /\ At < eof
    /\ table' = [table EXCEPT ![i] = cell[At]]
    /\ Advance(sb)
    /\ i' = i + 1
    /\ LoadFrame /\ UNCHANGED <<sb, boundVars, clean>>

(***************************************************************************)
(* A failed inode_read clears BLOCK_SIZE bytes, four inodes and most of a  *)
(* fifth.  What it leaves of the fifth is zero: that one is not loaded yet.*)
(* From the last four elements of the array on, this reaches what the      *)
(* build has placed behind inodes: sBlockData, of which it clears          *)
(* everything up to the bits of the 100 inodes; or nothing that is read    *)
(* again; or the end of memory (ClearFaults).                              *)
(***************************************************************************)
ClearsBehind == i * FCB_SIZE + BLOCK_SIZE > ArrayLen * FCB_SIZE

Clear ==
    /\ table' = [k \in Index |-> IF k \in i .. i + 4 THEN Zero ELSE table[k]]
    /\ sb' \in IF ClearsBehind THEN {sb, Zero} ELSE {sb}

(* At the end of the file the result is 0 and the position stays. *)
inode_read_eof ==
    /\ LoadingInode /\ At >= eof
    /\ Clear
    /\ i' = i + 1
    /\ LoadFrame /\ UNCHANGED <<currBlock, currBlockFillNum, boundVars, clean>>

(* Mutant: after an error the position stays. *)
error_stays ==
    /\ LoadingInode
    /\ Fault
    /\ Clear
    /\ i' = i + 1
    /\ clean' = FALSE
    /\ LoadFrame /\ UNCHANGED <<currBlock, currBlockFillNum>>

(* An error is -1, which the loop takes for a success: the position moves. *)
inode_read_fails ==
    /\ LoadingInode
    /\ Fault
    /\ Clear
    /\ Advance(sb')
    /\ i' = i + 1
    /\ clean' = FALSE
    /\ LoadFrame

ClearFaults ==
    /\ LoadingInode /\ ClearsBehind
    /\ Fault \/ (At >= eof /\ UNCHANGED boundVars)
    /\ NoMemory
    /\ UNCHANGED <<fileVars, ghostVars, clean>>

(* The loop has left the array: it clears memory until it meets none. *)
LoadOverruns ==
    /\ proc = "loading" /\ i < endCond /\ i >= ArrayLen
    /\ NoMemory
    /\ UNCHANGED <<fileVars, boundVars, ghostVars, clean>>

LoadDone ==
    /\ proc = "loading" /\ i >= endCond
    /\ proc' = "serving"
    /\ UNCHANGED <<memVars, fileVars, loopVars, leaving, boundVars, ghostVars,
                   clean>>

------------------------------------------------------------------------------
(***************************************************************************)
(* flushAllInodesTodisk(FALSE), called by a request that has changed the   *)
(* superblock and some inodes, and by sfs_destroy.                         *)
(***************************************************************************)
FlushBegins(leave) ==
    /\ proc = "serving"
    /\ proc' = "flushing"
    /\ leaving' = leave
    /\ i' = -1 /\ stage' = "pad"
    /\ currBlock' = inodeStartIndex(sb) /\ currBlockFillNum' = 0
    /\ oldSb' = dsb /\ oldCell' = cell
    /\ clean' = TRUE
    /\ UNCHANGED <<fileVars, endCond, boundVars>>

Request(changed, v) ==
    /\ sb \in Data
    /\ sb' = v
    /\ table' = [k \in Index |-> IF k \in changed THEN v ELSE table[k]]
    /\ FlushBegins(FALSE)

sfs_destroy == FlushBegins(TRUE) /\ UNCHANGED memVars

FlushFrame ==
    UNCHANGED <<proc, memVars, endCond, leaving, ghostVars>>

(* Mutant: the superblock is written whatever it holds. *)
superblock_written(c) == c

(* The superblock write is BLOCK_SIZE * inodeStartIndex bytes long. *)
SbWritten(c) == IF inodeStartIndex(sb) = 0 THEN dsb ELSE c
EndAfter(end) == IF end > eof THEN end ELSE eof

sBlock_write_pad ==
    /\ proc = "flushing" /\ i = -1 /\ stage = "pad"
    /\ dsb' = SbWritten(Pad)
    /\ stage' = "data"
    /\ eof' = EndAfter(BLOCK_SIZE * inodeStartIndex(sb))
    /\ FlushFrame
    /\ UNCHANGED <<cell, i, currBlock, currBlockFillNum, boundVars, clean>>

sBlock_write_data ==
    /\ proc = "flushing" /\ i = -1 /\ stage = "data"
    /\ dsb' = SbWritten(sb)
    /\ i' = 0 /\ stage' = "pad"
    /\ FlushFrame
    /\ UNCHANGED <<cell, eof, currBlock, currBlockFillNum, boundVars, clean>>

(* Either pwrite may fail.  The flush prints a message and goes on. *)
sBlock_write_fails ==
    /\ proc = "flushing" /\ i = -1
    /\ Fault
    /\ i' = 0 /\ stage' = "pad"
    /\ clean' = FALSE
    /\ FlushFrame
    /\ UNCHANGED <<fileVars, currBlock, currBlockFillNum>>

WritingInode == proc = "flushing" /\ i \in 0 .. numInodes(sb) - 2

block_write_pad ==
    /\ WritingInode /\ stage = "pad"
    /\ cell' = [cell EXCEPT ![At] = Pad]
    /\ eof' = EndAfter(At + FCB_SIZE)
    /\ stage' = "data"
    /\ FlushFrame
    /\ UNCHANGED <<dsb, i, currBlock, currBlockFillNum, boundVars, clean>>

(* Mutant: the data pwrite does not use the offset in the block. *)
write_at_block_start ==
    /\ WritingInode /\ stage = "data"
    /\ cell' = [cell EXCEPT ![Offset(currBlock, 0)] = table[i]]
    /\ i' = i + 1 /\ stage' = "pad"
    /\ Advance(sb)
    /\ FlushFrame
    /\ UNCHANGED <<dsb, eof, boundVars, clean>>

(* Mutant: the loop counter stands still. *)
write_again ==
    /\ WritingInode /\ stage = "data"
    /\ cell' = [cell EXCEPT ![At] = table[i]]
    /\ stage' = "pad"
    /\ FlushFrame
    /\ UNCHANGED <<dsb, eof, i, currBlock, currBlockFillNum, boundVars, clean>>

block_write_data ==
    /\ WritingInode /\ stage = "data"
    /\ cell' = [cell EXCEPT ![At] = table[i]]
    /\ i' = i + 1 /\ stage' = "pad"
    /\ Advance(sb)
    /\ FlushFrame
    /\ UNCHANGED <<dsb, eof, boundVars, clean>>

block_write_fails ==
    /\ WritingInode
    /\ Fault
    /\ i' = i + 1 /\ stage' = "pad"
    /\ Advance(sb)
    /\ clean' = FALSE
    /\ FlushFrame
    /\ UNCHANGED fileVars

FlushReturns ==
    /\ proc = "flushing" /\ i >= 0 /\ i >= numInodes(sb) - 1
    /\ ~leaving
    /\ proc' = "serving"
    /\ UNCHANGED <<memVars, fileVars, loopVars, leaving, boundVars, ghostVars,
                   clean>>

FlushEndsSession ==
    /\ proc = "flushing" /\ i >= 0 /\ i >= numInodes(sb) - 1
    /\ leaving
    /\ NoMemory
    /\ UNCHANGED <<fileVars, boundVars, ghostVars, clean>>

------------------------------------------------------------------------------
Load ==
    \/ inode_read \/ inode_read_eof \/ inode_read_fails
    \/ ClearFaults \/ LoadOverruns \/ LoadDone

Flush ==
    \/ sBlock_write_pad \/ sBlock_write_data \/ sBlock_write_fails
    \/ block_write_pad \/ block_write_data \/ block_write_fails
    \/ FlushReturns \/ FlushEndsSession

(***************************************************************************)
(* The file was laid out, as far as formatting got before it was stopped,  *)
(* or holds zero bytes.                                                    *)
(***************************************************************************)
BlockInit ==
    /\ proc = "off"
    /\ sb = Zero /\ table = [k \in Index |-> Zero]
    /\ dsb \in Data \cup {Zero}
    /\ cell = [p \in Places |-> IF p = Place(0) THEN dsb ELSE Zero]
    /\ \E k \in 0 .. NumInodes - 2 : eof = Place(k) + FCB_SIZE
    /\ i = 0 /\ endCond = 0 /\ currBlock = 0 /\ currBlockFillNum = 0
    /\ stage = "pad"
    /\ leaving = FALSE
    /\ faults = 0 /\ kills = 0
    /\ oldSb = dsb /\ oldCell = cell
    /\ clean = TRUE

BlockNext ==
    \/ main \/ disk_open_fails \/ Kill
    \/ sBlock_read \/ sBlock_read_fails
    \/ Load
    \/ \E changed \in Changes, v \in Data : Request(changed, v)
    \/ sfs_destroy
    \/ Flush

(* The loops run on: one thread, and calls on a regular file return. *)
BlockSpec ==
    BlockInit /\ [][BlockNext]_blockVars
        /\ WF_blockVars(Load) /\ WF_blockVars(Flush)

------------------------------------------------------------------------------
(***************************************************************************)
(* Properties.                                                             *)
(***************************************************************************)
BlockTypeOK ==
    /\ proc \in {"off", "started", "loading", "serving", "flushing"}
    /\ sb \in Content
    /\ table \in [Index -> Content]
    /\ dsb \in Content
    /\ cell \in [Places -> Content]
    /\ eof \in Nat
    /\ i \in Int /\ endCond \in Nat
    /\ currBlock \in Nat /\ currBlockFillNum \in Nat
    /\ stage \in {"pad", "data"}
    /\ leaving \in BOOLEAN
    /\ faults \in 0 .. MaxFaults /\ kills \in 0 .. MaxKills
    /\ oldSb \in Content /\ oldCell \in [Places -> Content]
    /\ clean \in BOOLEAN

(* What a mount loads as inode k when no call fails. *)
Stored(k) == IF Place(k) < eof THEN cell[Place(k)] ELSE Zero

(***************************************************************************)
(* In a flush of which no pwrite failed, the file has the superblock and   *)
(* the inodes in front of the current one as memory has them, the inodes   *)
(* behind as they were before the flush, and the current one in its old    *)
(* state or as '0' characters.  So this is what a kill in a flush leaves:  *)
(* a new superblock before any new inode, and one damaged inode at most.   *)
(***************************************************************************)
FlushIsPrefix ==
    proc = "flushing" /\ clean =>
        /\ dsb = IF inodeStartIndex(sb) = 0 THEN oldSb
                 ELSE IF i >= 0 THEN sb
                 ELSE IF stage = "data" THEN Pad ELSE oldSb
        /\ \A k \in Index :
            cell[Place(k)] = IF k < i THEN table[k]
                             ELSE IF k = i /\ stage = "data" THEN Pad
                             ELSE oldCell[Place(k)]

(***************************************************************************)
(* Between requests, if no call failed in the last load or flush, a mount  *)
(* would read back the superblock and all inodes but the last as they are  *)
(* in memory: the flush and the load use the same places, across blocks.   *)
(***************************************************************************)
ServedIsStored ==
    proc = "serving" /\ clean /\ sb \in Data =>
        dsb = sb /\ \A k \in 0 .. NumInodes - 2 : table[k] = Stored(k)

(***************************************************************************)
(* An inode_read that fails or meets the end of the file loses that inode  *)
(* and no other: those before it keep what was loaded, those after it are  *)
(* loaded from their own places, although the position does not advance at *)
(* the end of the file and the memset clears four more inodes.             *)
(***************************************************************************)
LoadKeepsPlaces ==
    proc = "loading" =>
        \A k \in Index : table[k] \in IF k < i THEN {Zero, Stored(k)} ELSE {Zero}

(***************************************************************************)
(* A session whose superblock is zero, because its read failed or because  *)
(* the memset of an inode_read went on into sBlockData, writes nothing to  *)
(* the file, not even in the flush of sfs_destroy: a full array of inodes  *)
(* costs sessions, and no data.                                            *)
(***************************************************************************)
ClearedKeepsFile == [][sb = Zero => UNCHANGED fileVars]_blockVars

(***************************************************************************)
(* A superblock of '0' characters, left by a kill between its two pwrites, *)
(* is never served: the load loop runs off the array and the process dies, *)
(* at this mount and at every later one.                                   *)
(***************************************************************************)
PaddedNotServed == proc \in {"serving", "flushing"} => sb # Pad

(***************************************************************************)
(* Every load and every flush comes to an end, whatever calls fail.        *)
(***************************************************************************)
LoopsEnd ==
    proc \in {"loading", "flushing"} ~> proc \notin {"loading", "flushing"}

------------------------------------------------------------------------------
(***************************************************************************)
(* The inductive invariant: the position of the loops as a function of     *)
(* their counter, and what each phase of the process has done so far.      *)
(***************************************************************************)
CursorAt(c) ==
    currBlock = START + c \div PER_BLOCK /\ currBlockFillNum = c % PER_BLOCK

(* The reader is at inode i, or at or behind the end of the file. *)
LoadPosition ==
    /\ dsb \in Data =>
        /\ i <= NumInodes
        /\ currBlock <= START + i /\ currBlockFillNum < PER_BLOCK
        /\ IF sb = Zero THEN At >= eof
           ELSE \E c \in 0 .. i : CursorAt(c) /\ (c = i \/ Place(c) >= eof)
    /\ dsb = Pad => currBlock >= PAD_INT

LoadInv ==
    proc = "loading" =>
        /\ sb \in {dsb, Zero} /\ endCond = numInodes(dsb) /\ i \in 0 .. ArrayLen
        /\ LoadPosition
        /\ clean /\ dsb \in Data =>
            /\ \A k \in Index : k < i => table[k] = Stored(k)
            /\ sb = Zero => \A k \in Index : k >= i => Place(k) >= eof

FlushInv ==
    proc = "flushing" =>
        /\ sb = Zero => i \in {-1, 0}
        /\ sb \in Data =>
            i \in -1 .. NumInodes - 1 /\ CursorAt(IF i = -1 THEN 0 ELSE i)
        /\ clean => \A k \in Index :
            k < i \/ (k = i /\ stage = "data") => Place(k) < eof

BlockInv ==
    /\ BlockTypeOK
    /\ proc \in {"off", "started"} => sb = Zero /\ \A k \in Index : table[k] = Zero
    /\ eof <= Place(ArrayLen)
    /\ LoadInv /\ LoadKeepsPlaces
    /\ FlushInv /\ FlushIsPrefix
    /\ ServedIsStored
    /\ PaddedNotServed
==============================================================================
