--------------------------- MODULE BlockLayerProofs ---------------------------
(***************************************************************************)
(* BlockInv is an inductive invariant of BlockSpec, for every number of    *)
(* inodes that the array can hold, all contents and all numbers of faults  *)
(* and kills.                                                              *)
(***************************************************************************)
EXTENDS BlockLayer, TLAPS

(* The place of inode k in plain arithmetic. *)
LEMMA PlaceValue ==
    ASSUME NEW k \in 0 .. 100
    PROVE  /\ Place(k) = (3 + k \div 4) * 4096 + (k % 4) * 840
           /\ Place(k) \in Nat
           /\ Place(k) + 840 <= 200000
  BY DEF Place, Offset, START, PER_BLOCK, PAD_INT, BLOCK_SIZE, FCB_SIZE

(* The places of two inodes do not overlap, and are in their order. *)
LEMMA PlaceOrder ==
    ASSUME NEW j \in 0 .. 100, NEW k \in 0 .. 100, j < k
    PROVE  Place(j) + 840 <= Place(k)
  <1>1. CASE j \div 4 = k \div 4
    BY <1>1, PlaceValue
  <1>2. CASE j \div 4 # k \div 4
    BY <1>2, PlaceValue
  <1>3. QED BY <1>1, <1>2

LEMMA PlaceInjective ==
    ASSUME NEW j \in 0 .. 100, NEW k \in 0 .. 100, Place(j) = Place(k)
    PROVE  j = k
  <1>1. Place(j) \in Nat /\ Place(k) \in Nat BY PlaceValue
  <1>2. ~(j < k) BY <1>1, PlaceOrder
  <1>3. ~(k < j) BY <1>1, PlaceOrder
  <1>4. QED BY <1>2, <1>3

(* The position of the loops is the place of the inode they are at. *)
LEMMA CursorPlace ==
    ASSUME NEW c \in 0 .. 100, CursorAt(c)
    PROVE  At = Place(c)
  BY DEF CursorAt, At, Place

(* Moving on from inode c leads to inode c + 1. *)
LEMMA CursorMoves ==
    ASSUME NEW c \in 0 .. 100, CursorAt(c), NEW s \in Data, Advance(s)
    PROVE  CursorAt(c + 1)'
  <1>1. numInodesPerBlock(s) = 4
    BY ContentAssumption DEF numInodesPerBlock, PER_BLOCK
  <1>2. CASE c % 4 = 3
    BY <1>1, <1>2 DEF CursorAt, Advance, START, PER_BLOCK
  <1>3. CASE c % 4 # 3
    BY <1>1, <1>3 DEF CursorAt, Advance, START, PER_BLOCK
  <1>4. QED BY <1>2, <1>3

(* The file ends in front of the place that follows those of the array. *)
LEMMA FileEnd ==
    ASSUME BlockInv
    PROVE  /\ eof <= Place(ArrayLen) /\ Place(ArrayLen) \in Nat
           /\ Place(ArrayLen) = (3 + ArrayLen \div 4) * 4096
           /\ Place(ArrayLen) <= PAD_OFFSET
           /\ Place(ArrayLen)' = Place(ArrayLen)
  <1>1. ArrayLen \in 0 .. 100 /\ ArrayLen % 4 = 0
    BY SizeAssumption
  <1>2. QED
    BY <1>1, PlaceValue DEF BlockInv, PAD_OFFSET, Place, Offset

(* The numbers a superblock is read as. *)
LEMMA SuperblockNumbers ==
    ASSUME NEW s \in Content
    PROVE  /\ s = Zero => numInodes(s) = 0 /\ inodeStartIndex(s) = 0
           /\ s \in Data => numInodes(s) = NumInodes /\ inodeStartIndex(s) = 3
           /\ s = Pad => /\ numInodes(s) = PAD_INT /\ inodeStartIndex(s) = PAD_INT
                         /\ numInodesPerBlock(s) = PAD_INT
           /\ s = Zero => numInodesPerBlock(s) = 0
           /\ numInodesPerBlock(s) \in Nat
           /\ numInodes(s) \in Nat /\ inodeStartIndex(s) \in Nat
  BY ContentAssumption, SizeAssumption
     DEF Content, numInodes, inodeStartIndex, numInodesPerBlock, START, PAD_INT,
         PER_BLOCK

LEMMA InitInv == BlockInit => BlockInv
  <1> SUFFICES ASSUME BlockInit PROVE BlockInv
    OBVIOUS
  <1>1. PICK k \in 0 .. NumInodes - 2 : eof = Place(k) + FCB_SIZE
    BY DEF BlockInit
  <1>2. eof \in Nat /\ eof <= Place(ArrayLen)
    BY <1>1, PlaceValue, PlaceOrder, SizeAssumption DEF FCB_SIZE
  <1>3. dsb \in Content /\ cell \in [Places -> Content]
    BY DEF BlockInit, Content
  <1>a. leaving \in BOOLEAN /\ clean \in BOOLEAN
    BY DEF BlockInit
  <1>b. sb \in Content /\ table \in [Index -> Content]
    BY DEF BlockInit, Content
  <1>4. BlockTypeOK
    BY <1>2, <1>3, <1>a, <1>b, BoundsAssumption DEF BlockInit, BlockTypeOK
  <1>5. QED
    BY <1>2, <1>4
       DEF BlockInit, BlockInv, LoadInv, LoadKeepsPlaces, FlushInv,
           FlushIsPrefix, ServedIsStored, PaddedNotServed

------------------------------------------------------------------------------
(* The end of the process, however it comes about. *)
LEMMA EndKeepsInv ==
    ASSUME BlockInv, NoMemory, UNCHANGED <<fileVars, ghostVars, clean>>,
           faults' \in 0 .. MaxFaults, kills' \in 0 .. MaxKills
    PROVE  BlockInv'
  <1>a. leaving' \in BOOLEAN
    BY DEF NoMemory
  <1>b. sb' \in Content /\ table' \in [Index -> Content]
    BY DEF NoMemory, Content
  <1>1. BlockTypeOK'
    BY <1>a, <1>b DEF BlockInv, BlockTypeOK, NoMemory, fileVars, ghostVars
  <1>2. QED
    BY <1>1
       DEF BlockInv, NoMemory, fileVars, LoadInv, LoadKeepsPlaces, FlushInv,
           FlushIsPrefix, ServedIsStored, PaddedNotServed

LEMMA MainKeepsInv ==
    ASSUME BlockInv, main
    PROVE  BlockInv'
  <1>1. BlockTypeOK'
    BY DEF BlockInv, BlockTypeOK, main, memVars, fileVars, loopVars, boundVars,
           ghostVars
  <1>2. QED
    BY <1>1
       DEF BlockInv, main, memVars, fileVars, LoadInv, LoadKeepsPlaces,
           FlushInv, FlushIsPrefix, ServedIsStored, PaddedNotServed

LEMMA ReadFailsKeepsInv ==
    ASSUME BlockInv, sBlock_read_fails
    PROVE  BlockInv'
  <1>1. BlockTypeOK'
    BY BoundsAssumption
       DEF BlockInv, BlockTypeOK, sBlock_read_fails, Fault, memVars, fileVars,
           loopVars, ghostVars
  <1>2. sb' = Zero
    BY DEF BlockInv, sBlock_read_fails, memVars
  <1>3. QED
    BY <1>1, <1>2, ContentAssumption
       DEF BlockInv, sBlock_read_fails, memVars, fileVars, LoadInv,
           LoadKeepsPlaces, FlushInv, FlushIsPrefix, ServedIsStored,
           PaddedNotServed

LEMMA SuperblockReadKeepsInv ==
    ASSUME BlockInv, sBlock_read
    PROVE  BlockInv'
  <1>1. dsb \in Content
    BY DEF BlockInv, BlockTypeOK
  <1>2. BlockTypeOK'
    BY <1>1, SuperblockNumbers
       DEF BlockInv, BlockTypeOK, sBlock_read, fileVars, boundVars, ghostVars
  <1>3. LoadPosition'
    <2>1. CASE dsb \in Data
      <3>1. CursorAt(0)'
        BY <2>1, <1>1, SuperblockNumbers
           DEF sBlock_read, CursorAt, START, PER_BLOCK
      <3>2. QED
        BY <2>1, <3>1, SizeAssumption, ContentAssumption
           DEF LoadPosition, sBlock_read, fileVars, CursorAt, START, PER_BLOCK
    <2>2. CASE dsb = Zero
      BY <2>2, ContentAssumption DEF LoadPosition, sBlock_read, fileVars
    <2>3. CASE dsb = Pad
      BY <2>3, <1>1, SuperblockNumbers, ContentAssumption
         DEF LoadPosition, sBlock_read, fileVars
    <2>4. QED BY <1>1, <2>1, <2>2, <2>3 DEF Content
  <1>4. LoadInv'
    BY <1>3, SizeAssumption, ContentAssumption
       DEF LoadInv, sBlock_read, fileVars, Index, numInodes
  <1>5. LoadKeepsPlaces'
    BY DEF BlockInv, LoadKeepsPlaces, sBlock_read, Index
  <1>6. QED
    BY <1>2, <1>4, <1>5
       DEF BlockInv, sBlock_read, fileVars, FlushInv, FlushIsPrefix,
           ServedIsStored, PaddedNotServed

LEMMA LoadDoneKeepsInv ==
    ASSUME BlockInv, LoadDone
    PROVE  BlockInv'
  <1>1. BlockTypeOK /\ BlockTypeOK'
    BY DEF BlockInv, BlockTypeOK, LoadDone, memVars, fileVars, loopVars,
           boundVars, ghostVars
  <1>2. sb # Pad
    <2> SUFFICES ASSUME sb = Pad PROVE FALSE
      OBVIOUS
    <2>1. i >= PAD_INT
      BY <1>1, SuperblockNumbers, ContentAssumption
         DEF LoadDone, BlockTypeOK, BlockInv, LoadInv
    <2>2. i <= 100
      BY SizeAssumption DEF BlockInv, LoadInv, LoadDone
    <2>3. QED BY <1>1, <2>1, <2>2 DEF PAD_INT, BlockTypeOK
  <1>3. ServedIsStored'
    <2> SUFFICES ASSUME clean, sb \in Data
                 PROVE  dsb = sb /\ \A k \in 0 .. NumInodes - 2 : table[k] = Stored(k)
      BY DEF ServedIsStored, LoadDone, memVars, fileVars, Stored
    <2>1. i >= NumInodes /\ dsb = sb
      BY <1>1, SuperblockNumbers, ContentAssumption
         DEF LoadDone, BlockTypeOK, BlockInv, LoadInv
    <2>2. \A k \in Index : k < i => table[k] = Stored(k)
      BY <2>1 DEF BlockInv, LoadInv, LoadDone
    <2>3. \A k \in 0 .. NumInodes - 2 : k \in Index /\ k < i
      BY <2>1, <1>1, SizeAssumption DEF Index, BlockTypeOK
    <2>4. QED BY <2>1, <2>2, <2>3
  <1>4. QED
    BY <1>1, <1>2, <1>3
       DEF BlockInv, LoadDone, memVars, fileVars, LoadInv, LoadKeepsPlaces,
           FlushInv, FlushIsPrefix, PaddedNotServed

------------------------------------------------------------------------------
(* The inode the load is at, and the superblock it goes by. *)
LEMMA LoadingFacts ==
    ASSUME BlockInv, LoadingInode
    PROVE  /\ BlockTypeOK /\ proc = "loading" /\ i \in 0 .. 99 /\ i \in Index
           /\ dsb \in Data \cup {Pad} /\ sb \in {dsb, Zero}
           /\ dsb \in Data => i < NumInodes
           /\ dsb = Pad => At >= eof
  <1>1. /\ BlockTypeOK /\ proc = "loading" /\ i \in 0 .. ArrayLen
        /\ i < ArrayLen /\ ArrayLen <= 100
        /\ sb \in {dsb, Zero} /\ endCond = numInodes(dsb) /\ i < endCond
    BY SizeAssumption DEF BlockInv, LoadInv, LoadingInode
  <1>2. i \in 0 .. 99 /\ i \in Index
    BY <1>1, SizeAssumption DEF Index
  <1>3. dsb # Zero /\ (dsb \in Data => i < NumInodes)
    BY <1>1, SuperblockNumbers DEF BlockTypeOK
  <1>4. dsb = Pad => At >= eof
    <2> SUFFICES ASSUME dsb = Pad PROVE At >= eof
      OBVIOUS
    <2>1. currBlock >= PAD_INT
      BY <1>1 DEF BlockInv, LoadInv, LoadPosition
    <2>2. At >= PAD_OFFSET /\ At \in Int
      BY <1>1, <2>1
         DEF At, Offset, PAD_OFFSET, FCB_SIZE, BLOCK_SIZE, PAD_INT, BlockTypeOK
    <2>3. QED
      BY <1>1, <2>2, FileEnd DEF BlockTypeOK, PAD_OFFSET
  <1>5. QED BY <1>1, <1>2, <1>3, <1>4 DEF BlockTypeOK, Content

(* One iteration of the load loop. *)
LEMMA InodeReadKeepsInv ==
    ASSUME BlockInv, inode_read
    PROVE  BlockInv'
  <1>1. /\ BlockTypeOK /\ proc = "loading" /\ i \in 0 .. 99 /\ i \in Index
        /\ dsb \in Data /\ sb = dsb /\ i < NumInodes
    <2>1. LoadingInode /\ ~(At >= eof) /\ BlockTypeOK
      BY DEF inode_read, BlockInv, BlockTypeOK, At, Offset, PAD_INT, PAD_OFFSET,
             BLOCK_SIZE, FCB_SIZE
    <2>2. dsb \in Data
      BY <2>1, LoadingFacts
    <2>3. sb # Zero
      BY <2>1, <2>2, LoadingFacts DEF BlockInv, LoadInv, LoadPosition
    <2>4. QED BY <2>1, <2>2, <2>3, LoadingFacts
  <1>2. sb \in Data /\ sb # Zero /\ sb # Pad
    BY <1>1, ContentAssumption
  <1>3. CursorAt(i)
    <2>1. PICK c \in 0 .. i : CursorAt(c) /\ (c = i \/ Place(c) >= eof)
      BY <1>1, <1>2 DEF BlockInv, LoadInv, LoadPosition
    <2>2. At = Place(c) /\ Place(c) \in Nat
      BY <1>1, <2>1, CursorPlace, PlaceValue
    <2>3. QED
      BY <1>1, <2>1, <2>2 DEF inode_read, BlockTypeOK
  <1>4. At = Place(i)
    BY <1>1, <1>3, CursorPlace
  <1>5. cell[At] = Stored(i) /\ cell[At] \in Content
    BY <1>1, <1>4 DEF inode_read, Stored, BlockTypeOK, Places
  <1>a. PICK c \in 0 .. 99 : c = i
    BY <1>1
  <1>6. CursorAt(c + 1)'
    BY <1>2, <1>3, <1>a, CursorMoves DEF inode_read
  <1>7. currBlock' \in Nat /\ currBlockFillNum' \in Nat
    BY <1>1 DEF inode_read, Advance, BlockTypeOK
  <1>b. table' \in [Index -> Content]
    BY <1>1, <1>5 DEF inode_read, BlockTypeOK
  <1>8. BlockTypeOK'
    BY <1>1, <1>7, <1>b
       DEF BlockTypeOK, inode_read, LoadFrame, fileVars, ghostVars, boundVars
  <1>9. \A k \in Index : Stored(k)' = Stored(k)
    BY DEF Stored, inode_read, LoadFrame, fileVars
  <1>10. \A k \in Index : table'[k] = IF k = i THEN Stored(i) ELSE table[k]
    BY <1>1, <1>5 DEF inode_read, BlockTypeOK
  <1>11. LoadKeepsPlaces'
    <2> SUFFICES ASSUME NEW k \in Index
                 PROVE  table'[k] \in IF k < i' THEN {Zero, Stored(k)'} ELSE {Zero}
      BY DEF LoadKeepsPlaces
    <2>1. table[k] \in IF k < i THEN {Zero, Stored(k)} ELSE {Zero}
      BY <1>1 DEF BlockInv, LoadKeepsPlaces
    <2>2. i' = i + 1 /\ k \in Int
      BY SizeAssumption DEF inode_read, Index
    <2>3. CASE k = i
      BY <1>1, <1>9, <1>10, <2>2, <2>3
    <2>4. CASE k < i
      <3>1. table[k] \in {Zero, Stored(k)} /\ k < i' /\ k # i
        BY <1>1, <2>1, <2>2, <2>4
      <3>2. QED BY <1>9, <1>10, <3>1
    <2>5. CASE k > i
      <3>1. table[k] = Zero /\ k # i
        BY <1>1, <2>1, <2>2, <2>5
      <3>2. QED BY <1>10, <3>1
    <2>6. QED BY <1>1, <2>2, <2>3, <2>4, <2>5
  <1>12. LoadInv'
    <2>1. LoadPosition'
      <3>1. sb' = sb /\ i' = i + 1 /\ dsb' = dsb
        BY DEF inode_read, LoadFrame, fileVars
      <3>2. i' = c + 1 /\ c + 1 <= NumInodes /\ c + 1 \in 0 .. i'
        BY <1>1, <1>a, <3>1, SizeAssumption
      <3>3. currBlock' <= START + i' /\ currBlockFillNum' < PER_BLOCK
        BY <1>6, <3>2 DEF CursorAt, START, PER_BLOCK
      <3>4. QED
        BY <1>1, <1>2, <1>6, <3>1, <3>2, <3>3, ContentAssumption DEF LoadPosition
    <2>2. QED
      BY <1>1, <1>2, <1>9, <1>10, <2>1, SizeAssumption
         DEF BlockInv, LoadInv, inode_read, LoadFrame, fileVars, Index, numInodes
  <1>13. QED
    BY <1>1, <1>8, <1>11, <1>12, FileEnd
       DEF BlockInv, inode_read, LoadFrame, fileVars, FlushInv, FlushIsPrefix,
           ServedIsStored, PaddedNotServed

(* What a failing or empty read does to memory. *)
LEMMA ClearFacts ==
    ASSUME BlockInv, LoadingInode, Clear, i' = i + 1, LoadFrame
    PROVE  /\ table' \in [Index -> Content]
           /\ \A k \in Index : table'[k] = IF k < i THEN table[k] ELSE Zero
           /\ sb' \in {sb, Zero} /\ sb' \in {dsb, Zero} /\ sb' \in Content
           /\ sb' # sb => i >= ArrayLen - 4
           /\ dsb' = dsb /\ eof' = eof /\ cell' = cell
           /\ proc' = "loading" /\ endCond' = endCond
           /\ \A k \in Index : Stored(k)' = Stored(k)
           /\ LoadKeepsPlaces'
  <1>1. /\ BlockTypeOK /\ proc = "loading" /\ i \in 0 .. 99 /\ sb \in {dsb, Zero}
    BY LoadingFacts
  <1>2. \A k \in Index : k >= i => table[k] = Zero
    <2> SUFFICES ASSUME NEW k \in Index, k >= i PROVE table[k] = Zero
      OBVIOUS
    <2>1. table[k] \in IF k < i THEN {Zero, Stored(k)} ELSE {Zero}
      BY <1>1 DEF BlockInv, LoadKeepsPlaces
    <2>2. ~(k < i)
      BY <1>1, SizeAssumption DEF Index
    <2>3. QED BY <2>1, <2>2
  <1>3. /\ table' \in [Index -> Content]
        /\ \A k \in Index : table'[k] = IF k < i THEN table[k] ELSE Zero
    BY <1>1, <1>2 DEF Clear, Content, Index, BlockTypeOK
  <1>4. sb' \in {sb, Zero} /\ (sb' # sb => ClearsBehind)
    BY DEF Clear
  <1>5. ClearsBehind => i >= ArrayLen - 4
    BY <1>1, SizeAssumption DEF ClearsBehind, FCB_SIZE, BLOCK_SIZE
  <1>6. /\ dsb' = dsb /\ eof' = eof /\ cell' = cell
        /\ proc' = "loading" /\ endCond' = endCond
    BY <1>1 DEF LoadFrame, fileVars
  <1>7. \A k \in Index : Stored(k)' = Stored(k)
    BY <1>6 DEF Stored
  <1>8. LoadKeepsPlaces'
    <2> SUFFICES ASSUME NEW k \in Index
                 PROVE  table'[k] \in IF k < i' THEN {Zero, Stored(k)'} ELSE {Zero}
      BY DEF LoadKeepsPlaces
    <2>1. CASE k < i
      <3>1. table[k] \in IF k < i THEN {Zero, Stored(k)} ELSE {Zero}
        BY <1>1 DEF BlockInv, LoadKeepsPlaces
      <3>2. table[k] \in {Zero, Stored(k)} /\ k < i'
        BY <1>1, <2>1, <3>1, SizeAssumption DEF Index
      <3>3. QED BY <1>3, <1>7, <2>1, <3>2
    <2>2. CASE ~(k < i)
      BY <1>3, <2>2
    <2>3. QED BY <2>1, <2>2
  <1>9. sb' \in Content
    BY <1>1, <1>4 DEF BlockTypeOK, Content
  <1>10. QED BY <1>1, <1>3, <1>4, <1>5, <1>6, <1>7, <1>8, <1>9

(* Behind the end of the file every later inode is, too. *)
LEMMA EofStored ==
    ASSUME NEW c \in 0 .. 100, NEW k \in 0 .. 100, c <= k, eof \in Nat,
           Place(c) >= eof
    PROVE  Place(k) >= eof /\ Stored(k) = Zero
  <1>1. Place(c) \in Nat /\ Place(k) \in Nat
    BY PlaceValue
  <1>2. Place(k) >= Place(c)
    BY <1>1, PlaceOrder
  <1>3. QED BY <1>1, <1>2 DEF Stored

(* A read at the end of the file: so are all inodes from this one on. *)
LEMMA InodeReadEofKeepsInv ==
    ASSUME BlockInv, inode_read_eof
    PROVE  BlockInv'
  <1>1. /\ BlockTypeOK /\ i \in 0 .. 99 /\ proc = "loading" /\ i \in Index
        /\ dsb \in Data \cup {Pad} /\ sb \in {dsb, Zero}
        /\ dsb \in Data => i < NumInodes
    BY LoadingFacts DEF inode_read_eof
  <1>2. /\ table' \in [Index -> Content]
        /\ \A k \in Index : table'[k] = IF k < i THEN table[k] ELSE Zero
        /\ sb' \in {sb, Zero} /\ sb' \in {dsb, Zero} /\ sb' \in Content
        /\ dsb' = dsb /\ eof' = eof /\ cell' = cell
        /\ proc' = "loading" /\ endCond' = endCond
        /\ \A k \in Index : Stored(k)' = Stored(k)
        /\ LoadKeepsPlaces'
    BY ClearFacts DEF inode_read_eof
  <1>3. /\ i' = i + 1 /\ clean' = clean
        /\ currBlock' = currBlock /\ currBlockFillNum' = currBlockFillNum
        /\ At' = At /\ At >= eof
    BY DEF inode_read_eof, At, Offset
  <1>4. BlockTypeOK'
    BY <1>1, <1>2, <1>3
       DEF BlockTypeOK, inode_read_eof, LoadFrame, fileVars, ghostVars, boundVars
  <1>5. ASSUME dsb \in Data, sb # Zero
        PROVE  \E c \in 0 .. i : CursorAt(c) /\ Place(c) >= eof
    <2>1. PICK c \in 0 .. i : CursorAt(c)
      BY <1>1, <1>5 DEF BlockInv, LoadInv, LoadPosition
    <2>2. At = Place(c)
      BY <1>1, <2>1, CursorPlace
    <2>3. QED BY <1>3, <2>1, <2>2
  <1>6. LoadPosition'
    <2>1. CASE dsb \in Data
      <3>1. i' <= NumInodes /\ i' = i + 1
        BY <1>1, <1>3, <2>1, SizeAssumption
      <3>2. currBlock' <= START + i' /\ currBlockFillNum' < PER_BLOCK
        BY <1>1, <1>3, <2>1
           DEF BlockInv, LoadInv, LoadPosition, BlockTypeOK, START
      <3>3. ASSUME sb' # Zero
            PROVE  (\E c \in 0 .. i : CursorAt(c) /\ (c = i \/ Place(c) >= eof))'
        <4>1. sb # Zero
          BY <1>2, <3>3
        <4>2. PICK c \in 0 .. i : CursorAt(c) /\ Place(c) >= eof
          BY <1>5, <2>1, <4>1
        <4>3. CursorAt(c)' /\ (Place(c) >= eof)' /\ c \in 0 .. i'
          BY <1>1, <1>2, <1>3, <4>2 DEF CursorAt, Place, Offset
        <4>4. QED BY <4>3
      <3>4. (At >= eof)'
        BY <1>2, <1>3
      <3>5. QED
        BY <1>2, <2>1, <3>1, <3>2, <3>3, <3>4, ContentAssumption DEF LoadPosition
    <2>2. CASE dsb = Pad
      BY <1>1, <1>2, <1>3, <2>2, ContentAssumption
         DEF BlockInv, LoadInv, LoadPosition
    <2>3. QED BY <1>1, <2>1, <2>2
  <1>7. ASSUME dsb \in Data, clean, NEW k \in Index, k >= i
        PROVE  Place(k) >= eof /\ Stored(k) = Zero
    <2>1. k \in 0 .. 100
      BY SizeAssumption DEF Index
    <2>2. CASE sb = Zero
      <3>1. Place(k) >= eof
        BY <1>1, <1>7, <2>2 DEF BlockInv, LoadInv
      <3>2. QED
        BY <1>1, <2>1, <3>1, PlaceValue DEF Stored, BlockTypeOK
    <2>3. CASE sb # Zero
      <3>1. PICK c \in 0 .. i : CursorAt(c) /\ Place(c) >= eof
        BY <1>5, <1>7, <2>3
      <3>2. c \in 0 .. 100 /\ c <= k
        BY <1>1, <1>7, <2>1, <3>1
      <3>3. QED
        BY <1>1, <2>1, <3>1, <3>2, EofStored DEF BlockTypeOK
    <2>4. QED BY <2>2, <2>3
  <1>8. LoadInv'
    <2>1. ASSUME clean', dsb \in Data, NEW k \in Index, k < i'
          PROVE  table'[k] = Stored(k)'
      <3>1. CASE k < i
        BY <1>1, <1>2, <1>3, <2>1, <3>1 DEF BlockInv, LoadInv
      <3>2. CASE ~(k < i)
        <4>1. k >= i
          BY <1>1, <3>2, SizeAssumption DEF Index
        <4>2. QED BY <1>2, <1>3, <1>7, <2>1, <3>2, <4>1
      <3>3. QED BY <3>1, <3>2
    <2>2. ASSUME clean', dsb \in Data, NEW k \in Index, k >= i'
          PROVE  (Place(k) >= eof)'
      <3>1. k >= i
        BY <1>1, <1>3, <2>2, SizeAssumption DEF Index
      <3>2. Place(k) >= eof
        BY <1>3, <1>7, <2>2, <3>1
      <3>3. QED BY <1>2, <3>2 DEF Place, Offset
    <2>3. i' \in 0 .. ArrayLen
      BY <1>1, <1>3, SizeAssumption DEF Index
    <2>4. endCond' = numInodes(dsb)'
      BY <1>1, <1>2 DEF BlockInv, LoadInv, numInodes
    <2>5. QED
      BY <1>2, <1>6, <2>1, <2>2, <2>3, <2>4 DEF LoadInv
  <1>9. QED
    BY <1>2, <1>4, <1>8, FileEnd
       DEF BlockInv, FlushInv, FlushIsPrefix, ServedIsStored, PaddedNotServed

(***************************************************************************)
(* A failing read moves the position on: to the next inode, or, with a     *)
(* superblock that was just cleared, to a block behind the end of the file.*)
(***************************************************************************)
LEMMA InodeReadFailsKeepsInv ==
    ASSUME BlockInv, inode_read_fails
    PROVE  BlockInv'
  <1>1. /\ BlockTypeOK /\ i \in 0 .. 99 /\ proc = "loading" /\ i \in Index
        /\ dsb \in Data \cup {Pad} /\ sb \in {dsb, Zero}
        /\ dsb \in Data => i < NumInodes
    BY LoadingFacts DEF inode_read_fails
  <1>2. /\ table' \in [Index -> Content]
        /\ sb' \in {sb, Zero} /\ sb' \in {dsb, Zero} /\ sb' \in Content
        /\ sb' # sb => i >= ArrayLen - 4
        /\ dsb' = dsb /\ eof' = eof /\ cell' = cell
        /\ proc' = "loading" /\ endCond' = endCond
        /\ LoadKeepsPlaces'
    BY ClearFacts DEF inode_read_fails
  <1>3. i' = i + 1 /\ clean' = FALSE /\ Advance(sb')
    BY DEF inode_read_fails
  <1>4. currBlock' \in Nat /\ currBlockFillNum' \in Nat
    BY <1>1, <1>3 DEF Advance, BlockTypeOK
  <1>5. clean' \in BOOLEAN /\ leaving' \in BOOLEAN
    BY <1>1, <1>3 DEF inode_read_fails, LoadFrame, BlockTypeOK
  <1>6. BlockTypeOK'
    BY <1>1, <1>2, <1>3, <1>4, <1>5, BoundsAssumption
       DEF BlockTypeOK, inode_read_fails, Fault, LoadFrame, fileVars, ghostVars
  <1>7. LoadPosition'
    <2>1. CASE dsb \in Data /\ sb' # Zero
      <3>1. sb' = dsb /\ sb = dsb /\ sb # Zero
        BY <1>1, <1>2, <2>1
      <3>2. PICK c \in 0 .. i : CursorAt(c) /\ (c = i \/ Place(c) >= eof)
        BY <1>1, <2>1, <3>1 DEF BlockInv, LoadInv, LoadPosition
      <3>3. c \in 0 .. 99 /\ c + 1 \in 0 .. 100 /\ c <= i
        BY <1>1, <3>2
      <3>4. CursorAt(c + 1)'
        BY <1>3, <2>1, <3>1, <3>2, <3>3, CursorMoves
      <3>5. c + 1 = i' \/ Place(c + 1) >= eof
        <4>1. CASE c = i BY <4>1, <1>3
        <4>2. CASE Place(c) >= eof
          BY <4>2, <1>1, <3>3, PlaceOrder, PlaceValue DEF BlockTypeOK
        <4>3. QED BY <3>2, <4>1, <4>2
      <3>6. c + 1 = i' \/ (Place(c + 1) >= eof)'
        BY <1>2, <3>5 DEF Place, Offset
      <3>7. c + 1 \in 0 .. i' /\ i' <= NumInodes
        BY <1>1, <1>3, <2>1, <3>2, SizeAssumption
      <3>8. currBlock' <= START + i' /\ currBlockFillNum' < PER_BLOCK
        BY <1>1, <1>3, <3>3, <3>4 DEF CursorAt, START, PER_BLOCK
      <3>9. QED
        BY <1>2, <2>1, <3>4, <3>6, <3>7, <3>8, ContentAssumption DEF LoadPosition
    <2>2. CASE dsb \in Data /\ sb' = Zero
      <3>1. currBlock' = currBlock + 1 /\ currBlockFillNum' = 0
        BY <1>1, <1>2, <1>3, <2>2, SuperblockNumbers DEF Advance, BlockTypeOK
      <3>2. /\ currBlock <= 3 + i /\ currBlockFillNum < 4
            /\ currBlock \in Nat /\ currBlockFillNum \in Nat /\ eof \in Nat
        BY <1>1, <2>2
           DEF BlockInv, LoadInv, LoadPosition, BlockTypeOK, START, PER_BLOCK
      <3>3. At' = (currBlock + 1) * 4096
        BY <1>1, <3>1, <3>2
           DEF At, Offset, BLOCK_SIZE, FCB_SIZE, PAD_INT, PAD_OFFSET
      <3>4. At = currBlock * 4096 + currBlockFillNum * 840
        BY <1>1, <3>2 DEF At, Offset, BLOCK_SIZE, FCB_SIZE, PAD_INT, PAD_OFFSET
      <3>5. At' >= eof
        <4>1. CASE At >= eof
          BY <3>2, <3>3, <3>4, <4>1
        <4>2. CASE ~(At >= eof)
          <5>1. sb # Zero
            BY <1>1, <2>2, <4>2 DEF BlockInv, LoadInv, LoadPosition
          <5>2. PICK c \in 0 .. i : CursorAt(c) /\ (c = i \/ Place(c) >= eof)
            BY <1>1, <2>2, <5>1 DEF BlockInv, LoadInv, LoadPosition
          <5>3. c = i
            BY <1>1, <4>2, <5>2, CursorPlace
          <5>4. i >= ArrayLen - 4 /\ i < ArrayLen
            BY <1>1, <1>2, <2>2, <5>1, SizeAssumption DEF Index
          <5>5. i \div 4 = ArrayLen \div 4 - 1
            BY <1>1, <5>4, SizeAssumption
          <5>6. currBlock + 1 = 3 + ArrayLen \div 4
            BY <5>2, <5>3, <5>5, SizeAssumption DEF CursorAt, START, PER_BLOCK
          <5>7. QED
            BY <3>2, <3>3, <5>6, FileEnd
        <4>3. QED BY <4>1, <4>2
      <3>6. currBlock' <= START + i' /\ currBlockFillNum' < PER_BLOCK
        BY <1>1, <1>3, <3>1, <3>2 DEF START, PER_BLOCK
      <3>7. i' <= NumInodes
        BY <1>1, <1>3, <2>2, SizeAssumption
      <3>8. QED
        BY <1>2, <2>2, <3>5, <3>6, <3>7, ContentAssumption DEF LoadPosition
    <2>3. CASE dsb = Pad
      <3>1. currBlock >= PAD_INT /\ currBlock \in Nat
        BY <1>1, <2>3 DEF BlockInv, LoadInv, LoadPosition, BlockTypeOK
      <3>2. currBlock' >= PAD_INT
        BY <1>3, <3>1 DEF Advance, PAD_INT
      <3>3. QED BY <1>2, <2>3, <3>2, ContentAssumption DEF LoadPosition
    <2>4. QED BY <1>1, <2>1, <2>2, <2>3
  <1>8. LoadInv'
    <2>1. i' \in 0 .. ArrayLen
      BY <1>1, <1>3, SizeAssumption DEF Index
    <2>2. endCond' = numInodes(dsb)'
      BY <1>1, <1>2 DEF BlockInv, LoadInv, numInodes
    <2>3. QED
      BY <1>2, <1>3, <1>7, <2>1, <2>2 DEF LoadInv
  <1>9. QED
    BY <1>2, <1>6, <1>8, FileEnd
       DEF BlockInv, FlushInv, FlushIsPrefix, ServedIsStored, PaddedNotServed

------------------------------------------------------------------------------
(* A flush begins at the superblock, with the file as it is. *)
LEMMA FlushBeginsKeepsInv ==
    ASSUME BlockInv, NEW leave \in BOOLEAN, FlushBegins(leave),
           sb' \in Data \cup {Zero}, sb \in Data <=> sb' \in Data,
           table' \in [Index -> Content]
    PROVE  BlockInv'
  <1>1. BlockTypeOK /\ sb \in Data \cup {Zero}
    BY DEF BlockInv, BlockTypeOK, PaddedNotServed, FlushBegins, Content
  <1>2. /\ sb \in Data => inodeStartIndex(sb) = 3
        /\ inodeStartIndex(sb) \in Nat
    BY <1>1, SuperblockNumbers DEF Content
  <1>a. leaving' \in BOOLEAN /\ clean' \in BOOLEAN
    BY DEF FlushBegins
  <1>3. BlockTypeOK'
    BY <1>1, <1>2, <1>a
       DEF BlockTypeOK, FlushBegins, fileVars, boundVars, Content
  <1>4. FlushInv'
    <2>1. sb' \in Data => CursorAt(0)'
      BY <1>2 DEF CursorAt, FlushBegins, START, PER_BLOCK
    <2>2. \A k \in Index : ~(k < i') /\ ~(k = i' /\ stage' = "data")
      BY DEF FlushBegins, Index
    <2>3. QED
      BY <2>1, <2>2, SizeAssumption DEF FlushInv, FlushBegins, CursorAt
  <1>5. FlushIsPrefix'
    BY DEF FlushIsPrefix, FlushBegins, fileVars, Index
  <1>6. QED
    BY <1>3, <1>4, <1>5, ContentAssumption
       DEF BlockInv, FlushBegins, fileVars, LoadInv, LoadKeepsPlaces,
           ServedIsStored, PaddedNotServed

LEMMA RequestKeepsInv ==
    ASSUME BlockInv, NEW changed \in Changes, NEW v \in Data, Request(changed, v)
    PROVE  BlockInv'
  <1>1. table' \in [Index -> Content]
    BY DEF Request, BlockInv, BlockTypeOK, Content
  <1>2. QED
    BY <1>1, FlushBeginsKeepsInv DEF Request

LEMMA DestroyKeepsInv ==
    ASSUME BlockInv, sfs_destroy
    PROVE  BlockInv'
  <1>1. sb \in Data \cup {Zero} /\ table \in [Index -> Content]
    BY DEF BlockInv, BlockTypeOK, PaddedNotServed, sfs_destroy, FlushBegins,
           Content
  <1>2. QED
    BY <1>1, FlushBeginsKeepsInv DEF sfs_destroy, memVars

(* The superblock in a flush. *)
LEMMA SuperblockWriteKeepsInv ==
    ASSUME BlockInv, sBlock_write_pad \/ sBlock_write_data \/ sBlock_write_fails
    PROVE  BlockInv'
  <1>1. /\ BlockTypeOK /\ proc = "flushing" /\ proc' = "flushing" /\ i = -1
        /\ sb' = sb /\ table' = table /\ leaving' = leaving /\ endCond' = endCond
        /\ oldSb' = oldSb /\ oldCell' = oldCell /\ cell' = cell
        /\ currBlock' = currBlock /\ currBlockFillNum' = currBlockFillNum
    BY DEF BlockInv, sBlock_write_pad, sBlock_write_data, sBlock_write_fails,
           FlushFrame, memVars, fileVars, ghostVars
  <1>2. /\ sb \in Data \cup {Zero} /\ sb \in Content
        /\ sb = Zero => inodeStartIndex(sb) = 0
        /\ sb \in Data => inodeStartIndex(sb) = 3
    BY <1>1, SuperblockNumbers
       DEF BlockInv, BlockTypeOK, PaddedNotServed, Content
  <1>3. eof' \in Nat /\ eof' <= Place(ArrayLen)
    BY <1>1, <1>2, FileEnd, SizeAssumption
       DEF BlockInv, BlockTypeOK, sBlock_write_pad, sBlock_write_data,
           sBlock_write_fails, EndAfter, BLOCK_SIZE, fileVars
  <1>4. dsb' \in Content /\ i' \in {-1, 0} /\ stage' \in {"pad", "data"}
    BY <1>1, <1>2
       DEF BlockTypeOK, sBlock_write_pad, sBlock_write_data,
           sBlock_write_fails, SbWritten, fileVars, Content
  <1>5. faults' \in 0 .. MaxFaults /\ kills' \in 0 .. MaxKills
    BY <1>1, BoundsAssumption
       DEF BlockTypeOK, sBlock_write_pad, sBlock_write_data,
           sBlock_write_fails, Fault, boundVars
  <1>6. clean' \in BOOLEAN
    BY <1>1
       DEF BlockTypeOK, sBlock_write_pad, sBlock_write_data, sBlock_write_fails
  <1>7. BlockTypeOK'
    BY <1>1, <1>3, <1>4, <1>5, <1>6 DEF BlockTypeOK
  <1>8. FlushInv'
    <2>1. sb \in Data => CursorAt(0)'
      BY <1>1 DEF BlockInv, FlushInv, CursorAt
    <2>2. \A k \in Index : ~(k < i') /\ ~(k = i' /\ stage' = "data")
      BY <1>1, <1>4
         DEF sBlock_write_pad, sBlock_write_data, sBlock_write_fails, Index
    <2>3. QED
      BY <1>1, <1>4, <2>1, <2>2, SizeAssumption DEF FlushInv, CursorAt
  <1>9. FlushIsPrefix'
    <2>1. CASE sBlock_write_pad
      BY <1>1, <1>2, <2>1, ContentAssumption
         DEF BlockInv, FlushIsPrefix, sBlock_write_pad, SbWritten, Index
    <2>2. CASE sBlock_write_data
      BY <1>1, <1>2, <2>2, ContentAssumption
         DEF BlockInv, FlushIsPrefix, sBlock_write_data, SbWritten, Index
    <2>3. CASE sBlock_write_fails
      BY <2>3 DEF FlushIsPrefix, sBlock_write_fails
    <2>4. QED BY <2>1, <2>2, <2>3
  <1>10. QED
    BY <1>1, <1>2, <1>3, <1>7, <1>8, <1>9
       DEF BlockInv, LoadInv, LoadKeepsPlaces, ServedIsStored, PaddedNotServed

(* The inode the flush is at. *)
LEMMA WritingPlace ==
    ASSUME BlockInv, WritingInode
    PROVE  /\ sb \in Data /\ i \in 0 .. NumInodes - 2 /\ i \in Index
           /\ CursorAt(i) /\ At = Place(i) /\ At \in Places /\ i \in 0 .. 99
  <1>1. BlockTypeOK /\ proc = "flushing"
    BY DEF BlockInv, WritingInode
  <1>2. sb # Pad
    BY <1>1 DEF BlockInv, PaddedNotServed
  <1>3. sb \in Data
    BY <1>1, <1>2, SuperblockNumbers DEF BlockTypeOK, Content, WritingInode
  <1>4. i \in 0 .. NumInodes - 2
    BY <1>1, <1>3, SuperblockNumbers DEF BlockTypeOK, WritingInode
  <1>5. i \in Index /\ i \in 0 .. 99
    BY <1>4, SizeAssumption DEF Index
  <1>6. CursorAt(i)
    BY <1>1, <1>3, <1>4 DEF BlockInv, FlushInv
  <1>7. At = Place(i)
    BY <1>5, <1>6, CursorPlace
  <1>8. QED BY <1>3, <1>4, <1>5, <1>6, <1>7 DEF Places

(* Writing one place leaves the others. *)
LEMMA OneCellChanges ==
    ASSUME BlockInv, WritingInode, NEW c, cell' = [cell EXCEPT ![At] = c]
    PROVE  \A k \in Index :
               cell'[Place(k)] = IF k = i THEN c ELSE cell[Place(k)]
  <1> SUFFICES ASSUME NEW k \in Index
               PROVE  cell'[Place(k)] = IF k = i THEN c ELSE cell[Place(k)]
    OBVIOUS
  <1>1. At = Place(i) /\ i \in 0 .. 99 /\ k \in 0 .. 99
    BY WritingPlace, SizeAssumption DEF Index
  <1>2. Place(k) = At <=> k = i
    BY <1>1, PlaceInjective
  <1>3. cell \in [Places -> Content] /\ Place(k) \in Places
    BY DEF BlockInv, BlockTypeOK, Places
  <1>4. QED BY <1>2, <1>3

LEMMA BlockWritePadKeepsInv ==
    ASSUME BlockInv, block_write_pad
    PROVE  BlockInv'
  <1>1. /\ WritingInode /\ BlockTypeOK /\ proc = "flushing" /\ proc' = "flushing"
        /\ sb' = sb /\ table' = table /\ leaving' = leaving /\ dsb' = dsb
        /\ endCond' = endCond /\ oldSb' = oldSb /\ oldCell' = oldCell
        /\ i' = i /\ clean' = clean
        /\ currBlock' = currBlock /\ currBlockFillNum' = currBlockFillNum
        /\ faults' = faults /\ kills' = kills /\ stage = "pad" /\ stage' = "data"
        /\ cell' = [cell EXCEPT ![At] = Pad]
    BY DEF BlockInv, block_write_pad, WritingInode, FlushFrame, memVars,
           ghostVars, boundVars
  <1>2. sb \in Data /\ i \in Index /\ At = Place(i) /\ i \in 0 .. 99
    BY <1>1, WritingPlace
  <1>a. Place(i) + 840 <= Place(ArrayLen) /\ Place(i) \in Nat
    BY <1>2, PlaceOrder, PlaceValue, SizeAssumption DEF Index
  <1>3. eof' \in Nat /\ eof' <= Place(ArrayLen) /\ eof' >= eof
    BY <1>1, <1>2, <1>a, FileEnd
       DEF BlockInv, BlockTypeOK, block_write_pad, EndAfter, FCB_SIZE
  <1>4. cell' \in [Places -> Content]
    BY <1>1 DEF BlockTypeOK, Content
  <1>5. BlockTypeOK'
    BY <1>1, <1>3, <1>4 DEF BlockTypeOK
  <1>6. FlushInv'
    <2>1. clean => \A k \in Index : k < i \/ k = i => Place(k) < eof'
      <3> SUFFICES ASSUME clean, NEW k \in Index, k < i \/ k = i
                   PROVE  Place(k) < eof'
        OBVIOUS
      <3>1. Place(k) < eof \/ k = i
        BY <1>1 DEF BlockInv, FlushInv
      <3>2. k \in 0 .. 99
        BY SizeAssumption DEF Index
      <3>3. CASE Place(k) < eof
        BY <1>1, <1>3, <3>2, <3>3, PlaceValue DEF BlockTypeOK
      <3>4. CASE k = i
        BY <1>1, <1>2, <3>2, <3>4, PlaceValue
           DEF BlockTypeOK, block_write_pad, EndAfter, FCB_SIZE
      <3>5. QED BY <3>1, <3>3, <3>4
    <2>2. \A k \in Index : Place(k)' = Place(k)
      BY DEF Place, Offset
    <2>3. QED
      BY <1>1, <2>1, <2>2 DEF BlockInv, FlushInv, CursorAt
  <1>7. \A k \in Index : cell'[Place(k)] = IF k = i THEN Pad ELSE cell[Place(k)]
    BY <1>1, OneCellChanges
  <1>8. FlushIsPrefix'
    BY <1>1, <1>2, <1>7, SizeAssumption
       DEF BlockInv, FlushIsPrefix, Index, Place, Offset
  <1>9. QED
    BY <1>1, <1>3, <1>5, <1>6, <1>8
       DEF BlockInv, LoadInv, LoadKeepsPlaces, ServedIsStored, PaddedNotServed

LEMMA BlockWriteDataKeepsInv ==
    ASSUME BlockInv, block_write_data
    PROVE  BlockInv'
  <1>1. /\ WritingInode /\ BlockTypeOK /\ proc = "flushing" /\ proc' = "flushing"
        /\ sb' = sb /\ table' = table /\ leaving' = leaving /\ dsb' = dsb
        /\ endCond' = endCond /\ oldSb' = oldSb /\ oldCell' = oldCell
        /\ i' = i + 1 /\ clean' = clean
        /\ faults' = faults /\ kills' = kills /\ stage = "data" /\ stage' = "pad"
        /\ eof' = eof /\ cell' = [cell EXCEPT ![At] = table[i]]
    BY DEF BlockInv, block_write_data, WritingInode, FlushFrame, memVars,
           ghostVars, boundVars
  <1>2. /\ sb \in Data /\ i \in Index /\ CursorAt(i) /\ i \in 0 .. 99
        /\ i \in 0 .. NumInodes - 2
    BY <1>1, WritingPlace
  <1>3. PICK c \in 0 .. 99 : c = i
    BY <1>2
  <1>4. CursorAt(c + 1)'
    BY <1>2, <1>3, CursorMoves DEF block_write_data
  <1>5. currBlock' \in Nat /\ currBlockFillNum' \in Nat
    BY <1>1 DEF block_write_data, Advance, BlockTypeOK
  <1>6. cell' \in [Places -> Content]
    BY <1>1, <1>2 DEF BlockTypeOK
  <1>7. BlockTypeOK'
    BY <1>1, <1>5, <1>6 DEF BlockTypeOK
  <1>8. FlushInv'
    <2>1. \A k \in Index : Place(k)' = Place(k)
      BY DEF Place, Offset
    <2>2. clean => \A k \in Index : k < i + 1 => Place(k) < eof
      BY <1>1, <1>2, SizeAssumption DEF BlockInv, FlushInv, Index
    <2>3. i' = c + 1 /\ i' \in -1 .. NumInodes - 1 /\ i' # -1
      BY <1>1, <1>2, <1>3, SizeAssumption
    <2>4. CursorAt(IF i = -1 THEN 0 ELSE i)'
      BY <1>4, <2>3 DEF CursorAt
    <2>5. QED
      BY <1>1, <1>2, <2>1, <2>2, <2>3, <2>4, ContentAssumption DEF FlushInv
  <1>9. \A k \in Index :
            cell'[Place(k)] = IF k = i THEN table[i] ELSE cell[Place(k)]
    BY <1>1, OneCellChanges
  <1>10. FlushIsPrefix'
    BY <1>1, <1>2, <1>9, SizeAssumption
       DEF BlockInv, FlushIsPrefix, Index, Place, Offset
  <1>11. QED
    BY <1>1, <1>7, <1>8, <1>10
       DEF BlockInv, LoadInv, LoadKeepsPlaces, ServedIsStored, PaddedNotServed

LEMMA BlockWriteFailsKeepsInv ==
    ASSUME BlockInv, block_write_fails
    PROVE  BlockInv'
  <1>1. /\ WritingInode /\ BlockTypeOK /\ proc = "flushing" /\ proc' = "flushing"
        /\ sb' = sb /\ table' = table /\ leaving' = leaving /\ dsb' = dsb
        /\ endCond' = endCond /\ oldSb' = oldSb /\ oldCell' = oldCell
        /\ i' = i + 1 /\ clean' = FALSE
        /\ eof' = eof /\ cell' = cell /\ stage' = "pad"
    BY DEF BlockInv, block_write_fails, WritingInode, FlushFrame, memVars,
           fileVars, ghostVars
  <1>2. sb \in Data /\ CursorAt(i) /\ i \in 0 .. 99 /\ i \in 0 .. NumInodes - 2
    BY <1>1, WritingPlace
  <1>3. PICK c \in 0 .. 99 : c = i
    BY <1>2
  <1>4. CursorAt(c + 1)'
    BY <1>2, <1>3, CursorMoves DEF block_write_fails
  <1>5. currBlock' \in Nat /\ currBlockFillNum' \in Nat
    BY <1>1 DEF block_write_fails, Advance, BlockTypeOK
  <1>6. faults' \in 0 .. MaxFaults /\ kills' \in 0 .. MaxKills
    BY <1>1, BoundsAssumption DEF block_write_fails, Fault, BlockTypeOK
  <1>a. clean' \in BOOLEAN
    BY <1>1
  <1>7. BlockTypeOK'
    BY <1>1, <1>5, <1>6, <1>a DEF BlockTypeOK
  <1>8. FlushInv'
    <2>1. i' = c + 1 /\ i' \in -1 .. NumInodes - 1 /\ i' # -1
      BY <1>1, <1>2, <1>3, SizeAssumption
    <2>2. CursorAt(IF i = -1 THEN 0 ELSE i)'
      BY <1>4, <2>1 DEF CursorAt
    <2>3. QED
      BY <1>1, <1>2, <2>1, <2>2, ContentAssumption DEF FlushInv
  <1>9. QED
    BY <1>1, <1>7, <1>8
       DEF BlockInv, LoadInv, LoadKeepsPlaces, FlushIsPrefix, ServedIsStored,
           PaddedNotServed

LEMMA FlushReturnsKeepsInv ==
    ASSUME BlockInv, FlushReturns
    PROVE  BlockInv'
  <1>1. BlockTypeOK /\ proc = "flushing" /\ i >= numInodes(sb) - 1 /\ i >= 0
    BY DEF BlockInv, FlushReturns
  <1>2. BlockTypeOK'
    BY <1>1 DEF BlockTypeOK, FlushReturns, memVars, fileVars, loopVars,
                boundVars, ghostVars
  <1>3. ServedIsStored'
    <2> SUFFICES ASSUME clean, sb \in Data
                 PROVE  dsb = sb /\ \A k \in 0 .. NumInodes - 2 : table[k] = Stored(k)
      BY DEF ServedIsStored, FlushReturns, memVars, fileVars, Stored
    <2>1. i >= NumInodes - 1 /\ i \in Int /\ inodeStartIndex(sb) = 3
      BY <1>1, SuperblockNumbers DEF BlockTypeOK
    <2>2. dsb = sb
      BY <1>1, <2>1 DEF BlockInv, FlushIsPrefix
    <2>3. ASSUME NEW k \in 0 .. NumInodes - 2
          PROVE  table[k] = Stored(k)
      <3>1. k \in Index /\ k < i
        BY <2>1, SizeAssumption DEF Index
      <3>2. Place(k) < eof
        BY <1>1, <3>1 DEF BlockInv, FlushInv
      <3>3. cell[Place(k)] = table[k]
        BY <1>1, <3>1 DEF BlockInv, FlushIsPrefix
      <3>4. QED BY <3>2, <3>3 DEF Stored
    <2>4. QED BY <2>2, <2>3
  <1>4. QED
    BY <1>1, <1>2, <1>3
       DEF BlockInv, FlushReturns, memVars, fileVars, LoadInv, LoadKeepsPlaces,
           FlushInv, FlushIsPrefix, PaddedNotServed

LEMMA StutterKeepsInv ==
    ASSUME BlockInv, UNCHANGED blockVars
    PROVE  BlockInv'
  BY DEF BlockInv, blockVars, loopVars, ghostVars, BlockTypeOK, LoadInv,
         LoadPosition, CursorAt, LoadKeepsPlaces, FlushInv, FlushIsPrefix,
         ServedIsStored, PaddedNotServed, Stored, At, Place, Offset

LEMMA NextKeepsInv ==
    ASSUME BlockInv, [BlockNext]_blockVars
    PROVE  BlockInv'
  <1>1. CASE main BY <1>1, MainKeepsInv
  <1>2. CASE disk_open_fails \/ Kill \/ ClearFaults \/ LoadOverruns
              \/ FlushEndsSession
    <2>1. faults' \in 0 .. MaxFaults /\ kills' \in 0 .. MaxKills
      BY <1>2, BoundsAssumption
         DEF disk_open_fails, Kill, ClearFaults, LoadOverruns, FlushEndsSession,
             Fault, boundVars, BlockInv, BlockTypeOK
    <2>2. NoMemory /\ UNCHANGED <<fileVars, ghostVars, clean>>
      BY <1>2
         DEF disk_open_fails, Kill, ClearFaults, LoadOverruns, FlushEndsSession
    <2>3. QED BY <2>1, <2>2, EndKeepsInv
  <1>3. CASE sBlock_read BY <1>3, SuperblockReadKeepsInv
  <1>4. CASE sBlock_read_fails BY <1>4, ReadFailsKeepsInv
  <1>5. CASE inode_read BY <1>5, InodeReadKeepsInv
  <1>6. CASE inode_read_eof BY <1>6, InodeReadEofKeepsInv
  <1>7. CASE inode_read_fails BY <1>7, InodeReadFailsKeepsInv
  <1>8. CASE LoadDone BY <1>8, LoadDoneKeepsInv
  <1>9. CASE \E changed \in Changes, v \in Data : Request(changed, v)
    BY <1>9, RequestKeepsInv
  <1>10. CASE sfs_destroy BY <1>10, DestroyKeepsInv
  <1>11. CASE sBlock_write_pad \/ sBlock_write_data \/ sBlock_write_fails
    BY <1>11, SuperblockWriteKeepsInv
  <1>12. CASE block_write_pad BY <1>12, BlockWritePadKeepsInv
  <1>13. CASE block_write_data BY <1>13, BlockWriteDataKeepsInv
  <1>14. CASE block_write_fails BY <1>14, BlockWriteFailsKeepsInv
  <1>15. CASE FlushReturns BY <1>15, FlushReturnsKeepsInv
  <1>16. CASE UNCHANGED blockVars BY <1>16, StutterKeepsInv
  <1>17. QED
    BY <1>1, <1>2, <1>3, <1>4, <1>5, <1>6, <1>7, <1>8, <1>9, <1>10, <1>11,
       <1>12, <1>13, <1>14, <1>15, <1>16
       DEF BlockNext, Load, Flush

(***************************************************************************)
(* The invariant of the loops of block.c's callers holds in every state.   *)
(***************************************************************************)
THEOREM BlockInvariant == BlockSpec => []BlockInv
  <1>1. BlockInit => BlockInv BY InitInv
  <1>2. BlockInv /\ [BlockNext]_blockVars => BlockInv' BY NextKeepsInv
  <1>3. QED BY <1>1, <1>2, PTL DEF BlockSpec

(***************************************************************************)
(* A flush that is cut short leaves new inodes in front, old ones behind,  *)
(* and one damaged inode at most, under a new superblock.                  *)
(***************************************************************************)
THEOREM CutFlushIsPrefix == BlockSpec => []FlushIsPrefix
  <1>1. BlockInv => FlushIsPrefix BY DEF BlockInv
  <1>2. QED BY <1>1, BlockInvariant, PTL

(***************************************************************************)
(* What the flush writes is what the next load reads: the two loops go     *)
(* through the same places, for any number of blocks.                      *)
(***************************************************************************)
THEOREM FlushAndLoadAgree == BlockSpec => []ServedIsStored
  <1>1. BlockInv => ServedIsStored BY DEF BlockInv
  <1>2. QED BY <1>1, BlockInvariant, PTL

(***************************************************************************)
(* A failed read of one inode never moves or clears another one.           *)
(***************************************************************************)
THEOREM FailedReadLosesOneInode == BlockSpec => []LoadKeepsPlaces
  <1>1. BlockInv => LoadKeepsPlaces BY DEF BlockInv
  <1>2. QED BY <1>1, BlockInvariant, PTL

(***************************************************************************)
(* A session with a zero superblock never writes to the file, whether the  *)
(* read of the superblock failed or a memset behind the array cleared it.  *)
(***************************************************************************)
THEOREM ClearedSessionHarmless == BlockSpec => ClearedKeepsFile
  <1>1. BlockInv /\ [BlockNext]_blockVars =>
            [sb = Zero => UNCHANGED fileVars]_blockVars
    <2> SUFFICES ASSUME BlockInv, BlockNext, sb = Zero PROVE UNCHANGED fileVars
      BY DEF blockVars
    <2>1. inodeStartIndex(sb) = 0 /\ numInodes(sb) = 0 /\ eof \in Nat
      BY SuperblockNumbers DEF BlockInv, BlockTypeOK
    <2>2. ~WritingInode
      BY <2>1 DEF WritingInode
    <2>3. ASSUME sBlock_write_pad \/ sBlock_write_data
          PROVE  UNCHANGED fileVars
      BY <2>1, <2>3
         DEF sBlock_write_pad, sBlock_write_data, SbWritten, EndAfter, BLOCK_SIZE,
             fileVars
    <2>4. ASSUME NEW changed \in Changes, NEW v \in Data
          PROVE  ~Request(changed, v)
      BY ContentAssumption DEF Request
    <2>5. QED
      BY <2>2, <2>3, <2>4
         DEF BlockNext, main, disk_open_fails, Kill, sBlock_read,
             sBlock_read_fails, Load, inode_read, inode_read_eof,
             inode_read_fails, ClearFaults, LoadOverruns, LoadDone, LoadFrame,
             sfs_destroy, FlushBegins, Flush, sBlock_write_fails,
             block_write_pad, block_write_data, block_write_fails,
             FlushReturns, FlushEndsSession
  <1>2. QED
    BY <1>1, BlockInvariant, PTL DEF BlockSpec, ClearedKeepsFile

(***************************************************************************)
(* A superblock of '0' characters is never served.                         *)
(***************************************************************************)
THEOREM PaddedSuperblockNotServed == BlockSpec => []PaddedNotServed
  <1>1. BlockInv => PaddedNotServed BY DEF BlockInv
  <1>2. QED BY <1>1, BlockInvariant, PTL
==============================================================================
