---------------------------- MODULE SfsCrashProofs ----------------------------
(***************************************************************************)
(* CrashInv is an invariant of SfsCrash, for every number of inodes, every *)
(* even MAX_FILES_IN_DIR and any number of cut flushes, and the disk       *)
(* changes as the action properties of SfsCrash say.                       *)
(***************************************************************************)
EXTENDS SfsProofs, SfsCrashInvariant

WildDiskType == [touched : BOOLEAN, sBlock : SuperBlock \cup {PadSuperBlock},
                 inodes : [Slots -> WildFCB]]

(***************************************************************************)
(* What '0' characters read as is no slot, no name and no free entry.      *)
(***************************************************************************)
LEMMA PadFacts ==
    /\ PAD_SHORT \notin Slots /\ PAD_SHORT # 0
    /\ WILD \notin Slots /\ WILD # NULL
    /\ PadFCB \in WildFCB
    /\ PadFCB.fileName \notin Names
    /\ PadFCB.inumber = PAD_SHORT
    /\ \A k \in Idx : PadFCB.dirContents[k] = WILD
    /\ TailRule(PadFCB.dirContents)
    /\ CountOK(PadSuperBlock)
<1>1. PAD_SHORT \notin Slots /\ PAD_SHORT # 0
  BY InodesAssumption DEF PAD_SHORT, Slots
<1>2. WILD \notin Slots /\ WILD # NULL
  BY WildAssumption DEF Slots
<1>3. /\ PadFCB.fileName \notin Names
      /\ PadFCB.inumber = PAD_SHORT
      /\ PadFCB.parentDir = PadFCB.fileName
      /\ PadFCB.dirContents = [k \in Idx |-> WILD]
  BY PadAssumption DEF PadFCB
<1>4. PAD_SHORT \in SHRT_MIN .. SHRT_MAX
  <2>1. /\ SHRT_MIN \in Int /\ SHRT_MAX \in Int /\ PAD_SHORT \in Int
        /\ SHRT_MIN <= PAD_SHORT /\ PAD_SHORT <= SHRT_MAX
    BY DEF SHRT_MIN, SHRT_MAX, PAD_SHORT
  <2> QED
    BY <2>1
<1>5. PadFCB \in WildFCB
  <2>1. "0..." \in WildName
    BY DEF WildName, PadFCB
  <2>2. [k \in Idx |-> WILD] \in [Idx -> Entries \cup {WILD}]
    OBVIOUS
  <2> QED
    BY <1>4, <2>1, <2>2 DEF PadFCB, WildFCB
<1>6. \A k \in Idx : PadFCB.dirContents[k] = WILD
  BY <1>3
<1>7. TailRule(PadFCB.dirContents)
  BY <1>2, <1>6 DEF TailRule, Full
<1>8. CountOK(PadSuperBlock)
  BY DEF CountOK, PadSuperBlock, PAD_INT
<1> QED
  BY <1>1, <1>2, <1>3, <1>5, <1>6, <1>7, <1>8

(* What an inode without '0' characters can hold, a mixed one can, too. *)
LEMMA FCBIsWild == FCB \subseteq WildFCB
<1> SUFFICES ASSUME NEW r \in FCB PROVE r \in WildFCB
  OBVIOUS
<1>1. /\ r.fileName \in WildName /\ r.parentDir \in WildName
      /\ r.inumber \in Slots \cup {PAD_SHORT}
      /\ r.parent_inumber \in ParentNumber \cup {PAD_SHORT}
      /\ r.mode \in SHRT_MIN .. SHRT_MAX
      /\ r.dirContents \in [Idx -> Entries \cup {WILD}]
  BY DEF FCB, WildName
<1>2. r = [fileName |-> r.fileName, parentDir |-> r.parentDir,
           inumber |-> r.inumber, parent_inumber |-> r.parent_inumber,
           mode |-> r.mode, dirContents |-> r.dirContents]
  BY DEF FCB
<1> QED
  BY <1>1, <1>2 DEF WildFCB

(* Tables without entries: blank memory, and what formatDisk lays out. *)
LEMMA NewTableFacts ==
    /\ BlankTable \in [Slots -> WildFCB] /\ WildTableInv(BlankTable)
    /\ FormattedTable \in [Slots -> WildFCB] /\ WildTableInv(FormattedTable)
    /\ \A i \in Slots : /\ Children(BlankTable[i].dirContents) = {}
                        /\ Children(FormattedTable[i].dirContents) = {}
    /\ FormattedTable[NumInodes - 1] = BlankFCB
<1>1. \A i \in Slots : BlankTable[i] = BlankFCB
  BY DEF BlankTable
<1>2. \A i \in Slots : FormattedTable[i] = IF i = 0 THEN RootFCB ELSE BlankFCB
  BY <1>1, BlankTableFacts DEF FormattedTable
<1>3. /\ BlankTable \in [Slots -> FCB] /\ TableInv(BlankTable, BlankSuperBlock)
      /\ FormattedTable \in [Slots -> FCB]
      /\ TableInv(FormattedTable, FormattedSuperBlock(0))
      /\ FormattedSuperBlock(0).numInodes = 0
  BY BlankTableFacts, FormattedFacts
<1>4. RootFCB.inumber = 0
  BY DEF RootFCB, BlankFCB
<1>5. Numbered(BlankTable)
  BY <1>1, <1>3, BlankFacts DEF TableInv, NamedNumbered, Numbered
<1>6. Numbered(FormattedTable)
  BY <1>2, <1>3, <1>4, BlankFacts DEF TableInv, NamedNumbered, Numbered
<1>7. \A i \in Slots : FormattedTable[i].dirContents = initDirContents
  BY <1>3 DEF TableInv, NothingBeyond
<1>8. \A i \in Slots : BlankTable[i].dirContents = initDirContents
  BY <1>1, BlankFacts
<1>9. \A i \in Slots : BlankTable[i] \in WildFCB /\ FormattedTable[i] \in WildFCB
  BY <1>3, FCBIsWild
<1> QED
  BY <1>2, <1>3, <1>5, <1>6, <1>7, <1>8, <1>9, NoChildren, SlotFacts
     DEF TableInv, WildTableInv

------------------------------------------------------------------------------
(***************************************************************************)
(* Lookups.                                                                *)
(***************************************************************************)
WildMemory ==
    /\ inodes \in [Slots -> WildFCB]
    /\ sBlock \in SuperBlock
    /\ WildTableInv(inodes)
    /\ CountOK(sBlock)

(* What CrashInv says of the memory, in the form the table lemmas take. *)
LEMMA CrashMemory == CrashInv => WildMemory
BY DEF CrashInv, CrashTypeOK, WildMemory

(* What findFileOrDir finds has a name, and so its own number. *)
LEMMA WildFound ==
    ASSUME WildMemory, NEW path \in Paths, NEW f \in findFileOrDir(path)
    PROVE  /\ f \in Slots /\ f # 0 /\ Named(inodes, f)
           /\ inodes[f].inumber = f
           /\ sBlock.numInodes = NumInodes
<1>1. path # <<>> /\ relativeName(path) \in Names
  BY PathFacts
<1>2. f \in 0 .. sBlock.numInodes - 1 /\ Carries(f, path)
  BY <1>1 DEF findFileOrDir
<1>3. sBlock.numInodes \in {0, NumInodes}
  BY DEF WildMemory, SuperBlock
<1>4. f \in Slots /\ sBlock.numInodes = NumInodes
  BY <1>2, <1>3, SlotFacts DEF Slots
<1>5. Named(inodes, f)
  BY <1>1, <1>2 DEF Carries, Named
<1> QED
  BY <1>4, <1>5 DEF WildMemory, WildTableInv, Numbered

(* The parent of a new inode is an inode of the table. *)
LEMMA WildParent ==
    ASSUME WildMemory, NEW path \in Paths, NEW p \in findParent(path)
    PROVE  p \in Slots
<1>1. CASE ParentPath(path) = <<>>
  BY <1>1, SlotFacts DEF findParent, findFileOrDir
<1>2. CASE ParentPath(path) \in Paths
  BY <1>2, WildFound DEF findParent
<1> QED
  BY <1>1, <1>2, PathFacts

------------------------------------------------------------------------------
(***************************************************************************)
(* What a request makes of the table in memory before its flush: names     *)
(* change in one inode at most, other members in two; entries come for     *)
(* allocated inodes and go for free ones; nothing becomes '0' characters.  *)
(***************************************************************************)
Changes(t, i, p) ==
    /\ \A j \in Slots \ {i} : /\ t[j].fileName = inodes[j].fileName
                              /\ t[j].parentDir = inodes[j].parentDir
    /\ \A j \in Slots \ {i, p} : t[j] = inodes[j]

Edited(t, sb) ==
    /\ t \in [Slots -> WildFCB]
    /\ WildTableInv(t)
    /\ sb \in SuperBlock
    /\ sb.numInodes = NumInodes /\ sb.inodeStartIndex # 0
    /\ sBlock.numInodes = NumInodes
    /\ \A q, c \in Slots :
        /\ /\ c \in Children(t[q].dirContents)
           /\ c \notin Children(inodes[q].dirContents)
           => sb.ibmap[c] = 1
        /\ /\ c \in Children(inodes[q].dirContents)
           /\ c \notin Children(t[q].dirContents)
           => sb.ibmap[c] = 0
    /\ \E i, p \in Slots : Changes(t, i, p)
    /\ \A j \in Slots : t[j] # inodes[j] => t[j] # PadFCB

(* What Linked changes, member by member. *)
LEMMA WildLinked ==
    ASSUME WildMemory, NEW path \in Paths, NEW mode \in Nat,
           NEW i \in Slots, NEW p \in Slots
    PROVE  LET t == Linked(p, i, path, mode)
               d == add_to_direntry(inodes[p].dirContents, i)
           IN  /\ t \in [Slots -> WildFCB]
               /\ t[i].fileName = relativeName(path)
               /\ t[i].parentDir = getRelativeParentName(path)
               /\ t[i].inumber = i
               /\ t[p].dirContents = d
               /\ \A j \in Slots \ {i} :
                    /\ t[j].fileName = inodes[j].fileName
                    /\ t[j].parentDir = inodes[j].parentDir
                    /\ t[j].inumber = inodes[j].inumber
               /\ \A j \in Slots \ {p} : t[j].dirContents = inodes[j].dirContents
               /\ \A j \in Slots \ {i, p} : t[j] = inodes[j]
               /\ p # i /\ d = inodes[p].dirContents => t[p] = inodes[p]
<1> DEFINE d == add_to_direntry(inodes[p].dirContents, i)
           t == Linked(p, i, path, mode)
           w == [inodes EXCEPT ![p].dirContents = d]
           b == [w EXCEPT ![i].inumber = i]
<1>1. inodes \in [Slots -> WildFCB] /\ TailRule(inodes[p].dirContents)
  BY DEF WildMemory, WildTableInv, TailRules
<1>2. d \in [Idx -> Entries \cup {WILD}]
  <2>1. inodes[p].dirContents \in [Idx -> Entries \cup {WILD}]
    BY <1>1 DEF WildFCB
  <2>2. i \in Entries \cup {WILD} /\ i # NULL
    BY SlotFacts DEF Entries
  <2> QED
    BY <1>1, <2>1, <2>2, AddFacts
<1> HIDE DEF d
<1>3. /\ w \in [Slots -> WildFCB]
      /\ w[p].dirContents = d
      /\ \A j \in Slots : /\ w[j].fileName = inodes[j].fileName
                          /\ w[j].parentDir = inodes[j].parentDir
                          /\ w[j].inumber = inodes[j].inumber
      /\ \A j \in Slots \ {p} : w[j] = inodes[j]
      /\ d = inodes[p].dirContents => w[p] = inodes[p]
  <2> DEFINE r == [inodes[p] EXCEPT !.dirContents = d]
  <2>1. inodes[p] \in WildFCB
    BY <1>1
  <2>2. /\ r \in WildFCB /\ r.dirContents = d
        /\ r.fileName = inodes[p].fileName /\ r.parentDir = inodes[p].parentDir
        /\ r.inumber = inodes[p].inumber
        /\ d = inodes[p].dirContents => r = inodes[p]
    BY <1>2, <2>1 DEF WildFCB
  <2>3. w = [inodes EXCEPT ![p] = r]
    BY DEF r
  <2> HIDE DEF r
  <2> QED
    BY <1>1, <2>2, <2>3
<1> HIDE DEF w
<1>4. /\ b \in [Slots -> WildFCB]
      /\ b[i].inumber = i /\ b[i].dirContents = w[i].dirContents
      /\ \A j \in Slots \ {i} : b[j] = w[j]
  <2> DEFINE r == [w[i] EXCEPT !.inumber = i]
  <2>1. w[i] \in WildFCB
    BY <1>3
  <2>2. r \in WildFCB /\ r.inumber = i /\ r.dirContents = w[i].dirContents
    BY <2>1 DEF WildFCB
  <2> HIDE DEF r
  <2>3. b = [w EXCEPT ![i] = r]
    BY DEF r
  <2> QED
    BY <1>3, <2>1, <2>2, <2>3
<1>5. t = [b EXCEPT ![i].fileName = relativeName(path),
                    ![i].parentDir = getRelativeParentName(path),
                    ![i].mode = ToShort(mode),
                    ![i].parent_inumber = b[p].inumber]
  BY DEF Linked, w, d
<1> HIDE DEF b, t
<1>6. PICK m \in SHRT_MIN .. SHRT_MAX : ToShort(mode) = m
  BY ToShortRange
<1>7. PICK fn \in WildName, pn \in WildName :
        relativeName(path) = fn /\ getRelativeParentName(path) = pn
  BY PathFacts DEF WildName, NameField
<1>8. PICK n \in ParentNumber \cup {PAD_SHORT} : b[p].inumber = n
  BY <1>4 DEF WildFCB, ParentNumber
<1> DEFINE r == [b[i] EXCEPT !.fileName = fn, !.parentDir = pn, !.mode = m,
                            !.parent_inumber = n]
<1>9. /\ r \in WildFCB /\ r.fileName = fn /\ r.parentDir = pn
      /\ r.inumber = b[i].inumber
      /\ r.dirContents = b[i].dirContents
  <2>1. b[i] \in WildFCB
    BY <1>4
  <2> QED
    BY <2>1 DEF WildFCB
<1> HIDE DEF r
<1>10. t = [b EXCEPT ![i] = r]
  BY <1>4, <1>5, <1>6, <1>7, <1>8 DEF r
<1>11. t \in [Slots -> WildFCB]
  BY <1>4, <1>10, <1>9
<1>12. /\ t[i].fileName = relativeName(path)
      /\ t[i].parentDir = getRelativeParentName(path)
      /\ t[i].inumber = i
      /\ t[i].dirContents = b[i].dirContents
      /\ \A j \in Slots \ {i} : t[j] = b[j]
  BY <1>4, <1>7, <1>10, <1>9
<1> QED
  BY <1>3, <1>4, <1>11, <1>12 DEF t, d

(***************************************************************************)
(* create_inode edits the table: one entry for the inode it allocates, or  *)
(* none if the parent is full or '0' characters.                           *)
(***************************************************************************)
LEMMA CreateEdits ==
    ASSUME CrashInv, NEW path \in pending, NEW mode \in Nat,
           NEW i \in Slots, FreeInode(i), NEW p \in findParent(path)
    PROVE  Edited(Linked(p, i, path, mode), [sBlock EXCEPT !.ibmap[i] = 1])
<1> DEFINE t == Linked(p, i, path, mode)
           sb == [sBlock EXCEPT !.ibmap[i] = 1]
           d == inodes[p].dirContents
           e == add_to_direntry(d, i)
<1>1. /\ inodes \in [Slots -> WildFCB] /\ sBlock \in SuperBlock
      /\ Numbered(inodes) /\ NamesDistinct(inodes) /\ TailRules(inodes)
      /\ CountOK(sBlock) /\ PendingAbsent /\ path \in Paths
  BY DEF CrashInv, CrashTypeOK, WildTableInv
<1>2. p \in Slots
  BY <1>1, CrashMemory, WildParent
<1>3. i # 0 /\ sBlock.numInodes = NumInodes
  BY <1>1, SlotFacts DEF FreeInode, SuperBlock
<1>4. sBlock.inodeStartIndex # 0
  BY <1>1, <1>3, SlotFacts DEF CountOK
<1>5. /\ sb \in SuperBlock
      /\ sb.numInodes = NumInodes /\ sb.inodeStartIndex # 0
      /\ sb.ibmap[i] = 1
  BY <1>1, <1>3, <1>4 DEF SuperBlock
<1>6. /\ t \in [Slots -> WildFCB]
      /\ t[i].fileName = relativeName(path)
      /\ t[i].parentDir = getRelativeParentName(path)
      /\ t[i].inumber = i
      /\ t[p].dirContents = e
      /\ \A j \in Slots \ {i} :
           /\ t[j].fileName = inodes[j].fileName
           /\ t[j].parentDir = inodes[j].parentDir
           /\ t[j].inumber = inodes[j].inumber
      /\ \A j \in Slots \ {p} : t[j].dirContents = inodes[j].dirContents
      /\ \A j \in Slots \ {i, p} : t[j] = inodes[j]
      /\ p # i /\ e = d => t[p] = inodes[p]
  BY <1>1, <1>2, CrashMemory, WildLinked
<1> HIDE DEF t, sb
<1>7. /\ TailRule(e)
      /\ Full(d) => e = d
      /\ ~Full(d) => Children(e) = Children(d) \cup {i}
  <2>1. d \in [Idx -> Entries \cup {WILD}] /\ TailRule(d)
    BY <1>1, <1>2 DEF WildFCB, TailRules
  <2>2. i \in Entries \cup {WILD} /\ i # NULL
    BY SlotFacts DEF Entries
  <2> DEFINE S == Entries \cup {WILD}
  <2>3. d \in [Idx -> S] /\ i \in S
    BY <2>1, <2>2
  <2> HIDE DEF d, S
  <2>4. TailRule(e)
    BY <2>1, <2>2, <2>3, AddFacts
  <2>5. /\ Full(d) => e = d
        /\ ~Full(d) => Children(e) = Children(d) \cup {i}
    BY <2>2, <2>3, AddedChildren
  <2> QED
    BY <2>4, <2>5
<1> HIDE DEF d, e
<1>8. Numbered(t)
  BY <1>1, <1>3, <1>6 DEF Numbered, Named
<1>9. NamesDistinct(t)
  <2> SUFFICES ASSUME NEW q \in Paths, ~HasAlias(q),
                      NEW j \in Slots, NEW l \in Slots,
                      HasNames(t, j, q), HasNames(t, l, q)
               PROVE  j = l
    BY DEF NamesDistinct
  <2>1. CASE q = path
    <3>1. \A n \in Slots : ~Carries(n, path)
      BY <1>1, <1>3, <2>1 DEF PendingAbsent, Slots
    <3> QED
      BY <1>6, <2>1, <3>1 DEF Carries, HasNames
  <2>2. CASE q # path
    <3>1. j # i /\ l # i
      BY <1>1, <1>6, <2>2 DEF HasAlias, SameNames, HasNames
    <3>2. HasNames(inodes, j, q) /\ HasNames(inodes, l, q)
      BY <1>6, <3>1 DEF HasNames
    <3> QED
      BY <1>1, <3>2 DEF NamesDistinct
  <2> QED
    BY <2>1, <2>2
<1>10. TailRules(t)
  BY <1>1, <1>6, <1>7 DEF TailRules
<1>11. \A q, c \in Slots :
         /\ /\ c \in Children(t[q].dirContents)
            /\ c \notin Children(inodes[q].dirContents)
            => c = i
         /\ c \in Children(inodes[q].dirContents) =>
              c \in Children(t[q].dirContents)
  BY <1>6, <1>7 DEF d
<1>12. \A j \in Slots : t[j] # inodes[j] => t[j] # PadFCB
  <2> SUFFICES ASSUME NEW j \in Slots, t[j] # inodes[j], t[j] = PadFCB
               PROVE  FALSE
    OBVIOUS
  <2>1. j # i
    BY <1>6, PadFacts
  <2>2. j = p /\ e # d
    BY <1>6, <2>1
  <2>3. i \in Children(e) /\ e = PadFCB.dirContents
    BY <1>6, <1>7, <2>2
  <2> QED
    BY <2>3, PadFacts DEF Children
<1>13. Changes(t, i, p)
  BY <1>6 DEF Changes
<1> QED
  BY <1>2, <1>3, <1>5, <1>6, <1>8, <1>9, <1>10, <1>11, <1>12, <1>13
     DEF Edited, WildTableInv, t, sb

(***************************************************************************)
(* remove_inode edits the table, if it follows no wild pointer: an entry   *)
(* that matches by inumber points at the inode it frees.                   *)
(***************************************************************************)
LEMMA RemoveEdits ==
    ASSUME CrashInv, NEW path \in Paths, NEW f \in findFileOrDir(path),
           ~FollowsWild(f)
    PROVE  Edited([inodes EXCEPT ![getParentFcb(f)].dirContents =
                       remove_from_direntry(getParentFcb(f), f)],
                  [sBlock EXCEPT !.ibmap[inodes[f].inumber] = 0])
<1> DEFINE q == getParentFcb(f)
           d == inodes[q].dirContents
           e == remove_from_direntry(q, f)
           t == [inodes EXCEPT ![q].dirContents = e]
           sb == [sBlock EXCEPT !.ibmap[inodes[f].inumber] = 0]
           Hit(k) == d[k] # NULL /\ inodes[d[k]].inumber = inodes[f].inumber
           First(k) == Hit(k) /\ \A j \in 0 .. k - 1 : ~Hit(j)
<1>1. /\ inodes \in [Slots -> WildFCB] /\ sBlock \in SuperBlock
      /\ Numbered(inodes) /\ NamesDistinct(inodes) /\ TailRules(inodes)
      /\ CountOK(sBlock)
  BY DEF CrashInv, CrashTypeOK, WildTableInv
<1>2. /\ f \in Slots /\ f # 0 /\ inodes[f].inumber = f
      /\ sBlock.numInodes = NumInodes
  BY CrashMemory, WildFound
<1>3. q \in Slots /\ \A k \in Idx : d[k] # WILD
  BY DEF FollowsWild
<1>4. sBlock.inodeStartIndex # 0
  BY <1>1, <1>2, SlotFacts DEF CountOK
<1>5. /\ sb \in SuperBlock
      /\ sb.numInodes = NumInodes /\ sb.inodeStartIndex # 0
      /\ sb.ibmap[f] = 0
  BY <1>1, <1>2, <1>4 DEF SuperBlock
<1>6. /\ d \in [Idx -> Entries \cup {WILD}] /\ TailRule(d)
      /\ \A k \in Idx : d[k] # NULL => d[k] \in Slots
  BY <1>1, <1>3 DEF WildFCB, TailRules, Entries
<1>7. \A k \in Idx : First(k) => d[k] = f
  BY <1>1, <1>2, <1>6, PadFacts DEF Numbered
<1>8. e = IF \E k \in Idx : First(k)
          THEN indexed_remove_from_direntry(d, CHOOSE k \in Idx : First(k))
          ELSE d
  BY DEF remove_from_direntry
<1> HIDE DEF q, d, e, First, sb
<1>9. /\ e \in [Idx -> Entries \cup {WILD}] /\ TailRule(e)
      /\ \A n \in Idx : e[n] # NULL => \E m \in Idx : e[n] = d[m]
      /\ \A n \in Idx : d[n] # f => \E m \in Idx : e[m] = d[n]
  <2>1. CASE \E k \in Idx : First(k)
    <3>1. PICK k \in Idx : First(k) /\ e = indexed_remove_from_direntry(d, k)
      BY <1>8, <2>1
    <3>2. d[k] = f
      BY <1>7, <3>1
    <3>3. NULL \in Entries \cup {WILD}
      BY DEF Entries
    <3>4. /\ e \in [Idx -> Entries \cup {WILD}] /\ TailRule(e)
          /\ \A n \in Idx : e[n] # NULL => \E m \in Idx : e[n] = d[m]
      <4> DEFINE Old(n) == IF n = k THEN MAX_FILES_IN_DIR - 1 ELSE n
             S == Entries \cup {WILD}
      <4>1. d \in [Idx -> S] /\ NULL \in S
        BY <1>6, <3>3
      <4> HIDE DEF S
      <4>2. /\ e \in [Idx -> S] /\ TailRule(e)
            /\ \A n \in Idx : e[n] # NULL => Old(n) \in Idx /\ e[n] = d[Old(n)]
        BY <1>6, <3>1, <4>1, RemoveFacts
      <4> HIDE DEF Old
      <4> QED
        BY <4>2 DEF S
    <3>5. \A n \in Idx : d[n] # f => \E m \in Idx : e[m] = d[n]
      <4> SUFFICES ASSUME NEW n \in Idx, d[n] # f
                   PROVE  \E m \in Idx : e[m] = d[n]
        OBVIOUS
      <4>1. n # k
        BY <3>2
      <4> QED
        BY <1>6, <3>1, <3>3, <4>1, RemoveKeepsOthers
    <3> QED
      BY <3>4, <3>5
  <2>2. CASE ~\E k \in Idx : First(k)
    BY <1>6, <1>8, <2>2
  <2> QED
    BY <2>1, <2>2
<1>10. /\ t \in [Slots -> WildFCB]
       /\ t[q].dirContents = e
       /\ \A j \in Slots : /\ t[j].fileName = inodes[j].fileName
                           /\ t[j].parentDir = inodes[j].parentDir
                           /\ t[j].inumber = inodes[j].inumber
       /\ \A j \in Slots \ {q} : t[j] = inodes[j]
  <2> DEFINE r == [inodes[q] EXCEPT !.dirContents = e]
  <2>1. inodes[q] \in WildFCB
    BY <1>1, <1>3
  <2>2. /\ r \in WildFCB /\ r.dirContents = e
        /\ r.fileName = inodes[q].fileName /\ r.parentDir = inodes[q].parentDir
        /\ r.inumber = inodes[q].inumber
    BY <1>9, <2>1 DEF WildFCB
  <2>3. t = [inodes EXCEPT ![q] = r]
    BY DEF r
  <2> HIDE DEF r
  <2> QED
    BY <1>1, <1>3, <2>2, <2>3
<1> HIDE DEF t
<1>11. Numbered(t) /\ NamesDistinct(t) /\ TailRules(t)
  <2>1. Numbered(t)
    BY <1>1, <1>10 DEF Numbered, Named
  <2>2. NamesDistinct(t)
    BY <1>1, <1>10 DEF NamesDistinct, HasNames
  <2>3. TailRules(t)
    BY <1>1, <1>9, <1>10 DEF TailRules
  <2> QED
    BY <2>1, <2>2, <2>3
<1>12. /\ Children(e) \subseteq Children(d)
       /\ Children(d) \ {f} \subseteq Children(e)
  BY <1>9 DEF Children
<1>13. \A r, c \in Slots :
         /\ c \in Children(t[r].dirContents) =>
              c \in Children(inodes[r].dirContents)
         /\ /\ c \in Children(inodes[r].dirContents)
            /\ c \notin Children(t[r].dirContents)
            => c = f
  BY <1>10, <1>12 DEF d
<1>14. \A j \in Slots : t[j] # inodes[j] => t[j] # PadFCB
  <2>1. 0 \in Idx
    BY DirAssumption DEF Idx
  <2>2. e[0] # WILD
    BY <1>3, <1>9, <2>1, PadFacts
  <2>3. t[q] # PadFCB
    BY <1>10, <2>1, <2>2, PadFacts
  <2> QED
    BY <1>10, <2>3
<1>15. Changes(t, f, q)
  BY <1>10 DEF Changes
<1> QED
  BY <1>2, <1>3, <1>5, <1>10, <1>11, <1>13, <1>14, <1>15
     DEF Edited, WildTableInv, t, sb, q, e

------------------------------------------------------------------------------
(***************************************************************************)
(* What a step may do to the disk: the three action properties of SfsCrash *)
(* without their box.                                                      *)
(***************************************************************************)
Gained ==
    \A p \in Slots : \A c \in DiskChildren(p)' \ DiskChildren(p) :
        disk'.sBlock.ibmap[c] = 1

Lost ==
    \A p \in Slots : \A c \in DiskChildren(p) \ DiskChildren(p)' :
        disk'.sBlock.ibmap[c] = 0 \/ disk'.inodes[p] = PadFCB

Damage ==
    up /\ ~up' =>
        /\ Cardinality(ChangedInodes \cap PaddedInodes) <= 1
        /\ Cardinality(ChangedInodes \ PaddedInodes) <= 2

(* What CrashInv says of the disk alone. *)
GoodDisk ==
    /\ disk \in WildDiskType
    /\ WildTableInv(disk.inodes)
    /\ CountOK(disk.sBlock)
    /\ disk.inodes[NumInodes - 1] = BlankFCB
    /\ UntouchedEmpty

(* What CrashInv says of the disk, in the form the cut lemmas take. *)
LEMMA CrashDisk == CrashInv => GoodDisk
BY DEF CrashInv, CrashTypeOK, GoodDisk, WildDiskType

(* Sets of one and of two elements. *)
LEMMA SmallSets ==
    /\ \A x, S : S \subseteq {x} => Cardinality(S) <= 1
    /\ \A x, y, S : S \subseteq {x, y} => Cardinality(S) <= 2
<1>1. ASSUME NEW x PROVE IsFiniteSet({x}) /\ Cardinality({x}) = 1
  BY FS_Singleton
<1>2. ASSUME NEW x, NEW y
      PROVE  IsFiniteSet({x, y}) /\ Cardinality({x, y}) \in {1, 2}
  <2> DEFINE P == {x, y}
             Q == {x}
  <2>1. P = Q \cup {y} /\ IsFiniteSet(Q) /\ Cardinality(Q) = 1
    BY <1>1
  <2> HIDE DEF P, Q
  <2>2. /\ IsFiniteSet(P)
        /\ Cardinality(P) = IF y \in Q THEN Cardinality(Q) ELSE Cardinality(Q) + 1
    BY <2>1, FS_AddElement
  <2>3. Cardinality(P) \in {1, 2}
    BY <2>1, <2>2
  <2> QED
    BY <2>2, <2>3 DEF P
<1>3. ASSUME NEW x, NEW S, S \subseteq {x} PROVE Cardinality(S) <= 1
  <2> DEFINE P == {x}
  <2>1. IsFiniteSet(P) /\ Cardinality(P) = 1 /\ S \in SUBSET P
    BY <1>1, <1>3
  <2> HIDE DEF P
  <2> QED
    BY <2>1, FS_Subset
<1>4. ASSUME NEW x, NEW y, NEW S, S \subseteq {x, y} PROVE Cardinality(S) <= 2
  <2> DEFINE P == {x, y}
  <2>1. IsFiniteSet(P) /\ Cardinality(P) \in {1, 2} /\ S \in SUBSET P
    BY <1>2, <1>4
  <2> HIDE DEF P
  <2>2. IsFiniteSet(S) /\ Cardinality(S) <= Cardinality(P)
    BY <2>1, FS_Subset
  <2>3. Cardinality(S) \in Nat
    BY <2>2, FS_CardinalityType
  <2> QED
    BY <2>1, <2>2, <2>3
<1> QED
  BY <1>3, <1>4

(* Inodes left alone on the disk. *)
LEMMA SameInodes ==
    ASSUME disk'.inodes = disk.inodes
    PROVE  Gained /\ Lost /\ Damage
<1>1. \A p \in Slots : DiskChildren(p)' = DiskChildren(p)
  BY DEF DiskChildren
<1>2. ChangedInodes = {}
  BY DEF ChangedInodes
<1>3. Damage
  <2>1. ChangedInodes \cap PaddedInodes = {} /\ ChangedInodes \ PaddedInodes = {}
    BY <1>2
  <2> QED
    BY <2>1, FS_EmptySet DEF Damage
<1> QED
  BY <1>1, <1>3 DEF Gained, Lost

(***************************************************************************)
(* The disk after a flush that wrote the superblock and the inodes up to   *)
(* k, and left '0' characters at k or not.  It mixes the edited table and  *)
(* the one before, which differ in the names of one inode: whether that    *)
(* one is written or not, the names are those of one of the two tables.    *)
(***************************************************************************)
LEMMA MixedDisk ==
    ASSUME CrashInv, up, NEW t, NEW sb, Edited(t, sb),
           NEW k \in Slots, NEW pads, pads = {} \/ pads = {k},
           NumInodes - 1 \notin pads,
           disk' = [touched |-> TRUE, sBlock |-> sb,
                    inodes |-> [j \in Slots |->
                        IF j < k THEN t[j]
                        ELSE IF j \in pads THEN PadFCB ELSE disk.inodes[j]]]
    PROVE  GoodDisk' /\ Gained /\ Lost /\ Damage
<1> DEFINE last == NumInodes - 1
           u == disk'.inodes
<1>1. /\ t \in [Slots -> WildFCB] /\ sb \in SuperBlock
      /\ Numbered(t) /\ NamesDistinct(t) /\ TailRules(t)
      /\ sb.numInodes = NumInodes /\ sb.inodeStartIndex # 0
      /\ sBlock.numInodes = NumInodes
  BY DEF Edited, WildTableInv
<1>2. /\ inodes \in [Slots -> WildFCB] /\ disk.inodes \in [Slots -> WildFCB]
      /\ Numbered(disk.inodes) /\ TailRules(disk.inodes)
      /\ NamesDistinct(inodes)
      /\ disk.inodes[last] = BlankFCB
      /\ CountOK(sBlock)
  BY DEF CrashInv, CrashTypeOK, WildTableInv
<1>3. \A j \in Slots \ {last} : disk.inodes[j] = inodes[j]
  <2>1. Mounted
    BY <1>1, <1>2, SlotFacts DEF Mounted, CountOK
  <2>2. \A j \in Slots \ {last} : j \in 0 .. NumInodes - 2
    BY SlotFacts DEF Slots
  <2> QED
    BY <1>1, <2>1, <2>2 DEF CrashInv, DiskCurrent
<1>4. disk'.touched = TRUE /\ disk'.sBlock = sb
  OBVIOUS
<1>5. \A j \in Slots : u[j] = IF j < k THEN t[j]
                              ELSE IF j \in pads THEN PadFCB ELSE disk.inodes[j]
  OBVIOUS
<1>6. \A j \in Slots : j < k => j # last
  BY SlotFacts DEF Slots
<1>7. u \in [Slots -> WildFCB] /\ disk' \in WildDiskType
  BY <1>1, <1>2, PadFacts DEF WildDiskType
<1> HIDE DEF u
<1>8. u[last] = BlankFCB
  BY <1>2, <1>5, <1>6, SlotFacts
<1>9. Numbered(u)
  BY <1>1, <1>2, <1>5, PadFacts DEF Numbered, Named
<1>10. TailRules(u)
  BY <1>1, <1>2, <1>5, PadFacts DEF TailRules
<1>11. PICK i \in Slots, p \in Slots : Changes(t, i, p)
  BY DEF Edited
<1>12. ASSUME NEW v, NamesDistinct(v),
              \A j \in Slots : Named(u, j) =>
                /\ u[j].fileName = v[j].fileName
                /\ u[j].parentDir = v[j].parentDir
       PROVE  NamesDistinct(u)
  BY <1>12, PathFacts DEF NamesDistinct, HasNames, Named
<1>13. ~Named(u, last) /\ \A j \in pads : k = j /\ ~Named(u, j)
  <2>1. ~Named(u, last)
    BY <1>8, BlankFacts DEF Named
  <2>2. \A j \in pads : k = j /\ ~(j < k)
    BY SlotFacts
  <2>3. \A j \in pads : u[j] = PadFCB
    BY <1>5, <2>2
  <2> QED
    BY <2>1, <2>2, <2>3, PadFacts DEF Named
<1>14. NamesDistinct(u)
  <2>1. CASE i < k
    <3>1. \A j \in Slots : Named(u, j) =>
            /\ u[j].fileName = t[j].fileName
            /\ u[j].parentDir = t[j].parentDir
      BY <1>3, <1>5, <1>11, <1>13, <2>1 DEF Changes
    <3> QED
      BY <1>1, <1>12, <3>1
  <2>2. CASE ~(i < k)
    <3>1. \A j \in Slots : Named(u, j) =>
            /\ u[j].fileName = inodes[j].fileName
            /\ u[j].parentDir = inodes[j].parentDir
      BY <1>3, <1>5, <1>11, <1>13, <2>2 DEF Changes
    <3> QED
      BY <1>2, <1>12, <3>1
  <2> QED
    BY <2>1, <2>2
<1>15. GoodDisk'
  <2>1. CountOK(sb)
    BY <1>1 DEF CountOK
  <2> QED
    BY <1>4, <1>7, <1>8, <1>9, <1>10, <1>14, <2>1
       DEF GoodDisk, UntouchedEmpty, WildTableInv, u
<1>16. \A j \in Slots : u[j] # disk.inodes[j] =>
         \/ j < k /\ u[j] = t[j] /\ disk.inodes[j] = inodes[j]
         \/ j \in pads /\ u[j] = PadFCB
  BY <1>3, <1>5, <1>6
<1>17. \A q \in Slots : \A c : c \in DiskChildren(q) \/ c \in DiskChildren(q)' => c \in Slots
  BY <1>2, <1>7 DEF DiskChildren, Children, WildFCB, Entries, u
<1>18. Gained
  <2> SUFFICES ASSUME NEW q \in Slots, NEW c \in DiskChildren(q)',
                      c \notin DiskChildren(q)
               PROVE  sb.ibmap[c] = 1
    BY <1>4 DEF Gained
  <2>1. c \in Slots /\ u[q] # disk.inodes[q]
    BY <1>17 DEF DiskChildren, u
  <2>2. c \in Children(u[q].dirContents) /\ c # WILD
    BY DEF DiskChildren, u
  <2>3. u[q] # PadFCB
    BY <2>2, PadFacts DEF Children
  <2>4. c \notin Children(disk.inodes[q].dirContents)
    BY <2>2 DEF DiskChildren
  <2> QED
    BY <1>16, <2>1, <2>2, <2>3, <2>4 DEF Edited
<1>19. Lost
  <2> SUFFICES ASSUME NEW q \in Slots, NEW c \in DiskChildren(q),
                      c \notin DiskChildren(q)', u[q] # PadFCB
               PROVE  sb.ibmap[c] = 0
    BY <1>4 DEF Lost, u
  <2>1. c \in Slots /\ u[q] # disk.inodes[q]
    BY <1>17 DEF DiskChildren, u
  <2>2. c \in Children(disk.inodes[q].dirContents) /\ c # WILD
    BY DEF DiskChildren
  <2>3. c \notin Children(u[q].dirContents)
    BY <2>2 DEF DiskChildren, u
  <2> QED
    BY <1>16, <2>1, <2>2, <2>3 DEF Edited
<1>20. Damage
  <2>1. ChangedInodes \cap PaddedInodes \subseteq {k}
    <3> SUFFICES ASSUME NEW j \in Slots, u[j] # disk.inodes[j], u[j] = PadFCB
                 PROVE  j = k
      BY DEF ChangedInodes, PaddedInodes, u
    <3>1. ~(u[j] = t[j] /\ disk.inodes[j] = inodes[j])
      BY DEF Edited
    <3> QED
      BY <1>13, <1>16, <3>1
  <2>2. ChangedInodes \ PaddedInodes \subseteq {i, p}
    <3> SUFFICES ASSUME NEW j \in Slots, u[j] # disk.inodes[j], u[j] # PadFCB
                 PROVE  j \in {i, p}
      BY DEF ChangedInodes, PaddedInodes, u
    <3> QED
      BY <1>11, <1>16 DEF Changes
  <2> QED
    BY <2>1, <2>2, SmallSets DEF Damage
<1> QED
  BY <1>15, <1>18, <1>19, <1>20

------------------------------------------------------------------------------
(***************************************************************************)
(* The kinds of steps.                                                     *)
(***************************************************************************)
Step == CrashInv' /\ Gained /\ Lost /\ Damage

(* A step that changes neither tables nor disk nor up. *)
LEMMA QuietCrashStep ==
    ASSUME CrashInv, UNCHANGED tableVars, up' = up, errno' \in Int,
           ret' \in Int, cuts' = cuts,
           pending' \subseteq Paths, PendingAbsent', ~up => pending' = {}
    PROVE  Step
<1>1. inodes' = inodes /\ sBlock' = sBlock /\ disk' = disk
  BY DEF tableVars
<1>2. CrashTypeOK'
  BY <1>1 DEF CrashInv, CrashTypeOK
<1>3. DiskCurrent' /\ UntouchedEmpty'
  BY <1>1 DEF CrashInv, DiskCurrent, Mounted, UntouchedEmpty
<1>4. (~up => inodes = BlankTable /\ sBlock = BlankSuperBlock /\ pending = {})'
  BY <1>1 DEF CrashInv
<1>5. /\ WildTableInv(inodes') /\ WildTableInv(disk'.inodes)
      /\ CountOK(sBlock') /\ CountOK(disk'.sBlock)
      /\ disk'.inodes[NumInodes - 1] = BlankFCB
  BY <1>1 DEF CrashInv
<1> QED
  BY <1>1, <1>2, <1>3, <1>4, <1>5, SameInodes DEF CrashInv, Step

(* Such a step of a request that leaves pending alone, or takes from it. *)
LEMMA IdleCrashStep ==
    ASSUME CrashInv, UNCHANGED tableVars, up' = up, errno' \in Int,
           ret' \in Int, cuts' = cuts, pending' \subseteq pending
    PROVE  Step
<1>1. /\ pending \subseteq Paths /\ PendingAbsent
      /\ ~up => pending = {}
      /\ inodes' = inodes /\ sBlock' = sBlock
  BY DEF CrashInv, CrashTypeOK, tableVars
<1>2. PendingAbsent'
  BY <1>1, AbsentStays
<1>3. pending' \subseteq Paths /\ (~up => pending' = {})
  BY <1>1
<1> QED
  BY <1>2, <1>3, QuietCrashStep

(* The process ends; the disk it leaves is good. *)
LEMMA CrashEnds ==
    ASSUME CrashInv, ProcessEnds, GoodDisk', cuts' \in 0 .. MaxCuts
    PROVE  CrashInv'
<1>1. up' = FALSE /\ inodes' = BlankTable /\ sBlock' = BlankSuperBlock
      /\ errno' = 0 /\ ret' = 0 /\ pending' = {}
  BY DEF ProcessEnds
<1>2. /\ inodes' \in [Slots -> WildFCB] /\ WildTableInv(inodes')
      /\ sBlock' \in SuperBlock /\ CountOK(sBlock')
  BY <1>1, NewTableFacts, BlankTableFacts
<1>3. CrashTypeOK'
  <2>1. up' \in BOOLEAN /\ pending' \subseteq Paths
    BY <1>1
  <2>2. errno' \in Int /\ ret' \in Int
    BY <1>1
  <2> QED
    BY <1>2, <2>1, <2>2 DEF CrashTypeOK, GoodDisk, WildDiskType
<1>4. DiskCurrent' /\ PendingAbsent'
  BY <1>1 DEF DiskCurrent, Mounted, PendingAbsent
<1> QED
  BY <1>1, <1>2, <1>3, <1>4 DEF CrashInv, GoodDisk

(* The process ends and the disk stays as it is. *)
LEMMA KilledCrashStep ==
    ASSUME CrashInv, ProcessEnds, disk' = disk, cuts' = cuts
    PROVE  Step
<1>1. GoodDisk'
  BY CrashDisk DEF GoodDisk, UntouchedEmpty
<1>2. cuts' \in 0 .. MaxCuts
  BY DEF CrashInv, CrashTypeOK
<1> QED
  BY <1>1, <1>2, CrashEnds, SameInodes DEF Step

(* A request that edited the table and flushed it. *)
LEMMA EditStep ==
    ASSUME CrashInv, up, up' = up, Edited(inodes', sBlock'),
           disk' = flushAllInodesTodisk(sBlock', inodes'),
           pending' \subseteq Paths, PendingAbsent',
           errno' \in Int, ret' \in Int, cuts' = cuts
    PROVE  Step
<1> DEFINE last == NumInodes - 1
<1>1. /\ inodes' \in [Slots -> WildFCB] /\ WildTableInv(inodes')
      /\ sBlock' \in SuperBlock /\ sBlock'.numInodes = NumInodes
      /\ sBlock'.inodeStartIndex # 0
  BY DEF Edited
<1> DEFINE none == {}
<1>2. disk' = [touched |-> TRUE, sBlock |-> sBlock',
               inodes |-> [j \in Slots |->
                   IF j < last THEN inodes'[j]
                   ELSE IF j \in none THEN PadFCB ELSE disk.inodes[j]]]
  BY <1>1 DEF flushAllInodesTodisk
<1>3. none = {} /\ last \notin none
  OBVIOUS
<1> HIDE DEF none, last
<1>4. GoodDisk' /\ Gained /\ Lost /\ Damage
  BY <1>2, <1>3, SlotFacts, MixedDisk DEF last
<1>5. DiskCurrent'
  <2>1. \A j \in 0 .. NumInodes - 2 : j \in Slots /\ j < last
    BY SlotFacts DEF Slots, last
  <2>2. \A j \in 0 .. NumInodes - 2 : disk'.inodes[j] = inodes'[j]
    BY <1>2, <2>1
  <2> QED
    BY <1>1, <1>2, <2>2 DEF DiskCurrent
<1>6. CrashTypeOK'
  <2>1. up' \in BOOLEAN /\ cuts' \in 0 .. MaxCuts
    BY DEF CrashInv, CrashTypeOK
  <2> QED
    BY <1>1, <1>4, <2>1 DEF CrashTypeOK, GoodDisk, WildDiskType
<1>7. CountOK(sBlock')
  BY <1>1 DEF CountOK
<1> QED
  BY <1>1, <1>4, <1>5, <1>6, <1>7 DEF CrashInv, Step, GoodDisk

(* The superblock write is cut. *)
LEMMA CutBlockDisk ==
    ASSUME CrashInv, Mounted, disk' = CutSuperBlock
    PROVE  GoodDisk' /\ disk'.inodes = disk.inodes
<1>1. disk \in WildDiskType /\ disk.touched
  BY DEF CrashInv, CrashTypeOK, DiskCurrent, WildDiskType
<1>2. PICK sb \in SuperBlock \cup {PadSuperBlock} : sb = PadSuperBlock
  OBVIOUS
<1>3. disk' = [disk EXCEPT !.sBlock = sb]
  BY <1>2 DEF CutSuperBlock
<1>4. /\ disk' \in WildDiskType /\ disk'.touched = disk.touched
      /\ disk'.sBlock = sb /\ disk'.inodes = disk.inodes
  BY <1>1, <1>3 DEF WildDiskType
<1> QED
  BY <1>1, <1>2, <1>4, PadFacts DEF CrashInv, GoodDisk, UntouchedEmpty

(* The flush of an edited table is cut. *)
LEMMA CutStep ==
    ASSUME CrashInv, up, NEW t, NEW sb, Edited(t, sb), CutAt(sb, t)
    PROVE  Step
<1>1. ProcessEnds /\ cuts' \in 0 .. MaxCuts
  <2>1. cuts \in 0 .. MaxCuts /\ cuts < MaxCuts /\ cuts' = cuts + 1
    BY DEF CrashInv, CrashTypeOK, CutAt
  <2>2. cuts' \in 0 .. MaxCuts
    BY <2>1, CutsAssumption
  <2> QED
    BY <2>2 DEF CutAt
<1>2. GoodDisk' /\ Gained /\ Lost /\ Damage
  <2>1. CASE disk' = CutSuperBlock
    <3>1. CountOK(sBlock) /\ sBlock.numInodes = NumInodes
      BY DEF CrashInv, Edited
    <3>2. Mounted
      BY <3>1, SlotFacts DEF CountOK, Mounted
    <3> QED
      BY <2>1, <3>2, CutBlockDisk, SameInodes
  <2>2. CASE \E k \in 0 .. sb.numInodes - 2, padded \in BOOLEAN :
               disk' = CutFlush(sb, t, k, padded)
    <3>1. PICK k \in 0 .. sb.numInodes - 2, padded \in BOOLEAN :
            disk' = CutFlush(sb, t, k, padded)
      BY <2>2
    <3>2. sb.numInodes = NumInodes
      BY DEF Edited
    <3>3. k \in Slots /\ k # NumInodes - 1
      BY <3>2, SlotFacts DEF Slots
    <3> DEFINE pads == IF padded THEN {k} ELSE {}
    <3>4. pads = {} \/ pads = {k}
      OBVIOUS
    <3>5. disk' = [touched |-> TRUE, sBlock |-> sb,
                   inodes |-> [j \in Slots |->
                       IF j < k THEN t[j]
                       ELSE IF j \in pads THEN PadFCB ELSE disk.inodes[j]]]
      <4>1. CASE padded
        BY <3>1, <4>1 DEF CutFlush
      <4>2. CASE ~padded
        BY <3>1, <4>2 DEF CutFlush
      <4> QED
        BY <4>1, <4>2
    <3> HIDE DEF pads
    <3>6. NumInodes - 1 \notin pads
      BY <3>3, <3>4
    <3> QED
      BY <3>3, <3>4, <3>5, <3>6, MixedDisk
  <2> QED
    BY <2>1, <2>2 DEF CutAt
<1> QED
  BY <1>1, <1>2, CrashEnds DEF Step

------------------------------------------------------------------------------
(***************************************************************************)
(* One case per operation.                                                 *)
(***************************************************************************)
(* Replies are numbers, and leave up alone. *)
LEMMA CrashReplies ==
    ASSUME CrashInv
    PROVE  /\ \A e \in Int : Reply(e) => ret' \in Int /\ errno' \in Int /\ up' = up
           /\ Reply(0) => ret' \in Int /\ errno' \in Int /\ up' = up
           /\ Fail(ENOENT) => ret' \in Int /\ errno' \in Int /\ up' = up
<1>1. errno \in Int
  BY DEF CrashInv, CrashTypeOK
<1>2. 0 \in Int /\ ENOENT \in Int /\ -ENOENT \in Int
  BY DEF ENOENT
<1> QED
  BY <1>1, <1>2 DEF Reply, Fail

(* create_inode as a whole, and cut in its flush. *)
LEMMA CreateCrashStep ==
    ASSUME CrashInv, up, NEW path \in pending, NEW mode \in Nat,
           pending' = pending \ {path}, create_inode(path, mode), Reply(0),
           cuts' = cuts
    PROVE  Step
<1>1. PICK i \in Slots, p \in findParent(path) :
        /\ FreeInode(i)
        /\ inodes' = Linked(p, i, path, mode)
        /\ sBlock' = [sBlock EXCEPT !.ibmap[i] = 1]
        /\ disk' = flushAllInodesTodisk(sBlock', inodes')
  BY DEF create_inode
<1>2. Edited(inodes', sBlock')
  BY <1>1, CreateEdits
<1>3. path \in Paths /\ PendingAbsent /\ pending' \subseteq Paths
  BY DEF CrashInv, CrashTypeOK
<1>4. /\ inodes'[i].fileName = relativeName(path)
      /\ inodes'[i].parentDir = getRelativeParentName(path)
      /\ \A j \in Slots \ {i} : /\ inodes'[j].fileName = inodes[j].fileName
                              /\ inodes'[j].parentDir = inodes[j].parentDir
  BY <1>1, <1>3, CrashMemory, WildParent, WildLinked
<1>5. PendingAbsent'
  <2> SUFFICES ASSUME NEW q \in pending', ~HasAlias(q),
                      NEW j \in 0 .. sBlock'.numInodes - 1
               PROVE  ~Carries(j, q)'
    BY DEF PendingAbsent
  <2>1. sBlock'.numInodes = sBlock.numInodes /\ j \in Slots
    BY <1>2 DEF Edited, Slots
  <2>2. CASE j = i
    BY <1>3, <1>4, <2>2 DEF Carries, HasAlias, SameNames
  <2>3. CASE j # i
    BY <1>3, <1>4, <2>1, <2>3 DEF Carries, PendingAbsent
  <2> QED
    BY <2>2, <2>3
<1> QED
  BY <1>1, <1>2, <1>3, <1>5, CrashReplies, EditStep

(* A kill inside the flush of sfs_create or sfs_mkdir keeps the invariant: the
   request changed the name of one inode only. *)
LEMMA CutCreateStep ==
    ASSUME CrashInv, NEW path \in Paths, NEW mode \in Nat, CutCreate(path, mode)
    PROVE  Step
<1>1. up /\ path \in pending
  BY DEF CutCreate
<1>2. PICK i \in Slots, p \in findParent(path) :
        /\ FreeInode(i)
        /\ CutAt([sBlock EXCEPT !.ibmap[i] = 1], Linked(p, i, path, mode))
  BY DEF CutCreate
<1> DEFINE t == Linked(p, i, path, mode)
           sb == [sBlock EXCEPT !.ibmap[i] = 1]
<1>3. Edited(t, sb) /\ CutAt(sb, t)
  BY <1>1, <1>2, CreateEdits
<1> HIDE DEF t, sb
<1> QED
  BY <1>1, <1>3, CutStep

(* The lookup in front of a create or mkdir. *)
LEMMA LookupToCreateCrashStep ==
    ASSUME CrashInv, NEW path \in Paths, LookupToCreate(path), cuts' = cuts
    PROVE  Step
<1>1. /\ UNCHANGED tableVars /\ up /\ up' = up /\ errno' = errno /\ ret' = -ENOENT
      /\ pending' = pending \cup {path}
      /\ findFileOrDir(path) = {}
  BY AbsentPath DEF LookupToCreate, Reply, IsAbsent
<1>2. sBlock.numInodes \in Nat
  BY SlotFacts DEF CrashInv, CrashTypeOK, SuperBlock
<1>3. \A j \in 0 .. sBlock.numInodes - 1 : ~Carries(j, path)
  BY <1>1, <1>2, AbsentFacts
<1>4. PendingAbsent /\ pending \subseteq Paths /\ errno \in Int
  BY DEF CrashInv, CrashTypeOK
<1>5. PendingAbsent'
  BY <1>1, <1>3, <1>4 DEF PendingAbsent, Carries, tableVars
<1>6. pending' \subseteq Paths /\ errno' \in Int /\ ret' \in Int
  BY <1>1, <1>4 DEF ENOENT
<1> QED
  BY <1>1, <1>5, <1>6, QuietCrashStep

(* create and mkdir, and the lookup in front of them. *)
LEMMA OtherStep ==
    ASSUME CrashInv, NEW path \in Paths, OtherRequest(path), cuts' = cuts
    PROVE  Step
<1>1. ASSUME NEW mode \in CreateModes, sfs_create(path, mode) PROVE Step
  <2>1. up /\ path \in pending /\ pending' = pending \ {path} /\ mode \in Nat
    BY <1>1, ModesAssumption DEF sfs_create
  <2>2. CASE create_inode(path, mode) /\ Reply(0)
    BY <2>1, <2>2, CreateCrashStep
  <2>3. CASE Reply(-errno) /\ UNCHANGED tableVars
    <3>1. -errno \in Int
      BY DEF CrashInv, CrashTypeOK
    <3> QED
      BY <2>1, <2>3, <3>1, CrashReplies, IdleCrashStep
  <2> QED
    BY <1>1, <2>2, <2>3 DEF sfs_create
<1>2. ASSUME NEW mode \in MkdirModes, sfs_mkdir(path, mode) PROVE Step
  <2>1. /\ up /\ path \in pending /\ pending' = pending \ {path}
        /\ S_IFDIR \in Nat /\ Reply(0)
    BY <1>2 DEF sfs_mkdir, S_IFDIR
  <2>2. CASE create_inode(path, S_IFDIR)
    BY <2>1, <2>2, CreateCrashStep
  <2>3. CASE UNCHANGED tableVars
    BY <2>1, <2>3, CrashReplies, IdleCrashStep
  <2> QED
    BY <1>2, <2>2, <2>3 DEF sfs_mkdir
<1> QED
  BY <1>1, <1>2, LookupToCreateCrashStep DEF OtherRequest

(* unlink and rmdir that follow no wild pointer. *)
LEMMA TameRemoveStep ==
    ASSUME CrashInv, NEW path \in Paths, TameRemove(path), cuts' = cuts
    PROVE  Step
<1>1. up /\ RemoveRequest(path) /\ UNCHANGED pending
  BY DEF TameRemove, sfs_unlink, sfs_rmdir
<1>2. CASE remove_inode(path) /\ Reply(0)
  <2>1. PICK f \in findFileOrDir(path) :
          /\ inodes' = [inodes EXCEPT ![getParentFcb(f)].dirContents =
                            remove_from_direntry(getParentFcb(f), f)]
          /\ sBlock' = [sBlock EXCEPT !.ibmap[inodes[f].inumber] = 0]
          /\ disk' = flushAllInodesTodisk(sBlock', inodes')
    BY <1>2 DEF remove_inode
  <2>2. ~FollowsWild(f)
    BY DEF TameRemove
  <2>3. Edited(inodes', sBlock')
    BY <2>1, <2>2, RemoveEdits
  <2>4. PendingAbsent /\ pending \subseteq Paths /\ inodes \in [Slots -> WildFCB]
    BY DEF CrashInv, CrashTypeOK
  <2>5. \A j \in Slots : /\ inodes'[j].fileName = inodes[j].fileName
                        /\ inodes'[j].parentDir = inodes[j].parentDir
    <3> DEFINE q == getParentFcb(f)
               e == remove_from_direntry(q, f)
    <3>1. inodes' = [inodes EXCEPT ![q].dirContents = e]
      BY <2>1
    <3> HIDE DEF q, e
    <3> QED
      BY <2>4, <3>1 DEF WildFCB
  <2>6. PendingAbsent'
    BY <1>1, <2>3, <2>4, <2>5 DEF PendingAbsent, Carries, Edited, Slots
  <2> QED
    BY <1>1, <1>2, <2>1, <2>3, <2>4, <2>6, CrashReplies, EditStep
<1>3. CASE Fail(ENOENT) /\ UNCHANGED tableVars
  BY <1>1, <1>3, CrashReplies, IdleCrashStep
<1> QED
  BY <1>1, <1>2, <1>3 DEF RemoveRequest

(* A kill inside the flush of sfs_unlink or sfs_rmdir keeps the invariant, for
   the same reason. *)
LEMMA CutRemoveStep ==
    ASSUME CrashInv, NEW path \in Paths, CutRemove(path)
    PROVE  Step
<1>1. PICK f \in findFileOrDir(path) :
        /\ ~FollowsWild(f)
        /\ CutAt([sBlock EXCEPT !.ibmap[inodes[f].inumber] = 0],
                 [inodes EXCEPT ![getParentFcb(f)].dirContents =
                      remove_from_direntry(getParentFcb(f), f)])
  BY DEF CutRemove
<1> DEFINE t == [inodes EXCEPT ![getParentFcb(f)].dirContents =
                     remove_from_direntry(getParentFcb(f), f)]
           sb == [sBlock EXCEPT !.ibmap[inodes[f].inumber] = 0]
<1>2. up /\ Edited(t, sb) /\ CutAt(sb, t)
  BY <1>1, RemoveEdits DEF CutRemove, Removable
<1> HIDE DEF t, sb
<1> QED
  BY <1>2, CutStep

(* readdir. *)
LEMMA ListCrashStep ==
    ASSUME CrashInv, NEW path, ListRequest(path), cuts' = cuts
    PROVE  Step
<1>1. CASE sfs_readdir(path)
  <2>1. -1 \in Int /\ 0 \in Int
    OBVIOUS
  <2>2. ret' \in Int /\ errno' \in Int /\ up' = up
    BY <1>1, <2>1, CrashReplies DEF sfs_readdir
  <2> QED
    BY <1>1, <2>2, IdleCrashStep DEF sfs_readdir
<1>2. CASE ReaddirFaults(path)
  BY <1>2, CrashReplies, IdleCrashStep, KilledCrashStep DEF ReaddirFaults
<1> QED
  BY <1>1, <1>2 DEF ListRequest

(* sfs_destroy, whole and cut. *)
LEMMA DestroyCrashStep ==
    ASSUME CrashInv, sfs_destroy, cuts' = cuts
    PROVE  Step
<1>1. disk' = disk
  BY IdleFlush DEF CrashInv, CrashTypeOK, sfs_destroy
<1> QED
  BY <1>1, KilledCrashStep DEF sfs_destroy

(* A kill inside the flush of sfs_destroy keeps the invariant: that flush writes
   the table the disk already holds. *)
LEMMA CutDestroyStep ==
    ASSUME CrashInv, CutDestroy
    PROVE  Step
<1>1. /\ up /\ sBlock.inodeStartIndex # 0 /\ CutAt(sBlock, inodes)
      /\ sBlock \in SuperBlock /\ Mounted
  BY DEF CutDestroy, CrashInv, CrashTypeOK, Mounted
<1>2. CASE sBlock.numInodes = NumInodes
  <2>1. Changes(inodes, 0, 0)
    BY DEF Changes
  <2>2. Edited(inodes, sBlock)
    BY <1>1, <1>2, <2>1, SlotFacts DEF Edited, CrashInv, CrashTypeOK
  <2> QED
    BY <1>1, <2>2, CutStep
<1>3. CASE sBlock.numInodes = 0
  <2>1. \A k \in 0 .. sBlock.numInodes - 2 : FALSE
    BY <1>3
  <2>2. disk' = CutSuperBlock /\ ProcessEnds /\ cuts < MaxCuts /\ cuts' = cuts + 1
    BY <1>1, <2>1 DEF CutAt
  <2>3. cuts' \in 0 .. MaxCuts
    BY <2>2, CutsAssumption DEF CrashInv, CrashTypeOK
  <2> QED
    BY <1>1, <2>2, <2>3, CutBlockDisk, SameInodes, CrashEnds DEF Step
<1> QED
  BY <1>1, <1>2, <1>3 DEF SuperBlock

(* A disk without entries before and after. *)
LEMMA NoEntries ==
    ASSUME ~up, disk = EmptyDisk,
           \A p \in Slots : DiskChildren(p)' = {}
    PROVE  Gained /\ Lost /\ Damage
<1>1. \A p \in Slots : DiskChildren(p) = {}
  BY NewTableFacts DEF DiskChildren, EmptyDisk
<1> QED
  BY <1>1 DEF Gained, Lost, Damage

(* formatDisk, cut. *)
LEMMA CutFormatStep ==
    ASSUME CrashInv, CutFormat
    PROVE  Step
<1>1. /\ ~up /\ disk = EmptyDisk /\ cuts < MaxCuts /\ cuts' = cuts + 1
      /\ inodes' = inodes /\ sBlock' = sBlock /\ up' = up
      /\ errno' = errno /\ ret' = ret /\ pending' = pending
  BY DEF CutFormat, CrashInv, UntouchedEmpty
<1>2. PICK sb \in {PadSuperBlock, FormattedSuperBlock(0)}, root \in {BlankFCB, PadFCB} :
        disk' = [touched |-> TRUE, sBlock |-> sb,
                 inodes |-> [BlankTable EXCEPT ![0] = root]]
  BY DEF CutFormat
<1> DEFINE u == [BlankTable EXCEPT ![0] = root]
<1>3. /\ root \in WildFCB /\ root.fileName \notin Names
      /\ root.inumber \in {0, PAD_SHORT} /\ TailRule(root.dirContents)
      /\ Children(root.dirContents) \subseteq {WILD}
  <2>1. CASE root = BlankFCB
    BY <2>1, BlankFacts, FCBIsWild, InitFacts, NoChildren
  <2>2. CASE root = PadFCB
    BY <2>2, PadFacts DEF Children
  <2> QED
    BY <2>1, <2>2
<1>4. \A j \in Slots : u[j] = IF j = 0 THEN root ELSE BlankFCB
  BY SlotFacts DEF BlankTable
<1>5. u \in [Slots -> WildFCB]
  BY <1>3, NewTableFacts
<1> HIDE DEF u
<1>6. \A j \in Slots : ~Named(u, j)
  BY <1>3, <1>4, BlankFacts DEF Named
<1>7. WildTableInv(u)
  <2>1. Numbered(u)
    BY <1>3, <1>4, <1>6, BlankFacts DEF Numbered
  <2>2. NamesDistinct(u)
    BY <1>6, PathFacts DEF NamesDistinct, HasNames, Named
  <2>3. TailRules(u)
    BY <1>3, <1>4, BlankFacts, InitFacts DEF TailRules
  <2> QED
    BY <2>1, <2>2, <2>3 DEF WildTableInv
<1>8. sb \in SuperBlock \cup {PadSuperBlock} /\ CountOK(sb)
  BY FormattedFacts, PadFacts DEF TableInv
<1>9. /\ disk' \in WildDiskType /\ disk'.touched = TRUE
      /\ disk'.sBlock = sb /\ disk'.inodes = u
  BY <1>2, <1>5, <1>8 DEF WildDiskType, u
<1>10. u[NumInodes - 1] = BlankFCB
  BY <1>4, SlotFacts
<1>11. \A p \in Slots : DiskChildren(p)' = {}
  BY <1>3, <1>4, <1>9, BlankFacts, NoChildren DEF DiskChildren
<1>12. Gained /\ Lost /\ Damage
  BY <1>1, <1>11, NoEntries
<1>13. CrashTypeOK'
  <2>1. cuts' \in 0 .. MaxCuts
    BY <1>1, CutsAssumption DEF CrashInv, CrashTypeOK
  <2> QED
    BY <1>1, <1>9, <2>1 DEF CrashInv, CrashTypeOK, WildDiskType
<1>14. DiskCurrent' /\ PendingAbsent'
  BY <1>1 DEF DiskCurrent, Mounted, PendingAbsent, CrashInv
<1> QED
  BY <1>1, <1>7, <1>8, <1>9, <1>10, <1>12, <1>13, <1>14
     DEF CrashInv, Step, UntouchedEmpty

(* The mounts that survive the load loop. *)
LEMMA MountCrashStep ==
    ASSUME CrashInv, CrashMount, cuts' = cuts
    PROVE  Step
<1>1. ~up /\ up' = TRUE /\ pending' = {}
  BY DEF CrashMount, MountEmpty, MountTouched, MountReadError, CrashInv
<1>2. /\ up' \in BOOLEAN /\ cuts' \in 0 .. MaxCuts
      /\ pending' \subseteq Paths /\ PendingAbsent'
  BY <1>1 DEF CrashInv, CrashTypeOK, PendingAbsent
<1>3. errno' \in Int /\ ret' \in Int
  BY DEF CrashInv, CrashTypeOK, CrashMount, MountEmpty, MountTouched,
         MountReadError, EIO
<1>4. CASE MountEmpty
  <2>1. disk = EmptyDisk
    BY <1>4 DEF MountEmpty, CrashInv, UntouchedEmpty
  <2>2. /\ sBlock' = FormattedSuperBlock(0)
        /\ inodes' = FormattedTable
        /\ disk' = FormattedDisk(0)
    BY <1>4, EmptyFileHasNoRoom DEF MountEmpty, formatDisk
  <2>3. /\ disk'.touched = TRUE /\ disk'.sBlock = sBlock'
        /\ disk'.inodes = inodes'
    BY <2>2 DEF FormattedDisk
  <2>4. /\ inodes' \in [Slots -> WildFCB] /\ WildTableInv(inodes')
        /\ sBlock' \in SuperBlock /\ CountOK(sBlock')
        /\ inodes'[NumInodes - 1] = BlankFCB
    BY <2>2, NewTableFacts, FormattedFacts DEF TableInv
  <2>5. disk' \in WildDiskType
    BY <2>2, <2>4 DEF FormattedDisk, WildDiskType
  <2>6. \A p \in Slots : DiskChildren(p)' = {}
    BY <2>2, <2>3, NewTableFacts DEF DiskChildren
  <2>7. Gained /\ Lost /\ Damage
    BY <1>1, <2>1, <2>6, NoEntries
  <2>8. CrashTypeOK'
    BY <1>2, <1>3, <2>4, <2>5 DEF CrashTypeOK, WildDiskType
  <2>9. DiskCurrent'
    BY <2>3 DEF DiskCurrent
  <2> QED
    BY <1>1, <1>2, <2>3, <2>4, <2>7, <2>8, <2>9 DEF CrashInv, Step, UntouchedEmpty
<1>5. CASE disk.sBlock # PadSuperBlock /\ MountTouched
  <2>1. disk' = disk /\ sBlock' = disk.sBlock /\ disk.touched
        /\ inodes' = [i \in Slots |-> IF i < disk.sBlock.numInodes
                                      THEN disk.inodes[i] ELSE BlankFCB]
    BY <1>5 DEF MountTouched, loadDisk
  <2>2. disk.sBlock \in SuperBlock /\ disk.inodes \in [Slots -> WildFCB]
    BY <1>5 DEF CrashInv, CrashTypeOK
  <2>3. inodes' \in [Slots -> WildFCB] /\ WildTableInv(inodes')
        /\ \A i \in 0 .. sBlock'.numInodes - 2 : disk'.inodes[i] = inodes'[i]
    <3>1. CASE disk.sBlock.numInodes = NumInodes
      <4>1. inodes' = disk.inodes
        BY <2>1, <2>2, <3>1, SlotFacts
      <4> QED
        BY <2>1, <2>2, <4>1 DEF CrashInv
    <3>2. CASE disk.sBlock.numInodes = 0
      <4>1. inodes' = BlankTable
        BY <2>1, <3>2, SlotFacts DEF BlankTable
      <4>2. \A i \in 0 .. sBlock'.numInodes - 2 : FALSE
        BY <2>1, <3>2
      <4> QED
        BY <4>1, <4>2, NewTableFacts
    <3> QED
      BY <2>2, <3>1, <3>2 DEF SuperBlock
  <2>4. CrashTypeOK'
    BY <1>2, <1>3, <2>1, <2>2, <2>3 DEF CrashInv, CrashTypeOK
  <2>5. DiskCurrent'
    BY <2>1, <2>3 DEF DiskCurrent
  <2> QED
    BY <1>1, <1>2, <2>1, <2>3, <2>4, <2>5, SameInodes DEF CrashInv, Step, UntouchedEmpty
<1>6. CASE MountReadError
  <2>1. inodes' = inodes /\ sBlock' = sBlock /\ disk' = disk
    BY <1>6 DEF MountReadError, tableVars
  <2>2. sBlock'.inodeStartIndex = 0
    BY <1>1, <2>1, BlankTableFacts DEF CrashInv
  <2>3. CrashTypeOK'
    BY <1>2, <1>3, <2>1 DEF CrashInv, CrashTypeOK
  <2>4. DiskCurrent'
    BY <2>2 DEF DiskCurrent, Mounted
  <2> QED
    BY <1>1, <1>2, <2>1, <2>3, <2>4, SameInodes DEF CrashInv, Step, UntouchedEmpty
<1> QED
  BY <1>4, <1>5, <1>6 DEF CrashMount

(***************************************************************************)
(* The disk files a mount can meet satisfy the invariant, and every step   *)
(* keeps it.                                                               *)
(***************************************************************************)
LEMMA InitCrash == CrashInit => CrashInv
<1> SUFFICES ASSUME CrashInit PROVE CrashInv
  OBVIOUS
<1>1. /\ up = FALSE /\ inodes = BlankTable /\ sBlock = BlankSuperBlock
      /\ errno = 0 /\ ret = 0 /\ pending = {} /\ cuts = 0 /\ Init
  BY DEF CrashInit, Init
<1>2. IInv
  BY <1>1, InitIInv
<1>3. disk.inodes = BlankTable \/ disk.inodes = FormattedTable
  BY <1>1 DEF Init, InitialDisks, EmptyDisk, ZeroDisk, FormattedDisk
<1>4. /\ inodes \in [Slots -> WildFCB] /\ WildTableInv(inodes)
      /\ disk.inodes \in [Slots -> WildFCB] /\ WildTableInv(disk.inodes)
  BY <1>1, <1>3, NewTableFacts
<1>5. /\ CountOK(sBlock) /\ CountOK(disk.sBlock) /\ sBlock \in SuperBlock
      /\ disk \in DiskType
  BY <1>2 DEF IInv, TypeOK, TableInv, DiskType
<1>6. disk \in WildDiskType
  BY <1>4, <1>5 DEF DiskType, WildDiskType
<1>7. CrashTypeOK
  <2>1. up \in BOOLEAN /\ pending \subseteq Paths
    BY <1>1
  <2>2. errno \in Int /\ ret \in Int /\ cuts \in 0 .. MaxCuts
    BY <1>1, CutsAssumption
  <2> QED
    BY <1>4, <1>5, <1>6, <2>1, <2>2 DEF CrashTypeOK, WildDiskType
<1> QED
  BY <1>1, <1>2, <1>4, <1>5, <1>7 DEF IInv, CrashInv

(* Every step keeps the crash invariant. *)
LEMMA NextCrash == CrashInv /\ [CrashNext]_crashVars => Step
<1> SUFFICES ASSUME CrashInv, [CrashNext]_crashVars PROVE Step
  OBVIOUS
<1>1. ASSUME NEW path \in Paths, OtherRequest(path) /\ UNCHANGED cuts
      PROVE  Step
  BY <1>1, OtherStep
<1>2. ASSUME NEW path \in Paths, TameRemove(path) /\ UNCHANGED cuts
      PROVE  Step
  BY <1>2, TameRemoveStep
<1>3. ASSUME NEW path, WildRemove(path) \/ WildReaddir(path)
      PROVE  Step
  BY <1>3, KilledCrashStep DEF WildRemove, WildReaddir
<1>4. ASSUME NEW path \in Paths, NEW mode \in CreateModes, CutCreate(path, mode)
      PROVE  Step
  BY <1>4, CutCreateStep, ModesAssumption
<1>5. ASSUME NEW path \in Paths, CutCreate(path, S_IFDIR)
      PROVE  Step
  <2>1. S_IFDIR \in Nat
    BY DEF S_IFDIR
  <2> QED
    BY <1>5, <2>1, CutCreateStep
<1>6. ASSUME NEW path \in Paths, CutRemove(path) PROVE Step
  BY <1>6, CutRemoveStep
<1>7. ASSUME NEW path, ListRequest(path) /\ UNCHANGED cuts PROVE Step
  BY <1>7, ListCrashStep
<1>8. CASE CrashMount /\ UNCHANGED cuts
  BY <1>8, MountCrashStep
<1>9. CASE sfs_destroy /\ UNCHANGED cuts
  BY <1>9, DestroyCrashStep
<1>10. CASE CutDestroy \/ CutFormat
  BY <1>10, CutDestroyStep, CutFormatStep
<1>11. CASE Kill /\ UNCHANGED cuts
  BY <1>11, KilledCrashStep DEF Kill
<1>12. CASE UNCHANGED crashVars
  <2>1. UNCHANGED tableVars /\ up' = up /\ errno' = errno /\ ret' = ret
        /\ cuts' = cuts /\ pending' = pending
    BY <1>12 DEF crashVars, tableVars
  <2> QED
    BY <2>1, IdleCrashStep DEF CrashInv, CrashTypeOK
<1> QED
  BY <1>1, <1>2, <1>3, <1>4, <1>5, <1>6, <1>7, <1>8, <1>9, <1>10, <1>11, <1>12
     DEF CrashNext

------------------------------------------------------------------------------
(***************************************************************************)
(* CrashInv is an invariant of the specification, however many flushes are *)
(* cut short.                                                              *)
(***************************************************************************)
THEOREM CrashInvariant == CrashSpec => []CrashInv
<1>1. CrashInv /\ [CrashNext]_crashVars => CrashInv'
  BY NextCrash DEF Step
<1> QED
  BY <1>1, InitCrash, PTL DEF CrashSpec

(***************************************************************************)
(* On any disk that cut flushes leave, too, findFileOrDir has one inode to *)
(* choose from at most for a path that shares its last two names with no   *)
(* other, though the lookup and the create are two requests.               *)
(***************************************************************************)
THEOREM CrashLookupUnambiguous == CrashSpec => []NamesUnambiguous
<1>1. CrashInv => NamesUnambiguous
  BY DEF CrashInv, WildTableInv, NamesDistinct, HasNames, Carries, NamesUnambiguous
<1> QED
  BY <1>1, CrashInvariant, PTL

(***************************************************************************)
(* indexed_remove_from_direntry stays inside dirContents, on arrays of '0' *)
(* characters and on old and new arrays that a cut flush has mixed, too.   *)
(***************************************************************************)
THEOREM CrashScanSafe == CrashSpec => []ScanInBounds
<1>1. CrashInv => ScanInBounds
  BY LastEntryIsLastIndex DEF CrashInv, WildTableInv, TailRules, ScanInBounds
<1> QED
  BY <1>1, CrashInvariant, PTL

(***************************************************************************)
(* A process that serves a disk, damaged or not, has on it what it has in  *)
(* memory, but for the last inode.                                         *)
(***************************************************************************)
THEOREM CrashDiskStaysCurrent == CrashSpec => []DiskCurrent
<1>1. CrashInv => DiskCurrent
  BY DEF CrashInv
<1> QED
  BY <1>1, CrashInvariant, PTL

(***************************************************************************)
(* flushAllInodesTodisk writes the superblock first: an entry that reaches *)
(* the disk is for an inode whose bit the disk has set.                    *)
(***************************************************************************)
THEOREM NoEntryBeforeItsBit == CrashSpec => GainedIsAllocated
<1>1. CrashInv /\ [CrashNext]_crashVars => Gained
  BY NextCrash DEF Step
<1>2. CrashSpec => [][Gained]_crashVars
  BY <1>1, CrashInvariant, PTL DEF CrashSpec
<1> QED
  BY <1>2 DEF GainedIsAllocated, Gained

(***************************************************************************)
(* An entry that leaves the disk is for an inode whose bit the disk has    *)
(* clear, or goes with the one inode that a cut leaves as '0' characters.  *)
(***************************************************************************)
THEOREM NoBitWithoutItsEntry == CrashSpec => LostIsFree
<1>1. CrashInv /\ [CrashNext]_crashVars => Lost
  BY NextCrash DEF Step
<1>2. CrashSpec => [][Lost]_crashVars
  BY <1>1, CrashInvariant, PTL DEF CrashSpec
<1> QED
  BY <1>2 DEF LostIsFree, Lost

(***************************************************************************)
(* The end of a process, in the middle of a flush or not, changes the two  *)
(* inodes of the request it interrupts and leaves one as '0' characters,   *)
(* at most: the flush writes all inodes, the rest with what is there.      *)
(***************************************************************************)
THEOREM DamageStaysLocal == CrashSpec => DamageIsLocal
<1>1. CrashInv /\ [CrashNext]_crashVars => Damage
  BY NextCrash DEF Step
<1>2. CrashSpec => [][Damage]_crashVars
  BY <1>1, CrashInvariant, PTL DEF CrashSpec
<1> QED
  BY <1>2 DEF DamageIsLocal, Damage
==============================================================================
