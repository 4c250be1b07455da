----------------------------- MODULE TableProofs -----------------------------
(***************************************************************************)
(* The operations on the inode table keep TableInv: what create_inode,     *)
(* remove_inode and the flush do to a table that satisfies it.             *)
(***************************************************************************)
EXTENDS SfsInvariant, DirContentsProofs, TableFacts, FiniteSetTheorems

(* What the actions below start from: a typed, consistent table. *)
MemoryOK ==
    /\ inodes \in [Slots -> FCB]
    /\ sBlock \in SuperBlock
    /\ TableInv(inodes, sBlock)

(***************************************************************************)
(* What findFileOrDir finds for a path carries a file name.                *)
(***************************************************************************)
LEMMA FoundFacts ==
    ASSUME MemoryOK, NEW path \in Paths, NEW f \in findFileOrDir(path)
    PROVE  /\ f \in Slots /\ f # 0
           /\ Named(inodes, f)
           /\ inodes[f].inumber = f
           /\ inodes[f].parent_inumber \in Slots
           /\ sBlock.numInodes = NumInodes
<1>1. path # <<>> /\ relativeName(path) \in Names
  BY PathFacts
<1>2. f \in 0 .. sBlock.numInodes - 1 /\ Carries(f, path)
  BY <1>1 DEF findFileOrDir
<1>3. sBlock.numInodes \in {0, NumInodes}
  BY DEF MemoryOK, SuperBlock
<1>4. f \in Slots /\ sBlock.numInodes = NumInodes
  BY <1>2, <1>3, SlotFacts DEF Slots
<1>5. Named(inodes, f)
  BY <1>1, <1>2 DEF Carries, Named
<1> QED
  BY <1>4, <1>5 DEF MemoryOK, TableInv, NamedNumbered

(***************************************************************************)
(* The parent create_inode finds has its own index as inumber, and is "/"  *)
(* or carries a file name.                                                 *)
(***************************************************************************)
LEMMA ParentFacts ==
    ASSUME MemoryOK, NEW path \in Paths, NEW p \in findParent(path)
    PROVE  /\ p \in Slots
           /\ inodes[p].inumber = p
           /\ p = 0 \/ Named(inodes, p)
<1>1. CASE ParentPath(path) = <<>>
  BY <1>1, SlotFacts DEF findParent, findFileOrDir, MemoryOK, TableInv, NamedNumbered
<1>2. CASE ParentPath(path) \in Paths
  BY <1>2, FoundFacts DEF findParent
<1> QED
  BY <1>1, <1>2, PathFacts

(***************************************************************************)
(* If findFileOrDir finds nothing, no inode it looks at carries the names  *)
(* of the path: of those that did, it would find the first.                *)
(***************************************************************************)
LEMMA AbsentFacts ==
    ASSUME NEW path \in Paths, findFileOrDir(path) = {},
           sBlock.numInodes \in Nat
    PROVE  \A j \in 0 .. sBlock.numInodes - 1 : ~Carries(j, path)
<1> DEFINE T == {j \in 0 .. sBlock.numInodes - 1 : Carries(j, path)}
<1> SUFFICES ASSUME T # {} PROVE FALSE
  OBVIOUS
<1>1. path # <<>>
  BY PathFacts
<1>2. T \subseteq Nat
  OBVIOUS
<1>3. PICK i \in T : \A j \in T : ~(j < i)
  <2> HIDE DEF T
  <2> QED
    BY <1>2, FirstIndex
<1>4. \A j \in 0 .. i - 1 : j \in 0 .. sBlock.numInodes - 1 /\ j < i
  BY <1>2
<1>5. \A j \in 0 .. i - 1 : ~Carries(j, path)
  BY <1>3, <1>4
<1>6. i \in findFileOrDir(path)
  BY <1>1, <1>3, <1>5 DEF findFileOrDir
<1> QED
  BY <1>6

------------------------------------------------------------------------------
(***************************************************************************)
(* create_inode.                                                           *)
(***************************************************************************)
(* What Linked changes, member by member. *)
LEMMA LinkedFields ==
    ASSUME MemoryOK, NEW path \in Paths, NEW mode \in Nat,
           NEW i \in Slots, NEW p \in Slots, inodes[p].inumber = p
    PROVE  LET t == Linked(p, i, path, mode)
               d == add_to_direntry(inodes[p].dirContents, i)
           IN  /\ t \in [Slots -> FCB]
               /\ t[i].fileName = relativeName(path)
               /\ t[i].parentDir = getRelativeParentName(path)
               /\ t[i].inumber = i
               /\ t[i].parent_inumber = p
               /\ t[p].dirContents = d
               /\ \A j \in Slots \ {i} :
                    /\ t[j].fileName = inodes[j].fileName
                    /\ t[j].parentDir = inodes[j].parentDir
                    /\ t[j].inumber = inodes[j].inumber
                    /\ t[j].parent_inumber = inodes[j].parent_inumber
               /\ \A j \in Slots \ {p} : t[j].dirContents = inodes[j].dirContents
               /\ \A j \in Slots \ {i, p} : t[j] = inodes[j]
<1> DEFINE d == add_to_direntry(inodes[p].dirContents, i)
           t == Linked(p, i, path, mode)
           w == [inodes EXCEPT ![p].dirContents = d]
           b == [w EXCEPT ![i].inumber = i]
<1>1. inodes \in [Slots -> FCB] /\ TailRule(inodes[p].dirContents)
  BY DEF MemoryOK, TableInv, TailRules
<1>2. d \in [Idx -> Entries]
  <2>1. inodes[p].dirContents \in [Idx -> Entries]
    BY <1>1 DEF FCB
  <2> QED
    BY <2>1, <1>1, SlotFacts, AddFacts DEF Entries
<1> HIDE DEF d
<1>3. /\ w \in [Slots -> FCB]
      /\ w[p].dirContents = d
      /\ \A j \in Slots : /\ w[j].fileName = inodes[j].fileName
                          /\ w[j].parentDir = inodes[j].parentDir
                          /\ w[j].inumber = inodes[j].inumber
                          /\ w[j].parent_inumber = inodes[j].parent_inumber
      /\ \A j \in Slots \ {p} : w[j] = inodes[j]
  BY <1>1, <1>2 DEF FCB
<1> HIDE DEF w
<1>4. /\ b \in [Slots -> FCB]
      /\ b[i].inumber = i /\ b[i].dirContents = w[i].dirContents
      /\ \A j \in Slots \ {i} : b[j] = w[j]
      /\ b[p].inumber = p
  <2> DEFINE r == [w[i] EXCEPT !.inumber = i]
  <2>1. w[i] \in FCB /\ w[p].inumber = p
    BY <1>3
  <2>2. r \in FCB /\ r.inumber = i /\ r.dirContents = w[i].dirContents
    BY <2>1 DEF FCB
  <2> HIDE DEF r
  <2>3. b = [w EXCEPT ![i] = r]
    BY DEF r
  <2> QED
    BY <1>3, <2>1, <2>2, <2>3
<1>5. t = [b EXCEPT ![i].fileName = relativeName(path),
                    ![i].parentDir = getRelativeParentName(path),
                    ![i].mode = ToShort(mode),
                    ![i].parent_inumber = b[p].inumber]
  BY DEF Linked, w, d
<1> HIDE DEF b, t
<1>6. PICK m \in SHRT_MIN .. SHRT_MAX : ToShort(mode) = m
  BY ToShortRange
<1>7. PICK fn \in NameField, pn \in NameField :
        relativeName(path) = fn /\ getRelativeParentName(path) = pn
  BY PathFacts DEF NameField
<1>8. p \in ParentNumber /\ b[i] \in FCB
  BY <1>4 DEF ParentNumber
<1> DEFINE r == [b[i] EXCEPT !.fileName = fn, !.parentDir = pn, !.mode = m,
                            !.parent_inumber = p]
<1>9. /\ r \in FCB /\ r.fileName = fn /\ r.parentDir = pn
      /\ r.inumber = b[i].inumber /\ r.parent_inumber = p
      /\ r.dirContents = b[i].dirContents
  BY <1>8 DEF FCB
<1> HIDE DEF r
<1>10. t = [b EXCEPT ![i] = r]
  BY <1>4, <1>5, <1>6, <1>7 DEF r
<1>11. t \in [Slots -> FCB]
  BY <1>4, <1>10, <1>9
<1>12. /\ t[i].fileName = relativeName(path)
      /\ t[i].parentDir = getRelativeParentName(path)
      /\ t[i].inumber = i /\ t[i].parent_inumber = p
      /\ t[i].dirContents = b[i].dirContents
      /\ \A j \in Slots \ {i} : t[j] = b[j]
  BY <1>4, <1>7, <1>10, <1>9
<1> QED
  BY <1>3, <1>4, <1>11, <1>12 DEF t, d
(***************************************************************************)
(* create_inode keeps the table consistent, if no inode carries the names  *)
(* of the path, or the path has an alias.  The inode it takes is free, so  *)
(* no entry points at it, and the parent gets at most one entry for it.    *)
(* What else is absent stays absent.                                       *)
(***************************************************************************)
LEMMA CreateKeepsTable ==
    ASSUME MemoryOK, NEW path \in Paths, NEW mode \in Nat,
           ~HasAlias(path) =>
             \A j \in 0 .. sBlock.numInodes - 1 : ~Carries(j, path),
           create_inode(path, mode)
    PROVE  /\ MemoryOK'
           /\ sBlock'.numInodes = NumInodes /\ sBlock'.inodeStartIndex # 0
           /\ sBlock'.numInodes = sBlock.numInodes
           /\ sBlock'.inodeStartIndex = sBlock.inodeStartIndex
           /\ disk' = flushAllInodesTodisk(sBlock', inodes')
           /\ \A j \in Slots : sBlock.ibmap[j] = 1 =>
                /\ inodes'[j].fileName = inodes[j].fileName
                /\ inodes'[j].parentDir = inodes[j].parentDir
           /\ \A q \in Paths \ {path}, j \in Slots :
                ~HasAlias(q) /\ ~Carries(j, q) => ~Carries(j, q)'
<1>1. PICK i \in Slots, p \in findParent(path) :
        /\ FreeInode(i)
        /\ inodes' = Linked(p, i, path, mode)
        /\ sBlock' = [sBlock EXCEPT !.ibmap[i] = 1]
        /\ disk' = flushAllInodesTodisk(sBlock', inodes')
  BY DEF create_inode
<1>2. /\ inodes \in [Slots -> FCB] /\ sBlock \in SuperBlock
      /\ NamedNumbered(inodes) /\ NamesDistinct(inodes) /\ TailRules(inodes)
      /\ EntriesOK(inodes, sBlock) /\ EntriesDistinct(inodes)
      /\ CountOK(sBlock)
  BY DEF MemoryOK, TableInv
<1>3. /\ p \in Slots /\ inodes[p].inumber = p
      /\ p = 0 \/ Named(inodes, p)
  BY ParentFacts
<1>4. i # 0 /\ sBlock.ibmap[i] # 1 /\ sBlock.numInodes = NumInodes
  BY <1>1, <1>2, SlotFacts DEF FreeInode, SuperBlock
<1>5. /\ sBlock' \in SuperBlock
      /\ sBlock'.numInodes = sBlock.numInodes
      /\ sBlock'.inodeStartIndex = sBlock.inodeStartIndex
      /\ sBlock'.ibmap[i] = 1
      /\ \A j \in Slots \ {i} : sBlock'.ibmap[j] = sBlock.ibmap[j]
  BY <1>1, <1>2 DEF SuperBlock
<1>6. sBlock'.numInodes = NumInodes /\ sBlock'.inodeStartIndex # 0
  BY <1>2, <1>4, <1>5, SlotFacts DEF CountOK
<1> DEFINE t == inodes'
           d == inodes[p].dirContents
           e == add_to_direntry(d, i)
<1>7. /\ t \in [Slots -> FCB]
      /\ t[i].fileName = relativeName(path)
      /\ t[i].parentDir = getRelativeParentName(path)
      /\ t[i].inumber = i
      /\ t[i].parent_inumber = p
      /\ t[p].dirContents = e
      /\ \A j \in Slots \ {i} :
            /\ t[j].fileName = inodes[j].fileName
            /\ t[j].parentDir = inodes[j].parentDir
            /\ t[j].inumber = inodes[j].inumber
            /\ t[j].parent_inumber = inodes[j].parent_inumber
      /\ \A j \in Slots \ {p} : t[j].dirContents = inodes[j].dirContents
      /\ \A j \in Slots \ {i, p} : t[j] = inodes[j]
  BY <1>1, <1>3, LinkedFields
<1>8. /\ d \in [Idx -> Entries] /\ e \in [Idx -> Entries]
      /\ TailRule(d) /\ TailRule(e)
      /\ \A k \in Idx : e[k] = d[k] \/ (d[k] = NULL /\ e[k] = i)
      /\ \A k, l \in Idx :
            d[k] = NULL /\ e[k] = i /\ d[l] = NULL /\ e[l] = i => k = l
  <2>1. d \in [Idx -> Entries]
    BY <1>2, <1>3 DEF FCB
  <2>2. TailRule(d)
    BY <1>2, <1>3 DEF TailRules
  <2>3. i \in Entries /\ i # NULL
    BY SlotFacts DEF Entries
  <2> HIDE DEF d
  <2> QED
    BY <2>1, <2>2, <2>3, AddFacts DEF e
<1>9. \A q \in Slots, k \in Idx : inodes[q].dirContents[k] # i
  <2> SUFFICES ASSUME NEW q \in Slots, NEW k \in Idx,
                      inodes[q].dirContents[k] = i
               PROVE  FALSE
    OBVIOUS
  <2> QED
    BY <1>2, <1>4, SlotFacts DEF EntriesOK, EntryOK
<1>10. \A q \in Slots, k \in Idx :
         \/ t[q].dirContents[k] = inodes[q].dirContents[k]
         \/ /\ q = p /\ inodes[q].dirContents[k] = NULL
            /\ t[q].dirContents[k] = i
  BY <1>7, <1>8
<1> HIDE DEF t, d, e
<1>11. relativeName(path) \in Names
  BY PathFacts
<1>12. NamedNumbered(t)
  BY <1>2, <1>3, <1>4, <1>7, SlotFacts DEF NamedNumbered, Named
<1>13. \A q \in Paths \ {path}, j \in Slots :
         ~HasAlias(q) /\ HasNames(t, j, q) => HasNames(inodes, j, q)
  <2> SUFFICES ASSUME NEW q \in Paths \ {path}, NEW j \in Slots,
                      ~HasAlias(q), HasNames(t, j, q)
               PROVE  HasNames(inodes, j, q)
    OBVIOUS
  <2>1. j # i
    BY <1>7 DEF HasAlias, SameNames, HasNames
  <2> QED
    BY <1>7, <2>1 DEF HasNames
<1>14. NamesDistinct(t)
  <2> SUFFICES ASSUME NEW q \in Paths, ~HasAlias(q),
                      NEW j \in Slots, NEW l \in Slots,
                      HasNames(t, j, q), HasNames(t, l, q)
               PROVE  j = l
    BY DEF NamesDistinct
  <2>1. CASE q = path
    <3>1. \A n \in Slots : ~Carries(n, path)
      BY <1>4, <2>1 DEF Slots
    <3> QED
      BY <1>7, <2>1, <3>1 DEF Carries, HasNames
  <2>2. CASE q # path
    BY <1>2, <1>13, <2>2 DEF NamesDistinct
  <2> QED
    BY <2>1, <2>2
<1>15. \A q \in Paths \ {path}, j \in Slots :
          ~HasAlias(q) /\ ~Carries(j, q) => ~Carries(j, q)'
  BY <1>13 DEF t, Carries, HasNames
<1>16. TailRules(t)
  BY <1>2, <1>7, <1>8 DEF TailRules
<1>17. EntriesOK(t, sBlock')
  <2> SUFFICES ASSUME NEW q \in Slots, NEW k \in Idx,
                      t[q].dirContents[k] # NULL
               PROVE  EntryOK(t, sBlock', q, t[q].dirContents[k])
    BY DEF EntriesOK
  <2> DEFINE c == t[q].dirContents[k]
  <2>1. c \in Slots
    BY <1>7 DEF FCB, Entries
  <2>2. CASE c = i
    <3>1. q = p
      BY <1>9, <1>10, <2>2
    <3> QED
      BY <1>4, <1>5, <1>7, <2>2, <3>1 DEF EntryOK
  <2>3. CASE c # i
    <3>1. EntryOK(inodes, sBlock, q, c)
      BY <1>2, <1>10, <2>3 DEF EntriesOK
    <3>2. c # 0 /\ sBlock'.ibmap[c] = 1
      BY <1>5, <2>1, <2>3, <3>1 DEF EntryOK
    <3>3. t[c].inumber = inodes[c].inumber
          /\ t[c].parent_inumber = inodes[c].parent_inumber
      BY <1>7, <2>1, <2>3
    <3>4. LostInode(inodes, c) => LostInode(t, c)
      <4> SUFFICES ASSUME LostInode(inodes, c) PROVE LostInode(t, c)
        OBVIOUS
      <4>1. inodes[c].fileName = ""
        BY BlankFacts DEF LostInode
      <4>2. c # p
        BY <1>3, <3>2, <4>1, NamesAssumption DEF Named
      <4> QED
        BY <1>7, <2>1, <2>3, <4>2 DEF LostInode
    <3> QED
      BY <3>1, <3>2, <3>3, <3>4 DEF EntryOK
  <2> QED
    BY <2>2, <2>3
<1>18. EntriesDistinct(t)
  <2> SUFFICES ASSUME NEW q \in Slots, NEW r \in Slots,
                      NEW k \in Idx, NEW l \in Idx,
                      t[q].dirContents[k] # NULL,
                      t[q].dirContents[k] = t[r].dirContents[l]
               PROVE  q = r /\ k = l
    BY DEF EntriesDistinct
  <2>1. CASE t[q].dirContents[k] = i
    <3>1. q = p /\ inodes[q].dirContents[k] = NULL
      BY <1>9, <1>10, <2>1
    <3>2. t[r].dirContents[l] = i
      BY <2>1
    <3>3. r = p /\ inodes[r].dirContents[l] = NULL
      BY <1>9, <1>10, <3>2
    <3>4. d[k] = NULL /\ d[l] = NULL
      BY <3>1, <3>3 DEF d
    <3>5. e[k] = i /\ e[l] = i
      BY <1>7, <2>1, <3>1, <3>2, <3>3
    <3> QED
      BY <1>8, <3>1, <3>3, <3>4, <3>5
  <2>2. CASE t[q].dirContents[k] # i
    BY <1>2, <1>10, <2>2 DEF EntriesDistinct
  <2> QED
    BY <2>1, <2>2
<1>19. CountOK(sBlock') /\ NothingBeyond(t, sBlock')
  BY <1>6, SlotFacts DEF CountOK, NothingBeyond
<1>20. MemoryOK'
  BY <1>5, <1>7, <1>12, <1>14, <1>16, <1>17, <1>18, <1>19
     DEF MemoryOK, TableInv, t
<1> QED
  BY <1>1, <1>4, <1>5, <1>6, <1>7, <1>15, <1>20 DEF t

------------------------------------------------------------------------------
(***************************************************************************)
(* remove_inode.  An entry that matches by inumber points at the inode     *)
(* itself: a lost inode has inumber 0, which no removed inode has.         *)
(***************************************************************************)
LEMMA HitIsChild ==
    ASSUME MemoryOK, NEW f \in Slots, f # 0, NEW q \in Slots, NEW k \in Idx,
           inodes[q].dirContents[k] # NULL,
           inodes[inodes[q].dirContents[k]].inumber = f
    PROVE  inodes[q].dirContents[k] = f
<1> DEFINE c == inodes[q].dirContents[k]
<1>1. EntryOK(inodes, sBlock, q, c)
  BY DEF MemoryOK, TableInv, EntriesOK
<1>2. CASE LostInode(inodes, c)
  BY <1>2, BlankFacts DEF LostInode
<1>3. CASE inodes[c].inumber = c
  BY <1>3
<1> QED
  BY <1>1, <1>2, <1>3 DEF EntryOK

(* e holds the entries of d but the one for f, each once. *)
EntriesWithout(d, e, f) ==
    /\ e \in [Idx -> Entries]
    /\ TailRule(e)
    /\ e = d \/ \E k \in Idx : d[k] = f
    /\ \A k \in Idx : e[k] # f
    /\ \A n \in Idx : d[n] # f => \E m \in Idx : e[m] = d[n]
    /\ \E Old \in [Idx -> Idx] :
         /\ \A n \in Idx : e[n] # NULL => e[n] = d[Old[n]]
         /\ \A m, n \in Idx :
              e[m] # NULL /\ e[n] # NULL /\ Old[m] = Old[n] => m = n

(***************************************************************************)
(* What remove_from_direntry leaves in the parent: the old entries but the *)
(* one for f, each once.                                                   *)
(***************************************************************************)
LEMMA RemovedEntries ==
    ASSUME MemoryOK, NEW f \in Slots, f # 0, NEW q \in Slots,
           inodes[f].inumber = f
    PROVE  EntriesWithout(inodes[q].dirContents, remove_from_direntry(q, f), f)
<1> DEFINE d == inodes[q].dirContents
           e == remove_from_direntry(q, f)
           Hit(k) == d[k] # NULL /\ inodes[d[k]].inumber = inodes[f].inumber
           First(k) == Hit(k) /\ \A j \in 0 .. k - 1 : ~Hit(j)
<1>1. d \in [Idx -> Entries] /\ TailRule(d)
  BY DEF MemoryOK, TableInv, TailRules, FCB
<1>2. \A k \in Idx : Hit(k) => d[k] = f
  BY HitIsChild
<1>3. \A k \in Idx : d[k] = f => Hit(k)
  BY SlotFacts
<1>4. \A k, l \in Idx : d[k] = f /\ d[l] = f => k = l
  BY SlotFacts DEF MemoryOK, TableInv, EntriesDistinct
<1>5. e = IF \E k \in Idx : First(k)
          THEN indexed_remove_from_direntry(d, CHOOSE k \in Idx : First(k))
          ELSE d
  BY DEF remove_from_direntry
<1>6. \A k \in Idx : Hit(k) => First(k)
  <2> SUFFICES ASSUME NEW k \in Idx, Hit(k), NEW j \in 0 .. k - 1, Hit(j)
               PROVE  FALSE
    OBVIOUS
  <2>1. j \in Idx /\ j # k
    BY DirAssumption DEF Idx
  <2> QED
    BY <1>2, <1>4, <2>1
<1> HIDE DEF d, e, Hit
<1>7. CASE \E k \in Idx : First(k)
  <2>1. PICK k \in Idx : First(k) /\ e = indexed_remove_from_direntry(d, k)
    BY <1>5, <1>7
  <2>2. d[k] = f /\ \A l \in Idx : d[l] = f => l = k
    BY <1>2, <1>4, <2>1
  <2> DEFINE Old == [n \in Idx |-> IF n = k THEN MAX_FILES_IN_DIR - 1 ELSE n]
  <2>3. MAX_FILES_IN_DIR - 1 \in Idx
    BY DirAssumption DEF Idx
  <2>4. Old \in [Idx -> Idx]
    BY <2>3
  <2>5. NULL \in Entries
    BY DEF Entries
  <2>6. /\ e \in [Idx -> Entries] /\ TailRule(e)
        /\ \A n \in Idx : e[n] # NULL => Old[n] # k /\ e[n] = d[Old[n]]
        /\ \A m, n \in Idx :
             e[m] # NULL /\ e[n] # NULL /\ Old[m] = Old[n] => m = n
    BY <1>1, <2>1, <2>5, RemoveFacts
  <2>7. \A n \in Idx : e[n] # f
    BY <2>2, <2>4, <2>6, SlotFacts
  <2>8. \A n \in Idx : d[n] # f => \E m \in Idx : e[m] = d[n]
    <3> SUFFICES ASSUME NEW n \in Idx, d[n] # f
                 PROVE  \E m \in Idx : e[m] = d[n]
      OBVIOUS
    <3>1. n # k
      BY <2>2
    <3> QED
      BY <1>1, <2>1, <2>5, <3>1, RemoveKeepsOthers
  <2> HIDE DEF Old
  <2> QED
    BY <2>2, <2>4, <2>6, <2>7, <2>8 DEF d, e, EntriesWithout
<1>8. CASE ~\E k \in Idx : First(k)
  <2>1. e = d
    BY <1>5, <1>8
  <2>2. \A k \in Idx : e[k] # f
    BY <1>3, <1>6, <1>8, <2>1
  <2> DEFINE Old == [n \in Idx |-> n]
  <2>3. Old \in [Idx -> Idx]
    OBVIOUS
  <2>4. /\ \A n \in Idx : e[n] # NULL => e[n] = d[Old[n]]
        /\ \A m, n \in Idx :
             e[m] # NULL /\ e[n] # NULL /\ Old[m] = Old[n] => m = n
    BY <2>1
  <2> HIDE DEF Old
  <2> QED
    BY <1>1, <2>1, <2>2, <2>3, <2>4 DEF d, e, EntriesWithout
<1> QED
  BY <1>7, <1>8

(* So the parent's children are the old ones but f. *)
LEMMA RemovedChildren ==
    ASSUME NEW d, NEW e, NEW f, EntriesWithout(d, e, f)
    PROVE  Children(e) = Children(d) \ {f}
<1>1. PICK Old \in [Idx -> Idx] : \A n \in Idx : e[n] # NULL => e[n] = d[Old[n]]
  BY DEF EntriesWithout
<1>2. /\ \A k \in Idx : e[k] # f
      /\ \A n \in Idx : d[n] # f => \E m \in Idx : e[m] = d[n]
  BY DEF EntriesWithout
<1>3. Children(e) \subseteq Children(d) \ {f}
  BY <1>1, <1>2 DEF Children
<1>4. Children(d) \ {f} \subseteq Children(e)
  BY <1>2 DEF Children
<1> QED
  BY <1>3, <1>4

(***************************************************************************)
(* remove_inode keeps the table consistent: the only entry that points at  *)
(* the inode it frees is in the directory its parent_inumber names, and    *)
(* that entry goes.                                                        *)
(***************************************************************************)
LEMMA RemoveKeepsTable ==
    ASSUME MemoryOK, NEW path \in Paths, remove_inode(path)
    PROVE  /\ MemoryOK'
           /\ sBlock'.numInodes = NumInodes /\ sBlock'.inodeStartIndex # 0
           /\ sBlock'.numInodes = sBlock.numInodes
           /\ sBlock'.inodeStartIndex = sBlock.inodeStartIndex
           /\ disk' = flushAllInodesTodisk(sBlock', inodes')
           /\ \A j \in Slots :
                /\ inodes'[j].fileName = inodes[j].fileName
                /\ inodes'[j].parentDir = inodes[j].parentDir
<1>1. PICK f \in findFileOrDir(path) :
        /\ inodes' = [inodes EXCEPT ![getParentFcb(f)].dirContents =
                          remove_from_direntry(getParentFcb(f), f)]
        /\ sBlock' = [sBlock EXCEPT !.ibmap[inodes[f].inumber] = 0]
        /\ disk' = flushAllInodesTodisk(sBlock', inodes')
  BY DEF remove_inode
<1>2. /\ f \in Slots /\ f # 0 /\ Named(inodes, f)
      /\ inodes[f].inumber = f /\ inodes[f].parent_inumber \in Slots
      /\ sBlock.numInodes = NumInodes
  BY FoundFacts
<1>3. /\ inodes \in [Slots -> FCB] /\ sBlock \in SuperBlock
      /\ NamedNumbered(inodes) /\ NamesDistinct(inodes) /\ TailRules(inodes)
      /\ EntriesOK(inodes, sBlock) /\ EntriesDistinct(inodes)
      /\ CountOK(sBlock)
  BY DEF MemoryOK, TableInv
<1>4. /\ sBlock' \in SuperBlock
      /\ sBlock'.numInodes = sBlock.numInodes
      /\ sBlock'.inodeStartIndex = sBlock.inodeStartIndex
      /\ \A j \in Slots \ {f} : sBlock'.ibmap[j] = sBlock.ibmap[j]
  BY <1>1, <1>2, <1>3 DEF SuperBlock
<1>5. sBlock'.numInodes = NumInodes /\ sBlock'.inodeStartIndex # 0
  BY <1>2, <1>3, <1>4, SlotFacts DEF CountOK
<1> DEFINE t == inodes'
           q == getParentFcb(f)
           d == inodes[q].dirContents
           e == remove_from_direntry(q, f)
<1>6. q \in Slots /\ q = inodes[f].parent_inumber
  BY <1>2 DEF getParentFcb
<1>7. /\ e \in [Idx -> Entries] /\ TailRule(e)
      /\ e = d \/ \E k \in Idx : d[k] = f
      /\ \A k \in Idx : e[k] # f
      /\ \E Old \in [Idx -> Idx] :
           /\ \A n \in Idx : e[n] # NULL => e[n] = d[Old[n]]
           /\ \A m, n \in Idx :
               e[m] # NULL /\ e[n] # NULL /\ Old[m] = Old[n] => m = n
  <2>1. EntriesWithout(d, e, f)
    <3> HIDE DEF q
    <3> QED
      BY <1>2, <1>6, RemovedEntries
  <2> HIDE DEF d, e
  <2> QED
    BY <2>1 DEF EntriesWithout
<1>8. t = [inodes EXCEPT ![q].dirContents = e]
  BY <1>1
<1> HIDE DEF t, q, d, e
<1>9. /\ t \in [Slots -> FCB]
      /\ t[q].dirContents = e
      /\ \A j \in Slots :
           /\ t[j].fileName = inodes[j].fileName
           /\ t[j].parentDir = inodes[j].parentDir
           /\ t[j].inumber = inodes[j].inumber
           /\ t[j].parent_inumber = inodes[j].parent_inumber
      /\ \A j \in Slots \ {q} : t[j] = inodes[j]
      /\ e = d => t[q] = inodes[q]
  <2> DEFINE r == [inodes[q] EXCEPT !.dirContents = e]
  <2>1. inodes[q] \in FCB
    BY <1>3, <1>6
  <2>2. /\ r \in FCB /\ r.dirContents = e /\ r.fileName = inodes[q].fileName
        /\ r.parentDir = inodes[q].parentDir /\ r.inumber = inodes[q].inumber
        /\ r.parent_inumber = inodes[q].parent_inumber
        /\ e = inodes[q].dirContents => r = inodes[q]
    BY <1>7, <2>1 DEF FCB
  <2>3. t = [inodes EXCEPT ![q] = r]
    BY <1>8
  <2> HIDE DEF r
  <2> QED
    BY <1>3, <1>6, <2>2, <2>3 DEF d
<1>10. PICK Old \in [Idx -> Idx] :
         /\ \A n \in Idx : e[n] # NULL => e[n] = d[Old[n]]
         /\ \A m, n \in Idx :
              e[m] # NULL /\ e[n] # NULL /\ Old[m] = Old[n] => m = n
  BY <1>7
<1>11. NamedNumbered(t)
  BY <1>3, <1>9, SlotFacts DEF NamedNumbered, Named
<1>12. NamesDistinct(t)
  BY <1>3, <1>9 DEF NamesDistinct, HasNames
<1>13. TailRules(t)
  BY <1>3, <1>7, <1>9 DEF TailRules
<1>14. EntriesOK(t, sBlock')
  <2> SUFFICES ASSUME NEW p \in Slots, NEW k \in Idx,
                      t[p].dirContents[k] # NULL
               PROVE  EntryOK(t, sBlock', p, t[p].dirContents[k])
    BY DEF EntriesOK
  <2> DEFINE c == t[p].dirContents[k]
  <2>1. c \in Slots
    BY <1>9 DEF FCB, Entries
  <2>2. EntryOK(inodes, sBlock, p, c)
    <3>1. CASE p = q
      BY <1>3, <1>9, <1>10, <3>1 DEF EntriesOK, d
    <3>2. CASE p # q
      BY <1>3, <1>9, <3>2 DEF EntriesOK
    <3> QED
      BY <3>1, <3>2
  <2>3. c # f
    <3> SUFFICES ASSUME c = f PROVE FALSE
      OBVIOUS
    <3>1. ~LostInode(inodes, f)
      BY <1>2, BlankFacts DEF LostInode, Named
    <3>2. p = q
      BY <1>6, <2>2, <3>1 DEF EntryOK
    <3> QED
      BY <1>7, <1>9, <3>2
  <2>4. LostInode(inodes, c) => LostInode(t, c)
    <3> SUFFICES ASSUME LostInode(inodes, c) PROVE LostInode(t, c)
      OBVIOUS
    <3>1. CASE c = q
      <4>1. \A n \in Idx : d[n] = NULL
        BY <3>1, BlankFacts, InitFacts DEF LostInode, d
      <4>2. e = d
        BY <1>2, <1>7, <4>1, SlotFacts
      <4> QED
        BY <1>9, <3>1, <4>2 DEF LostInode
    <3>2. CASE c # q
      BY <1>9, <2>1, <3>2 DEF LostInode
    <3> QED
      BY <3>1, <3>2
  <2>5. /\ sBlock'.ibmap[c] = sBlock.ibmap[c]
        /\ t[c].inumber = inodes[c].inumber
        /\ t[c].parent_inumber = inodes[c].parent_inumber
    BY <1>4, <1>9, <2>1, <2>3
  <2> QED
    BY <2>2, <2>4, <2>5 DEF EntryOK
<1>15. EntriesDistinct(t)
  <2> SUFFICES ASSUME NEW p \in Slots, NEW r \in Slots,
                      NEW k \in Idx, NEW l \in Idx,
                      t[p].dirContents[k] # NULL,
                      t[p].dirContents[k] = t[r].dirContents[l]
               PROVE  p = r /\ k = l
    BY DEF EntriesDistinct
  <2>1. \A s \in Slots, n \in Idx :
          t[s].dirContents[n] # NULL =>
            t[s].dirContents[n] =
              inodes[s].dirContents[IF s = q THEN Old[n] ELSE n]
    BY <1>6, <1>9, <1>10 DEF d
  <2>2. p = r /\ (IF p = q THEN Old[k] ELSE k) = (IF r = q THEN Old[l] ELSE l)
    BY <1>3, <1>10, <2>1 DEF EntriesDistinct
  <2> QED
    BY <1>9, <1>10, <2>2
<1>16. CountOK(sBlock') /\ NothingBeyond(t, sBlock')
  BY <1>5, SlotFacts DEF CountOK, NothingBeyond
<1>17. MemoryOK'
  BY <1>4, <1>9, <1>11, <1>12, <1>13, <1>14, <1>15, <1>16
     DEF MemoryOK, TableInv, t
<1> QED
  BY <1>1, <1>4, <1>5, <1>9, <1>17 DEF t

------------------------------------------------------------------------------
(***************************************************************************)
(* The flush writes every inode but the last, which is blank on the disk:  *)
(* the table the next mount loads is consistent.                           *)
(***************************************************************************)
LEMMA FlushKeepsTable ==
    ASSUME NEW table \in [Slots -> FCB], NEW sb \in SuperBlock,
           TableInv(table, sb), sb.numInodes = NumInodes,
           sb.inodeStartIndex # 0,
           disk.inodes[NumInodes - 1] = BlankFCB
    PROVE  LET dk == flushAllInodesTodisk(sb, table)
           IN  /\ dk \in [touched : BOOLEAN, sBlock : SuperBlock,
                          inodes : [Slots -> FCB]]
               /\ dk.touched /\ dk.sBlock = sb
               /\ TableInv(dk.inodes, sb)
               /\ dk.inodes[NumInodes - 1] = BlankFCB
               /\ \A i \in 0 .. NumInodes - 2 : dk.inodes[i] = table[i]
<1> DEFINE last == NumInodes - 1
           u == [i \in Slots |-> IF i < sb.numInodes - 1 THEN table[i]
                                 ELSE disk.inodes[i]]
<1>1. /\ u \in [Slots -> FCB]
      /\ u[last] = BlankFCB
      /\ \A i \in Slots \ {last} : u[i] = table[i]
  <2>1. \A i \in Slots : i < sb.numInodes - 1 <=> i # last
    BY SlotFacts DEF Slots
  <2> QED
    BY <2>1, SlotFacts, BlankFacts
<1>2. \A i \in 0 .. NumInodes - 2 : i \in Slots \ {last}
  BY SlotFacts DEF Slots
<1>3. flushAllInodesTodisk(sb, table) =
        [touched |-> TRUE, sBlock |-> sb, inodes |-> u]
  BY DEF flushAllInodesTodisk
<1>4. /\ NamedNumbered(table) /\ NamesDistinct(table) /\ TailRules(table)
      /\ EntriesOK(table, sb) /\ EntriesDistinct(table) /\ CountOK(sb)
  BY DEF TableInv
<1> HIDE DEF u
<1>5. \A k \in Idx : u[last].dirContents[k] = NULL
  BY <1>1, BlankFacts, InitFacts
<1>6. NamedNumbered(u)
  BY <1>1, <1>4, SlotFacts, BlankFacts DEF NamedNumbered, Named
<1>7. NamesDistinct(u)
  BY <1>1, <1>4, BlankFacts, PathFacts DEF NamesDistinct, HasNames
<1>8. TailRules(u)
  BY <1>1, <1>4, BlankFacts, InitFacts DEF TailRules
<1>9. EntriesOK(u, sb)
  <2> SUFFICES ASSUME NEW p \in Slots, NEW k \in Idx,
                      u[p].dirContents[k] # NULL
               PROVE  EntryOK(u, sb, p, u[p].dirContents[k])
    BY DEF EntriesOK
  <2>1. p # last /\ u[p].dirContents[k] \in Slots
    BY <1>1, <1>5 DEF FCB, Entries
  <2>2. EntryOK(table, sb, p, u[p].dirContents[k])
    BY <1>1, <1>4, <2>1 DEF EntriesOK
  <2>3. CASE u[p].dirContents[k] = last
    BY <1>1, <2>2, <2>3 DEF EntryOK, LostInode
  <2>4. CASE u[p].dirContents[k] # last
    BY <1>1, <2>1, <2>2, <2>4 DEF EntryOK, LostInode
  <2> QED
    BY <2>3, <2>4
<1>10. EntriesDistinct(u)
  <2> SUFFICES ASSUME NEW p \in Slots, NEW r \in Slots,
                      NEW k \in Idx, NEW l \in Idx,
                      u[p].dirContents[k] # NULL,
                      u[p].dirContents[k] = u[r].dirContents[l]
               PROVE  p = r /\ k = l
    BY DEF EntriesDistinct
  <2>1. p # last /\ r # last
    BY <1>5
  <2> QED
    BY <1>1, <1>4, <2>1 DEF EntriesDistinct
<1>11. NothingBeyond(u, sb)
  BY SlotFacts DEF NothingBeyond
<1>12. TableInv(u, sb)
  BY <1>4, <1>6, <1>7, <1>8, <1>9, <1>10, <1>11 DEF TableInv
<1> QED
  BY <1>1, <1>2, <1>3, <1>12
==============================================================================
