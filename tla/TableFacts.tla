----------------------------- MODULE TableFacts -----------------------------
(***************************************************************************)
(* Facts about the constants and the operators of InodeTable that the      *)
(* proofs about one thread and about several threads share.                *)
(***************************************************************************)
EXTENDS InodeTable, SequenceTheorems, TLAPS

(***************************************************************************)
(* Facts about the constants.                                              *)
(***************************************************************************)
LEMMA SlotFacts ==
    /\ NumInodes \in Nat /\ NumInodes >= 2
    /\ 0 \in Slots /\ NumInodes - 1 \in Slots /\ NumInodes - 1 # 0
    /\ Slots \subseteq Nat
    /\ \A i \in Slots : i < NumInodes
    /\ NULL \notin Slots
BY InodesAssumption, NullAssumption DEF Slots

(* A blank inode has no name, inumber 0 and no entries. *)
LEMMA BlankFacts ==
    /\ BlankFCB \in FCB
    /\ BlankFCB.fileName = "" /\ BlankFCB.fileName \notin Names
    /\ BlankFCB.inumber = 0
    /\ BlankFCB.dirContents = initDirContents
<1>1. BlankFCB.fileName = ""
  BY DEF BlankFCB
<1>2. BlankFCB.inumber = 0 /\ BlankFCB.dirContents = initDirContents
  BY DEF BlankFCB
<1>3. "" \in NameField /\ 0 \in Slots /\ 0 \in ParentNumber
  BY SlotFacts DEF NameField, ParentNumber
<1>4. initDirContents \in [Idx -> Entries]
  BY DEF initDirContents, Entries
<1>5. 0 \in SHRT_MIN .. SHRT_MAX
  <2>1. SHRT_MIN \in Int /\ SHRT_MAX \in Int /\ SHRT_MIN <= 0 /\ 0 <= SHRT_MAX
    BY DEF SHRT_MIN, SHRT_MAX
  <2> QED
    BY <2>1
<1>6. BlankFCB \in FCB
  BY <1>3, <1>4, <1>5 DEF BlankFCB, FCB
<1> QED
  BY <1>1, <1>2, <1>6, NamesAssumption

(***************************************************************************)
(* The names findFileOrDir compares are names, and the parent of a path in *)
(* use is "/" or in use.                                                   *)
(***************************************************************************)
LEMMA PathFacts ==
    ASSUME NEW path \in Paths
    PROVE  /\ path # <<>>
           /\ relativeName(path) \in Names
           /\ getRelativeParentName(path) \in NameField
           /\ ParentPath(path) = <<>> \/ ParentPath(path) \in Paths
<1>1. path \in Seq(Names) /\ path # <<>> /\ Len(path) \in Nat \ {0}
  BY PathsAssumption, EmptySeq
<1> DEFINE n == Len(path)
<1>0. n \in Nat /\ n >= 1
  BY <1>1
<1> HIDE DEF n
<1>2. relativeName(path) \in Names
  BY <1>1 DEF relativeName
<1>3. getRelativeParentName(path) \in NameField
  <2>1. CASE Len(path) = 1
    BY <2>1 DEF getRelativeParentName, NameField
  <2>2. CASE Len(path) # 1
    <3>0. n # 1
      BY <2>2 DEF n
    <3>1. n - 1 \in 1 .. n
      BY <1>0, <3>0
    <3>2. path[Len(path) - 1] \in Names
      BY <1>1, <3>1 DEF n
    <3> QED
      BY <2>2, <3>2 DEF getRelativeParentName, NameField
  <2> QED
    BY <2>1, <2>2
<1>4. ParentPath(path) = <<>> \/ ParentPath(path) \in Paths
  <2>1. CASE Len(path) = 1
    <3>1. Len(ParentPath(path)) = 0 /\ ParentPath(path) \in Seq(Names)
      BY <1>1, <2>1 DEF ParentPath
    <3> QED
      BY <3>1, EmptySeq
  <2>2. CASE Len(path) > 1
    BY <2>2, PathsAssumption
  <2>3. n = 1 \/ n > 1
    BY <1>0
  <2> QED
    BY <2>1, <2>2, <2>3 DEF n
<1> QED
  BY <1>1, <1>2, <1>3, <1>4

(* A mode_t stored in a short is in its range. *)
LEMMA ToShortRange ==
    ASSUME NEW mode \in Nat
    PROVE  ToShort(mode) \in SHRT_MIN .. SHRT_MAX
<1> DEFINE x == mode % 65536
<1>1. x \in Int /\ 0 <= x /\ x < 65536
  OBVIOUS
<1> HIDE DEF x
<1> DEFINE y == IF x < 32768 THEN x ELSE x - 65536
<1>2. y \in Int /\ SHRT_MIN <= y /\ y <= SHRT_MAX
  BY <1>1 DEF SHRT_MIN, SHRT_MAX
<1>3. SHRT_MIN \in Int /\ SHRT_MAX \in Int
  BY DEF SHRT_MIN, SHRT_MAX
<1> HIDE DEF y
<1>4. y \in SHRT_MIN .. SHRT_MAX
  BY <1>2, <1>3
<1> QED
  BY <1>4 DEF x, y, ToShort
=============================================================================
