-------------------------- MODULE DirContentsProofs --------------------------
(***************************************************************************)
(* What the operations on a dirContents array do, for every even length.   *)
(***************************************************************************)
EXTENDS DirContents, FiniteSetTheorems, TLAPS

(***************************************************************************)
(* Over an array that obeys TailRule the scan never leaves at              *)
(* MAX_FILES_IN_DIR + 1.  If the array is full, the even numbers are a     *)
(* closed set without it; if the last entry is NULL, 0 .. MAX_FILES_IN_DIR *)
(* is one.                                                                 *)
(***************************************************************************)
LEMMA ScanStaysInside ==
    ASSUME NEW d, TailRule(d)
    PROVE  MAX_FILES_IN_DIR + 1 \notin Scanned(d)
<1> DEFINE M == MAX_FILES_IN_DIR
           Evens == {i \in 0 .. M : i % 2 = 0}
<1>0. M \in Nat /\ M > 0 /\ M % 2 = 0
  BY DirAssumption
<1>1. CASE Full(d)
  <2>1. Evens \in SUBSET (0 .. M + 1) /\ M + 1 \notin Evens
    BY <1>0
  <2>2. 0 \in Evens
    BY <1>0
  <2>3. ASSUME NEW i \in Evens, i < M
        PROVE  ScanStep(d, i) \in Evens
    <3>1. i \in Idx /\ d[i] # NULL
      BY <1>0, <1>1, <2>3 DEF Full, Idx
    <3>2. i + 2 \in 0 .. M /\ (i + 2) % 2 = 0
      BY <1>0, <2>3
    <3> QED
      BY <3>1, <3>2 DEF ScanStep
  <2>4. ScanClosed(d, Evens)
    BY <2>2, <2>3 DEF ScanClosed
  <2> QED
    BY <2>1, <2>4 DEF Scanned
<1>2. CASE d[M - 1] = NULL
  <2>1. 0 .. M \in SUBSET (0 .. M + 1) /\ M + 1 \notin 0 .. M
    BY <1>0
  <2>2. ASSUME NEW i \in 0 .. M, i < M
        PROVE  ScanStep(d, i) \in 0 .. M
    BY <1>0, <1>2, <2>2 DEF ScanStep
  <2>3. ScanClosed(d, 0 .. M)
    BY <1>0, <2>2 DEF ScanClosed
  <2> QED
    BY <2>1, <2>3 DEF Scanned
<1> QED
  BY <1>1, <1>2 DEF TailRule

(***************************************************************************)
(* Under TailRule the last index of the scan is the array's last index.    *)
(***************************************************************************)
LEMMA LastEntryIsLastIndex ==
    ASSUME NEW d, TailRule(d)
    PROVE  /\ lastEntryInDirentry(d) = MAX_FILES_IN_DIR - 1
           /\ lastEntryInDirentry(d) \in Idx
<1>1. MAX_FILES_IN_DIR \in Nat /\ MAX_FILES_IN_DIR > 0
  BY DirAssumption
<1> QED
  BY <1>1, ScanStaysInside DEF lastEntryInDirentry, Idx

(***************************************************************************)
(* An empty array obeys TailRule.                                          *)
(***************************************************************************)
LEMMA InitFacts ==
    /\ TailRule(initDirContents)
    /\ \A k \in Idx : initDirContents[k] = NULL
BY DirAssumption DEF initDirContents, Idx, TailRule

(***************************************************************************)
(* add_to_direntry keeps every entry and writes the child in one place at  *)
(* most; it keeps TailRule.                                                *)
(***************************************************************************)
LEMMA AddFacts ==
    ASSUME NEW S, NEW d \in [Idx -> S], NEW c \in S, c # NULL, TailRule(d)
    PROVE  /\ add_to_direntry(d, c) \in [Idx -> S]
           /\ TailRule(add_to_direntry(d, c))
           /\ \A k \in Idx :
                add_to_direntry(d, c)[k] = d[k]
                  \/ (d[k] = NULL /\ add_to_direntry(d, c)[k] = c)
           /\ \A k, l \in Idx :
                /\ d[k] = NULL /\ add_to_direntry(d, c)[k] = c
                /\ d[l] = NULL /\ add_to_direntry(d, c)[l] = c
                => k = l
<1> DEFINE e == add_to_direntry(d, c)
           M == MAX_FILES_IN_DIR
<1>0. M \in Nat /\ M > 0
  BY DirAssumption
<1>1. e \in [Idx -> S]
  BY DEF add_to_direntry
<1>2. \A k \in Idx : e[k] = d[k] \/ (d[k] = NULL /\ e[k] = c)
  BY DEF add_to_direntry
<1>3. ASSUME NEW k \in Idx, NEW l \in Idx,
             d[k] = NULL, e[k] = c, d[l] = NULL, e[l] = c
      PROVE  k = l
  <2>1. \A n \in Idx : d[n] = NULL /\ e[n] = c =>
            \A j \in 0 .. n - 1 : d[j] # NULL
    BY DEF add_to_direntry
  <2> QED
    BY <1>0, <1>3, <2>1 DEF Idx
<1>4. TailRule(e)
  <2>1. SUFFICES ASSUME e[M - 1] # NULL
                 PROVE  \A k \in Idx : e[k] # NULL
    BY DEF TailRule, Full
  <2>2. M - 1 \in Idx
    BY <1>0 DEF Idx
  <2>3. CASE d[M - 1] # NULL
    BY <2>3, <1>2 DEF TailRule, Full
  <2>4. CASE d[M - 1] = NULL
    <3>1. \A j \in 0 .. (M - 1) - 1 : d[j] # NULL
      BY <2>1, <2>2, <2>4 DEF add_to_direntry
    <3>2. \A k \in Idx : k = M - 1 \/ k \in 0 .. (M - 1) - 1
      BY <1>0 DEF Idx
    <3> QED
      BY <2>1, <3>1, <3>2, <1>2
  <2> QED
    BY <2>3, <2>4
<1> QED
  BY <1>1, <1>2, <1>3, <1>4

(***************************************************************************)
(* indexed_remove_from_direntry drops the entry at k, keeps each of the    *)
(* others once (the last one at k), and keeps TailRule.                    *)
(***************************************************************************)
LEMMA RemoveFacts ==
    ASSUME NEW S, NULL \in S, NEW d \in [Idx -> S], NEW k \in Idx, TailRule(d)
    PROVE  LET e == indexed_remove_from_direntry(d, k)
               Old(n) == IF n = k THEN MAX_FILES_IN_DIR - 1 ELSE n
           IN  /\ e \in [Idx -> S]
               /\ TailRule(e)
               /\ \A n \in Idx :
                    e[n] # NULL => /\ Old(n) \in Idx
                                   /\ Old(n) # k
                                   /\ e[n] = d[Old(n)]
               /\ \A m, n \in Idx :
                    e[m] # NULL /\ e[n] # NULL /\ Old(m) = Old(n) => m = n
<1> DEFINE M == MAX_FILES_IN_DIR
           e == indexed_remove_from_direntry(d, k)
           Old(n) == IF n = k THEN M - 1 ELSE n
<1>0. M \in Nat /\ M > 0 /\ M - 1 \in Idx
  BY DirAssumption DEF Idx
<1>1. e = IF M - 1 = k THEN [d EXCEPT ![k] = NULL]
          ELSE [d EXCEPT ![k] = d[M - 1], ![M - 1] = NULL]
  <2>1. lastEntryInDirentry(d) = M - 1
    BY LastEntryIsLastIndex
  <2> QED
    BY <2>1 DEF indexed_remove_from_direntry
<1>2. e \in [Idx -> S]
  BY <1>0, <1>1
<1>3. e[M - 1] = NULL
  BY <1>0, <1>1
<1>4. \A n \in Idx : e[n] # NULL => Old(n) # k /\ e[n] = d[Old(n)]
  BY <1>0, <1>1
<1>5. \A m, n \in Idx : e[m] # NULL /\ e[n] # NULL /\ Old(m) = Old(n) => m = n
  BY <1>3
<1> HIDE DEF e
<1> QED
  BY <1>0, <1>2, <1>3, <1>4, <1>5 DEF TailRule, e

(***************************************************************************)
(* indexed_remove_from_direntry keeps every entry but the one at k.        *)
(***************************************************************************)
LEMMA RemoveKeepsOthers ==
    ASSUME NEW S, NULL \in S, NEW d \in [Idx -> S], NEW k \in Idx, TailRule(d),
           NEW n \in Idx, n # k
    PROVE  \E m \in Idx : indexed_remove_from_direntry(d, k)[m] = d[n]
<1> DEFINE last == MAX_FILES_IN_DIR - 1
           e == indexed_remove_from_direntry(d, k)
<1>1. lastEntryInDirentry(d) = last /\ last \in Idx
  BY LastEntryIsLastIndex
<1>2. e = IF last = k THEN [d EXCEPT ![k] = NULL]
          ELSE [d EXCEPT ![k] = d[last], ![last] = NULL]
  BY <1>1 DEF indexed_remove_from_direntry
<1> HIDE DEF e, last
<1>3. CASE n = last
  BY <1>1, <1>2, <1>3 DEF e
<1>4. CASE n # last
  BY <1>1, <1>2, <1>4 DEF e
<1> QED
  BY <1>3, <1>4

------------------------------------------------------------------------------
(* A set of numbers that is not empty has a least one. *)
LEMMA FirstIndex ==
    ASSUME NEW T, T \subseteq Nat, T # {}
    PROVE  \E k \in T : \A j \in T : ~(j < k)
<1>1. PICK k \in T : \A j \in T : <<j, k>> \notin OpToRel(<, Nat)
  BY NatLessThanWellFounded, WFMin
<1>2. \A j \in T : <<j, k>> \in OpToRel(<, Nat) <=> j < k
  BY DEF OpToRel
<1> QED
  BY <1>1, <1>2

(***************************************************************************)
(* add_to_direntry adds exactly the new child, or, to a full array, none.  *)
(***************************************************************************)
LEMMA AddedChildren ==
    ASSUME NEW S, NEW d \in [Idx -> S], NEW c \in S, c # NULL
    PROVE  /\ Full(d) => add_to_direntry(d, c) = d
           /\ ~Full(d) =>
                Children(add_to_direntry(d, c)) = Children(d) \cup {c}
<1> DEFINE e == add_to_direntry(d, c)
<1>1. CASE Full(d)
  BY <1>1 DEF Full, add_to_direntry
<1>2. CASE ~Full(d)
  <2> DEFINE Holes == {k \in Idx : d[k] = NULL}
  <2>1. PICK k \in Holes : \A j \in Holes : ~(j < k)
    <3>1. Holes \subseteq Nat /\ Holes # {}
      BY <1>2 DEF Full, Idx
    <3> QED
      BY <3>1, FirstIndex
  <2>2. \A j \in 0 .. k - 1 : j \in Idx /\ j < k
    BY DirAssumption DEF Idx
  <2>3. k \in Idx /\ d[k] = NULL /\ e[k] = c
    BY <2>1, <2>2 DEF add_to_direntry
  <2>4. \A n \in Idx : e[n] = d[n] \/ (d[n] = NULL /\ e[n] = c)
    BY DEF add_to_direntry
  <2> HIDE DEF e, Holes
  <2>5. Children(e) = Children(d) \cup {c}
    BY <2>3, <2>4 DEF Children
  <2> QED
    BY <1>2, <2>5 DEF e
<1> QED
  BY <1>1, <1>2

(***************************************************************************)
(* An array without duplicates has MAX_FILES_IN_DIR children if and only   *)
(* if it is full.                                                          *)
(***************************************************************************)
LEMMA FullIsAtCapacity ==
    ASSUME NEW d,
           \A k, l \in Idx : d[k] # NULL /\ d[k] = d[l] => k = l
    PROVE  Cardinality(Children(d)) = MAX_FILES_IN_DIR <=> Full(d)
<1> DEFINE M == MAX_FILES_IN_DIR
           Used == {k \in Idx : d[k] # NULL}
           f == [k \in Used |-> d[k]]
<1>0. M \in Nat /\ M > 0
  BY DirAssumption
<1>1. IsFiniteSet(Idx) /\ Cardinality(Idx) = M
  BY <1>0, FS_Interval DEF Idx
<1>2. Used \in SUBSET Idx
  OBVIOUS
<1>3. /\ IsFiniteSet(Used)
      /\ Cardinality(Used) = M <=> Used = Idx
  BY <1>1, <1>2, FS_Subset
<1>4. f \in Bijection(Used, Children(d))
  <2>1. f \in [Used -> Children(d)]
    BY DEF Children
  <2>2. \A t \in Children(d) : \E k \in Used : f[k] = t
    BY DEF Children
  <2>3. IsInjective(f)
    BY DEF IsInjective
  <2> QED
    BY <2>1, <2>2, <2>3 DEF Bijection, Injection, Surjection
<1>5. Cardinality(Children(d)) = Cardinality(Used)
  BY <1>3, <1>4, FS_Bijection DEF ExistsBijection
<1>6. Full(d) <=> Used = Idx
  BY DEF Full
<1> QED
  BY <1>3, <1>5, <1>6
==============================================================================
