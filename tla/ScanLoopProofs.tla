---------------------------- MODULE ScanLoopProofs ----------------------------
(***************************************************************************)
(* The index DirContents defines without a loop is the one the loop of     *)
(* indexed_remove_from_direntry reaches, for every even array length.      *)
(***************************************************************************)
EXTENDS ScanLoop, DirContentsProofs

(***************************************************************************)
(* The inductive invariant: i has been reached (it is in every closed      *)
(* set), and some set W that ends at i is closed below i.                  *)
(***************************************************************************)
ReachedBy(W) ==
    /\ W \in SUBSET (0 .. i)
    /\ 0 \in W /\ i \in W
    /\ \A j \in W : j < i => j < MAX_FILES_IN_DIR /\ ScanStep(d, j) \in W

LoopInv ==
    /\ i \in 0 .. MAX_FILES_IN_DIR + 1
    /\ i \in Scanned(d)
    /\ \E W : ReachedBy(W)

(***************************************************************************)
(* The loop keeps the invariant.                                           *)
(***************************************************************************)
LEMMA LoopInvariant == LoopSpec => []LoopInv
<1> USE DirAssumption
<1>1. LoopInit => LoopInv
  <2> SUFFICES ASSUME LoopInit PROVE LoopInv
    OBVIOUS
  <2>1. i = 0
    BY DEF LoopInit
  <2>2. 0 \in Scanned(d)
    BY DEF Scanned, ScanClosed
  <2>3. ReachedBy({0})
    BY <2>1 DEF ReachedBy
  <2> QED
    BY <2>1, <2>2, <2>3 DEF LoopInv
<1>2. LoopInv /\ [Iterate]_loopVars => LoopInv'
  <2> SUFFICES ASSUME LoopInv, Iterate PROVE LoopInv'
    <3>1. LoopInv /\ UNCHANGED loopVars => LoopInv'
      BY DEF LoopInv, loopVars, ReachedBy, Scanned, ScanClosed, ScanStep
    <3> QED
      BY <3>1
  <2>1. /\ i \in 0 .. MAX_FILES_IN_DIR - 1
        /\ d' = d
        /\ i' = ScanStep(d, i)
        /\ i' \in {i + 1, i + 2}
    BY DEF LoopInv, Iterate, ScanStep
  <2>2. i' \in 0 .. MAX_FILES_IN_DIR + 1 /\ i < i'
    BY <2>1
  <2>3. i' \in Scanned(d)
    BY <2>1, <2>2 DEF LoopInv, Scanned, ScanClosed
  <2>4. PICK W : ReachedBy(W)
    BY DEF LoopInv
  <2>5. W \cup {i'} \in SUBSET (0 .. i')
    <3>1. \A j \in W : j \in 0 .. i
      BY <2>4 DEF ReachedBy
    <3>2. \A j \in 0 .. i : j \in 0 .. i'
      BY <2>1, <2>2
    <3>3. i' \in 0 .. i'
      BY <2>2
    <3> QED
      BY <3>1, <3>2, <3>3
  <2>6. ASSUME NEW j \in W \cup {i'}, j < i'
        PROVE  j < MAX_FILES_IN_DIR /\ ScanStep(d, j) \in W \cup {i'}
    <3>1. j \in W /\ j \in 0 .. i
      BY <2>2, <2>4, <2>6 DEF ReachedBy
    <3>2. CASE j = i
      BY <2>1, <3>2
    <3>3. CASE j < i
      BY <2>4, <3>1, <3>3 DEF ReachedBy
    <3> QED
      BY <2>1, <3>1, <3>2, <3>3
  <2>7. PICK X : X = W \cup {i'}
    OBVIOUS
  <2>8. 0 \in X /\ i' \in X
    BY <2>7, <2>4 DEF ReachedBy
  <2>9. \A j \in X : j < i' => j < MAX_FILES_IN_DIR /\ ScanStep(d', j) \in X
    BY <2>7, <2>1, <2>6
  <2>10. X \in SUBSET (0 .. i')
    BY <2>7, <2>5
  <2>11. \E V : ReachedBy(V)'
    BY <2>8, <2>9, <2>10 DEF ReachedBy, ScanStep
  <2> QED
    BY <2>1, <2>2, <2>3, <2>11 DEF LoopInv, Scanned, ScanClosed, ScanStep
<1> QED
  BY <1>1, <1>2, PTL DEF LoopSpec

(***************************************************************************)
(* When the loop of indexed_remove_from_direntry ends, i - 1 is            *)
(* lastEntryInDirentry(d), for every array d.                              *)
(***************************************************************************)
THEOREM LoopComputesLastEntry == LoopSpec => []ExitIsLastEntry
<1> USE DirAssumption
<1>1. LoopInv => ExitIsLastEntry
  <2> SUFFICES ASSUME LoopInv, i >= MAX_FILES_IN_DIR
               PROVE  i - 1 = lastEntryInDirentry(d)
    BY DEF ExitIsLastEntry
  <2>1. CASE i = MAX_FILES_IN_DIR + 1
    BY <2>1 DEF LoopInv, lastEntryInDirentry
  <2>2. CASE i = MAX_FILES_IN_DIR
    <3>1. PICK W : ReachedBy(W)
      BY DEF LoopInv
    <3>2. W \in SUBSET (0 .. MAX_FILES_IN_DIR + 1)
          /\ MAX_FILES_IN_DIR + 1 \notin W
      BY <2>2, <3>1 DEF ReachedBy
    <3>3. ScanClosed(d, W)
      BY <2>2, <3>1 DEF ReachedBy, ScanClosed
    <3>4. MAX_FILES_IN_DIR + 1 \notin Scanned(d)
      BY <3>2, <3>3 DEF Scanned
    <3> QED
      BY <2>2, <3>4 DEF lastEntryInDirentry
  <2> QED
    BY <2>1, <2>2 DEF LoopInv
<1> QED
  BY <1>1, LoopInvariant, PTL

(***************************************************************************)
(* Over an array that obeys TailRule the loop never passes                 *)
(* MAX_FILES_IN_DIR.                                                       *)
(***************************************************************************)
THEOREM LoopStaysInBounds == LoopSpec => []ExitInBounds
<1>1. LoopInv => ExitInBounds
  BY ScanStaysInside, DirAssumption DEF LoopInv, ExitInBounds
<1> QED
  BY <1>1, LoopInvariant, PTL
==============================================================================
