---------------------------- MODULE ThreadsProofs ----------------------------
(***************************************************************************)
(* ThreadInv is an invariant of Threads, for every number of threads and   *)
(* requests: the flushes of a multithreaded mount may overlap in any way,  *)
(* and the disk is current when all requests are answered.                 *)
(***************************************************************************)
EXTENDS Threads, TableFacts

(***************************************************************************)
(* What memory holds is never '0' characters.                              *)
(***************************************************************************)
LEMMA MemoryNotPad ==
    ASSUME ThreadTypeOK, NEW u \in Units
    PROVE  InMemory(u) # Pad(u)
<1>1. CASE u = -1
  <2>1. sBlock.numInodes = NumInodes
    BY DEF ThreadTypeOK, SharedSuperBlock
  <2>2. PadSuperBlock.numInodes = 808464432
    BY DEF PadSuperBlock, PAD_INT
  <2>3. NumInodes # 808464432
    BY InodesAssumption
  <2> QED
    BY <1>1, <2>1, <2>2, <2>3 DEF InMemory, Pad
<1>2. CASE u # -1
  <2>1. u \in Slots
    BY <1>2, SlotFacts DEF Units, Slots
  <2>2. inodes[u].inumber \in Slots
    BY <2>1 DEF ThreadTypeOK, SharedFCB
  <2>3. PadFCB.inumber = 12336
    BY DEF PadFCB, PAD_SHORT
  <2>4. 12336 \notin Slots
    BY InodesAssumption DEF Slots
  <2> QED
    BY <1>2, <2>2, <2>3, <2>4 DEF InMemory, Pad
<1> QED
  BY <1>1, <1>2

(* The step of thread t leaves the place of the other threads alone. *)
OthersStay(t) ==
    \A o \in Thread \ {t} : pc'[o] = pc[o] /\ unit'[o] = unit[o] /\ local'[o] = local[o]

(***************************************************************************)
(* A step that leaves the disk alone keeps the disk's part of the          *)
(* invariant if it changes no table and its thread owes no write, or if    *)
(* its thread is going to write every unit afterwards.                     *)
(***************************************************************************)
LEMMA DiskUntouched ==
    ASSUME StoredOrDue, PadHasWriter, NEW t \in Thread,
           UNCHANGED disk, OthersStay(t), pc[t] # "data",
           \/ /\ UNCHANGED <<inodes, sBlock>>
              /\ \A u \in Units : ~WillWrite(t, u)
           \/ \A u \in Units : WillWrite(t, u)'
    PROVE  StoredOrDue' /\ PadHasWriter'
<1>1. PadHasWriter'
  <2> SUFFICES ASSUME NEW u \in Units, OnDisk(u)' = Pad(u)'
               PROVE  \E o \in Thread : pc'[o] = "data" /\ unit'[o] = u
    BY DEF PadHasWriter, Units
  <2>1. OnDisk(u) = Pad(u)
    BY DEF OnDisk, Pad
  <2>2. PICK o \in Thread : pc[o] = "data" /\ unit[o] = u
    BY <2>1 DEF PadHasWriter
  <2>3. o # t
    BY <2>2
  <2> QED
    BY <2>2, <2>3 DEF OthersStay
<1>2. StoredOrDue'
  <2> SUFFICES ASSUME NEW u \in Units
               PROVE  (OnDisk(u) = InMemory(u))' \/ \E o \in Thread : WillWrite(o, u)'
    BY DEF StoredOrDue, Units
  <2>1. CASE \A v \in Units : WillWrite(t, v)'
    BY <2>1
  <2>2. CASE UNCHANGED <<inodes, sBlock>> /\ \A v \in Units : ~WillWrite(t, v)
    <3>1. CASE OnDisk(u) = InMemory(u)
      BY <2>2, <3>1 DEF OnDisk, InMemory
    <3>2. CASE OnDisk(u) # InMemory(u)
      <4>1. PICK o \in Thread : WillWrite(o, u)
        BY <3>2 DEF StoredOrDue
      <4>2. o # t
        BY <2>2, <4>1
      <4>3. WillWrite(o, u)'
        BY <4>1, <4>2 DEF OthersStay, WillWrite
      <4> QED
        BY <4>3
    <3> QED
      BY <3>1, <3>2
  <2> QED
    BY <2>1, <2>2
<1> QED
  BY <1>1, <1>2

(* A thread before its first change owes no write, and what that means. *)
LEMMA CleanOwesNothing ==
    ASSUME NEW t \in Thread, pc[t] \in Clean, NEW u \in Units
    PROVE  ~WillWrite(t, u) /\ pc[t] # "data"
BY DEF Clean, Dirty, WillWrite

(* After a change, or at the beginning of the flush, all units are due. *)
LEMMA DirtyOwesAll ==
    ASSUME NEW t \in Thread, NEW u \in Units,
           pc'[t] \in Dirty \/ (pc'[t] = "pad" /\ unit'[t] = -1)
    PROVE  WillWrite(t, u)'
<1>1. -1 <= u
  BY SlotFacts DEF Units
<1> QED
  BY <1>1 DEF WillWrite

(***************************************************************************)
(* Both pwrites of a flush.                                                *)
(***************************************************************************)
(* What pwrite does to the units. *)
LEMMA PwriteUnits ==
    ASSUME ThreadTypeOK, NEW w \in Units, NEW c, pwrite(w, c)
    PROVE  \A u \in Units : OnDisk(u)' = IF u = w THEN c ELSE OnDisk(u)
<1> SUFFICES ASSUME NEW u \in Units
             PROVE  OnDisk(u)' = IF u = w THEN c ELSE OnDisk(u)
  OBVIOUS
<1>1. u # -1 => u \in Slots
  BY SlotFacts DEF Units, Slots
<1>2. w # -1 => w \in Slots
  BY SlotFacts DEF Units, Slots
<1>3. DOMAIN disk.inodes = Slots
  BY DEF ThreadTypeOK
<1>4. disk \in [touched : BOOLEAN, sBlock : SharedSuperBlock \cup {PadSuperBlock},
                inodes : [Slots -> SharedFCB \cup {PadFCB}]]
  BY DEF ThreadTypeOK
<1>5. CASE w = -1
  <2>1. disk' = [disk EXCEPT !.sBlock = c]
    BY <1>5 DEF pwrite
  <2>2. disk'.sBlock = c /\ disk'.inodes = disk.inodes
    BY <2>1, <1>4
  <2> QED
    BY <2>2, <1>5 DEF OnDisk
<1>6. CASE w # -1
  <2>1. disk' = [disk EXCEPT !.inodes[w] = c]
    BY <1>6 DEF pwrite
  <2>2. disk'.sBlock = disk.sBlock /\ disk'.inodes = [disk.inodes EXCEPT ![w] = c]
    BY <2>1, <1>4
  <2> QED
    BY <2>2, <1>6, <1>1, <1>2, <1>3 DEF OnDisk
<1> QED
  BY <1>5, <1>6

LEMMA PadStep ==
    ASSUME ThreadInv, NEW t \in Thread, write_pad(t)
    PROVE  StoredOrDue' /\ PadHasWriter'
<1> USE DEF ThreadInv
<1>0. pc \in [Thread -> Clean \cup Dirty \cup {"pad", "data"}] /\ sBlock.numInodes = NumInodes
  BY DEF ThreadTypeOK, SharedSuperBlock
<1>1. unit[t] \in -1 .. NumInodes - 1 /\ unit[t] < NumInodes - 1
  BY <1>0 DEF write_pad, ThreadTypeOK
<1>2. PICK w \in Units : w = unit[t]
  BY <1>1, SlotFacts DEF Units
<1>3. \A u \in Units : OnDisk(u)' = IF u = w THEN Pad(w) ELSE OnDisk(u)
  <2>1. pwrite(w, Pad(w))
    BY <1>2 DEF write_pad
  <2> QED
    BY <2>1, PwriteUnits
<1>4. pc'[t] = "data" /\ unit'[t] = w /\ pc[t] = "pad"
  BY <1>0, <1>2 DEF write_pad, Goto
<1>5. \A o \in Thread \ {t} : pc'[o] = pc[o] /\ unit'[o] = unit[o]
  BY <1>0 DEF write_pad, Goto
<1>6. \A u \in Units : InMemory(u)' = InMemory(u)
  BY DEF write_pad, InMemory
<1>7. StoredOrDue'
  <2> SUFFICES ASSUME NEW u \in Units
               PROVE  (OnDisk(u) = InMemory(u))' \/ \E o \in Thread : WillWrite(o, u)'
    BY DEF StoredOrDue, Units
  <2>1. CASE u = w
    <3>1. WillWrite(t, u)'
      BY <1>4, <2>1 DEF WillWrite, Units
    <3> QED
      BY <3>1
  <2>2. CASE u # w /\ OnDisk(u) = InMemory(u)
    BY <2>2, <1>3, <1>6
  <2>3. CASE u # w /\ OnDisk(u) # InMemory(u)
    <3>1. PICK o \in Thread : WillWrite(o, u)
      BY <2>3 DEF StoredOrDue
    <3>2. CASE o = t
      <4>1. w <= u
        BY <3>1, <3>2, <1>4, <1>2 DEF WillWrite, Dirty
      <4>2. WillWrite(t, u)'
        BY <4>1, <1>4 DEF WillWrite
      <4> QED
        BY <4>2
    <3>3. CASE o # t
      <4>1. WillWrite(o, u)'
        BY <3>1, <3>3, <1>5 DEF WillWrite
      <4> QED
        BY <4>1
    <3> QED
      BY <3>2, <3>3
  <2> QED
    BY <2>1, <2>2, <2>3
<1>8. PadHasWriter'
  <2> SUFFICES ASSUME NEW u \in Units, OnDisk(u)' = Pad(u)'
               PROVE  \E o \in Thread : pc'[o] = "data" /\ unit'[o] = u
    BY DEF PadHasWriter, Units
  <2>1. CASE u = w
    BY <2>1, <1>4
  <2>2. CASE u # w
    <3>1. OnDisk(u) = Pad(u)
      BY <2>2, <1>3 DEF Pad
    <3>2. PICK o \in Thread : pc[o] = "data" /\ unit[o] = u
      BY <3>1 DEF PadHasWriter
    <3>3. o # t
      BY <3>2, <1>4
    <3> QED
      BY <3>2, <3>3, <1>5
  <2> QED
    BY <2>1, <2>2
<1> QED
  BY <1>7, <1>8

LEMMA DataStep ==
    ASSUME ThreadInv, NEW t \in Thread, write_data(t)
    PROVE  StoredOrDue' /\ PadHasWriter'
<1> USE DEF ThreadInv
<1>0. pc \in [Thread -> Clean \cup Dirty \cup {"pad", "data"}]
      /\ unit \in [Thread -> -1 .. NumInodes - 1]
  BY DEF ThreadTypeOK
<1>1. pc[t] = "data"
  BY DEF write_data
<1>2. PICK w \in Units : w = unit[t]
  BY <1>1 DEF ThreadInStep
<1>3. \A u \in Units : OnDisk(u)' = IF u = w THEN InMemory(w) ELSE OnDisk(u)
  <2>1. pwrite(w, InMemory(w))
    BY <1>2 DEF write_data
  <2> QED
    BY <2>1, PwriteUnits
<1>4. pc'[t] = "pad" /\ unit'[t] = w + 1
  BY <1>0, <1>2 DEF write_data, Goto
<1>5. \A o \in Thread \ {t} : pc'[o] = pc[o] /\ unit'[o] = unit[o]
  BY <1>0 DEF write_data, Goto
<1>6. \A u \in Units : InMemory(u)' = InMemory(u)
  BY DEF write_data, InMemory
<1>7. StoredOrDue'
  <2> SUFFICES ASSUME NEW u \in Units
               PROVE  (OnDisk(u) = InMemory(u))' \/ \E o \in Thread : WillWrite(o, u)'
    BY DEF StoredOrDue, Units
  <2>1. CASE u = w \/ OnDisk(u) = InMemory(u)
    BY <2>1, <1>3, <1>6
  <2>2. CASE u # w /\ OnDisk(u) # InMemory(u)
    <3>1. PICK o \in Thread : WillWrite(o, u)
      BY <2>2 DEF StoredOrDue
    <3>2. CASE o = t
      <4>1. w <= u
        BY <3>1, <3>2, <1>1, <1>2 DEF WillWrite, Dirty
      <4>2. w + 1 <= u
        BY <4>1, <2>2 DEF Units
      <4>3. WillWrite(t, u)'
        BY <4>2, <1>4 DEF WillWrite
      <4> QED
        BY <4>3
    <3>3. CASE o # t
      <4>1. WillWrite(o, u)'
        BY <3>1, <3>3, <1>5 DEF WillWrite
      <4> QED
        BY <4>1
    <3> QED
      BY <3>2, <3>3
  <2> QED
    BY <2>1, <2>2
<1>8. PadHasWriter'
  <2> SUFFICES ASSUME NEW u \in Units, OnDisk(u)' = Pad(u)'
               PROVE  \E o \in Thread : pc'[o] = "data" /\ unit'[o] = u
    BY DEF PadHasWriter, Units
  <2>0. Pad(u)' = Pad(u)
    BY DEF Pad
  <2>1. u # w
    BY <2>0, <1>3, MemoryNotPad
  <2>2. OnDisk(u) = Pad(u)
    BY <2>0, <2>1, <1>3
  <2>3. PICK o \in Thread : pc[o] = "data" /\ unit[o] = u
    BY <2>2 DEF PadHasWriter
  <2>4. o # t
    BY <2>1, <2>3, <1>2
  <2> QED
    BY <2>3, <2>4, <1>5
<1> QED
  BY <1>7, <1>8

------------------------------------------------------------------------------
(***************************************************************************)
(* Types, and what a thread knows of its own place.                        *)
(***************************************************************************)
Labels == Clean \cup Dirty \cup {"pad", "data"}

PlacesOK == \A t \in Thread : ThreadInStep(t)

(* A lookup returns inodes of the table, for a path in use or "/". *)
LEMMA FoundInTable ==
    ASSUME ThreadTypeOK, NEW path, NEW f \in findFileOrDir(path)
    PROVE  f \in Slots
<1>1. sBlock.numInodes = NumInodes
  BY DEF ThreadTypeOK, SharedSuperBlock
<1> QED
  BY <1>1, SlotFacts DEF findFileOrDir, Slots

(***************************************************************************)
(* A step of thread t to a new label keeps what the threads know, if it    *)
(* does so for t.                                                          *)
(***************************************************************************)
LEMMA PlacesKept ==
    ASSUME PlacesOK, NEW t \in Thread, OthersStay(t), ThreadInStep(t)'
    PROVE  PlacesOK'
<1> SUFFICES ASSUME NEW o \in Thread PROVE ThreadInStep(o)'
  BY DEF PlacesOK
<1>1. CASE o = t
  BY <1>1
<1>2. CASE o # t
  <2>1. ThreadInStep(o)
    BY DEF PlacesOK
  <2> QED
    BY <1>2, <2>1 DEF OthersStay, ThreadInStep, Idle, Slots, Units
<1> QED
  BY <1>1, <1>2

(* What a step does that moves thread t to a label and changes no locals. *)
LEMMA GotoFacts ==
    ASSUME ThreadTypeOK, NEW t \in Thread, NEW label \in Labels,
           Goto(t, label), UNCHANGED <<local, unit>>
    PROVE  /\ pc' \in [Thread -> Labels] /\ pc'[t] = label
           /\ local' \in [Thread -> Local]
           /\ unit' \in [Thread -> -1 .. NumInodes - 1]
           /\ OthersStay(t)
BY DEF ThreadTypeOK, Goto, OthersStay, Labels

(* The same for a step that changes its locals. *)
LEMMA GotoLocalFacts ==
    ASSUME ThreadTypeOK, NEW t \in Thread, NEW label \in Labels, NEW l \in Local,
           Goto(t, label), local' = [local EXCEPT ![t] = l], UNCHANGED unit
    PROVE  /\ pc' \in [Thread -> Labels] /\ pc'[t] = label
           /\ local' \in [Thread -> Local] /\ local'[t] = l
           /\ unit' \in [Thread -> -1 .. NumInodes - 1]
           /\ OthersStay(t)
BY DEF ThreadTypeOK, Goto, OthersStay, Labels

LEMMA ReturnFacts ==
    ASSUME ThreadTypeOK, NEW t \in Thread, Returns(t)
    PROVE  /\ pc' \in [Thread -> Labels] /\ pc'[t] = "idle"
           /\ local' \in [Thread -> Local]
           /\ unit' \in [Thread -> -1 .. NumInodes - 1] /\ unit'[t] = -1
           /\ OthersStay(t)
<1>1. NoRequest \in Local
  <2>1. 0 \in Idx
    BY DirAssumption DEF Idx
  <2>2. 0 \in ParentNumber
    BY SlotFacts DEF ParentNumber
  <2> QED
    BY <2>1, <2>2 DEF NoRequest, Local
<1>2. -1 \in -1 .. NumInodes - 1
  BY SlotFacts
<1> QED
  BY <1>1, <1>2 DEF ThreadTypeOK, Returns, Goto, OthersStay, Labels, Clean

------------------------------------------------------------------------------
(***************************************************************************)
(* The two kinds of steps outside a flush: those that change no table, and *)
(* those that change one and leave the flush to be done.                   *)
(***************************************************************************)
LEMMA QuietStep ==
    ASSUME ThreadInv, NEW t \in Thread,
           UNCHANGED tableVars, begun' \in Nat,
           pc[t] # "data", \A u \in Units : ~WillWrite(t, u),
           pc' \in [Thread -> Labels], local' \in [Thread -> Local],
           unit' \in [Thread -> -1 .. NumInodes - 1],
           OthersStay(t), ThreadInStep(t)'
    PROVE  ThreadInv'
<1>1. ThreadTypeOK'
  BY DEF ThreadInv, ThreadTypeOK, tableVars, Labels
<1>2. PlacesOK'
  BY PlacesKept DEF ThreadInv, PlacesOK
<1>3. StoredOrDue' /\ PadHasWriter'
  BY DiskUntouched DEF ThreadInv, tableVars
<1> QED
  BY <1>1, <1>2, <1>3 DEF ThreadInv, PlacesOK

LEMMA ChangeStep ==
    ASSUME ThreadInv, NEW t \in Thread, NEW label \in Dirty \cup {"pad"},
           pc[t] \in Dirty \cup {"link"}, Goto(t, label),
           label \in {"fileName", "parentDir", "numbers"} =>
                pc[t] \in {"link", "fileName", "parentDir"},
           UNCHANGED <<local, disk, unit, begun>>,
           inodes' \in [Slots -> SharedFCB], sBlock' \in SharedSuperBlock
    PROVE  ThreadInv'
<1>0. label \in Labels
  BY DEF Labels
<1>1. /\ pc' \in [Thread -> Labels] /\ pc'[t] = label
      /\ local' \in [Thread -> Local]
      /\ unit' \in [Thread -> -1 .. NumInodes - 1]
      /\ OthersStay(t)
  BY <1>0, GotoFacts DEF ThreadInv
<1>2. ThreadTypeOK'
  BY <1>1 DEF ThreadInv, ThreadTypeOK, Labels
<1>3. pc[t] \in Clean \cup Dirty /\ unit[t] = -1 /\ local[t].path \in Paths
  BY DEF ThreadInv, ThreadInStep, Clean, Dirty, Idle
<1>4. unit'[t] = -1 /\ local'[t] = local[t]
  BY <1>3
<1>5. ThreadInStep(t)'
  <2>1. label \in Linking \cup {"parent"} =>
            local[t].i \in Slots /\ local[t].parent \in Slots
    BY DEF ThreadInv, ThreadInStep, Dirty, Linking
  <2>2. label # "data"
    BY DEF Dirty
  <2> QED
    BY <1>1, <1>3, <1>4, <2>1, <2>2 DEF ThreadInStep, Slots
<1>6. PlacesOK'
  BY <1>1, <1>5, PlacesKept DEF ThreadInv, PlacesOK
<1>7. \A u \in Units : WillWrite(t, u)'
  BY <1>1, <1>4, DirtyOwesAll
<1>8. pc[t] # "data"
  BY DEF Dirty
<1>9. StoredOrDue' /\ PadHasWriter'
  BY <1>1, <1>7, <1>8, DiskUntouched DEF ThreadInv
<1> QED
  BY <1>2, <1>6, <1>9 DEF ThreadInv, PlacesOK

------------------------------------------------------------------------------
(***************************************************************************)
(* The steps of create_inode and remove_inode that only read the tables.   *)
(***************************************************************************)
LEMMA ReadStep ==
    ASSUME ThreadInv, NEW t \in Thread, pc[t] \in Clean,
           NEW label \in Clean \cup Dirty, NEW l \in Local,
           Goto(t, label), local' = [local EXCEPT ![t] = l], UNCHANGED unit,
           UNCHANGED tableVars, begun' \in Nat,
           l.path \in Paths,
           label \in Linking \cup {"parent"} => l.i \in Slots,
           label \in Linking => l.parent \in Slots
    PROVE  ThreadInv'
<1>0. label \in Labels
  BY DEF Labels
<1>1. /\ pc' \in [Thread -> Labels] /\ pc'[t] = label
      /\ local' \in [Thread -> Local] /\ local'[t] = l
      /\ unit' \in [Thread -> -1 .. NumInodes - 1]
      /\ OthersStay(t)
  BY <1>0, GotoLocalFacts DEF ThreadInv
<1>2. unit'[t] = -1
  BY DEF ThreadInv, ThreadInStep
<1>3. label # "data"
  BY DEF Clean, Dirty
<1>4. ThreadInStep(t)'
  BY <1>1, <1>2, <1>3 DEF ThreadInStep, Slots
<1>5. \A u \in Units : ~WillWrite(t, u)
  BY CleanOwesNothing
<1>6. pc[t] # "data"
  BY DEF Clean
<1> QED
  BY <1>1, <1>4, <1>5, <1>6, QuietStep

LEMMA ReturnStep ==
    ASSUME ThreadInv, NEW t \in Thread, pc[t] # "data",
           \A u \in Units : ~WillWrite(t, u),
           Returns(t), UNCHANGED <<tableVars, begun>>
    PROVE  ThreadInv'
<1>1. /\ pc' \in [Thread -> Labels] /\ pc'[t] = "idle"
      /\ local' \in [Thread -> Local]
      /\ unit' \in [Thread -> -1 .. NumInodes - 1] /\ unit'[t] = -1
      /\ OthersStay(t)
  BY ReturnFacts DEF ThreadInv
<1>2. ThreadInStep(t)'
  BY <1>1 DEF ThreadInStep, Idle, Clean, Linking
<1>3. begun' \in Nat
  BY DEF ThreadInv, ThreadTypeOK
<1> QED
  BY <1>1, <1>2, <1>3, QuietStep

LEMMA BeginKeeps ==
    ASSUME ThreadInv, NEW t \in Thread, NEW op \in {"create", "remove"}, NEW path \in Paths,
           NEW mode \in Nat, NEW label \in {"probe", "find"},
           Begin(t, op, path, mode, label)
    PROVE  ThreadInv'
<1> DEFINE l == [NoRequest EXCEPT !.path = path, !.op = op,
                                  !.mode = mode, !.i = 1]
<1>1. l \in Local /\ l.path = path
  <2>1. 0 \in Idx
    BY DirAssumption DEF Idx
  <2>2. 0 \in ParentNumber
    BY SlotFacts DEF ParentNumber
  <2> QED
    BY <2>1, <2>2 DEF NoRequest, Local
<1>2. local' = [local EXCEPT ![t] = l] /\ Goto(t, label) /\ UNCHANGED <<tableVars, unit>>
  BY DEF Begin
<1>3. begun' \in Nat
  BY DEF Begin, ThreadInv, ThreadTypeOK
<1>4. pc[t] \in Clean /\ label \in Clean
  BY DEF Begin, Idle, Clean
<1>5. label \notin Linking \cup {"parent"}
  BY DEF Linking
<1> HIDE DEF l
<1> QED
  BY <1>1, <1>2, <1>3, <1>4, <1>5, ReadStep

(* A label of a request is not idle, so the request has a path. *)
LEMMA LocalFacts ==
    ASSUME ThreadInv, NEW t \in Thread
    PROVE  /\ local[t] \in Local
           /\ local = [local EXCEPT ![t] = local[t]]
           /\ begun \in Nat
           /\ pc[t] # "idle" => local[t].path \in Paths
BY DEF ThreadInv, ThreadTypeOK, ThreadInStep, Idle

LEMMA ProbeKeeps ==
    ASSUME ThreadInv, NEW t \in Thread,
           probe_taken(t) \/ probe_free(t) \/ no_inode(t)
    PROVE  ThreadInv'
<1>1. CASE probe_taken(t)
  <2> DEFINE l == [local[t] EXCEPT !.i = @ + 1]
  <2>1. l \in Local /\ l.path = local[t].path
    BY LocalFacts DEF Local
  <2>2. local' = [local EXCEPT ![t] = l] /\ UNCHANGED <<unit, tableVars, begun, pc>>
    BY <1>1 DEF probe_taken
  <2>3. pc[t] = "probe" /\ Goto(t, "probe")
    BY <1>1 DEF probe_taken, Goto, ThreadInv, ThreadTypeOK
  <2>4. "probe" \in Clean /\ "probe" \notin Linking \cup {"parent"}
    BY DEF Clean, Linking
  <2> HIDE DEF l
  <2> QED
    BY <2>1, <2>2, <2>3, <2>4, LocalFacts, ReadStep
<1>2. CASE probe_free(t)
  <2>1. pc[t] = "probe" /\ Goto(t, "parent") /\ UNCHANGED <<local, unit, tableVars, begun>>
    BY <1>2 DEF probe_free
  <2>2. "probe" \in Clean /\ "parent" \in Clean /\ "parent" \notin Linking
    BY DEF Clean, Linking
  <2>3. local[t].i \in Slots
    <3>1. local[t].i \in Nat /\ local[t].i < sBlock.numInodes
      BY <1>2, LocalFacts DEF probe_free, Local
    <3>2. sBlock.numInodes = NumInodes
      BY DEF ThreadInv, ThreadTypeOK, SharedSuperBlock
    <3> QED
      BY <3>1, <3>2, SlotFacts DEF Slots
  <2> QED
    BY <2>1, <2>2, <2>3, LocalFacts, ReadStep
<1>3. CASE no_inode(t)
  <2>1. pc[t] = "probe" /\ Returns(t) /\ UNCHANGED <<tableVars, begun>>
    BY <1>3 DEF no_inode
  <2>2. "probe" \in Clean
    BY DEF Clean
  <2> QED
    BY <2>1, <2>2, CleanOwesNothing, ReturnStep
<1> QED
  BY <1>1, <1>2, <1>3

LEMMA ParentKeeps ==
    ASSUME ThreadInv, NEW t \in Thread, find_parent(t) \/ no_parent(t)
    PROVE  ThreadInv'
<1>1. CASE find_parent(t)
  <2>1. PICK p \in findParent(local[t].path) : local' = [local EXCEPT ![t].parent = p]
    BY <1>1 DEF find_parent
  <2>2. p \in Slots
    BY FoundInTable DEF findParent, ThreadInv
  <2> DEFINE l == [local[t] EXCEPT !.parent = p]
  <2>3. l \in Local /\ l.path = local[t].path /\ l.parent = p /\ l.i = local[t].i
    BY <2>2, LocalFacts DEF Local, ParentNumber
  <2>4. local' = [local EXCEPT ![t] = l]
    BY <2>1
  <2>5. pc[t] = "parent" /\ Goto(t, "entry") /\ UNCHANGED <<unit, tableVars, begun>>
    BY <1>1 DEF find_parent
  <2>6. "parent" \in Clean /\ "entry" \in Clean
    BY DEF Clean
  <2>7. local[t].i \in Slots
    BY <2>5 DEF ThreadInv, ThreadInStep
  <2> HIDE DEF l
  <2> QED
    BY <2>7, <2>2, <2>3, <2>4, <2>5, <2>6, LocalFacts, ReadStep
<1>2. CASE no_parent(t)
  <2>1. pc[t] = "parent" /\ Returns(t) /\ UNCHANGED <<tableVars, begun>>
    BY <1>2 DEF no_parent
  <2>2. "parent" \in Clean
    BY DEF Clean
  <2> QED
    BY <2>1, <2>2, CleanOwesNothing, ReturnStep
<1> QED
  BY <1>1, <1>2

LEMMA EntryKeeps ==
    ASSUME ThreadInv, NEW t \in Thread, find_entry(t) \/ no_entry(t)
    PROVE  ThreadInv'
<1>0. pc[t] = "entry"
  BY DEF find_entry, no_entry
<1>1. local[t].i \in Slots /\ local[t].parent \in Slots /\ "entry" \in Clean
  BY <1>0 DEF ThreadInv, ThreadInStep, Clean, Linking
<1>2. CASE find_entry(t)
  <2>1. PICK k \in Idx : local' = [local EXCEPT ![t].k = k]
    BY <1>2 DEF find_entry
  <2> DEFINE l == [local[t] EXCEPT !.k = k]
  <2>2. /\ l \in Local /\ l.path = local[t].path
        /\ l.parent = local[t].parent /\ l.i = local[t].i
    BY LocalFacts DEF Local
  <2>3. local' = [local EXCEPT ![t] = l]
    BY <2>1
  <2>4. Goto(t, "link") /\ UNCHANGED <<unit, tableVars, begun>>
    BY <1>2 DEF find_entry
  <2>5. "link" \in Clean
    BY DEF Clean
  <2> HIDE DEF l
  <2> QED
    BY <1>0, <1>1, <2>2, <2>3, <2>4, <2>5, LocalFacts, ReadStep
<1>3. CASE no_entry(t)
  <2>1. Goto(t, "fileName") /\ UNCHANGED <<local, unit, tableVars, begun>>
    BY <1>3 DEF no_entry
  <2>2. "fileName" \in Dirty
    BY DEF Dirty
  <2> QED
    BY <1>0, <1>1, <2>1, <2>2, LocalFacts, ReadStep
<1> QED
  BY <1>2, <1>3

LEMMA FindKeeps ==
    ASSUME ThreadInv, NEW t \in Thread, find(t) \/ not_found(t)
    PROVE  ThreadInv'
<1>0. pc[t] = "find" /\ "find" \in Clean
  BY DEF find, not_found, Clean
<1>1. CASE find(t)
  <2>1. PICK f \in findFileOrDir(local[t].path) :
            local' = [local EXCEPT ![t].i = f, ![t].parent = getParentFcb(f)]
    BY <1>1 DEF find
  <2>2. f \in Slots /\ f \in Nat
    BY FoundInTable, SlotFacts DEF ThreadInv
  <2>3. getParentFcb(f) \in ParentNumber
    BY <2>2 DEF getParentFcb, ThreadInv, ThreadTypeOK, SharedFCB
  <2> DEFINE l == [local[t] EXCEPT !.i = f, !.parent = getParentFcb(f)]
  <2>4. l \in Local /\ l.path = local[t].path
    BY <2>2, <2>3, LocalFacts DEF Local
  <2>5. local' = [local EXCEPT ![t] = l]
    BY <2>1, LocalFacts DEF ThreadInv, ThreadTypeOK
  <2>6. Goto(t, "scan") /\ UNCHANGED <<unit, tableVars, begun>>
    BY <1>1 DEF find
  <2>7. "scan" \in Clean /\ "scan" \notin Linking \cup {"parent"}
    BY DEF Clean, Linking
  <2> HIDE DEF l
  <2> QED
    BY <1>0, <2>4, <2>5, <2>6, <2>7, LocalFacts, ReadStep
<1>2. CASE not_found(t)
  <2>1. Returns(t) /\ UNCHANGED <<tableVars, begun>>
    BY <1>2 DEF not_found
  <2> QED
    BY <1>0, <2>1, CleanOwesNothing, ReturnStep
<1> QED
  BY <1>1, <1>2

LEMMA ScanKeeps ==
    ASSUME ThreadInv, NEW t \in Thread, scan(t) \/ no_hit(t)
    PROVE  ThreadInv'
<1>0. pc[t] = "scan" /\ "scan" \in Clean
  BY DEF scan, no_hit, Clean
<1>1. CASE scan(t)
  <2> DEFINE last == lastEntryInDirentry(inodes[local[t].parent].dirContents)
  <2>1. last \in Nat
    BY DirAssumption DEF lastEntryInDirentry
  <2> HIDE DEF last
  <2>2. PICK k \in Idx : /\ local' = [local EXCEPT ![t].k = k, ![t].last = last]
                         /\ Goto(t, IF last = k THEN "clear" ELSE "move")
    BY <1>1 DEF scan, last
  <2> DEFINE l == [local[t] EXCEPT !.k = k, !.last = last]
             label == IF last = k THEN "clear" ELSE "move"
  <2>3. l \in Local /\ l.path = local[t].path
    BY <2>1, LocalFacts DEF Local
  <2>4. local' = [local EXCEPT ![t] = l]
    BY <2>2, LocalFacts DEF ThreadInv, ThreadTypeOK
  <2>5. UNCHANGED <<unit, tableVars, begun>>
    BY <1>1 DEF scan
  <2>6. label \in Dirty /\ label \notin Linking \cup {"parent"}
    BY DEF Dirty, Linking
  <2>7. Goto(t, label)
    BY <2>2
  <2> HIDE DEF l, label
  <2> QED
    BY <1>0, <2>3, <2>4, <2>5, <2>6, <2>7, LocalFacts, ReadStep
<1>2. CASE no_hit(t)
  <2>1. Goto(t, "release") /\ UNCHANGED <<local, unit, tableVars, begun>>
    BY <1>2 DEF no_hit
  <2>2. "release" \in Dirty /\ "release" \notin Linking \cup {"parent"}
    BY DEF Dirty, Linking
  <2> QED
    BY <1>0, <2>1, <2>2, LocalFacts, ReadStep
<1> QED
  BY <1>1, <1>2

------------------------------------------------------------------------------
(***************************************************************************)
(* The steps that change a table.                                          *)
(***************************************************************************)
(* A change of one array element keeps the type, wherever it lands. *)
LEMMA ArrayEditTyped ==
    ASSUME inodes \in [Slots -> SharedFCB], NEW p, NEW k,
           NEW c \in Entries \cup {WILD}
    PROVE  [inodes EXCEPT ![p].dirContents[k] = c] \in [Slots -> SharedFCB]
<1> DEFINE table == [inodes EXCEPT ![p].dirContents[k] = c]
<1> SUFFICES ASSUME NEW s \in Slots PROVE table[s] \in SharedFCB
  OBVIOUS
<1>1. inodes[s] \in SharedFCB
  OBVIOUS
<1>2. CASE s = p
  <2>1. table[s] = [inodes[s] EXCEPT !.dirContents = [@ EXCEPT ![k] = c]]
    BY <1>2
  <2>2. [inodes[s].dirContents EXCEPT ![k] = c] \in [Idx -> Entries \cup {WILD}]
    BY <1>1 DEF SharedFCB
  <2> QED
    BY <1>1, <2>1, <2>2 DEF SharedFCB
<1>3. CASE s # p
  BY <1>1, <1>3
<1> QED
  BY <1>2, <1>3

LEMMA NameEditTyped ==
    ASSUME inodes \in [Slots -> SharedFCB], NEW q, NEW n \in NameField
    PROVE  [inodes EXCEPT ![q].fileName = n] \in [Slots -> SharedFCB]
<1> DEFINE table == [inodes EXCEPT ![q].fileName = n]
<1> SUFFICES ASSUME NEW s \in Slots PROVE table[s] \in SharedFCB
  OBVIOUS
<1>1. PICK r \in SharedFCB : r = inodes[s]
  OBVIOUS
<1>2. [r EXCEPT !.fileName = n] \in SharedFCB
  BY DEF SharedFCB
<1> QED
  BY <1>1, <1>2

LEMMA CreateChanges ==
    ASSUME ThreadInv, NEW t \in Thread,
           link(t) \/ set_fileName(t) \/ set_parentDir(t) \/ set_numbers(t) \/ take(t)
    PROVE  ThreadInv'
<1>0. /\ inodes \in [Slots -> SharedFCB] /\ sBlock \in SharedSuperBlock
      /\ local[t] \in Local
  BY DEF ThreadInv, ThreadTypeOK
<1>1. CASE link(t)
  <2>1. pc[t] = "link" /\ Goto(t, "fileName") /\ UNCHANGED <<local, sBlock, disk, unit, begun>>
    BY <1>1 DEF link
  <2>2. inodes' \in [Slots -> SharedFCB]
    <3>1. inodes' = [inodes EXCEPT ![local[t].parent].dirContents[local[t].k] = local[t].i]
      BY <1>1 DEF link
    <3>2. local[t].i \in Entries \cup {WILD}
      BY <2>1 DEF ThreadInv, ThreadInStep, Entries, Linking
    <3> QED
      BY <1>0, <3>1, <3>2, ArrayEditTyped
  <2>3. "fileName" \in Dirty
    BY DEF Dirty
  <2> QED
    BY <1>0, <2>1, <2>2, <2>3, ChangeStep
<1>2. CASE set_fileName(t)
  <2>1. pc[t] = "fileName" /\ Goto(t, "parentDir") /\ UNCHANGED <<local, sBlock, disk, unit, begun>>
    BY <1>2 DEF set_fileName
  <2>2. relativeName(local[t].path) \in NameField
    BY <2>1, LocalFacts, PathFacts DEF NameField
  <2>3. inodes' \in [Slots -> SharedFCB]
    BY <1>0, <1>2, <2>2, NameEditTyped DEF set_fileName
  <2>4. "fileName" \in Dirty /\ "parentDir" \in Dirty
    BY DEF Dirty
  <2> QED
    BY <1>0, <2>1, <2>3, <2>4, ChangeStep
<1>3. CASE set_parentDir(t)
  <2>1. pc[t] = "parentDir" /\ Goto(t, "numbers") /\ UNCHANGED <<local, sBlock, disk, unit, begun>>
    BY <1>3 DEF set_parentDir
  <2>2. getRelativeParentName(local[t].path) \in NameField
    BY <2>1, LocalFacts, PathFacts
  <2>3. inodes' \in [Slots -> SharedFCB]
    BY <1>0, <1>3, <2>2 DEF set_parentDir, SharedFCB
  <2>4. "numbers" \in Dirty /\ "parentDir" \in Dirty
    BY DEF Dirty
  <2> QED
    BY <1>0, <2>1, <2>3, <2>4, ChangeStep
<1>4. CASE set_numbers(t)
  <2>1. pc[t] = "numbers" /\ Goto(t, "take") /\ UNCHANGED <<local, sBlock, disk, unit, begun>>
    BY <1>4 DEF set_numbers
  <2>2. PICK m \in SHRT_MIN .. SHRT_MAX : m = ToShort(local[t].mode)
    BY <1>0, ToShortRange DEF Local
  <2>3. PICK i \in Slots, p \in Slots : i = local[t].i /\ p = local[t].parent
    BY <2>1 DEF ThreadInv, ThreadInStep, Linking
  <2> DEFINE numbered == [inodes EXCEPT ![i].inumber = i, ![i].mode = m]
  <2>4. numbered \in [Slots -> SharedFCB]
    <3>1. \A s \in Slots : numbered[s] = IF s = i
                THEN [inodes[s] EXCEPT !.inumber = i, !.mode = m] ELSE inodes[s]
      BY <1>0
    <3>2. [inodes[i] EXCEPT !.inumber = i, !.mode = m] \in SharedFCB
      <4>1. PICK r \in SharedFCB : r = inodes[i]
        BY <1>0
      <4>2. [r EXCEPT !.inumber = i] \in SharedFCB
        BY DEF SharedFCB
      <4>3. PICK q \in SharedFCB : q = [r EXCEPT !.inumber = i]
        BY <4>2
      <4>4. [q EXCEPT !.mode = m] \in SharedFCB
        BY DEF SharedFCB
      <4>5. [r EXCEPT !.inumber = i, !.mode = m] = [q EXCEPT !.mode = m]
        BY <4>3
      <4> QED
        BY <4>1, <4>4, <4>5
    <3>3. numbered = [s \in Slots |-> numbered[s]]
      BY <1>0
    <3>4. \A s \in Slots : numbered[s] \in SharedFCB
      BY <1>0, <3>1, <3>2
    <3> HIDE DEF numbered
    <3> QED
      BY <3>3, <3>4
  <2>5. numbered[p].inumber \in ParentNumber
    BY <2>4 DEF SharedFCB, ParentNumber
  <2>6. inodes' = [numbered EXCEPT ![i].parent_inumber = numbered[p].inumber]
    BY <1>4, <2>2, <2>3 DEF set_numbers
  <2> HIDE DEF numbered
  <2>7. inodes' \in [Slots -> SharedFCB]
    BY <2>4, <2>5, <2>6 DEF SharedFCB
  <2>8. "numbers" \in Dirty /\ "take" \in Dirty
    BY DEF Dirty
  <2> QED
    BY <1>0, <2>1, <2>7, <2>8, ChangeStep
<1>5. CASE take(t)
  <2>1. pc[t] = "take" /\ Goto(t, "pad") /\ UNCHANGED <<local, inodes, disk, unit, begun>>
    BY <1>5 DEF take
  <2>2. sBlock' \in SharedSuperBlock
    BY <1>0, <1>5 DEF take, SharedSuperBlock
  <2>3. "take" \in Dirty
    BY DEF Dirty
  <2> QED
    BY <1>0, <2>1, <2>2, <2>3, ChangeStep
<1> QED
  BY <1>1, <1>2, <1>3, <1>4, <1>5

LEMMA RemoveChanges ==
    ASSUME ThreadInv, NEW t \in Thread, move(t) \/ clear(t) \/ release(t)
    PROVE  ThreadInv'
<1>0. /\ inodes \in [Slots -> SharedFCB] /\ sBlock \in SharedSuperBlock
      /\ local[t] \in Local
  BY DEF ThreadInv, ThreadTypeOK
<1>1. CASE move(t)
  <2> DEFINE p == local[t].parent
             k == local[t].k
             c == IF local[t].last \in Idx THEN inodes[p].dirContents[local[t].last]
                                           ELSE WILD
  <2>1. pc[t] = "move" /\ Goto(t, "clear") /\ UNCHANGED <<local, sBlock, disk, unit, begun>>
    BY <1>1 DEF move
  <2>2. inodes' = [inodes EXCEPT ![p].dirContents[k] = c]
    BY <1>1 DEF move
  <2>3. inodes' \in [Slots -> SharedFCB]
    <3>1. CASE p \in Slots
      <4>1. c \in Entries \cup {WILD}
        BY <1>0, <3>1 DEF SharedFCB
      <4> HIDE DEF p, k, c
      <4> QED
        BY <1>0, <2>2, <4>1, ArrayEditTyped
    <3>2. CASE p \notin Slots
      <4> HIDE DEF p, k, c
      <4>1. inodes' = inodes
        BY <1>0, <2>2, <3>2
      <4> QED
        BY <1>0, <4>1
    <3> QED
      BY <3>1, <3>2
  <2>4. "move" \in Dirty /\ "clear" \in Dirty
    BY DEF Dirty
  <2> QED
    BY <1>0, <2>1, <2>3, <2>4, ChangeStep
<1>2. CASE clear(t)
  <2>1. pc[t] = "clear" /\ Goto(t, "release") /\ UNCHANGED <<local, sBlock, disk, unit, begun>>
    BY <1>2 DEF clear
  <2>2. inodes' \in [Slots -> SharedFCB]
    <3>1. CASE local[t].last \in Idx
      <4>1. inodes' = [inodes EXCEPT ![local[t].parent].dirContents[local[t].last] = NULL]
        BY <1>2, <3>1 DEF clear
      <4>2. NULL \in Entries \cup {WILD}
        BY DEF Entries
      <4> QED
        BY <1>0, <4>1, <4>2, ArrayEditTyped
    <3>2. CASE local[t].last \notin Idx
      <4>1. inodes' = [inodes EXCEPT ![local[t].parent + 1].fileName = ""]
        BY <1>2, <3>2 DEF clear
      <4>2. "" \in NameField
        BY DEF NameField
      <4> QED
        BY <1>0, <4>1, <4>2, NameEditTyped
    <3> QED
      BY <3>1, <3>2
  <2>3. "clear" \in Dirty /\ "release" \in Dirty
    BY DEF Dirty
  <2> QED
    BY <1>0, <2>1, <2>2, <2>3, ChangeStep
<1>3. CASE release(t)
  <2>1. pc[t] = "release" /\ Goto(t, "pad") /\ UNCHANGED <<local, inodes, disk, unit, begun>>
    BY <1>3 DEF release
  <2>2. sBlock' \in SharedSuperBlock
    BY <1>0, <1>3 DEF release, SharedSuperBlock
  <2>3. "release" \in Dirty
    BY DEF Dirty
  <2> QED
    BY <1>0, <2>1, <2>2, <2>3, ChangeStep
<1> QED
  BY <1>1, <1>2, <1>3

------------------------------------------------------------------------------
(***************************************************************************)
(* The steps of a flush.                                                   *)
(***************************************************************************)
SharedDisk == [touched : BOOLEAN, sBlock : SharedSuperBlock \cup {PadSuperBlock},
               inodes : [Slots -> SharedFCB \cup {PadFCB}]]

(* The padding and the memory of a unit are what the disk can hold of it. *)
LEMMA PwriteTyped ==
    ASSUME ThreadTypeOK, NEW w \in Units, NEW c, c = Pad(w) \/ c = InMemory(w),
           pwrite(w, c)
    PROVE  disk' \in SharedDisk
<1>0. PICK d \in SharedDisk : d = disk
  BY DEF ThreadTypeOK, SharedDisk
<1>1. CASE w = -1
  <2>1. c \in SharedSuperBlock \cup {PadSuperBlock}
    BY <1>1 DEF Pad, InMemory, ThreadTypeOK
  <2>2. disk' = [d EXCEPT !.sBlock = c]
    BY <1>0, <1>1 DEF pwrite
  <2> QED
    BY <2>1, <2>2 DEF SharedDisk
<1>2. CASE w # -1
  <2>1. w \in Slots
    BY <1>2, SlotFacts DEF Units, Slots
  <2>2. c \in SharedFCB \cup {PadFCB}
    BY <1>2, <2>1 DEF Pad, InMemory, ThreadTypeOK
  <2>3. PICK table \in [Slots -> SharedFCB \cup {PadFCB}] :
            table = [d.inodes EXCEPT ![w] = c]
    BY <2>1, <2>2 DEF SharedDisk
  <2>4. disk' = [d EXCEPT !.inodes = table]
    BY <1>0, <1>2, <2>3 DEF pwrite
  <2> QED
    BY <2>3, <2>4 DEF SharedDisk
<1> QED
  BY <1>1, <1>2

LEMMA FlushKeeps ==
    ASSUME ThreadInv, NEW t \in Thread, write_pad(t) \/ write_data(t) \/ flushed(t)
    PROVE  ThreadInv'
<1>0. /\ ThreadTypeOK /\ sBlock.numInodes = NumInodes
      /\ unit \in [Thread -> -1 .. NumInodes - 1] /\ pc \in [Thread -> Labels]
  BY DEF ThreadInv, ThreadTypeOK, SharedSuperBlock, Labels
<1>1. CASE write_pad(t)
  <2>1. pc[t] = "pad" /\ unit[t] < NumInodes - 1 /\ pwrite(unit[t], Pad(unit[t]))
        /\ Goto(t, "data") /\ UNCHANGED <<local, inodes, sBlock, unit, begun>>
    BY <1>0, <1>1 DEF write_pad
  <2>2. unit[t] \in Units
    BY <1>0, <2>1, SlotFacts DEF Units
  <2>3. disk' \in SharedDisk
    BY <1>0, <2>1, <2>2, PwriteTyped
  <2>4. /\ pc' \in [Thread -> Labels] /\ pc'[t] = "data"
        /\ local' \in [Thread -> Local]
        /\ unit' \in [Thread -> -1 .. NumInodes - 1]
        /\ OthersStay(t)
    <3>1. "data" \in Labels
      BY DEF Labels
    <3> QED
      BY <1>0, <2>1, <3>1, GotoFacts
  <2>5. ThreadTypeOK'
    BY <1>0, <2>1, <2>3, <2>4 DEF ThreadTypeOK, Labels, SharedDisk
  <2>6. ThreadInStep(t)'
    <3>1. "data" \notin Clean \cup Dirty /\ "data" \notin Linking \cup {"parent"}
      BY DEF Clean, Dirty, Linking
    <3>2. local[t].path \in Paths
      BY <2>1, LocalFacts
    <3> QED
      BY <2>1, <2>2, <2>4, <3>1, <3>2 DEF ThreadInStep, Units
  <2>7. PlacesOK'
    BY <2>4, <2>6, PlacesKept DEF ThreadInv, PlacesOK
  <2> QED
    BY <1>1, <2>5, <2>7, PadStep DEF ThreadInv, PlacesOK
<1>2. CASE write_data(t)
  <2>1. pc[t] = "data" /\ pwrite(unit[t], InMemory(unit[t]))
        /\ unit' = [unit EXCEPT ![t] = @ + 1]
        /\ Goto(t, "pad") /\ UNCHANGED <<local, inodes, sBlock, begun>>
    BY <1>2 DEF write_data
  <2>2. unit[t] \in Units
    BY <2>1 DEF ThreadInv, ThreadInStep
  <2>3. disk' \in SharedDisk
    BY <1>0, <2>1, <2>2, PwriteTyped
  <2>4. unit[t] + 1 \in -1 .. NumInodes - 1
    BY <2>2, SlotFacts DEF Units
  <2>5. /\ pc' \in [Thread -> Labels] /\ pc'[t] = "pad"
        /\ local' \in [Thread -> Local]
        /\ unit' \in [Thread -> -1 .. NumInodes - 1]
        /\ OthersStay(t)
    BY <1>0, <2>1, <2>4 DEF ThreadTypeOK, Goto, OthersStay, Labels
  <2>6. ThreadTypeOK'
    BY <1>0, <2>1, <2>3, <2>5 DEF ThreadTypeOK, Labels, SharedDisk
  <2>7. ThreadInStep(t)'
    <3>1. "pad" \notin Clean \cup Dirty /\ "pad" \notin Linking \cup {"parent"}
      BY DEF Clean, Dirty, Linking
    <3>2. local[t].path \in Paths
      BY <2>1, LocalFacts
    <3> QED
      BY <2>1, <2>5, <3>1, <3>2 DEF ThreadInStep
  <2>8. PlacesOK'
    BY <2>5, <2>7, PlacesKept DEF ThreadInv, PlacesOK
  <2> QED
    BY <1>2, <2>6, <2>8, DataStep DEF ThreadInv, PlacesOK
<1>3. CASE flushed(t)
  <2>1. pc[t] = "pad" /\ unit[t] >= NumInodes - 1
        /\ Returns(t) /\ UNCHANGED <<tableVars, begun>>
    BY <1>0, <1>3 DEF flushed
  <2>2. ASSUME NEW u \in Units PROVE ~WillWrite(t, u)
    <3>1. unit[t] > u
      BY <1>0, <2>1, SlotFacts DEF Units
    <3> QED
      BY <1>0, <2>1, <3>1, SlotFacts DEF WillWrite, Dirty, Units
  <2> QED
    BY <2>1, <2>2, ReturnStep
<1> QED
  BY <1>1, <1>2, <1>3

------------------------------------------------------------------------------
(***************************************************************************)
(* The theorems.                                                           *)
(***************************************************************************)
LEMMA InitKeeps ==
    ASSUME ThreadInit
    PROVE  ThreadInv
<1> USE DEF ThreadInit
<1>1. FormattedTable \in [Slots -> SharedFCB]
  <2>1. BlankFCB \in SharedFCB
    <3>1. initDirContents \in [Idx -> Entries \cup {WILD}]
      BY DEF initDirContents, Entries
    <3> QED
      BY <3>1, BlankFacts DEF FCB, SharedFCB, BlankFCB
  <2>2. RootFCB \in SharedFCB
    <3>1. S_IFDIR + 493 \in SHRT_MIN .. SHRT_MAX
      BY DEF S_IFDIR, SHRT_MIN, SHRT_MAX
    <3>2. "/" \in NameField /\ -1 \in ParentNumber /\ 0 \in Slots
      BY SlotFacts DEF NameField, ParentNumber
    <3>3. initDirContents \in [Idx -> Entries \cup {WILD}] /\ "" \in NameField
      BY DEF initDirContents, Entries, NameField
    <3> QED
      BY <3>1, <3>2, <3>3 DEF RootFCB, BlankFCB, SharedFCB
  <2> QED
    BY <2>1, <2>2 DEF FormattedTable, BlankTable
<1>2. FormattedSuperBlock(NumInodes) \in SharedSuperBlock
  BY DEF FormattedSuperBlock, SharedSuperBlock
<1>3. NoRequest \in Local
  <2>1. 0 \in Idx
    BY DirAssumption DEF Idx
  <2>2. 0 \in ParentNumber
    BY SlotFacts DEF ParentNumber
  <2> QED
    BY <2>1, <2>2 DEF NoRequest, Local
<1>4. ThreadTypeOK
  <2>1. -1 \in -1 .. NumInodes - 1
    BY SlotFacts
  <2>2. disk \in SharedDisk
    BY <1>1, <1>2 DEF FormattedDisk, SharedDisk
  <2>3. pc \in [Thread -> Labels]
    BY DEF Labels, Clean
  <2> QED
    BY <1>1, <1>2, <1>3, <2>1, <2>2, <2>3 DEF ThreadTypeOK, SharedDisk, Labels
<1>5. \A t \in Thread : ThreadInStep(t)
  BY DEF ThreadInStep, Idle, Linking
<1>6. \A u \in Units : OnDisk(u) = InMemory(u)
  BY DEF OnDisk, InMemory, FormattedDisk
<1>7. \A u \in Units : OnDisk(u) # Pad(u)
  BY <1>4, <1>6, MemoryNotPad
<1> QED
  BY <1>4, <1>5, <1>6, <1>7 DEF ThreadInv, StoredOrDue, PadHasWriter

LEMMA NextKeeps ==
    ASSUME ThreadInv, [ThreadNext]_threadVars
    PROVE  ThreadInv'
<1>1. ASSUME NEW t \in Thread, NEW path \in Paths,
             sfs_create(t, path) \/ sfs_remove(t, path) \/ sfs_mkdir(t, path)
      PROVE  ThreadInv'
  <2>1. PICK op \in {"create", "remove"}, mode \in Nat, label \in {"probe", "find"} :
            Begin(t, op, path, mode, label)
    <3>1. 33188 \in Nat /\ S_IFDIR \in Nat /\ 0 \in Nat
      BY DEF S_IFDIR
    <3>2. \/ Begin(t, "create", path, 33188, "probe")
          \/ Begin(t, "create", path, S_IFDIR, "probe")
          \/ Begin(t, "remove", path, 0, "find")
      BY <1>1 DEF sfs_create, sfs_remove, sfs_mkdir
    <3> QED
      BY <3>1, <3>2
  <2> QED
    BY <2>1, BeginKeeps
<1>2. ASSUME NEW t \in Thread, Step(t)
      PROVE  ThreadInv'
  <2>1. CASE create_inode_step(t)
    BY <2>1, ProbeKeeps, ParentKeeps, EntryKeeps, CreateChanges DEF create_inode_step
  <2>2. CASE remove_inode_step(t)
    BY <2>2, FindKeeps, ScanKeeps, RemoveChanges DEF remove_inode_step
  <2>3. CASE flush_step(t)
    BY <2>3, FlushKeeps DEF flush_step
  <2> QED
    BY <1>2, <2>1, <2>2, <2>3 DEF Step
<1>3. CASE UNCHANGED threadVars
  BY <1>3 DEF threadVars, ThreadInv, ThreadTypeOK, ThreadInStep, StoredOrDue,
              PadHasWriter, WillWrite, OnDisk, InMemory, Pad, Idle
<1> QED
  BY <1>1, <1>2, <1>3, RequestsAssumption DEF ThreadNext

(***************************************************************************)
(* Whatever the threads do, each unit of the disk is current or is going   *)
(* to be written by a thread that is on its way through                    *)
(* flushAllInodesTodisk.                                                   *)
(***************************************************************************)
THEOREM ThreadInvariant == ThreadSpec => []ThreadInv
<1>1. ThreadInit => ThreadInv
  BY InitKeeps
<1>2. ThreadInv /\ [ThreadNext]_threadVars => ThreadInv'
  BY NextKeeps
<1> QED
  BY <1>1, <1>2, PTL DEF ThreadSpec

(***************************************************************************)
(* When all requests are answered the disk is current, for any number of   *)
(* threads and however their flushes of the whole table overlapped.        *)
(***************************************************************************)
THEOREM OverlappingFlushesAgree == ThreadSpec => []QuiescentDisk
<1>1. ThreadInv => QuiescentDisk
  <2> SUFFICES ASSUME ThreadInv, \A t \in Thread : Idle(t), NEW u \in Units
               PROVE  OnDisk(u) = InMemory(u)
    BY DEF QuiescentDisk
  <2>1. ASSUME NEW t \in Thread PROVE ~WillWrite(t, u)
    <3>1. pc[t] \in Clean
      BY DEF Idle, Clean
    <3> QED
      BY <3>1, CleanOwesNothing
  <2> QED
    BY <2>1 DEF ThreadInv, StoredOrDue
<1> QED
  BY <1>1, ThreadInvariant, PTL

(***************************************************************************)
(* A superblock or inode that is all '0' characters on the disk has a      *)
(* thread between the two pwrites of its padded write.                     *)
(***************************************************************************)
THEOREM PaddingIsTransient == ThreadSpec => []PadHasWriter
<1>1. ThreadInv => PadHasWriter
  BY DEF ThreadInv
<1> QED
  BY <1>1, ThreadInvariant, PTL
==============================================================================
