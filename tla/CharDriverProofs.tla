-------------------------- MODULE CharDriverProofs --------------------------
(***************************************************************************)
(* The locks, the memory and the types of the character device, for every  *)
(* number of slots and processes, every set of writes and every failure.   *)
(***************************************************************************)
EXTENDS CharDriver, RingFacts

EntryLocked == {"w_alloc", "w_copy", "w_buf", "w_push", "w_out"}
BufLocked   == {"r_find", "r_copy", "w_push"}

(* A mutex is held by the process that is where the code holds it, and by  *)
(* nobody else; the module is not unloaded under an open file.             *)
LocksInv ==
  /\ loaded \in BOOLEAN /\ pc \in [Procs -> Locations]
  /\ entry_lock \in Procs \cup {NULL} /\ buf_lock \in Procs \cup {NULL}
  /\ \A p \in Procs : entry_lock = p <=> pc[p] \in EntryLocked
  /\ \A p \in Procs : buf_lock = p <=> pc[p] \in BufLocked
  /\ ~loaded => \A p \in Procs : pc[p] = "closed"

(* Nobody holds a lock before the module is loaded.                        *)
LEMMA LocksInit == Init => LocksInv
<1> SUFFICES ASSUME Init PROVE LocksInv
  OBVIOUS
<1>1. loaded \in BOOLEAN /\ pc \in [Procs -> Locations] /\ \A p \in Procs : pc[p] = "closed"
  BY DEF Init, Locations
<1> QED  BY <1>1, DriverAssumption DEF Init, LocksInv, EntryLocked, BufLocked

(* A process that moves from one place to another keeps the lock           *)
(* invariant when the locks go with it.                                    *)
LEMMA LocksMove ==
  ASSUME LocksInv, NEW p \in Procs, NEW loc \in Locations, pc' = [pc EXCEPT ![p] = loc],
         loaded /\ UNCHANGED loaded,
         \/ UNCHANGED entry_lock /\ (pc[p] \in EntryLocked <=> loc \in EntryLocked)
         \/ entry_lock = NULL /\ entry_lock' = p /\ loc \in EntryLocked
         \/ pc[p] \in EntryLocked /\ entry_lock' = NULL /\ loc \notin EntryLocked,
         \/ UNCHANGED buf_lock /\ (pc[p] \in BufLocked <=> loc \in BufLocked)
         \/ buf_lock = NULL /\ buf_lock' = p /\ loc \in BufLocked
         \/ pc[p] \in BufLocked /\ buf_lock' = NULL /\ loc \notin BufLocked
  PROVE  LocksInv'
<1>1. /\ pc' \in [Procs -> Locations] /\ pc'[p] = loc
      /\ \A r \in Procs \ {p} : pc'[r] = pc[r]
  BY DEF LocksInv
<1>2. /\ entry_lock' \in Procs \cup {NULL}
      /\ \A r \in Procs : entry_lock' = r <=> pc'[r] \in EntryLocked
  BY <1>1, DriverAssumption DEF LocksInv
<1>3. /\ buf_lock' \in Procs \cup {NULL}
      /\ \A r \in Procs : buf_lock' = r <=> pc'[r] \in BufLocked
  BY <1>1, DriverAssumption DEF LocksInv
<1> QED  BY <1>1, <1>2, <1>3 DEF LocksInv

(* Every path through aesd_read and aesd_write takes and releases the      *)
(* locks as it goes.                                                       *)
LEMMA LocksNext == LocksInv /\ [Next]_vars => LocksInv'
<1> SUFFICES ASSUME LocksInv, [Next]_vars PROVE LocksInv'
  OBVIOUS
<1>0. \A p \in Procs : pc[p] # "closed" => loaded
  BY DEF LocksInv
<1> USE DEF At, Goto, EntryLocked, BufLocked, Locations, devVars
<1>1. CASE aesd_init_module
  BY <1>1, DriverAssumption DEF aesd_init_module, procVars, LocksInv
<1>2. CASE aesd_cleanup_module
  BY <1>2 DEF aesd_cleanup_module, procVars, LocksInv
<1>3. CASE UNCHANGED vars
  BY <1>3 DEF vars, procVars, LocksInv
<1>4. ASSUME NEW p \in Procs, aesd_open(p) \/ aesd_release(p) PROVE LocksInv'
  BY <1>0, <1>4, LocksMove DEF aesd_open, aesd_release
<1>5. ASSUME NEW p \in Procs, Read(p) PROVE LocksInv'
  <2>1. CASE \E n \in ReadCounts : read(p, n)
    BY <1>0, <2>1, LocksMove DEF read, Enter
  <2>2. CASE read_lock(p) \/ read_interrupted(p)
    BY <1>0, <2>2, LocksMove DEF read_lock, read_interrupted
  <2>3. CASE read_find(p)
    BY <1>0, <2>3, LocksMove DEF read_find, ReadDone
  <2>4. CASE read_copy(p)
    BY <1>0, <2>4, LocksMove DEF read_copy, ReadDone
  <2> QED  BY <1>5, <2>1, <2>2, <2>3, <2>4 DEF Read
<1>6. ASSUME NEW p \in Procs, Write(p) PROVE LocksInv'
  <2>1. CASE \E c \in Chunks : write(p, c)
    BY <1>0, <2>1, LocksMove DEF write, Enter
  <2>2. CASE write_lock(p) \/ write_interrupted(p)
    BY <1>0, <2>2, LocksMove DEF write_lock, write_interrupted
  <2>3. CASE write_alloc(p)
    BY <1>0, <2>3, LocksMove DEF write_alloc
  <2>4. CASE write_copy(p)
    BY <1>0, <2>4, LocksMove DEF write_copy
  <2>5. CASE write_buf_lock(p) \/ write_buf_interrupted(p)
    BY <1>0, <2>5, LocksMove DEF write_buf_lock, write_buf_interrupted
  <2>6. CASE write_push(p)
    BY <1>0, <2>6, LocksMove DEF write_push
  <2>7. CASE write_out(p)
    BY <1>0, <2>7, LocksMove DEF write_out
  <2> QED  BY <1>6, <2>1, <2>2, <2>3, <2>4, <2>5, <2>6, <2>7 DEF Write
<1> QED  BY <1>1, <1>2, <1>3, <1>4, <1>5, <1>6 DEF Next

(* For every number of processes and every failure: both mutexes of the    *)
(* device are held exactly on the stretches of aesd_read and aesd_write    *)
(* between taking and releasing them, so each has one holder at most and   *)
(* no path returns with one (main.c:57-187).                               *)
THEOREM LocksReleased == Spec => []LocksInv
  BY LocksInit, LocksNext, PTL DEF Spec

-----------------------------------------------------------------------------
(* What add_entry is given: an allocated block and its size.               *)
Stored == [buffptr : Ptrs, size : Nat]

(* No such entry looks like an unused slot, and the ring starts without    *)
(* one.                                                                    *)
LEMMA EmptyRing ==
  /\ \A e \in Stored : e # NoEntry /\ e.size \in Nat
  /\ WellFormed(EmptyBuffer, Stored)
  /\ \A i \in SlotIndex : EmptyBuffer.entry[i].buffptr = NULL
<1>1. \A e \in Stored : e # NoEntry /\ e.size \in Nat
  BY DriverAssumption DEF Stored, NoEntry
<1>2. WellFormed(EmptyBuffer, Stored)
  BY <1>1, EmptyWellFormed
<1> QED  BY <1>1, <1>2 DEF EmptyBuffer, NoEntry

(* Two strings of bytes one behind the other.                              *)
LEMMA Joined ==
  ASSUME NEW B, NEW s \in Seq(B), NEW t \in Seq(B)
  PROVE  s \o t \in Seq(B) /\ Len(s \o t) = Len(s) + Len(t)
  OBVIOUS

(* add_entry writes one slot and returns the pointer it replaced there,    *)
(* which is NULL while the ring has room.                                  *)
LEMMA AddRing ==
  ASSUME NEW b, WellFormed(b, Stored), NEW e \in Stored
  PROVE  /\ WellFormed(AddEntry(b, e), Stored)
         /\ b.in_offs \in SlotIndex
         /\ \A k \in SlotIndex :
              AddEntry(b, e).entry[k] = IF k = b.in_offs THEN e ELSE b.entry[k]
         /\ Overwritten(b) = b.entry[b.in_offs].buffptr
<1>1. b.in_offs \in SlotIndex /\ b.entry \in [SlotIndex -> Stored \cup {NoEntry}]
  BY DEF WellFormed
<1>2. \A k \in SlotIndex :
        AddEntry(b, e).entry[k] = IF k = b.in_offs THEN e ELSE b.entry[k]
  BY <1>1 DEF AddEntry
<1>3. Overwritten(b) = b.entry[b.in_offs].buffptr
  <2>1. CASE b.full
    BY <2>1 DEF WellFormed, Overwritten
  <2>2. CASE ~b.full
    <3>1. ~(b.in_offs < b.in_offs)
      BY <1>1 DEF SlotIndex
    <3>2. b.entry[b.in_offs] = NoEntry
      BY <1>1, <2>2, <3>1 DEF WellFormed
    <3> QED  BY <2>2, <3>2 DEF Overwritten, NoEntry
  <2> QED  BY <2>1, <2>2
<1>4. WellFormed(AddEntry(b, e), Stored)
  BY AddWellFormed
<1> QED  BY <1>1, <1>2, <1>3, <1>4

-----------------------------------------------------------------------------
(* The memory of the driver.                                               *)
Writing  == {"w_lock", "w_alloc", "w_copy", "w_buf", "w_push", "w_out"}
Entries  == [buffptr : Ptrs \cup {NULL, ZeroPtr}, size : Nat]
Slot(i)  == buffer.entry[i].buffptr

MemTypes ==
  /\ WellFormed(buffer, Stored) /\ entry \in Entries
  /\ heap \in [Ptrs -> {NULL} \cup Seq(Bytes)] /\ leaked \subseteq Ptrs
  /\ kbuf \in [Procs -> Ptrs \cup {NULL, ZeroPtr}]
  /\ call \in [Procs -> Calls] /\ found = [p \in Procs |-> found[p]]
  /\ \A p \in Procs : pc[p] \in Writing => call[p].op = "write"

(* Between kzalloc and copy_from_user kbuf is the new block, long enough   *)
(* for the unfinished command, whose own block is free, and the new bytes. *)
KbufOk ==
  \A p \in Procs :
    /\ pc[p] = "w_copy" =>
         /\ kbuf[p] # NULL
         /\ kbuf[p] \in Ptrs =>
              heap[kbuf[p]] # NULL /\ Len(heap[kbuf[p]]) = entry.size + Len(call[p].data)
         /\ kbuf[p] = ZeroPtr => entry.size + Len(call[p].data) = 0
         /\ entry.buffptr \in Ptrs => heap[entry.buffptr] = NULL
    /\ pc[p] # "w_copy" => kbuf[p] = NULL

(* The unfinished command, unless it dangles, is as long as it says, and a *)
(* write that has appended to it has not left it dangling.                 *)
EntryOk ==
  /\ entry.buffptr \notin Ptrs => entry.size = 0
  /\ entry.buffptr \in Ptrs /\ heap[entry.buffptr] # NULL =>
       Len(heap[entry.buffptr]) = entry.size
  /\ \A p \in Procs : pc[p] \in {"w_buf", "w_push"} =>
       /\ entry.buffptr \in Ptrs => heap[entry.buffptr] # NULL
       /\ Len(call[p].data) <= entry.size

(* A reader that copies out copies from a slot of the ring.                *)
ReaderOk ==
  \A p \in Procs : pc[p] = "r_copy" => \E i \in SlotIndex : found[p].buffptr = Slot(i)

(* What a slot points to is allocated, and nothing else points to it.      *)
SlotsOwn ==
  \A i \in SlotIndex : Slot(i) # NULL =>
    /\ heap[Slot(i)] # NULL /\ Len(heap[Slot(i)]) = buffer.entry[i].size
    /\ Slot(i) # entry.buffptr /\ Slot(i) \notin leaked
    /\ \A p \in Procs : Slot(i) # kbuf[p]
    /\ \A j \in SlotIndex : Slot(i) = Slot(j) => i = j

(* Nor does anything else point to what dev->entry, kbuf or nobody owns.   *)
OthersOwn ==
  /\ entry.buffptr \in Ptrs =>
       entry.buffptr \notin leaked /\ \A p \in Procs : kbuf[p] # entry.buffptr
  /\ \A p \in Procs : kbuf[p] \notin leaked
  /\ \A q \in leaked : heap[q] # NULL

(* A block that is allocated has an owner.                                 *)
HasOwner(q) ==
  \/ q = entry.buffptr \/ q \in leaked
  \/ \E i \in SlotIndex : q = Slot(i)
  \/ \E p \in Procs : q = kbuf[p]

AllOwned == \A q \in Ptrs : heap[q] # NULL => HasOwner(q)

MemSafe == KbufOk /\ EntryOk /\ ReaderOk /\ SlotsOwn /\ OthersOwn /\ AllOwned

MemInv ==
  /\ MemTypes /\ undefined \in Causes
  /\ ~loaded => buffer = EmptyBuffer /\ entry = NoEntry
  /\ undefined = "no" => MemSafe
  /\ DefinedBehaviour

(* What the types say of the pieces.                                       *)
LEMMA MemFacts ==
  ASSUME MemTypes
  PROVE  /\ \A i \in SlotIndex : /\ buffer.entry[i].size \in Nat /\ Slot(i) \in Ptrs \cup {NULL}
                                 /\ Slot(i) # NULL => Slot(i) \in Ptrs
         /\ entry.buffptr \in Ptrs \cup {NULL, ZeroPtr} /\ entry.size \in Nat
         /\ \A q \in Ptrs : heap[q] # NULL => heap[q] \in Seq(Bytes) /\ Len(heap[q]) \in Nat
         /\ \A p \in Procs : call[p].data \in Seq(Bytes) /\ Len(call[p].data) \in Nat
         /\ NULL \notin Ptrs /\ ZeroPtr \notin Ptrs /\ NULL # ZeroPtr
<1>1. \A i \in SlotIndex : buffer.entry[i] \in Stored \cup {NoEntry}
  BY DEF MemTypes, WellFormed
<1>2. \A i \in SlotIndex : Slot(i) \in Ptrs \cup {NULL} /\ buffer.entry[i].size \in Nat
  BY <1>1 DEF Slot, Stored, NoEntry
<1>3. \A q \in Ptrs : heap[q] # NULL => heap[q] \in Seq(Bytes)
  BY DEF MemTypes
<1>4. ASSUME NEW p \in Procs PROVE call[p].data \in Seq(Bytes)
  <2>1. call[p] \in Calls
    BY DEF MemTypes
  <2>2. call[p].data \in Chunks \cup {<< >>}
    BY <2>1 DEF Calls, NoCall
  <2>3. << >> \in Seq(Bytes) /\ Chunks \subseteq Seq(Bytes)
    BY DriverAssumption
  <2> QED  BY <2>2, <2>3
<1>5. \A s \in Seq(Bytes) : Len(s) \in Nat
  OBVIOUS
<1>6. NULL \notin Ptrs /\ ZeroPtr \notin Ptrs /\ NULL # ZeroPtr
  BY DriverAssumption
<1>7. entry.buffptr \in Ptrs \cup {NULL, ZeroPtr} /\ entry.size \in Nat
  BY DEF MemTypes, Entries
<1> QED  BY <1>1, <1>2, <1>3, <1>4, <1>5, <1>6, <1>7

(* The module starts without memory.                                       *)
LEMMA MemInit == Init => MemInv
<1> SUFFICES ASSUME Init PROVE MemInv
  OBVIOUS
<1>1. MemTypes
  <2>1. WellFormed(buffer, Stored)
    BY EmptyRing DEF Init
  <2>2. entry \in Entries /\ heap \in [Ptrs -> {NULL} \cup Seq(Bytes)] /\ leaked \subseteq Ptrs
    BY DEF Init, Entries, NoEntry
  <2>3. kbuf \in [Procs -> Ptrs \cup {NULL, ZeroPtr}] /\ found = [p \in Procs |-> found[p]]
    BY DEF Init
  <2>4. call \in [Procs -> Calls] /\ \A p \in Procs : pc[p] \in Writing => call[p].op = "write"
    BY DEF Init, Calls, Writing
  <2> QED  BY <2>1, <2>2, <2>3, <2>4 DEF MemTypes
<1>2. \A i \in SlotIndex : Slot(i) = NULL
  BY EmptyRing DEF Init, Slot
<1>3. MemSafe
  <2>1. KbufOk /\ ReaderOk
    BY DEF Init, KbufOk, ReaderOk
  <2>2. EntryOk /\ OthersOwn
    BY DriverAssumption DEF Init, EntryOk, OthersOwn, NoEntry
  <2>3. SlotsOwn
    BY <1>2 DEF SlotsOwn
  <2>4. AllOwned
    BY DEF Init, AllOwned
  <2> QED  BY <2>1, <2>2, <2>3, <2>4 DEF MemSafe
<1> QED  BY <1>1, <1>3 DEF MemInv, Init, Causes, DefinedBehaviour

(* A step of one process that neither allocates, frees nor hands over a    *)
(* block.                                                                  *)
LEMMA MemStays ==
  ASSUME LocksInv, MemInv, undefined = "no",
         UNCHANGED <<loaded, buffer, entry, heap, leaked, kbuf, undefined>>,
         NEW p \in Procs, NEW loc \in Locations, pc' = [pc EXCEPT ![p] = loc],
         pc[p] # "w_copy", loc # "w_copy",
         call' \in [Procs -> Calls], \A r \in Procs \ {p} : call'[r] = call[r],
         found' = [r \in Procs |-> found'[r]], \A r \in Procs \ {p} : found'[r] = found[r],
         loc \in Writing => call'[p].op = "write",
         loc \in {"w_buf", "w_push"} =>
           pc[p] \in {"w_buf", "w_push"} /\ call'[p] = call[p],
         loc = "r_copy" => \E i \in SlotIndex : found'[p].buffptr = Slot(i)
  PROVE  MemInv'
<1>1. pc'[p] = loc /\ \A r \in Procs \ {p} : pc'[r] = pc[r]
  BY DEF LocksInv
<1>2. \A i \in SlotIndex : Slot(i)' = Slot(i)
  BY DEF Slot
<1>3. MemTypes'
  BY <1>1 DEF MemInv, MemTypes
<1>4. MemSafe
  BY DEF MemInv
<1>5. KbufOk'
  BY <1>1, <1>4 DEF MemSafe, KbufOk
<1>6. EntryOk'
  BY <1>1, <1>4 DEF MemSafe, EntryOk
<1>7. ReaderOk'
  BY <1>1, <1>2, <1>4 DEF MemSafe, ReaderOk
<1>8. SlotsOwn'
  BY <1>2, <1>4 DEF MemSafe, SlotsOwn
<1>9. OthersOwn'
  BY <1>4 DEF MemSafe, OthersOwn
<1>10. AllOwned'
  BY <1>2, <1>4 DEF MemSafe, AllOwned, HasOwner
<1> QED
  BY <1>3, <1>5, <1>6, <1>7, <1>8, <1>9, <1>10
  DEF MemInv, MemSafe, Causes, DefinedBehaviour

(* aesd_init_module starts from nothing and leaves the blocks that earlier *)
(* loads leaked alone.                                                     *)
LEMMA MemLoad ==
  ASSUME MemInv, aesd_init_module
  PROVE  MemInv'
<1>1. buffer = EmptyBuffer /\ entry = NoEntry
  BY DEF MemInv, aesd_init_module
<1>2. UNCHANGED <<buffer, entry, heap, leaked, undefined, pc, call, found, kbuf>> /\ loaded'
  BY <1>1 DEF aesd_init_module, procVars
<1>3. \A i \in SlotIndex : Slot(i)' = Slot(i)
  BY <1>2 DEF Slot
<1>4. KbufOk => KbufOk'
  BY <1>2 DEF KbufOk
<1>5. EntryOk => EntryOk'
  BY <1>2 DEF EntryOk
<1>6. ReaderOk /\ SlotsOwn => ReaderOk' /\ SlotsOwn'
  BY <1>2, <1>3 DEF ReaderOk, SlotsOwn
<1>7. OthersOwn /\ AllOwned => OthersOwn' /\ AllOwned'
  BY <1>2, <1>3 DEF OthersOwn, AllOwned, HasOwner
<1> QED
  BY <1>2, <1>4, <1>5, <1>6, <1>7 DEF MemInv, MemTypes, MemSafe, DefinedBehaviour

(* aesd_cleanup_module frees the blocks of the ring, which no other        *)
(* pointer reaches, and loses dev->entry's, which then has no owner.       *)
LEMMA MemUnload ==
  ASSUME MemInv, aesd_cleanup_module
  PROVE  MemInv'
<1> DEFINE rest == {entry.buffptr} \cap {q \in Ptrs : heap[q] # NULL}
<1>1. /\ MemTypes /\ MemSafe /\ undefined = "no" /\ undefined' = "no"
      /\ \A p \in Procs : pc[p] = "closed"
  BY DEF MemInv, aesd_cleanup_module
<1>2. /\ heap' = [q \in Ptrs |-> IF q \in RingPtrs THEN NULL ELSE heap[q]]
      /\ leaked' = leaked \cup rest
      /\ buffer' = EmptyBuffer /\ entry' = NoEntry
      /\ UNCHANGED <<pc, call, found, kbuf>>
  BY DEF aesd_cleanup_module, procVars
<1>3. \A i \in SlotIndex : Slot(i)' = NULL
  BY <1>2, EmptyRing DEF Slot
<1>4. \A q : q \in RingPtrs <=> q # NULL /\ \E i \in SlotIndex : q = Slot(i)
  BY DEF RingPtrs, Slot
<1>5. MemTypes'
  <2>1. WellFormed(buffer', Stored) /\ entry' \in Entries
    BY <1>2, EmptyRing DEF Entries, NoEntry
  <2>2. heap' \in [Ptrs -> {NULL} \cup Seq(Bytes)] /\ leaked' \subseteq Ptrs
    BY <1>1, <1>2 DEF MemTypes
  <2> QED  BY <1>1, <1>2, <2>1, <2>2 DEF MemTypes, Writing
<1>6. \A p \in Procs : kbuf'[p] = NULL
  BY <1>1, <1>2 DEF MemSafe, KbufOk
<1>7. NULL \notin Ptrs /\ entry'.buffptr = NULL /\ entry'.size = 0
  BY <1>2, DriverAssumption DEF NoEntry
<1>8. KbufOk' /\ EntryOk' /\ ReaderOk'
  BY <1>1, <1>2, <1>6, <1>7 DEF KbufOk, EntryOk, ReaderOk
<1>9. SlotsOwn'
  BY <1>3 DEF SlotsOwn
<1>10. OthersOwn'
  <2>1. \A q \in leaked' : q \in Ptrs /\ heap[q] # NULL /\ q \notin RingPtrs
    <3>1. \A q \in leaked : q \in Ptrs /\ heap[q] # NULL /\ q \notin RingPtrs
      BY <1>1, <1>4 DEF MemSafe, OthersOwn, SlotsOwn, MemTypes
    <3>2. \A q \in rest : q \in Ptrs /\ heap[q] # NULL /\ q \notin RingPtrs
      BY <1>1, <1>4 DEF MemSafe, SlotsOwn
    <3> QED  BY <1>2, <3>1, <3>2
  <2>2. \A q \in leaked' : heap'[q] # NULL
    BY <1>2, <2>1
  <2>3. \A p \in Procs : kbuf'[p] \notin leaked'
    BY <1>6, <1>7, <2>1
  <2> QED  BY <1>7, <2>2, <2>3 DEF OthersOwn
<1>11. AllOwned'
  <2> SUFFICES ASSUME NEW q \in Ptrs, heap'[q] # NULL PROVE q \in leaked'
    BY DEF AllOwned, HasOwner
  <2>1. heap[q] # NULL /\ q \notin RingPtrs /\ q # NULL
    BY <1>2, <1>7
  <2>2. HasOwner(q)
    BY <1>1, <2>1 DEF MemSafe, AllOwned
  <2>3. \A p \in Procs : kbuf[p] = NULL
    BY <1>2, <1>6
  <2>4. q = entry.buffptr \/ q \in leaked
    BY <1>4, <2>1, <2>2, <2>3 DEF HasOwner
  <2> QED  BY <1>2, <2>1, <2>4
<1> QED
  BY <1>1, <1>2, <1>5, <1>8, <1>9, <1>10, <1>11
  DEF MemInv, MemSafe, Causes, DefinedBehaviour

(* The search returns a slot of the array.                                 *)
LEMMA FoundInArray ==
  ASSUME NEW b, WellFormed(b, Stored), NEW off, FindEntry(b, off) # NULL
  PROVE  FindEntry(b, off).slot \in SlotIndex
<1> DEFINE S == {k \in 1 .. Slots : SearchOffset(b)[k] > off}
           k == CHOOSE k \in S : \A m \in S : k <= m
<1>1. S \subseteq Nat /\ S # {}
  BY SlotsAssumption DEF FindEntry, StopAt
<1>2. k \in S
  <2> HIDE DEF S
  <2>1. \E x \in S : \A m \in S : x <= m
    BY <1>1, LeastNat
  <2> QED  BY <2>1
<1>3. FindEntry(b, off).slot = SlotAt(b, k - 1)
  BY <1>1 DEF FindEntry, StopAt
<1>4. k \in 1 .. Slots /\ b.out_offs \in SlotIndex
  BY <1>2 DEF WellFormed
<1> HIDE DEF k
<1>5. k - 1 \in SlotIndex
  BY <1>4, SlotsAssumption DEF SlotIndex
<1> QED  BY <1>3, <1>5, SlotAtValue

(* aesd_read moves no block.                                               *)
LEMMA MemRead ==
  ASSUME LocksInv, MemInv, NEW p \in Procs, Read(p)
  PROVE  MemInv'
<1>0. MemTypes /\ pc \in [Procs -> Locations]
  BY DEF MemInv, LocksInv
<1> USE DEF At, Goto, Locations, Writing, devVars
<1>1. CASE \E n \in ReadCounts : read(p, n)
  <2>1. PICK n \in ReadCounts : read(p, n)
    BY <1>1
  <2>2. [op |-> "read", count |-> n, data |-> << >>] \in Calls
    BY DEF Calls
  <2> QED  BY <1>0, <2>1, <2>2, MemStays DEF read, Enter, MemTypes
<1>2. CASE read_lock(p) \/ read_interrupted(p)
  BY <1>0, <1>2, MemStays DEF read_lock, read_interrupted, MemTypes
<1>3. CASE read_find(p)
  <2> DEFINE f == FindEntry(buffer, f_pos[p])
  <2>1. CASE f = NULL /\ ReadDone(p, "ok")
    BY <1>0, <1>3, <2>1, MemStays DEF read_find, ReadDone, MemTypes
  <2>2. CASE ~(f = NULL /\ ReadDone(p, "ok"))
    <3>1. f.slot \in SlotIndex
      BY <1>0, <1>3, <2>2, FoundInArray DEF read_find, MemTypes
    <3>2. /\ pc[p] = "r_find" /\ undefined = "no" /\ pc' = [pc EXCEPT ![p] = "r_copy"]
          /\ UNCHANGED <<loaded, buffer, entry, heap, leaked, kbuf, undefined, call>>
          /\ found' = [found EXCEPT ![p] =
                [buffptr |-> Slot(f.slot), offset |-> f.offset,
                 read_count |-> Min({buffer.entry[f.slot].size - f.offset, call[p].count})]]
      BY <1>3, <2>2 DEF read_find, Slot
    <3>3. found'[p].buffptr = Slot(f.slot)
      BY <1>0, <3>2 DEF MemTypes
    <3> HIDE DEF f
    <3> QED  BY <1>0, <3>1, <3>2, <3>3, MemStays DEF MemTypes
  <2> QED  BY <2>1, <2>2
<1>4. CASE read_copy(p)
  <2>1. undefined = "no" /\ pc[p] = "r_copy"
    BY <1>4 DEF read_copy
  <2>2. PICK i \in SlotIndex : found[p].buffptr = Slot(i)
    BY <2>1 DEF MemInv, MemSafe, ReaderOk
  <2>3. ~Dangling(found[p].buffptr)
    BY <1>0, <2>1, <2>2, MemFacts DEF MemInv, MemSafe, SlotsOwn, Dangling
  <2>4. undefined' = "no"
    BY <1>4, <2>3 DEF read_copy
  <2>5. /\ UNCHANGED <<loaded, buffer, entry, heap, leaked, kbuf, call>>
        /\ pc' = [pc EXCEPT ![p] = "user"] /\ found' = [found EXCEPT ![p] = NULL]
    BY <1>4 DEF read_copy, ReadDone
  <2> QED  BY <1>0, <2>1, <2>4, <2>5, MemStays DEF MemTypes
<1> QED  BY <1>1, <1>2, <1>3, <1>4 DEF Read

(* At most one process is between taking and releasing dev->entry_lock,    *)
(* and no reader copies out while a write pushes.                          *)
LEMMA OneWriter ==
  ASSUME LocksInv, NEW p \in Procs, NEW r \in Procs
  PROVE  /\ pc[p] \in EntryLocked /\ pc[r] \in EntryLocked => p = r
         /\ pc[p] \in BufLocked /\ pc[r] \in BufLocked => p = r
  BY DEF LocksInv

(* kzalloc returns a block nothing points to; the block of the unfinished  *)
(* command is copied into it and freed.                                    *)
LEMMA MemAlloc ==
  ASSUME LocksInv, MemInv, NEW p \in Procs, write_alloc(p)
  PROVE  MemInv'
<1> DEFINE c   == call[p].data
           old == Block(entry.buffptr)
<1>1. /\ MemTypes /\ MemSafe /\ undefined = "no" /\ pc[p] = "w_alloc"
      /\ UNCHANGED <<loaded, buffer, entry, leaked, call, found>>
  BY DEF MemInv, write_alloc, At
<1>2. CASE undefined' = "no" /\ UNCHANGED <<heap, kbuf>> /\ Goto(p, "w_out")
  BY <1>1, <1>2, MemStays DEF Goto, Locations, MemTypes, Writing
<1>3. ASSUME NEW q \in Fresh(entry.size + Len(c)),
             undefined' = IF Dangling(entry.buffptr) THEN "entry" ELSE "no",
             kbuf' = [kbuf EXCEPT ![p] = q],
             heap' = [r \in Ptrs |-> IF r = q THEN old \o Zeros(Len(c))
                                     ELSE IF r = entry.buffptr THEN NULL ELSE heap[r]],
             Goto(p, "w_copy")
      PROVE  MemInv'
  <2>1. /\ pc'[p] = "w_copy" /\ \A r \in Procs \ {p} : pc'[r] = pc[r]
        /\ kbuf'[p] = q /\ \A r \in Procs \ {p} : kbuf'[r] = kbuf[r]
    BY <1>1, <1>3 DEF LocksInv, MemTypes, Goto
  <2>2. /\ q \in Ptrs \cup {ZeroPtr} /\ q # NULL
        /\ q \in Ptrs => heap[q] = NULL
        /\ q = ZeroPtr => entry.size + Len(c) = 0
    BY <1>1, <1>3, MemFacts DEF Fresh
  <2>3. old \in Seq(Bytes) /\ c \in Seq(Bytes) /\ Zeros(Len(c)) \in Seq(Bytes)
        /\ Len(Zeros(Len(c))) = Len(c)
    <3>1. old \in Seq(Bytes) /\ c \in Seq(Bytes)
      BY <1>1, MemFacts DEF Block, Dangling
    <3>2. Len(c) \in Nat /\ 0 \in Bytes
      <4>1. 0 \in Bytes
        BY DEF Bytes
      <4> QED  BY <3>1, <4>1
    <3>3. Zeros(Len(c)) \in Seq(Bytes) /\ Len(Zeros(Len(c))) = Len(c)
      <4> HIDE DEF c
      <4> QED  BY <3>2 DEF Zeros
    <3> QED  BY <3>1, <3>3
  <2>4. MemTypes'
    <3>1. heap' \in [Ptrs -> {NULL} \cup Seq(Bytes)]
      BY <1>1, <1>3, <2>3 DEF MemTypes
    <3>2. kbuf' \in [Procs -> Ptrs \cup {NULL, ZeroPtr}]
      BY <1>1, <1>3, <2>2 DEF MemTypes
    <3> QED  BY <1>1, <2>1, <3>1, <3>2 DEF MemTypes, Writing
  <2>5. ASSUME undefined' = "no" PROVE MemSafe'
    <3>0. ~Dangling(entry.buffptr)
      BY <1>3, <2>5
    <3>1. Len(old) = entry.size
      BY <1>1, <3>0, MemFacts DEF Block, Dangling, MemSafe, EntryOk
    <3>2. /\ \A i \in SlotIndex : Slot(i)' = Slot(i) /\ Slot(i) # q
          /\ q \in Ptrs => q # entry.buffptr
          /\ q \notin leaked
      <4>1. ASSUME NEW i \in SlotIndex PROVE Slot(i)' = Slot(i) /\ Slot(i) # q
        BY <1>1, <2>2, MemFacts DEF MemSafe, SlotsOwn, Slot
      <4>2. q \notin leaked
        BY <1>1, <2>2, MemFacts DEF MemSafe, OthersOwn, MemTypes
      <4>3. q \in Ptrs => q # entry.buffptr
        BY <2>2, <3>0 DEF Dangling
      <4> QED  BY <4>1, <4>2, <4>3
    <3>3. \A r \in Procs \ {p} : pc[r] \notin {"w_copy", "w_buf", "w_push"} /\ kbuf'[r] = NULL
      BY <1>1, <2>1, OneWriter DEF EntryLocked, MemSafe, KbufOk
    <3>4. /\ q \in Ptrs => heap'[q] = old \o Zeros(Len(c))
          /\ entry.buffptr \in Ptrs => heap'[entry.buffptr] = NULL
          /\ \A x \in Ptrs : x # q /\ x # entry.buffptr => heap'[x] = heap[x]
      BY <1>3, <3>2
    <3>5. KbufOk'
      <4>1. q \in Ptrs => heap'[q] # NULL /\ Len(heap'[q]) = entry.size + Len(c)
        <5>1. old \o Zeros(Len(c)) \in Seq(Bytes) /\ Len(old \o Zeros(Len(c))) = Len(old) + Len(c)
          <6> DEFINE z == Zeros(Len(c))
          <6>1. old \in Seq(Bytes) /\ z \in Seq(Bytes) /\ Len(z) = Len(c)
            BY <2>3
          <6> HIDE DEF old, z
          <6>2. old \o z \in Seq(Bytes) /\ Len(old \o z) = Len(old) + Len(z)
            BY <6>1, Joined
          <6> QED  BY <6>1, <6>2 DEF z
        <5> QED  BY <3>1, <3>4, <5>1, DriverAssumption
      <4> QED  BY <1>1, <2>1, <2>2, <3>3, <3>4, <4>1 DEF KbufOk
    <3>6. EntryOk'
      BY <1>1, <2>1, <3>3, <3>4 DEF MemSafe, EntryOk
    <3>7. ReaderOk'
      BY <1>1, <2>1, <3>2 DEF MemSafe, ReaderOk
    <3>8. SlotsOwn'
      <4> SUFFICES ASSUME NEW i \in SlotIndex, Slot(i) # NULL
                   PROVE  /\ heap'[Slot(i)] # NULL /\ Len(heap'[Slot(i)]) = buffer.entry[i].size
                          /\ Slot(i) # entry.buffptr /\ Slot(i) \notin leaked
                          /\ \A r \in Procs : Slot(i) # kbuf'[r]
                          /\ \A j \in SlotIndex : Slot(i) = Slot(j) => i = j
        BY <1>1, <3>2 DEF SlotsOwn
      <4>1. heap'[Slot(i)] = heap[Slot(i)]
        BY <1>1, <3>2, <3>4, MemFacts DEF MemSafe, SlotsOwn
      <4> QED  BY <1>1, <2>1, <3>2, <3>3, <4>1 DEF MemSafe, SlotsOwn
    <3>9. OthersOwn'
      <4>1. \A x \in leaked : heap'[x] # NULL
        BY <1>1, <3>2, <3>4 DEF MemSafe, OthersOwn, MemTypes
      <4>2. \A r \in Procs : kbuf'[r] \notin leaked /\ (entry.buffptr \in Ptrs => kbuf'[r] # entry.buffptr)
        BY <1>1, <2>1, <3>2, <3>3, MemFacts DEF MemTypes
      <4> QED  BY <1>1, <4>1, <4>2 DEF MemSafe, OthersOwn
    <3>10. AllOwned'
      <4> SUFFICES ASSUME NEW x \in Ptrs, heap'[x] # NULL, x # q PROVE HasOwner(x)'
        BY <2>1 DEF AllOwned, HasOwner
      <4>1. x # entry.buffptr /\ heap[x] # NULL
        BY <3>4
      <4>2. HasOwner(x)
        BY <1>1, <4>1 DEF MemSafe, AllOwned
      <4>3. \A r \in Procs : kbuf[r] # x
        BY <1>1, <2>1, <3>3, MemFacts DEF MemSafe, KbufOk
      <4> QED  BY <1>1, <3>2, <4>1, <4>2, <4>3 DEF HasOwner
    <3> QED  BY <3>5, <3>6, <3>7, <3>8, <3>9, <3>10 DEF MemSafe
  <2>6. undefined' \in {"no", "entry"}
    BY <1>3
  <2> QED  BY <1>1, <2>4, <2>5, <2>6 DEF MemInv, Causes, DefinedBehaviour
<1> QED  BY <1>1, <1>2, <1>3 DEF write_alloc

(* The pointers of the ring stay what they are when it is not touched.     *)
LEMMA SameSlots ==
  ASSUME UNCHANGED buffer
  PROVE  \A i \in SlotIndex : Slot(i)' = Slot(i)
  BY DEF Slot

(* copy_from_user fills the new block and dev->entry takes it over from    *)
(* kbuf, or a fault frees it.                                              *)
LEMMA MemCopy ==
  ASSUME LocksInv, MemInv, NEW p \in Procs, write_copy(p)
  PROVE  MemInv'
<1> DEFINE q == kbuf[p]
           c == call[p].data
           t == SubSeq(heap[q], 1, entry.size) \o c
<1>1. /\ MemTypes /\ MemSafe /\ undefined = "no" /\ undefined' = "no" /\ pc[p] = "w_copy"
      /\ UNCHANGED <<loaded, buffer, leaked, call, found>>
      /\ kbuf' = [kbuf EXCEPT ![p] = NULL] /\ loaded
  BY DEF MemInv, write_copy, At, LocksInv
<1>2. /\ q \in Ptrs \cup {ZeroPtr} /\ q # NULL
      /\ q \in Ptrs => heap[q] # NULL /\ Len(heap[q]) = entry.size + Len(c)
      /\ q = ZeroPtr => entry.size + Len(c) = 0
      /\ entry.buffptr \in Ptrs => heap[entry.buffptr] = NULL
  BY <1>1 DEF MemSafe, KbufOk, MemTypes
<1>3. \A r \in Procs : kbuf'[r] = NULL
  BY <1>1, OneWriter DEF MemSafe, KbufOk, EntryLocked, MemTypes
<1>4. \A r \in Procs \ {p} : pc[r] \notin {"w_copy", "w_buf", "w_push"}
  BY <1>1, OneWriter DEF EntryLocked
<1>5. \A i \in SlotIndex : Slot(i)' = Slot(i)
  BY <1>1, SameSlots
<1>6. kbuf' \in [Procs -> Ptrs \cup {NULL, ZeroPtr}] /\ heap = [x \in Ptrs |-> heap[x]]
  BY <1>1 DEF MemTypes
<1>7. \A x \in Ptrs : x # q /\ heap[x] # NULL => HasOwner(x) /\ x # entry.buffptr
  BY <1>1, <1>2 DEF MemSafe, AllOwned
<1>8. \A r \in Procs : q = kbuf[r] => r = p
  BY <1>1, <1>2, <1>4 DEF MemSafe, KbufOk
<1>9. ASSUME NEW x \in Ptrs, x # q, heap[x] # NULL
      PROVE  x \in leaked \/ \E i \in SlotIndex : x = Slot(i)
  <2>1. \A r \in Procs : x # kbuf[r]
    BY <1>1, <1>4, <1>9, MemFacts DEF MemSafe, KbufOk
  <2> QED  BY <1>7, <1>9, <2>1 DEF HasOwner
<1>10. CASE /\ heap' = [heap EXCEPT ![q] = SubSeq(@, 1, entry.size) \o c]
            /\ entry' = [buffptr |-> q, size |-> entry.size + Len(c)]
            /\ Goto(p, "w_buf")
  <2>1. pc'[p] = "w_buf" /\ \A r \in Procs \ {p} : pc'[r] = pc[r]
    BY <1>10 DEF LocksInv, Goto
  <2>2. q \in Ptrs => t \in Seq(Bytes) /\ Len(t) = entry.size + Len(c) /\ t # NULL
    <3> SUFFICES ASSUME q \in Ptrs
                 PROVE  t \in Seq(Bytes) /\ Len(t) = entry.size + Len(c)
      BY DriverAssumption
    <3> DEFINE s == heap[q]
    <3>1. s \in Seq(Bytes) /\ c \in Seq(Bytes) /\ entry.size \in Nat
          /\ Len(s) = entry.size + Len(c)
      BY <1>1, <1>2, MemFacts
    <3> HIDE DEF s, c
    <3>2. SubSeq(s, 1, entry.size) \in Seq(Bytes) /\ Len(SubSeq(s, 1, entry.size)) = entry.size
      <4>1. entry.size <= Len(s)
        BY <3>1
      <4>2. \A k \in 1 .. entry.size : s[k] \in Bytes
        BY <3>1, <4>1
      <4> QED  BY <3>1, <4>1, <4>2
    <3>3. SubSeq(s, 1, entry.size) \o c \in Seq(Bytes)
          /\ Len(SubSeq(s, 1, entry.size) \o c) = entry.size + Len(c)
      BY <3>1, <3>2
    <3> QED  BY <3>3 DEF s
  <2>3. /\ q \in Ptrs => heap'[q] = t
        /\ \A x \in Ptrs : x # q => heap'[x] = heap[x]
    BY <1>6, <1>10
  <2> HIDE DEF t
  <2>4. entry'.buffptr = q /\ entry'.size = entry.size + Len(c) /\ entry.size \in Nat /\ Len(c) \in Nat
    BY <1>1, <1>10, MemFacts
  <2>5. MemTypes'
    <3>1. heap' = [x \in Ptrs |-> heap'[x]]
      BY <1>6, <1>10
    <3>2. \A x \in Ptrs : heap'[x] \in {NULL} \cup Seq(Bytes)
      BY <1>1, <2>2, <2>3 DEF MemTypes
    <3>3. heap' \in [Ptrs -> {NULL} \cup Seq(Bytes)]
      BY <3>1, <3>2
    <3>4. entry' \in Entries
      BY <1>2, <1>10, <2>4 DEF Entries
    <3> QED  BY <1>1, <1>6, <2>1, <3>3, <3>4 DEF MemTypes, Writing
  <2>6. KbufOk' /\ ReaderOk'
    BY <1>1, <1>3, <1>4, <1>5, <2>1 DEF KbufOk, MemSafe, ReaderOk
  <2>7. EntryOk'
    BY <1>1, <1>2, <1>4, <2>1, <2>2, <2>3, <2>4 DEF EntryOk
  <2>8. SlotsOwn'
    <3>1. \A i \in SlotIndex : Slot(i) # NULL => Slot(i) # q /\ heap'[Slot(i)] = heap[Slot(i)]
      BY <1>1, <2>3, MemFacts DEF MemSafe, SlotsOwn
    <3> QED  BY <1>1, <1>3, <1>5, <2>4, <3>1 DEF MemSafe, SlotsOwn
  <2>9. OthersOwn'
    <3>1. q \notin leaked /\ \A x \in leaked : heap'[x] # NULL
      BY <1>1, <2>3 DEF MemSafe, OthersOwn, MemTypes
    <3>2. NULL \notin leaked
      BY <1>1, MemFacts DEF MemTypes
    <3> QED  BY <1>1, <1>2, <1>3, <2>4, <3>1, <3>2 DEF OthersOwn
  <2>10. AllOwned'
    BY <1>1, <1>5, <1>9, <2>3, <2>4 DEF AllOwned, HasOwner
  <2> QED
    BY <1>1, <2>5, <2>6, <2>7, <2>8, <2>9, <2>10 DEF MemInv, MemSafe, Causes, DefinedBehaviour
<1>11. CASE heap' = [heap EXCEPT ![q] = NULL] /\ entry' = entry /\ Goto(p, "w_out")
  <2>1. pc'[p] = "w_out" /\ \A r \in Procs \ {p} : pc'[r] = pc[r]
    BY <1>11 DEF LocksInv, Goto
  <2>2. /\ q \in Ptrs => heap'[q] = NULL
        /\ \A x \in Ptrs : x # q => heap'[x] = heap[x]
    BY <1>6, <1>11
  <2>3. MemTypes'
    <3>1. heap' \in [Ptrs -> {NULL} \cup Seq(Bytes)]
      BY <1>1, <1>11 DEF MemTypes
    <3> QED  BY <1>1, <1>6, <1>11, <2>1, <3>1 DEF MemTypes, Writing
  <2>4. KbufOk' /\ ReaderOk'
    BY <1>1, <1>3, <1>4, <1>5, <2>1 DEF KbufOk, MemSafe, ReaderOk
  <2>5. EntryOk'
    BY <1>1, <1>2, <1>4, <1>11, <2>1, <2>2 DEF EntryOk, MemSafe
  <2>6. SlotsOwn'
    <3>1. \A i \in SlotIndex : Slot(i) # NULL => heap'[Slot(i)] = heap[Slot(i)]
      BY <1>1, <2>2, MemFacts DEF MemSafe, SlotsOwn
    <3> QED  BY <1>1, <1>3, <1>5, <1>11, <3>1 DEF MemSafe, SlotsOwn
  <2>7. OthersOwn'
    <3>1. \A x \in leaked : heap'[x] # NULL
      BY <1>1, <2>2 DEF MemSafe, OthersOwn, MemTypes
    <3>2. NULL \notin Ptrs /\ NULL \notin leaked
      BY <1>1, MemFacts DEF MemTypes
    <3> QED  BY <1>1, <1>3, <1>11, <3>1, <3>2 DEF MemSafe, OthersOwn
  <2>8. AllOwned'
    BY <1>1, <1>5, <1>9, <2>2 DEF AllOwned, HasOwner
  <2> QED
    BY <1>1, <2>3, <2>4, <2>5, <2>6, <2>7, <2>8 DEF MemInv, MemSafe, Causes, DefinedBehaviour
<1> QED  BY <1>10, <1>11 DEF write_copy

(* A complete command moves from dev->entry into the slot add_entry gives  *)
(* it, and the block that was there, which nothing else points to, is      *)
(* freed.                                                                  *)
LEMMA MemPush ==
  ASSUME LocksInv, MemInv, NEW p \in Procs, write_push(p)
  PROVE  MemInv'
<1> DEFINE complete == entry.size > 0 /\ Block(entry.buffptr)[entry.size] = NL
           old      == Overwritten(buffer)
<1>1. /\ MemTypes /\ MemSafe /\ undefined = "no" /\ pc[p] = "w_push" /\ loaded
      /\ UNCHANGED <<loaded, leaked, call, found, kbuf>> /\ Goto(p, "w_out")
  BY DEF MemInv, write_push, At, LocksInv
<1>2. pc'[p] = "w_out" /\ \A r \in Procs \ {p} : pc'[r] = pc[r]
  BY <1>1 DEF LocksInv, Goto
<1>3. \A r \in Procs \ {p} : pc[r] \notin {"w_copy", "w_buf", "w_push", "r_copy"}
  BY <1>1, OneWriter DEF EntryLocked, BufLocked
<1>4. \A r \in Procs : kbuf[r] = NULL
  BY <1>1, <1>3 DEF MemSafe, KbufOk
<1>5. KbufOk' /\ ReaderOk'
  BY <1>1, <1>2, <1>3, <1>4 DEF KbufOk, ReaderOk
<1>6. /\ entry.buffptr \notin Ptrs => entry.size = 0
      /\ entry.buffptr \in Ptrs => heap[entry.buffptr] # NULL /\ Len(heap[entry.buffptr]) = entry.size
      /\ Len(call[p].data) <= entry.size
  BY <1>1 DEF MemSafe, EntryOk
<1>7. CASE /\ complete
           /\ buffer' = AddEntry(buffer, entry)
           /\ heap' = [q \in Ptrs |-> IF q = old THEN NULL ELSE heap[q]]
           /\ entry' = NoEntry
           /\ undefined' = IF Dangling(old) THEN "ring" ELSE "no"
  <2>1. entry.size \in Nat /\ entry.size # 0
    BY <1>1, <1>7, MemFacts
  <2>2. entry.buffptr \in Ptrs /\ entry.buffptr # NULL /\ entry \in Stored
    BY <1>1, <1>6, <2>1, MemFacts DEF Stored, MemTypes, Entries
  <2>3. PICK i \in SlotIndex :
          /\ WellFormed(buffer', Stored) /\ old = Slot(i)
          /\ \A k \in SlotIndex : buffer'.entry[k] = IF k = i THEN entry ELSE buffer.entry[k]
    BY <1>1, <1>7, <2>2, AddRing DEF MemTypes, Slot
  <2>5. /\ Slot(i)' = entry.buffptr /\ buffer'.entry[i] = entry
        /\ \A k \in SlotIndex : k # i => Slot(k)' = Slot(k) /\ buffer'.entry[k] = buffer.entry[k]
    BY <2>3 DEF Slot
  <2>6. undefined' = "no"
    BY <1>1, <1>7, <2>3, MemFacts DEF MemSafe, SlotsOwn, Dangling
  <2>7. \A x \in Ptrs : /\ x = old => heap'[x] = NULL
                        /\ x # old => heap'[x] = heap[x]
    BY <1>7
  <2>8. entry'.buffptr = NULL /\ entry'.size = 0 /\ entry' \in Entries
    BY <1>7 DEF NoEntry, Entries
  <2> HIDE DEF old
  <2>9. MemTypes'
    <3>1. heap' \in [Ptrs -> {NULL} \cup Seq(Bytes)]
      BY <1>1, <1>7 DEF MemTypes
    <3> QED  BY <1>1, <1>2, <2>3, <2>8, <3>1 DEF MemTypes, Writing
  <2>10. EntryOk'
    BY <1>1, <1>2, <1>3, <2>8, MemFacts DEF EntryOk
  <2>11. old = NULL \/ (old \in Ptrs /\ old # entry.buffptr /\ old \notin leaked)
    BY <1>1, <2>3, MemFacts DEF MemSafe, SlotsOwn
  <2>12. \A k \in SlotIndex : k # i /\ Slot(k) # NULL => Slot(k) # old /\ Slot(k) # entry.buffptr
    BY <1>1, <2>3 DEF MemSafe, SlotsOwn
  <2>13. SlotsOwn'
    <3> SUFFICES ASSUME NEW k \in SlotIndex, Slot(k)' # NULL
                 PROVE  /\ heap'[Slot(k)'] # NULL /\ Len(heap'[Slot(k)']) = buffer'.entry[k].size
                        /\ Slot(k)' # NULL /\ Slot(k)' \notin leaked
                        /\ \A j \in SlotIndex : Slot(k)' = Slot(j)' => k = j
      BY <1>1, <1>4, <2>8 DEF SlotsOwn
    <3>1. CASE k = i
      <4>1. Slot(k)' = entry.buffptr /\ buffer'.entry[k].size = entry.size
        BY <2>5, <3>1
      <4>2. heap'[entry.buffptr] = heap[entry.buffptr]
        BY <2>2, <2>7, <2>11, MemFacts, <1>1
      <4>3. entry.buffptr \notin leaked
        BY <1>1, <2>2 DEF MemSafe, OthersOwn
      <4>4. \A j \in SlotIndex : j # i => Slot(j)' # entry.buffptr
        BY <2>2, <2>5, <2>12
      <4> QED  BY <1>6, <2>2, <3>1, <4>1, <4>2, <4>3, <4>4
    <3>2. CASE k # i
      <4>1. Slot(k)' = Slot(k) /\ buffer'.entry[k] = buffer.entry[k] /\ Slot(k) # NULL
        BY <2>5, <3>2
      <4>2. heap'[Slot(k)] = heap[Slot(k)]
        BY <1>1, <2>7, <2>12, <3>2, <4>1, MemFacts
      <4>3. \A j \in SlotIndex : Slot(k) = Slot(j)' => k = j
        BY <1>1, <2>5, <2>12, <3>2, <4>1 DEF MemSafe, SlotsOwn
      <4> QED  BY <1>1, <4>1, <4>2, <4>3 DEF MemSafe, SlotsOwn
    <3> QED  BY <3>1, <3>2
  <2>14. OthersOwn'
    <3>1. \A x \in leaked : heap'[x] # NULL
      BY <1>1, <2>7, <2>11, MemFacts DEF MemSafe, OthersOwn, MemTypes
    <3> QED  BY <1>1, <2>8, <3>1, MemFacts DEF MemSafe, OthersOwn
  <2>15. AllOwned'
    <3> SUFFICES ASSUME NEW x \in Ptrs, heap'[x] # NULL PROVE HasOwner(x)'
      BY DEF AllOwned
    <3>1. heap[x] # NULL /\ x # old
      BY <2>7
    <3>2. HasOwner(x)
      BY <1>1, <3>1 DEF MemSafe, AllOwned
    <3>3. x = entry.buffptr => x = Slot(i)'
      BY <2>5
    <3>4. \A k \in SlotIndex : x = Slot(k) => x = Slot(k)'
      BY <2>3, <2>5, <3>1
    <3> QED  BY <1>1, <2>3, <3>2, <3>3, <3>4 DEF HasOwner
  <2> QED
    BY <1>1, <1>5, <2>6, <2>9, <2>10, <2>13, <2>14, <2>15 DEF MemInv, MemSafe, Causes, DefinedBehaviour
<1>8. CASE /\ ~complete
           /\ undefined' = IF entry.size = 0 THEN "empty" ELSE "no"
           /\ UNCHANGED <<buffer, heap, entry>>
  <2>1. CASE entry.size # 0
    BY <1>1, <1>8, <2>1, MemStays DEF Goto, Locations, Writing, MemTypes
  <2>2. CASE entry.size = 0
    <3>1. call[p].data = << >> /\ call[p].op = "write"
      <4>1. call[p].data \in Seq(Bytes) /\ Len(call[p].data) \in Nat /\ Len(call[p].data) <= 0
        BY <1>1, <1>6, <2>2, MemFacts
      <4>2. call[p].data = << >>
        BY <4>1
      <4> QED  BY <1>1, <4>2 DEF MemTypes, Writing
    <3>2. undefined' = "empty" /\ DefinedBehaviour'
      BY <1>1, <1>2, <1>8, <2>2, <3>1 DEF DefinedBehaviour
    <3>3. MemTypes'
      BY <1>1, <1>2, <1>8 DEF MemTypes, Writing
    <3> QED  BY <1>1, <3>2, <3>3 DEF MemInv, Causes
  <2> QED  BY <2>1, <2>2
<1> QED  BY <1>7, <1>8 DEF write_push

(* Every step of a write.                                                  *)
LEMMA MemWrite ==
  ASSUME LocksInv, MemInv, NEW p \in Procs, Write(p)
  PROVE  MemInv'
<1>0. MemTypes /\ pc \in [Procs -> Locations]
  BY DEF MemInv, LocksInv
<1> USE DEF At, Goto, Locations, Writing, devVars
<1>1. CASE \E c \in Chunks : write(p, c)
  <2>1. PICK c \in Chunks : write(p, c)
    BY <1>1
  <2>2. [op |-> "write", count |-> 0, data |-> c] \in Calls
    BY DEF Calls
  <2> QED  BY <1>0, <2>1, <2>2, MemStays DEF write, Enter, MemTypes
<1>2. CASE write_lock(p) \/ write_interrupted(p)
  BY <1>0, <1>2, MemStays DEF write_lock, write_interrupted, MemTypes
<1>3. CASE write_buf_lock(p) \/ write_buf_interrupted(p)
  BY <1>0, <1>3, MemStays DEF write_buf_lock, write_buf_interrupted, MemTypes
<1>4. CASE write_out(p)
  BY <1>0, <1>4, MemStays DEF write_out, MemTypes
<1> QED  BY <1>1, <1>2, <1>3, <1>4, MemAlloc, MemCopy, MemPush DEF Write

(* Every step keeps the memory in order.                                   *)
LEMMA MemNext == LocksInv /\ MemInv /\ [Next]_vars => MemInv'
<1> SUFFICES ASSUME LocksInv, MemInv, [Next]_vars PROVE MemInv'
  OBVIOUS
<1>1. CASE UNCHANGED vars
  <2>1. UNCHANGED <<loaded, buffer, entry, heap, leaked, undefined, pc, call, found, kbuf>>
    BY <1>1 DEF vars, devVars, procVars
  <2>2. \A i \in SlotIndex : Slot(i)' = Slot(i)
    BY <2>1, SameSlots
  <2>3. (KbufOk => KbufOk') /\ (EntryOk => EntryOk')
    BY <2>1 DEF KbufOk, EntryOk
  <2>4. (ReaderOk => ReaderOk') /\ (SlotsOwn => SlotsOwn')
    BY <2>1, <2>2 DEF ReaderOk, SlotsOwn
  <2>5. (OthersOwn => OthersOwn') /\ (AllOwned => AllOwned')
    BY <2>1, <2>2 DEF OthersOwn, AllOwned, HasOwner
  <2> QED
    BY <2>1, <2>3, <2>4, <2>5 DEF MemInv, MemTypes, MemSafe, DefinedBehaviour
<1>2. ASSUME NEW p \in Procs, aesd_open(p) \/ aesd_release(p) PROVE MemInv'
  <2>1. MemTypes /\ pc \in [Procs -> Locations] /\ NoCall \in Calls
    BY DEF MemInv, LocksInv, Calls
  <2> QED
    BY <1>2, <2>1, MemStays
    DEF aesd_open, aesd_release, At, Goto, Locations, Writing, devVars, MemTypes
<1> QED  BY <1>1, <1>2, MemLoad, MemUnload, MemRead, MemWrite DEF Next

(* What the invariants say of ownership, block by block, is what           *)
(* BlocksOwnedOnce says of the sets of blocks.                             *)
LEMMA OwnedOnce == LocksInv /\ MemInv => BlocksOwnedOnce
<1> SUFFICES ASSUME LocksInv, MemInv, undefined = "no"
             PROVE  /\ {q \in Ptrs : heap[q] # NULL} = InRing \cup Kept \cup UnderWay \cup leaked
                    /\ InRing \cap (Kept \cup UnderWay \cup leaked) = {}
                    /\ Kept \cap (UnderWay \cup leaked) = {} /\ UnderWay \cap leaked = {}
                    /\ \A i, j \in UsedSlots :
                         buffer.entry[i].buffptr = buffer.entry[j].buffptr => i = j
                    /\ \A p, r \in Procs : kbuf[p] = kbuf[r] /\ kbuf[p] \in Ptrs => p = r
                    /\ \A i \in UsedSlots :
                         Len(heap[buffer.entry[i].buffptr]) = buffer.entry[i].size
  BY DEF BlocksOwnedOnce
<1>1. MemTypes /\ MemSafe
  BY DEF MemInv
<1>2. /\ \A q : q \in InRing <=> \E i \in SlotIndex : Slot(i) # NULL /\ q = Slot(i)
      /\ \A i : i \in UsedSlots <=> i \in SlotIndex /\ Slot(i) # NULL
  BY DEF InRing, UsedSlots, Slot
<1>3. \A q : q \in Kept <=> q \in Ptrs /\ q = entry.buffptr /\ heap[q] # NULL
  BY DEF Kept
<1>4. \A q : q \in UnderWay <=> q \in Ptrs /\ \E p \in Procs : q = kbuf[p]
  BY DEF UnderWay
<1>5. \A q \in InRing : q \in Ptrs /\ heap[q] # NULL /\ q \notin Kept \cup UnderWay \cup leaked
  BY <1>1, <1>2, <1>3, <1>4, MemFacts DEF MemSafe, SlotsOwn
<1>6. \A q \in Kept : q \notin UnderWay \cup leaked
  BY <1>1, <1>3, <1>4 DEF MemSafe, OthersOwn
<1>7. \A p \in Procs : kbuf[p] \in Ptrs => pc[p] = "w_copy" /\ heap[kbuf[p]] # NULL
  BY <1>1, MemFacts DEF MemSafe, KbufOk
<1>8. \A q \in UnderWay : q \in Ptrs /\ heap[q] # NULL /\ q \notin leaked
  BY <1>1, <1>4, <1>7 DEF MemSafe, OthersOwn
<1>9. \A q \in leaked : q \in Ptrs /\ heap[q] # NULL
  BY <1>1 DEF MemSafe, OthersOwn, MemTypes
<1>10. \A q \in Ptrs : heap[q] # NULL => q \in InRing \cup Kept \cup UnderWay \cup leaked
  BY <1>1, <1>2, <1>3, <1>4, MemFacts DEF MemSafe, AllOwned, HasOwner
<1>11. {q \in Ptrs : heap[q] # NULL} = InRing \cup Kept \cup UnderWay \cup leaked
  BY <1>3, <1>5, <1>8, <1>9, <1>10
<1>12. \A p, r \in Procs : kbuf[p] = kbuf[r] /\ kbuf[p] \in Ptrs => p = r
  BY <1>7, OneWriter DEF EntryLocked
<1>13. /\ \A i, j \in UsedSlots : buffer.entry[i].buffptr = buffer.entry[j].buffptr => i = j
       /\ \A i \in UsedSlots : Len(heap[buffer.entry[i].buffptr]) = buffer.entry[i].size
  BY <1>1, <1>2 DEF MemSafe, SlotsOwn, Slot
<1> QED  BY <1>5, <1>6, <1>8, <1>11, <1>12, <1>13

(* For every number of slots and processes, every set of writes and every  *)
(* combination of failures: as long as the driver has touched no memory it *)
(* does not own, each allocated block is owned by exactly one of a slot of *)
(* the ring, dev->entry, one write under way, or an earlier load of the    *)
(* module that leaked it, and a slot's block has the size it says          *)
(* (main.c:120-187, 220-239).                                              *)
THEOREM EveryBlockOwned == Spec => []BlocksOwnedOnce
  BY LocksInit, LocksNext, MemInit, MemNext, OwnedOnce, PTL DEF Spec

(* Under the same conditions: no command in the ring is read after it was  *)
(* freed or freed twice, and the byte in front of an empty entry is looked *)
(* at only by a write of no bytes (main.c:86-100, 157-170).                *)
THEOREM RingNeverDangles == Spec => []DefinedBehaviour
<1>1. MemInv => DefinedBehaviour
  BY DEF MemInv
<1> QED  BY <1>1, LocksInit, LocksNext, MemInit, MemNext, PTL DEF Spec

-----------------------------------------------------------------------------
(* The calls in progress.                                                  *)
Reading == {"r_lock", "r_find", "r_copy"}
Inside  == Reading \cup {"w_lock", "w_alloc", "w_copy", "w_buf", "w_push"}
Results == {"ok", "busy", "ERESTARTSYS", "ENOMEM", "EFAULT", "EINTR"}

(* A call has no outcome yet as long as it can still take effect, and a    *)
(* read has not copied anything before it copies.                          *)
CallInv ==
  /\ ret \in [Procs -> Results] /\ got = [p \in Procs |-> got[p]]
  /\ \A p \in Procs : ret[p] = "busy" <=> pc[p] \in Inside
  /\ \A p \in Procs : pc[p] \in Reading => call[p].op = "read" /\ got[p] = << >>

(* A step of one process that gives its call an outcome when it is done.   *)
LEMMA CallMove ==
  ASSUME LocksInv, CallInv, NEW p \in Procs, NEW loc \in Locations, pc' = [pc EXCEPT ![p] = loc],
         ret' \in [Procs -> Results], got' = [r \in Procs |-> got'[r]],
         \A r \in Procs \ {p} : ret'[r] = ret[r] /\ call'[r] = call[r] /\ got'[r] = got[r],
         ret'[p] = "busy" <=> loc \in Inside,
         loc \in Reading => call'[p].op = "read" /\ got'[p] = << >>
  PROVE  CallInv'
<1>1. pc'[p] = loc /\ \A r \in Procs \ {p} : pc'[r] = pc[r]
  BY DEF LocksInv
<1>2. \A r \in Procs : ret'[r] = "busy" <=> pc'[r] \in Inside
  BY <1>1 DEF CallInv
<1>3. \A r \in Procs : pc'[r] \in Reading => call'[r].op = "read" /\ got'[r] = << >>
  BY <1>1 DEF CallInv
<1> QED  BY <1>2, <1>3 DEF CallInv

(* No call is in progress before a file is open.                           *)
LEMMA CallInit == Init => CallInv
  BY DEF Init, CallInv, Reading, Inside, Results

(* Every path through aesd_read and aesd_write sets the outcome once.      *)
LEMMA CallNext == LocksInv /\ MemInv /\ CallInv /\ [Next]_vars => CallInv'
<1> SUFFICES ASSUME LocksInv, MemInv, CallInv, [Next]_vars PROVE CallInv'
  OBVIOUS
<1>0. /\ pc \in [Procs -> Locations] /\ call \in [Procs -> Calls] /\ ret \in [Procs -> Results]
      /\ got = [p \in Procs |-> got[p]]
      /\ \A p \in Procs : ret[p] = "busy" <=> pc[p] \in Inside
      /\ \A p \in Procs : pc[p] \in Reading => call[p].op = "read" /\ got[p] = << >>
  BY DEF LocksInv, MemInv, MemTypes, CallInv
<1>1. CASE aesd_init_module \/ aesd_cleanup_module \/ UNCHANGED vars
  <2>1. UNCHANGED <<pc, call, ret, got>>
    BY <1>1 DEF aesd_init_module, aesd_cleanup_module, vars, procVars
  <2> QED  BY <2>1 DEF CallInv
<1> USE DEF At, Goto, Result, Locations, Reading, Inside, Results
<1>2. ASSUME NEW p \in Procs, aesd_open(p) PROVE CallInv'
  BY <1>0, <1>2, CallMove DEF aesd_open
<1>3. ASSUME NEW p \in Procs, aesd_release(p) PROVE CallInv'
  BY <1>0, <1>3, CallMove DEF aesd_release
<1>4. ASSUME NEW p \in Procs, Read(p) PROVE CallInv'
  <2>1. CASE \E n \in ReadCounts : read(p, n)
    <3>1. PICK n \in ReadCounts : read(p, n)
      BY <2>1
    <3>2. /\ pc' = [pc EXCEPT ![p] = "r_lock"] /\ ret' = [ret EXCEPT ![p] = "busy"]
          /\ call' = [call EXCEPT ![p] = [op |-> "read", count |-> n, data |-> << >>]]
          /\ got' = [got EXCEPT ![p] = << >>]
      BY <3>1 DEF read, Enter
    <3>3. call'[p].op = "read" /\ \A r \in Procs \ {p} : call'[r] = call[r]
      BY <1>0, <3>2
    <3>4. /\ got' = [r \in Procs |-> got'[r]] /\ got'[p] = << >>
          /\ \A r \in Procs \ {p} : got'[r] = got[r]
      BY <1>0, <3>2
    <3>5. /\ ret' \in [Procs -> Results] /\ ret'[p] = "busy"
          /\ \A r \in Procs \ {p} : ret'[r] = ret[r]
      BY <1>0, <3>2
    <3>6. "r_lock" \in Inside /\ "r_lock" \in Locations
      OBVIOUS
    <3> HIDE DEF Locations, Inside, Results
    <3> QED  BY <3>2, <3>3, <3>4, <3>5, <3>6, CallMove
  <2>2. CASE read_lock(p)
    BY <1>0, <2>2, CallMove DEF read_lock
  <2>3. CASE read_interrupted(p)
    BY <1>0, <2>3, CallMove DEF read_interrupted
  <2>4. CASE read_find(p)
    BY <1>0, <2>4, CallMove DEF read_find, ReadDone
  <2>5. CASE read_copy(p)
    <3>1. /\ pc' = [pc EXCEPT ![p] = "user"] /\ UNCHANGED call
          /\ ret' = [ret EXCEPT ![p] = "ok"] \/ ret' = [ret EXCEPT ![p] = "EFAULT"]
          /\ UNCHANGED got \/ \E g : got' = [got EXCEPT ![p] = g]
      BY <2>5 DEF read_copy, ReadDone
    <3>2. /\ ret' \in [Procs -> Results] /\ ret'[p] # "busy"
          /\ got' = [r \in Procs |-> got'[r]]
          /\ \A r \in Procs \ {p} : ret'[r] = ret[r] /\ got'[r] = got[r]
      BY <1>0, <3>1
    <3> QED  BY <1>0, <3>1, <3>2, CallMove
  <2> QED  BY <1>4, <2>1, <2>2, <2>3, <2>4, <2>5 DEF Read
<1>5. ASSUME NEW p \in Procs, Write(p) PROVE CallInv'
  <2>1. CASE \E c \in Chunks : write(p, c)
    <3>1. PICK c \in Chunks : write(p, c)
      BY <2>1
    <3>2. /\ pc' = [pc EXCEPT ![p] = "w_lock"] /\ ret' = [ret EXCEPT ![p] = "busy"]
          /\ call' = [call EXCEPT ![p] = [op |-> "write", count |-> 0, data |-> c]]
          /\ got' = [got EXCEPT ![p] = << >>]
      BY <3>1 DEF write, Enter
    <3>3. /\ \A r \in Procs \ {p} : call'[r] = call[r] /\ ret'[r] = ret[r] /\ got'[r] = got[r]
          /\ got' = [r \in Procs |-> got'[r]] /\ ret' \in [Procs -> Results] /\ ret'[p] = "busy"
      BY <1>0, <3>2
    <3>4. "w_lock" \in Inside /\ "w_lock" \in Locations /\ "w_lock" \notin Reading
      OBVIOUS
    <3> HIDE DEF Locations, Inside, Results, Reading
    <3> QED  BY <3>2, <3>3, <3>4, CallMove
  <2>2. CASE write_lock(p) \/ write_buf_lock(p)
    BY <1>0, <2>2, CallMove DEF write_lock, write_buf_lock
  <2>3. CASE write_interrupted(p)
    BY <1>0, <2>3, CallMove DEF write_interrupted
  <2>8. CASE write_buf_interrupted(p)
    BY <1>0, <2>8, CallMove DEF write_buf_interrupted
  <2>4. CASE write_alloc(p)
    <3>1. \/ /\ pc' = [pc EXCEPT ![p] = "w_copy"] /\ UNCHANGED ret
          \/ /\ pc' = [pc EXCEPT ![p] = "w_out"] /\ ret' = [ret EXCEPT ![p] = "ENOMEM"]
      BY <2>4 DEF write_alloc
    <3>2. pc[p] = "w_alloc" /\ UNCHANGED <<call, got>>
      BY <2>4 DEF write_alloc
    <3> QED  BY <1>0, <3>1, <3>2, CallMove
  <2>5. CASE write_copy(p)
    BY <1>0, <2>5, CallMove DEF write_copy
  <2>6. CASE write_push(p)
    BY <1>0, <2>6, CallMove DEF write_push
  <2>7. CASE write_out(p)
    BY <1>0, <2>7, CallMove DEF write_out
  <2> QED  BY <1>5, <2>1, <2>2, <2>3, <2>4, <2>5, <2>6, <2>7, <2>8 DEF Write
<1> QED  BY <1>1, <1>2, <1>3, <1>4, <1>5 DEF Next

-----------------------------------------------------------------------------
(* The sizes.                                                              *)
Flying == SumFunctionOnSet(Pending, InFlight)

(* The unfinished command has room for the writes under way, and no        *)
(* command in the ring is longer than one can get.                         *)
SizeInv ==
  /\ entry.size + Flying <= MaxEntry
  /\ \A i \in SlotIndex : buffer.entry[i].size <= MaxEntry

(* What one process adds to a sum.                                         *)
LEMMA SumAround ==
  ASSUME NEW S, IsFiniteSet(S), NEW f, \A y \in S : f[y] \in Nat, NEW x
  PROVE  /\ SumFunctionOnSet(f, S \ {x}) \in Nat
         /\ x \in S => SumFunctionOnSet(f, S) = SumFunctionOnSet(f, S \ {x}) + f[x]
         /\ x \notin S => SumFunctionOnSet(f, S) = SumFunctionOnSet(f, S \ {x})
<1>1. IsFiniteSet(S \ {x}) /\ \A y \in S \ {x} : f[y] \in Nat
  BY FS_Subset
<1>2. SumFunctionOnSet(f, S \ {x}) \in Nat
  BY <1>1, SumType
<1>3. x \in S => SumFunctionOnSet(f, S) = f[x] + SumFunctionOnSet(f, S \ {x})
  BY SumSplit
<1>4. x \notin S => S \ {x} = S
  OBVIOUS
<1> QED  BY <1>2, <1>3, <1>4

(* What a call hands over.                                                 *)
LEMMA CallBytes ==
  ASSUME NEW c \in Calls
  PROVE  c.data \in Seq(Bytes) /\ Len(c.data) \in Nat
<1>1. c.data \in Chunks \cup {<< >>}
  BY DEF Calls, NoCall
<1>2. << >> \in Seq(Bytes) /\ Chunks \subseteq Seq(Bytes)
  BY DriverAssumption
<1>3. c.data \in Seq(Bytes)
  BY <1>1, <1>2
<1> QED  BY <1>3

(* The same for processes.                                                 *)
LEMMA BytesAround ==
  ASSUME NEW f, \A r \in Procs : f[r] \in Nat, NEW S \in SUBSET Procs, NEW p
  PROVE  /\ IsFiniteSet(S \ {p}) /\ SumFunctionOnSet(f, S \ {p}) \in Nat
         /\ p \in S => SumFunctionOnSet(f, S) = SumFunctionOnSet(f, S \ {p}) + f[p]
         /\ p \notin S => SumFunctionOnSet(f, S) = SumFunctionOnSet(f, S \ {p})
<1>1. IsFiniteSet(S) /\ IsFiniteSet(S \ {p}) /\ \A r \in S : f[r] \in Nat
  BY FS_Subset, DriverAssumption
<1> QED  BY <1>1, SumAround

(* The bytes under way are a number.                                       *)
LEMMA FlyingType ==
  ASSUME MemTypes
  PROVE  Flying \in Nat
<1>1. PICK f, S : f = Pending /\ S = InFlight
  OBVIOUS
<1>2. S \subseteq Procs /\ \A r \in Procs : f[r] \in Nat
  BY <1>1, MemFacts DEF InFlight, Pending
<1>3. IsFiniteSet(S) /\ \A r \in S : f[r] \in Nat
  BY <1>2, FS_Subset, DriverAssumption
<1>4. SumFunctionOnSet(f, S) \in Nat
  BY <1>3, SumType
<1> QED  BY <1>1, <1>4 DEF Flying

(* A step of one process leaves the bytes of the others alone.             *)
LEMMA FlyingMove ==
  ASSUME MemTypes, MemTypes', NEW p \in Procs,
         \A r \in Procs \ {p} : pc'[r] = pc[r] /\ call'[r] = call[r]
  PROVE  \E rest \in Nat :
         /\ p \in InFlight => Flying = rest + Len(call[p].data)
         /\ p \notin InFlight => Flying = rest
         /\ p \in InFlight' => Flying' = rest + Len(call'[p].data)
         /\ p \notin InFlight' => Flying' = rest
<1>1. PICK f, e, S, T : f = Pending /\ e = Pending' /\ S = InFlight /\ T = InFlight'
  OBVIOUS
<1>2. S \in SUBSET Procs /\ T \in SUBSET Procs /\ T \ {p} = S \ {p}
  BY <1>1 DEF InFlight
<1>3. /\ \A r \in Procs : f[r] = Len(call[r].data) /\ f[r] \in Nat
      /\ \A r \in Procs : e[r] = Len(call'[r].data) /\ e[r] \in Nat
  <2>1. call \in [Procs -> Calls] /\ call' \in [Procs -> Calls]
    BY DEF MemTypes
  <2> QED  BY <1>1, <2>1, CallBytes DEF Pending
<1>4. /\ IsFiniteSet(S \ {p}) /\ SumFunctionOnSet(f, S \ {p}) \in Nat
      /\ p \in S => SumFunctionOnSet(f, S) = SumFunctionOnSet(f, S \ {p}) + f[p]
      /\ p \notin S => SumFunctionOnSet(f, S) = SumFunctionOnSet(f, S \ {p})
      /\ p \in T => SumFunctionOnSet(e, T) = SumFunctionOnSet(e, T \ {p}) + e[p]
      /\ p \notin T => SumFunctionOnSet(e, T) = SumFunctionOnSet(e, T \ {p})
  BY <1>2, <1>3, BytesAround
<1>5. SumFunctionOnSet(e, T \ {p}) = SumFunctionOnSet(f, S \ {p})
  <2>1. PICK U : U = S \ {p}
    OBVIOUS
  <2>2. IsFiniteSet(U) /\ \A r \in U : r \in Procs \ {p}
    BY <1>2, <1>4, <2>1
  <2>3. \A r \in Procs \ {p} : f[r] \in Nat /\ e[r] = f[r]
    BY <1>3
  <2>4. SumFunctionOnSet(e, U) = SumFunctionOnSet(f, U)
    BY <2>2, <2>3, SumSame
  <2> QED  BY <1>2, <2>1, <2>4
<1>6. Flying = SumFunctionOnSet(f, S) /\ Flying' = SumFunctionOnSet(e, T)
  BY <1>1 DEF Flying
<1> QED  BY <1>1, <1>3, <1>4, <1>5, <1>6

(* A step of one process that does not touch the device and hands over no  *)
(* more bytes than before.                                                 *)
LEMMA SizeStays ==
  ASSUME LocksInv, SizeInv, MemTypes, MemTypes', UNCHANGED <<buffer, entry>>,
         NEW p \in Procs, NEW loc, pc' = [pc EXCEPT ![p] = loc],
         \A r \in Procs \ {p} : call'[r] = call[r],
         loc \in {"w_lock", "w_alloc", "w_copy"} => p \in InFlight /\ call'[p] = call[p]
  PROVE  SizeInv'
<1>1. pc'[p] = loc /\ \A r \in Procs \ {p} : pc'[r] = pc[r]
  BY DEF LocksInv
<1>2. PICK rest \in Nat :
         /\ p \in InFlight => Flying = rest + Len(call[p].data)
         /\ p \notin InFlight => Flying = rest
         /\ p \in InFlight' => Flying' = rest + Len(call'[p].data)
         /\ p \notin InFlight' => Flying' = rest
  BY <1>1, FlyingMove
<1>3. p \in InFlight' => p \in InFlight /\ call'[p] = call[p]
  BY <1>1 DEF InFlight
<1>4. Len(call[p].data) \in Nat /\ entry.size \in Nat /\ MaxEntry \in Nat
  BY MemFacts, DriverAssumption
<1>5. Flying' \in Nat /\ Flying \in Nat /\ Flying' <= Flying
  BY <1>2, <1>3, <1>4
<1>6. entry.size + Flying' <= MaxEntry
  BY <1>4, <1>5 DEF SizeInv
<1> QED  BY <1>6 DEF SizeInv

(* A complete command is an entry the ring can take.                       *)
LEMMA EntryStored ==
  ASSUME LocksInv, MemInv, undefined = "no", entry.size # 0
  PROVE  entry \in Stored
<1>1. entry \in Entries /\ EntryOk
  BY DEF MemInv, MemTypes, MemSafe
<1>2. entry.buffptr \in Ptrs
  BY <1>1 DEF EntryOk
<1> QED  BY <1>1, <1>2 DEF Entries, Stored

(* Nothing is under way before a file is open.                             *)
LEMMA SizeInit == Init => SizeInv
<1> SUFFICES ASSUME Init PROVE SizeInv
  OBVIOUS
<1>1. InFlight = {} /\ \A x \in {} : Pending[x] \in Nat
  BY DEF Init, InFlight
<1>2. IsFiniteSet({})
  BY FS_EmptySet
<1>3. Flying = 0
  <2>1. PICK f : f = Pending
    OBVIOUS
  <2>2. SumFunctionOnSet(f, {}) = 0
    BY <1>2, SumType
  <2> QED  BY <1>1, <2>1, <2>2 DEF Flying
<1>4. entry.size = 0 /\ \A i \in SlotIndex : buffer.entry[i].size = 0
  BY DEF Init, EmptyBuffer, NoEntry
<1> QED  BY <1>3, <1>4, DriverAssumption DEF SizeInv

(* Loading and unloading the module start over with an empty ring.         *)
LEMMA SizeLoad ==
  ASSUME MemTypes, SizeInv, aesd_init_module \/ aesd_cleanup_module
  PROVE  SizeInv'
<1>1. UNCHANGED <<pc, call>> /\ entry' = NoEntry /\ buffer' = EmptyBuffer
  BY DEF aesd_init_module, aesd_cleanup_module, procVars
<1>2. Flying' = Flying
  BY <1>1 DEF Flying, InFlight, Pending
<1>3. entry'.size = 0 /\ \A i \in SlotIndex : buffer'.entry[i].size = 0
  BY <1>1 DEF EmptyBuffer, NoEntry
<1>4. Flying \in Nat /\ entry.size \in Nat /\ MaxEntry \in Nat
  BY FlyingType, MemFacts, DriverAssumption
<1>5. Flying <= MaxEntry
  BY <1>4 DEF SizeInv
<1> QED  BY <1>2, <1>3, <1>4, <1>5 DEF SizeInv

(* Every step of a write keeps to the bound: what it appends to dev->entry *)
(* it counted before.                                                      *)
LEMMA SizeWrite ==
  ASSUME LocksInv, MemInv, MemTypes', SizeInv, NEW p \in Procs, Write(p)
  PROVE  SizeInv'
<1>0. /\ MemTypes /\ pc \in [Procs -> Locations] /\ call \in [Procs -> Calls]
      /\ entry.size \in Nat /\ MaxEntry \in Nat /\ Len(call[p].data) \in Nat
  BY MemFacts, DriverAssumption DEF MemInv, LocksInv, MemTypes
<1> USE DEF At, Goto
<1>1. CASE \E c \in Chunks : write(p, c)
  <2>1. PICK c \in Chunks : write(p, c)
    BY <1>1
  <2>2. /\ pc[p] = "user" /\ UNCHANGED <<buffer, entry>>
        /\ entry.size + Len(c) + Flying <= MaxEntry
        /\ pc' = [pc EXCEPT ![p] = "w_lock"]
        /\ call' = [call EXCEPT ![p] = [op |-> "write", count |-> 0, data |-> c]]
    BY <2>1 DEF write, Enter, devVars, Flying
  <2>3. /\ pc'[p] = "w_lock" /\ call'[p].data = c
        /\ \A r \in Procs \ {p} : pc'[r] = pc[r] /\ call'[r] = call[r]
    BY <1>0, <2>2
  <2>4. p \notin InFlight /\ p \in InFlight'
    BY <2>2, <2>3 DEF InFlight
  <2>5. PICK rest \in Nat : Flying = rest /\ Flying' = rest + Len(c)
    BY <1>0, <2>3, <2>4, FlyingMove
  <2>6. Len(c) \in Nat
    BY DriverAssumption
  <2>7. entry.size + Flying' <= MaxEntry
    BY <1>0, <2>2, <2>5, <2>6
  <2> QED  BY <2>2, <2>7 DEF SizeInv
<1>2. CASE write_lock(p)
  BY <1>0, <1>2, SizeStays DEF write_lock, InFlight
<1>3. CASE write_interrupted(p) \/ write_buf_lock(p) \/ write_buf_interrupted(p) \/ write_out(p)
  BY <1>0, <1>3, SizeStays DEF write_interrupted, write_buf_lock, write_buf_interrupted, write_out, devVars
<1>4. CASE write_alloc(p)
  <2>1. /\ pc[p] = "w_alloc" /\ UNCHANGED <<buffer, entry, call>>
        /\ pc' = [pc EXCEPT ![p] = "w_copy"] \/ pc' = [pc EXCEPT ![p] = "w_out"]
    BY <1>4 DEF write_alloc
  <2>2. p \in InFlight
    BY <2>1 DEF InFlight
  <2> QED  BY <1>0, <2>1, <2>2, SizeStays
<1>5. CASE write_copy(p)
  <2>1. CASE UNCHANGED entry /\ pc' = [pc EXCEPT ![p] = "w_out"]
    BY <1>0, <1>5, <2>1, SizeStays DEF write_copy
  <2>2. CASE ~(UNCHANGED entry /\ pc' = [pc EXCEPT ![p] = "w_out"])
    <3>1. /\ pc[p] = "w_copy" /\ pc' = [pc EXCEPT ![p] = "w_buf"]
          /\ entry'.size = entry.size + Len(call[p].data)
          /\ UNCHANGED <<buffer, call>>
      BY <1>5, <2>2 DEF write_copy
    <3>2. pc'[p] = "w_buf" /\ \A r \in Procs \ {p} : pc'[r] = pc[r] /\ call'[r] = call[r]
      BY <1>0, <3>1
    <3>3. p \in InFlight /\ p \notin InFlight'
      BY <3>1, <3>2 DEF InFlight
    <3>4. PICK rest \in Nat : Flying = rest + Len(call[p].data) /\ Flying' = rest
      BY <1>0, <3>2, <3>3, FlyingMove
    <3>5. entry.size + Flying <= MaxEntry
      BY DEF SizeInv
    <3>6. entry'.size + Flying' <= MaxEntry
      BY <1>0, <3>1, <3>4, <3>5
    <3> QED  BY <3>1, <3>6 DEF SizeInv
  <2> QED  BY <2>1, <2>2
<1>6. CASE write_push(p)
  <2>1. pc[p] = "w_push" /\ undefined = "no" /\ UNCHANGED call /\ pc' = [pc EXCEPT ![p] = "w_out"]
    BY <1>6 DEF write_push
  <2>2. CASE UNCHANGED <<buffer, entry>>
    BY <1>0, <2>1, <2>2, SizeStays
  <2>3. CASE ~UNCHANGED <<buffer, entry>>
    <3>1. entry.size > 0 /\ buffer' = AddEntry(buffer, entry) /\ entry' = NoEntry
      BY <1>6, <2>3 DEF write_push
    <3>2. pc'[p] = "w_out" /\ \A r \in Procs \ {p} : pc'[r] = pc[r] /\ call'[r] = call[r]
      BY <1>0, <2>1
    <3>3. p \notin InFlight /\ p \notin InFlight'
      BY <2>1, <3>2 DEF InFlight
    <3>4. PICK rest \in Nat : Flying = rest /\ Flying' = rest
      BY <1>0, <3>2, <3>3, FlyingMove
    <3>5. entry.size + Flying <= MaxEntry
      BY DEF SizeInv
    <3>6. entry'.size = 0
      BY <3>1 DEF NoEntry
    <3>7. entry'.size + Flying' <= MaxEntry /\ entry.size <= MaxEntry
      BY <1>0, <3>4, <3>5, <3>6
    <3>8. entry \in Stored
      BY <1>0, <2>1, <3>1, EntryStored
    <3>9. \A k \in SlotIndex : buffer'.entry[k] = entry \/ buffer'.entry[k] = buffer.entry[k]
      BY <1>0, <3>1, <3>8, AddRing DEF MemTypes
    <3> QED  BY <3>7, <3>9 DEF SizeInv
  <2> QED  BY <2>2, <2>3
<1> QED  BY <1>1, <1>2, <1>3, <1>4, <1>5, <1>6 DEF Write

(* Every step keeps to the bound.                                          *)
LEMMA SizeNext == LocksInv /\ MemInv /\ MemTypes' /\ SizeInv /\ [Next]_vars => SizeInv'
<1> SUFFICES ASSUME LocksInv, MemInv, MemTypes', SizeInv, [Next]_vars PROVE SizeInv'
  OBVIOUS
<1>0. MemTypes /\ pc \in [Procs -> Locations] /\ call \in [Procs -> Calls]
  BY DEF MemInv, LocksInv, MemTypes
<1> USE DEF At, Goto
<1>1. CASE UNCHANGED vars
  BY <1>1 DEF vars, devVars, procVars, SizeInv, Flying, InFlight, Pending
<1>2. ASSUME NEW p \in Procs, aesd_open(p) \/ aesd_release(p) PROVE SizeInv'
  BY <1>0, <1>2, SizeStays DEF aesd_open, aesd_release, devVars
<1>3. ASSUME NEW p \in Procs, Read(p) PROVE SizeInv'
  <2>1. CASE \E n \in ReadCounts : read(p, n)
    BY <1>0, <2>1, SizeStays DEF read, Enter, devVars
  <2>2. CASE read_lock(p) \/ read_interrupted(p) \/ read_find(p) \/ read_copy(p)
    <3>1. /\ UNCHANGED <<buffer, entry, call>>
          /\ \E loc \in {"r_find", "user", "r_copy"} : pc' = [pc EXCEPT ![p] = loc]
      BY <2>2 DEF read_lock, read_interrupted, read_find, read_copy, ReadDone, devVars
    <3> QED  BY <1>0, <3>1, SizeStays
  <2> QED  BY <1>3, <2>1, <2>2 DEF Read
<1> QED  BY <1>0, <1>1, <1>2, <1>3, SizeLoad, SizeWrite DEF Next

-----------------------------------------------------------------------------
(* The file positions.                                                     *)
FoundFor(p) ==
  LET f == FindEntry(buffer, f_pos[p])
      e == buffer.entry[f.slot]
  IN  [buffptr |-> e.buffptr, offset |-> f.offset,
       read_count |-> Min({e.size - f.offset, call[p].count})]

(* A position is never beyond the longest data the ring can hold, and what *)
(* a reader copies is still what it found.                                 *)
PosInv ==
  /\ f_pos \in [Procs -> Nat] /\ \A p \in Procs : f_pos[p] <= Slots * MaxEntry
  /\ \A p \in Procs : pc[p] = "r_copy" =>
       FindEntry(buffer, f_pos[p]) # NULL /\ found[p] = FoundFor(p)

(* How much data there is when no entry is longer than m.                  *)
LEMMA TotalBound ==
  ASSUME NEW b, WellFormed(b, Stored), NEW m \in Nat,
         \A i \in SlotIndex : b.entry[i].size <= m
  PROVE  \A k \in 0 .. Slots : SearchOffset(b)[k] <= Slots * m
<1> DEFINE so   == SearchOffset(b)
           Done == {k \in 0 .. Slots : so[k] <= k * m}
<1>0. Slots \in Nat
  BY SlotsAssumption
<1>1. /\ so \in [0 .. Slots -> Nat] /\ so[0] = 0
      /\ \A k \in 1 .. Slots : so[k] = so[k - 1] + SizeAt(b, k)
  BY SearchOffsetStep
<1> HIDE DEF so
<1>2. 0 \in Done
  BY <1>0, <1>1
<1>3. ASSUME NEW k \in 1 .. Slots, k - 1 \in Done PROVE k \in Done
  <2>1. SlotAt(b, k - 1) \in SlotIndex /\ SizeAt(b, k) \in Nat
    BY SizeAtValue
  <2>2. SizeAt(b, k) <= m
    BY <2>1 DEF SizeAt
  <2>3. so[k - 1] \in Nat /\ so[k - 1] <= (k - 1) * m /\ so[k] = so[k - 1] + SizeAt(b, k)
    BY <1>0, <1>1, <1>3
  <2>4. (k - 1) * m + m = k * m /\ (k - 1) * m \in Int /\ k * m \in Int
    BY <1>0
  <2>5. so[k] <= k * m
    <3> DEFINE x == so[k - 1]
               y == SizeAt(b, k)
               z == (k - 1) * m
    <3>1. x \in Nat /\ y \in Nat /\ z \in Int /\ x <= z /\ y <= m /\ so[k] = x + y /\ z + m = k * m
      BY <2>1, <2>2, <2>3, <2>4
    <3> HIDE DEF x, y, z
    <3>2. x + y <= z + m
      BY <3>1
    <3> QED  BY <3>1, <3>2
  <2> QED  BY <1>0, <2>5
<1>4. 0 .. Slots \subseteq Done
  <2> HIDE DEF Done
  <2> QED  BY <1>0, <1>2, <1>3, InductionUpTo
<1>5. ASSUME NEW k \in 0 .. Slots PROVE so[k] <= Slots * m
  <2>1. so[k] <= k * m /\ so[k] \in Nat
    BY <1>1, <1>4
  <2>2. k * m <= Slots * m /\ k * m \in Int /\ Slots * m \in Int
    BY <1>0
  <2> QED  BY <2>1, <2>2
<1> QED  BY <1>5 DEF so

(* The smaller of two numbers.                                             *)
LEMMA MinOfTwo ==
  ASSUME NEW x \in Nat, NEW y \in Nat
  PROVE  /\ Min({x, y}) \in Nat /\ Min({x, y}) <= x /\ Min({x, y}) <= y
         /\ Min({x, y}) = x \/ Min({x, y}) = y
<1>1. PICK S : S = {x, y}
  OBVIOUS
<1>2. S \subseteq Nat /\ S # {}
  BY <1>1
<1>3. Min(S) \in S /\ \A z \in S : Min(S) <= z
  BY <1>2, MinIsLeast
<1> QED  BY <1>1, <1>3

(* What a reader is about to copy: the rest of the entry its position is   *)
(* in, or as much of it as was asked for.                                  *)
LEMMA ReadPlace ==
  ASSUME MemTypes, PosInv, NEW p \in Procs, pc[p] = "r_copy"
  PROVE  \E i \in 1 .. LiveCount(buffer) :
           /\ SearchOffset(buffer)[i - 1] <= f_pos[p] /\ f_pos[p] < SearchOffset(buffer)[i]
           /\ found[p].buffptr = Slot(SlotAt(buffer, i - 1))
           /\ found[p].offset = f_pos[p] - SearchOffset(buffer)[i - 1]
           /\ found[p].read_count \in Nat /\ call[p].count \in Nat
           /\ found[p].read_count <= SearchOffset(buffer)[i] - f_pos[p]
           /\ found[p].read_count <= call[p].count
           /\ \/ found[p].read_count = SearchOffset(buffer)[i] - f_pos[p]
              \/ found[p].read_count = call[p].count
<1> DEFINE so == SearchOffset(buffer)
           n  == f_pos[p]
           f  == FindEntry(buffer, n)
<1>0. WellFormed(buffer, Stored) /\ n \in Nat /\ f # NULL /\ found[p] = FoundFor(p)
  BY DEF MemTypes, PosInv
<1>1. PICK i \in 1 .. LiveCount(buffer) :
        /\ so[i - 1] <= n /\ n < so[i]
        /\ f = [slot |-> SlotAt(buffer, i - 1), offset |-> n - so[i - 1]]
  <2> HIDE DEF n
  <2> QED  BY <1>0, FindValue
<1>2. i \in 1 .. Slots /\ i - 1 \in 0 .. Slots /\ i \in 0 .. Slots
  BY <1>0, LiveCountValue, SlotsAssumption
<1>3. so[i] \in Nat /\ so[i - 1] \in Nat /\ so[i] = so[i - 1] + SizeAt(buffer, i) /\ SizeAt(buffer, i) \in Nat
  BY <1>0, <1>2, SearchOffsetStep, SizeAtValue
<1>4. call[p].count \in Nat
  <2>1. call[p] \in Calls
    BY DEF MemTypes
  <2>2. call[p].count \in ReadCounts \cup {0}
    BY <2>1 DEF Calls, NoCall
  <2>3. 0 \in Nat /\ ReadCounts \subseteq Nat
    BY DriverAssumption
  <2> QED  BY <2>2, <2>3, Zenon
<1>5. SizeAt(buffer, i) - (n - so[i - 1]) = so[i] - n /\ so[i] - n \in Nat
  <2> DEFINE x == so[i - 1]
             y == so[i]
             z == SizeAt(buffer, i)
  <2>1. x \in Nat /\ y \in Nat /\ z \in Nat /\ y = x + z /\ n \in Nat /\ x <= n /\ n < y
    BY <1>0, <1>1, <1>3
  <2> HIDE DEF x, y, z, n
  <2>2. z - (n - x) = y - n /\ y - n \in Nat
    BY <2>1
  <2> QED  BY <2>2 DEF x, y, z
<1>6. /\ found[p].buffptr = Slot(SlotAt(buffer, i - 1))
      /\ found[p].offset = n - so[i - 1]
      /\ found[p].read_count = Min({SizeAt(buffer, i) - (n - so[i - 1]), call[p].count})
  <2>1. f.slot = SlotAt(buffer, i - 1) /\ f.offset = n - so[i - 1]
    BY <1>1
  <2> QED  BY <1>0, <2>1 DEF FoundFor, Slot, SizeAt
<1>7. found[p].read_count = Min({so[i] - n, call[p].count})
  BY <1>5, <1>6
<1> QED  BY <1>1, <1>4, <1>5, <1>6, <1>7, MinOfTwo

(* A step of one process that leaves the ring alone and does not find.     *)
LEMMA PosMove ==
  ASSUME LocksInv, PosInv, UNCHANGED buffer,
         NEW p \in Procs, NEW loc, pc' = [pc EXCEPT ![p] = loc], loc # "r_copy",
         f_pos' \in [Procs -> Nat], f_pos'[p] <= Slots * MaxEntry,
         \A r \in Procs \ {p} : f_pos'[r] = f_pos[r],
         \A r \in Procs \ {p} : call'[r] = call[r],
         \A r \in Procs \ {p} : found'[r] = found[r]
  PROVE  PosInv'
<1>1. pc'[p] = loc /\ \A r \in Procs \ {p} : pc'[r] = pc[r]
  BY DEF LocksInv
<1>2. \A r \in Procs : f_pos'[r] <= Slots * MaxEntry
  BY DEF PosInv
<1>3. ASSUME NEW r \in Procs, pc'[r] = "r_copy"
      PROVE  FindEntry(buffer, f_pos'[r]) # NULL /\ found'[r] = FoundFor(r)'
  <2>1. r # p /\ pc[r] = "r_copy"
    BY <1>1, <1>3
  <2>2. FoundFor(r)' = FoundFor(r)
    BY <2>1 DEF FoundFor
  <2> QED  BY <2>1, <2>2 DEF PosInv
<1> QED  BY <1>2, <1>3 DEF PosInv

(* Nothing was read before.                                                *)
LEMMA PosInit == Init => PosInv
<1> SUFFICES ASSUME Init PROVE PosInv
  OBVIOUS
<1>1. Slots \in Nat /\ MaxEntry \in Nat
  BY SlotsAssumption, DriverAssumption
<1>2. 0 <= Slots * MaxEntry
  BY <1>1
<1> QED  BY <1>2 DEF Init, PosInv

(* The steps of a read.                                                    *)
LEMMA PosRead ==
  ASSUME LocksInv, MemInv, SizeInv, PosInv, NEW p \in Procs, Read(p)
  PROVE  PosInv'
<1>0. /\ MemTypes /\ pc \in [Procs -> Locations] /\ call \in [Procs -> Calls]
      /\ f_pos \in [Procs -> Nat] /\ f_pos[p] <= Slots * MaxEntry
      /\ found = [r \in Procs |-> found[r]]
  BY DEF MemInv, LocksInv, MemTypes, PosInv
<1> USE DEF At, Goto, devVars
<1>1. CASE \E n \in ReadCounts : read(p, n)
  <2>1. PICK n \in ReadCounts : read(p, n)
    BY <1>1
  <2>2. /\ pc' = [pc EXCEPT ![p] = "r_lock"] /\ UNCHANGED <<buffer, f_pos, found>>
        /\ call' = [call EXCEPT ![p] = [op |-> "read", count |-> n, data |-> << >>]]
    BY <2>1 DEF read, Enter
  <2>3. \A r \in Procs \ {p} : call'[r] = call[r]
    BY <1>0, <2>2
  <2> QED  BY <1>0, <2>2, <2>3, PosMove
<1>2. CASE read_lock(p) \/ read_interrupted(p)
  BY <1>0, <1>2, PosMove DEF read_lock, read_interrupted
<1>3. CASE read_find(p)
  <2>1. CASE FindEntry(buffer, f_pos[p]) = NULL
    BY <1>0, <1>3, <2>1, PosMove DEF read_find, ReadDone
  <2>2. CASE FindEntry(buffer, f_pos[p]) # NULL
    <3>1. /\ pc' = [pc EXCEPT ![p] = "r_copy"] /\ UNCHANGED <<buffer, f_pos, call>>
          /\ found' = [found EXCEPT ![p] = FoundFor(p)]
      BY <1>3, <2>2 DEF read_find, FoundFor
    <3>2. /\ found'[p] = FoundFor(p)
          /\ \A r \in Procs \ {p} : pc'[r] = pc[r] /\ found'[r] = found[r]
      BY <1>0, <3>1
    <3>3. \A r \in Procs : FoundFor(r)' = FoundFor(r)
      BY <3>1 DEF FoundFor
    <3> QED  BY <2>2, <3>1, <3>2, <3>3 DEF PosInv
  <2> QED  BY <2>1, <2>2
<1>4. CASE read_copy(p)
  <2>1. /\ pc[p] = "r_copy" /\ pc' = [pc EXCEPT ![p] = "user"] /\ UNCHANGED <<buffer, call>>
        /\ found' = [found EXCEPT ![p] = NULL]
        /\ UNCHANGED f_pos \/ f_pos' = [f_pos EXCEPT ![p] = f_pos[p] + found[p].read_count]
    BY <1>4 DEF read_copy, ReadDone
  <2>2. PICK i \in 1 .. LiveCount(buffer) :
          /\ f_pos[p] < SearchOffset(buffer)[i]
          /\ found[p].read_count \in Nat
          /\ found[p].read_count <= SearchOffset(buffer)[i] - f_pos[p]
    BY <1>0, <2>1, ReadPlace
  <2>3. /\ SearchOffset(buffer)[i] <= Slots * MaxEntry /\ SearchOffset(buffer)[i] \in Nat
        /\ Slots * MaxEntry \in Nat
    <3>0. WellFormed(buffer, Stored)
      BY <1>0 DEF MemTypes
    <3>1. i \in 0 .. Slots /\ Slots \in Nat /\ MaxEntry \in Nat
      BY <3>0, LiveCountValue, SlotsAssumption, DriverAssumption
    <3>2. \A k \in SlotIndex : buffer.entry[k].size <= MaxEntry
      BY DEF SizeInv
    <3>3. SearchOffset(buffer)[i] <= Slots * MaxEntry
      BY <3>0, <3>1, <3>2, TotalBound
    <3>4. SearchOffset(buffer) \in [0 .. Slots -> Nat]
      BY <3>0, SearchOffsetStep
    <3>5. Slots * MaxEntry \in Nat
      BY <3>1
    <3> QED  BY <3>1, <3>3, <3>4, <3>5
  <2>4. f_pos[p] + found[p].read_count \in Nat /\ f_pos[p] + found[p].read_count <= Slots * MaxEntry
    <3> DEFINE x == f_pos[p]
               y == found[p].read_count
               z == SearchOffset(buffer)[i]
               m == Slots * MaxEntry
    <3>1. x \in Nat /\ y \in Nat /\ z \in Nat /\ m \in Nat /\ y <= z - x /\ z <= m
      BY <1>0, <2>2, <2>3
    <3> HIDE DEF x, y, z, m
    <3>2. x + y \in Nat /\ x + y <= m
      BY <3>1
    <3> QED  BY <3>2 DEF x, y, m
  <2>5. /\ f_pos' \in [Procs -> Nat] /\ f_pos'[p] <= Slots * MaxEntry
        /\ \A r \in Procs \ {p} : f_pos'[r] = f_pos[r]
    BY <1>0, <2>1, <2>4
  <2>6. \A r \in Procs \ {p} : found'[r] = found[r]
    BY <1>0, <2>1
  <2> QED  BY <2>1, <2>5, <2>6, PosMove
<1> QED  BY <1>1, <1>2, <1>3, <1>4 DEF Read

(* A write moves no position, and changes the ring only when nobody copies *)
(* from it.                                                                *)
LEMMA PosWrite ==
  ASSUME LocksInv, MemInv, PosInv, NEW p \in Procs, Write(p)
  PROVE  PosInv'
<1>0. /\ MemTypes /\ pc \in [Procs -> Locations] /\ call \in [Procs -> Calls]
      /\ f_pos \in [Procs -> Nat] /\ f_pos[p] <= Slots * MaxEntry
  BY DEF MemInv, LocksInv, MemTypes, PosInv
<1> USE DEF At, Goto, devVars
<1>1. CASE \E c \in Chunks : write(p, c)
  <2>1. PICK c \in Chunks : write(p, c)
    BY <1>1
  <2>2. /\ pc' = [pc EXCEPT ![p] = "w_lock"] /\ UNCHANGED <<buffer, f_pos, found>>
        /\ call' = [call EXCEPT ![p] = [op |-> "write", count |-> 0, data |-> c]]
    BY <2>1 DEF write, Enter
  <2>3. \A r \in Procs \ {p} : call'[r] = call[r]
    BY <1>0, <2>2
  <2> QED  BY <1>0, <2>2, <2>3, PosMove
<1>2. CASE \/ write_lock(p) \/ write_interrupted(p) \/ write_alloc(p) \/ write_copy(p)
           \/ write_buf_lock(p) \/ write_buf_interrupted(p) \/ write_out(p)
  <2>1. /\ UNCHANGED <<buffer, f_pos, found, call>>
        /\ \E loc \in {"w_alloc", "user", "w_copy", "w_out", "w_buf", "w_push"} :
             pc' = [pc EXCEPT ![p] = loc]
    BY <1>2 DEF write_lock, write_interrupted, write_alloc, write_copy, write_buf_lock,
                write_buf_interrupted, write_out
  <2> QED  BY <1>0, <2>1, PosMove
<1>3. CASE write_push(p)
  <2>1. pc[p] = "w_push" /\ pc' = [pc EXCEPT ![p] = "w_out"] /\ UNCHANGED f_pos
    BY <1>3 DEF write_push
  <2>2. \A r \in Procs : pc'[r] # "r_copy"
    BY <1>0, <2>1, OneWriter DEF BufLocked
  <2> QED  BY <2>1, <2>2 DEF PosInv
<1> QED  BY <1>1, <1>2, <1>3 DEF Write

(* Every step keeps the positions within the data.                         *)
LEMMA PosNext == LocksInv /\ MemInv /\ SizeInv /\ PosInv /\ [Next]_vars => PosInv'
<1> SUFFICES ASSUME LocksInv, MemInv, SizeInv, PosInv, [Next]_vars PROVE PosInv'
  OBVIOUS
<1>0. /\ MemTypes /\ pc \in [Procs -> Locations] /\ call \in [Procs -> Calls]
      /\ f_pos \in [Procs -> Nat] /\ \A p \in Procs : f_pos[p] <= Slots * MaxEntry
  BY DEF MemInv, LocksInv, MemTypes, PosInv
<1>1. CASE UNCHANGED vars
  <2>1. UNCHANGED <<buffer, pc, f_pos, call, found>>
    BY <1>1 DEF vars, devVars, procVars
  <2>2. \A r \in Procs : FoundFor(r)' = FoundFor(r)
    BY <2>1 DEF FoundFor
  <2> QED  BY <2>1, <2>2 DEF PosInv
<1>2. CASE aesd_init_module \/ aesd_cleanup_module
  <2>1. UNCHANGED <<pc, f_pos>>
    BY <1>2 DEF aesd_init_module, aesd_cleanup_module, procVars
  <2>2. \A p \in Procs : pc[p] = "closed"
    BY <1>2 DEF aesd_init_module, aesd_cleanup_module, LocksInv
  <2> QED  BY <2>1, <2>2 DEF PosInv
<1>3. ASSUME NEW p \in Procs, aesd_open(p) PROVE PosInv'
  BY <1>0, <1>3, PosMove DEF aesd_open, At, Goto, devVars
<1>4. ASSUME NEW p \in Procs, aesd_release(p) PROVE PosInv'
  <2>1. /\ pc' = [pc EXCEPT ![p] = "closed"] /\ UNCHANGED <<buffer, found>>
        /\ f_pos' = [f_pos EXCEPT ![p] = 0] /\ call' = [call EXCEPT ![p] = NoCall]
    BY <1>4 DEF aesd_release, Goto, devVars
  <2>2. /\ f_pos' \in [Procs -> Nat] /\ f_pos'[p] = 0
        /\ \A r \in Procs \ {p} : f_pos'[r] = f_pos[r]
        /\ \A r \in Procs \ {p} : call'[r] = call[r]
    BY <1>0, <2>1
  <2>3. 0 <= Slots * MaxEntry
    <3>1. Slots \in Nat /\ MaxEntry \in Nat
      BY SlotsAssumption, DriverAssumption
    <3> QED  BY <3>1
  <2> QED  BY <2>1, <2>2, <2>3, PosMove
<1> QED  BY <1>1, <1>2, <1>3, <1>4, PosRead, PosWrite DEF Next

-----------------------------------------------------------------------------
(* All invariants together.                                                *)
DriverInv == LocksInv /\ MemInv /\ CallInv /\ SizeInv /\ PosInv

(* They hold before the module is loaded.                                  *)
LEMMA DriverInit == Init => DriverInv
  BY LocksInit, MemInit, CallInit, SizeInit, PosInit DEF DriverInv

(* Every step keeps them.                                                  *)
LEMMA DriverNext == DriverInv /\ [Next]_vars => DriverInv'
<1> SUFFICES ASSUME DriverInv, [Next]_vars PROVE DriverInv'
  OBVIOUS
<1>1. LocksInv' /\ MemInv' /\ CallInv'
  BY LocksNext, MemNext, CallNext DEF DriverInv
<1>2. MemTypes'
  BY <1>1 DEF MemInv
<1>3. SizeInv' /\ PosInv'
  BY <1>2, SizeNext, PosNext DEF DriverInv
<1> QED  BY <1>1, <1>3 DEF DriverInv

(* For every number of slots and processes, every set of writes and every  *)
(* failure: the offsets of the ring stay in the array, the unfinished      *)
(* command keeps to MaxEntry although the writes are checked against it    *)
(* when they enter and appended later, and no file position passes the     *)
(* longest data the ring can hold (main.c:57-187).                         *)
THEOREM DriverTypes == Spec => []TypeOK
<1>1. DriverInv => TypeOK
  <2> SUFFICES ASSUME DriverInv PROVE TypeOK
    OBVIOUS
  <2>1. LocksInv /\ MemInv /\ CallInv /\ SizeInv /\ PosInv /\ MemTypes
    BY DEF DriverInv, MemInv
  <2>2. /\ DOMAIN buffer.entry = SlotIndex
        /\ buffer.in_offs \in SlotIndex /\ buffer.out_offs \in SlotIndex
        /\ buffer.full \in BOOLEAN
    BY <2>1 DEF MemTypes, WellFormed
  <2>3. entry.buffptr \in Ptrs \cup {NULL, ZeroPtr} /\ entry.size \in 0 .. MaxEntry
    <3>1. Flying \in Nat /\ entry.size \in Nat /\ entry.size + Flying <= MaxEntry /\ MaxEntry \in Nat
      BY <2>1, FlyingType, MemFacts, DriverAssumption DEF SizeInv
    <3> QED  BY <2>1, <3>1, MemFacts
  <2>4. f_pos \in [Procs -> 0 .. Slots * MaxEntry]
    <3>1. Slots * MaxEntry \in Nat
      <4>1. Slots \in Nat /\ MaxEntry \in Nat
        BY SlotsAssumption, DriverAssumption
      <4> QED  BY <4>1
    <3> QED  BY <2>1, <3>1 DEF PosInv
  <2>5. /\ loaded \in BOOLEAN /\ undefined \in Causes
        /\ entry_lock \in Procs \cup {NULL} /\ buf_lock \in Procs \cup {NULL}
        /\ leaked \subseteq Ptrs /\ pc \in [Procs -> Locations] /\ call \in [Procs -> Calls]
        /\ kbuf \in [Procs -> Ptrs \cup {NULL, ZeroPtr}]
    BY <2>1 DEF LocksInv, MemInv, MemTypes
  <2>6. ret \in [Procs -> {"ok", "busy", "ERESTARTSYS", "ENOMEM", "EFAULT", "EINTR"}]
    BY <2>1 DEF CallInv, Results
  <2> QED  BY <2>2, <2>3, <2>4, <2>5, <2>6 DEF TypeOK
<1> QED  BY <1>1, DriverInit, DriverNext, PTL DEF Spec
=============================================================================
