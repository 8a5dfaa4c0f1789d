-------------------------- MODULE AesdDeviceProofs --------------------------
(***************************************************************************)
(* The character device driver implements AesdDevice: every read and write *)
(* takes effect in one step between its call and its return, for every     *)
(* number of slots and processes, every set of writes and every failure.   *)
(***************************************************************************)
EXTENDS CharDriverProofs

(* The device the users see.  Between copying its bytes behind the         *)
(* unfinished command and the decision whether they complete it, a write   *)
(* can still tell the one from the other.                                  *)
TailOk ==
  undefined = "no" =>
    \A p \in Procs : pc[p] \in {"w_buf", "w_push"} =>
      \E s \in Seq(Bytes) : Block(entry.buffptr) = s \o call[p].data

(* A step that leaves dev->entry alone and appends nothing to it.          *)
LEMMA TailStays ==
  ASSUME LocksInv, TailOk, undefined = "no", UNCHANGED <<entry, heap>>,
         NEW p \in Procs, NEW loc, pc' = [pc EXCEPT ![p] = loc],
         \A r \in Procs \ {p} : call'[r] = call[r],
         loc \in {"w_buf", "w_push"} => pc[p] \in {"w_buf", "w_push"} /\ call'[p] = call[p]
  PROVE  TailOk'
<1> SUFFICES ASSUME NEW r \in Procs, pc'[r] \in {"w_buf", "w_push"}
             PROVE  \E s \in Seq(Bytes) : Block(entry.buffptr)' = s \o call'[r].data
  BY DEF TailOk
<1>1. pc'[p] = loc /\ \A x \in Procs \ {p} : pc'[x] = pc[x]
  BY DEF LocksInv
<1>2. pc[r] \in {"w_buf", "w_push"} /\ call'[r] = call[r]
  BY <1>1
<1>3. Block(entry.buffptr)' = Block(entry.buffptr)
  BY DEF Block, Dangling
<1> QED  BY <1>2, <1>3 DEF TailOk

(* copy_from_user puts the bytes behind the first entry.size ones.         *)
LEMMA CopyBehind ==
  ASSUME LocksInv, MemInv, NEW p \in Procs, write_copy(p), pc'[p] = "w_buf"
  PROVE  /\ SubSeq(Block(kbuf[p]), 1, entry.size) \in Seq(Bytes)
         /\ Block(entry.buffptr)' = SubSeq(Block(kbuf[p]), 1, entry.size) \o call[p].data
<1> DEFINE q == kbuf[p]
           c == call[p].data
           s == Block(q)
<1>1. /\ MemTypes /\ MemSafe /\ undefined = "no" /\ pc[p] = "w_copy" /\ pc \in [Procs -> Locations]
  BY DEF MemInv, write_copy, At, LocksInv
<1>2. heap' = [heap EXCEPT ![q] = SubSeq(@, 1, entry.size) \o c] /\ entry'.buffptr = q
  <2>1. ~Goto(p, "w_out")
    BY <1>1 DEF Goto
  <2>2. /\ heap' = [heap EXCEPT ![q] = SubSeq(@, 1, entry.size) \o c]
        /\ entry' = [buffptr |-> q, size |-> entry.size + Len(c)]
    BY <2>1, Zenon DEF write_copy
  <2> QED  BY <2>2
<1>3. /\ q \in Ptrs \cup {ZeroPtr} /\ c \in Seq(Bytes) /\ entry.size \in Nat /\ Len(c) \in Nat
      /\ q \in Ptrs => heap[q] \in Seq(Bytes) /\ heap[q] # NULL /\ Len(heap[q]) = entry.size + Len(c)
      /\ q \notin Ptrs => entry.size + Len(c) = 0
      /\ heap \in [Ptrs -> {NULL} \cup Seq(Bytes)] /\ ZeroPtr \notin Ptrs
  BY <1>1, MemFacts DEF MemSafe, KbufOk, MemTypes
<1> HIDE DEF q, c
<1>4. CASE q \in Ptrs
  <2>1. s = heap[q] /\ heap'[q] = SubSeq(heap[q], 1, entry.size) \o c
    BY <1>2, <1>3, <1>4 DEF Block, Dangling
  <2> HIDE DEF s
  <2>2. SubSeq(s, 1, entry.size) \in Seq(Bytes)
    <3>1. s \in Seq(Bytes) /\ entry.size <= Len(s)
      BY <1>3, <1>4, <2>1
    <3>2. \A k \in 1 .. entry.size : s[k] \in Bytes
      BY <1>3, <3>1
    <3> QED  BY <1>3, <3>1, <3>2
  <2>3. heap'[q] \in Seq(Bytes)
    BY <1>3, <2>1, <2>2, Joined
  <2>4. Block(entry.buffptr)' = heap'[q]
    BY <1>2, <1>4, <2>3, DriverAssumption DEF Block, Dangling
  <2> QED  BY <2>1, <2>2, <2>4 DEF q, c, s
<1>5. CASE q \notin Ptrs
  <2>1. s = << >> /\ entry.size = 0 /\ c = << >>
    BY <1>3, <1>5 DEF Block
  <2>2. SubSeq(<< >>, 1, 0) = << >> /\ << >> \in Seq(Bytes) /\ << >> \o << >> = << >>
    OBVIOUS
  <2>3. Block(entry.buffptr)' = << >>
    BY <1>2, <1>5 DEF Block
  <2> QED  BY <2>1, <2>2, <2>3 DEF q, c
<1> QED  BY <1>4, <1>5

(* Every step keeps the appended bytes apart.                              *)
LEMMA TailNext == DriverInv /\ TailOk /\ [Next]_vars => TailOk'
<1> SUFFICES ASSUME LocksInv, MemInv, TailOk, [Next]_vars PROVE TailOk'
  BY DEF DriverInv
<1>0. MemTypes /\ pc \in [Procs -> Locations] /\ call \in [Procs -> Calls]
  BY DEF MemInv, LocksInv, MemTypes
<1> USE DEF At, Goto, devVars
<1>1. CASE UNCHANGED vars
  BY <1>1 DEF vars, procVars, TailOk, Block, Dangling
<1>2. CASE aesd_init_module \/ aesd_cleanup_module
  <2>1. \A p \in Procs : pc'[p] = "closed"
    BY <1>2 DEF aesd_init_module, aesd_cleanup_module, LocksInv, procVars
  <2> QED  BY <2>1 DEF TailOk
<1>3. ASSUME NEW p \in Procs, aesd_open(p) \/ aesd_release(p) PROVE TailOk'
  BY <1>0, <1>3, TailStays DEF aesd_open, aesd_release
<1>4. ASSUME NEW p \in Procs, Read(p) PROVE TailOk'
  <2>1. CASE \E n \in ReadCounts : read(p, n)
    BY <1>0, <2>1, TailStays DEF read, Enter
  <2>2. CASE read_lock(p) \/ read_interrupted(p) \/ read_find(p) \/ read_copy(p)
    <3>1. /\ UNCHANGED <<heap, entry, call>> /\ undefined = "no"
          /\ \E loc \in {"r_find", "user", "r_copy"} : pc' = [pc EXCEPT ![p] = loc]
      BY <2>2 DEF read_lock, read_interrupted, read_find, read_copy, ReadDone
    <3> QED  BY <1>0, <3>1, TailStays
  <2> QED  BY <1>4, <2>1, <2>2 DEF Read
<1>5. ASSUME NEW p \in Procs, Write(p) PROVE TailOk'
  <2>1. CASE \E c \in Chunks : write(p, c)
    BY <1>0, <2>1, TailStays DEF write, Enter
  <2>2. CASE write_lock(p) \/ write_interrupted(p) \/ write_out(p) \/ write_buf_interrupted(p)
    <3>1. /\ UNCHANGED <<heap, entry, call>> /\ undefined = "no"
          /\ \E loc \in {"w_alloc", "user", "w_out"} : pc' = [pc EXCEPT ![p] = loc]
      BY <2>2 DEF write_lock, write_interrupted, write_out, write_buf_interrupted
    <3> QED  BY <1>0, <3>1, TailStays
  <2>3. CASE write_buf_lock(p)
    BY <1>0, <2>3, TailStays DEF write_buf_lock
  <2>4. CASE write_alloc(p) \/ write_push(p) \/ write_copy(p)
    <3>1. /\ pc[p] \in {"w_alloc", "w_push", "w_copy"} /\ UNCHANGED call
          /\ \E loc \in {"w_copy", "w_out", "w_buf"} : pc' = [pc EXCEPT ![p] = loc]
      BY <2>4 DEF write_alloc, write_push, write_copy
    <3>2. \A r \in Procs \ {p} : pc'[r] \notin {"w_buf", "w_push"}
      BY <1>0, <3>1, OneWriter DEF EntryLocked
    <3>3. pc'[p] # "w_push"
      BY <1>0, <3>1
    <3>4. pc'[p] = "w_buf" => write_copy(p)
      BY <1>0, <2>4 DEF write_alloc, write_push
    <3>5. pc'[p] = "w_buf" => \E s \in Seq(Bytes) : Block(entry.buffptr)' = s \o call'[p].data
      BY <3>1, <3>4, CopyBehind
    <3> QED  BY <3>2, <3>3, <3>5 DEF TailOk
  <2> QED  BY <1>5, <2>1, <2>2, <2>3, <2>4 DEF Write
<1> QED  BY <1>1, <1>2, <1>3, <1>4, <1>5 DEF Next

(* The whole of a string, and its beginning.                               *)
LEMMA FrontOf ==
  ASSUME NEW B, NEW s \in Seq(B), NEW t \in Seq(B)
  PROVE  SubSeq(s, 1, Len(s)) = s /\ SubSeq(s \o t, 1, Len(s)) = s
<1>1. /\ s \o t \in Seq(B) /\ Len(s \o t) = Len(s) + Len(t) /\ Len(s) \in Nat /\ Len(t) \in Nat
      /\ \A j \in 1 .. Len(s) : (s \o t)[j] = s[j]
  BY AppendPiece
<1> DEFINE u == SubSeq(s \o t, 1, Len(s))
<1>2. u = [j \in 1 .. Len(s) |-> (s \o t)[j]]
  BY <1>1
<1>3. s = [j \in 1 .. Len(s) |-> s[j]]
  OBVIOUS
<1>4. SubSeq(s, 1, Len(s)) = [j \in 1 .. Len(s) |-> s[j]]
  BY <1>1
<1>5. u = s
  BY <1>1, <1>2, <1>3
<1> QED  BY <1>3, <1>4, <1>5

(* What the users see of the unfinished command: dev->entry, before a      *)
(* write has copied its bytes behind it the beginning of kbuf, and after   *)
(* that dev->entry without them.                                           *)
PartialIs ==
  undefined = "no" =>
    /\ (\A p \in Procs : pc[p] \notin {"w_copy", "w_buf", "w_push"}) =>
         Partial = Block(entry.buffptr)
    /\ \A p \in Procs : pc[p] = "w_copy" => Partial = SubSeq(Block(kbuf[p]), 1, entry.size)
    /\ \A p \in Procs : pc[p] \in {"w_buf", "w_push"} =>
         Partial \in Seq(Bytes) /\ Block(entry.buffptr) = Partial \o call[p].data

(* Which is what the refinement mapping computes.                          *)
LEMMA PartialShape == DriverInv /\ TailOk => PartialIs
<1> SUFFICES ASSUME DriverInv, TailOk, undefined = "no"
             PROVE  /\ (\A p \in Procs : pc[p] \notin {"w_copy", "w_buf", "w_push"}) =>
                         Partial = Block(entry.buffptr)
                    /\ \A p \in Procs : pc[p] = "w_copy" => Partial = SubSeq(Block(kbuf[p]), 1, entry.size)
                    /\ \A p \in Procs : pc[p] \in {"w_buf", "w_push"} =>
                         Partial \in Seq(Bytes) /\ Block(entry.buffptr) = Partial \o call[p].data
  BY DEF PartialIs
<1>0. LocksInv /\ MemTypes /\ MemSafe /\ call \in [Procs -> Calls]
  BY DEF DriverInv, MemInv, MemTypes
<1> DEFINE sum  == SumFunctionOnSet(Pending, Pushing)
           n    == entry.size - sum
           q    == IF \E p \in Procs : kbuf[p] # NULL
                     THEN kbuf[CHOOSE p \in Procs : kbuf[p] # NULL] ELSE entry.buffptr
<1>1. Partial = IF Len(Block(q)) < n THEN << >> ELSE SubSeq(Block(q), 1, n)
  BY Zenon DEF Partial
<1>2. Pushing = {} => sum = 0
  <2>1. PICK f : f = Pending
    OBVIOUS
  <2>2. IsFiniteSet({}) /\ \A x \in {} : f[x] \in Nat
    BY FS_EmptySet
  <2>3. SumFunctionOnSet(f, {}) = 0
    BY <2>2, SumType
  <2> QED  BY <2>1, <2>3
<1>3. ASSUME NEW p \in Procs, Pushing = {p} PROVE sum = Len(call[p].data)
  <2>1. PICK f : f = Pending
    OBVIOUS
  <2>2. f[p] = Len(call[p].data) /\ Len(call[p].data) \in Nat
    BY <1>0, <2>1, CallBytes DEF Pending
  <2>3. IsFiniteSet({p}) /\ IsFiniteSet({}) /\ {p} \ {p} = {}
    BY FS_EmptySet, FS_Singleton
  <2>4. SumFunctionOnSet(f, {p} \ {p}) = 0
    BY <2>3, SumType
  <2>5. SumFunctionOnSet(f, {p}) = f[p] + SumFunctionOnSet(f, {p} \ {p})
    BY <2>2, <2>3, SumSplit
  <2> QED  BY <1>3, <2>1, <2>2, <2>4, <2>5
<1>4. /\ Block(entry.buffptr) \in Seq(Bytes) /\ entry.size \in Nat
      /\ entry.buffptr \notin Ptrs => entry.size = 0
      /\ entry.buffptr \notin Ptrs \/ Dangling(entry.buffptr) => Block(entry.buffptr) = << >>
      /\ entry.buffptr \in Ptrs /\ ~Dangling(entry.buffptr) => Len(Block(entry.buffptr)) = entry.size
  BY <1>0, MemFacts DEF Block, Dangling, MemSafe, EntryOk
<1> HIDE DEF sum, q
<1>5. ASSUME \A p \in Procs : pc[p] \notin {"w_copy", "w_buf", "w_push"}
      PROVE  Partial = Block(entry.buffptr)
  <2>1. Pushing = {} /\ \A p \in Procs : kbuf[p] = NULL
    BY <1>0, <1>5 DEF Pushing, MemSafe, KbufOk
  <2>2. q = entry.buffptr /\ n = entry.size
    BY <1>2, <1>4, <2>1 DEF q
  <2>3. PICK s \in Seq(Bytes) : s = Block(entry.buffptr)
    BY <1>4
  <2>4. Partial = IF Len(s) < entry.size THEN << >> ELSE SubSeq(s, 1, entry.size)
    BY <1>1, <2>2, <2>3
  <2>5. CASE Len(s) = entry.size
    <3>1. SubSeq(s, 1, Len(s)) = s
      BY FrontOf
    <3>2. ~(Len(s) < entry.size)
      BY <1>4, <2>5
    <3> QED  BY <2>3, <2>4, <2>5, <3>1, <3>2
  <2>6. CASE Len(s) # entry.size
    <3>1. s = << >> /\ Len(s) < entry.size
      BY <1>4, <2>3, <2>6
    <3> QED  BY <2>3, <2>4, <3>1
  <2> QED  BY <2>5, <2>6
<1>6. ASSUME NEW p \in Procs, pc[p] = "w_copy"
      PROVE  Partial = SubSeq(Block(kbuf[p]), 1, entry.size)
  <2>1. \A r \in Procs \ {p} : pc[r] \notin {"w_copy", "w_buf", "w_push"}
    BY <1>0, <1>6, OneWriter DEF EntryLocked
  <2>2. Pushing = {} /\ kbuf[p] # NULL /\ \A r \in Procs \ {p} : kbuf[r] = NULL
    BY <1>0, <1>6, <2>1 DEF Pushing, MemSafe, KbufOk
  <2>3. q = kbuf[p]
    <3>1. (CHOOSE r \in Procs : kbuf[r] # NULL) = p
      BY <2>2
    <3> QED  BY <2>2, <3>1 DEF q
  <2>4. n = entry.size
    BY <1>2, <1>4, <2>2
  <2>5. Len(Block(kbuf[p])) \in Nat /\ ~(Len(Block(kbuf[p])) < entry.size)
    <3>1. kbuf[p] \in Ptrs => /\ heap[kbuf[p]] \in Seq(Bytes) /\ heap[kbuf[p]] # NULL
                              /\ Len(heap[kbuf[p]]) = entry.size + Len(call[p].data)
      BY <1>0, <1>6, MemFacts DEF MemSafe, KbufOk
    <3>2. kbuf[p] \notin Ptrs => entry.size + Len(call[p].data) = 0
      BY <1>0, <1>6 DEF MemSafe, KbufOk, MemTypes
    <3>3. Len(call[p].data) \in Nat
      BY <1>0, CallBytes
    <3>4. CASE kbuf[p] \in Ptrs
      <4>1. Block(kbuf[p]) = heap[kbuf[p]]
        BY <3>1, <3>4 DEF Block, Dangling
      <4> QED  BY <1>4, <3>1, <3>3, <3>4, <4>1
    <3>5. CASE kbuf[p] \notin Ptrs
      <4>1. Block(kbuf[p]) = << >> /\ entry.size = 0
        BY <1>4, <3>2, <3>3, <3>5 DEF Block
      <4> QED  BY <4>1
    <3> QED  BY <3>4, <3>5
  <2> QED  BY <1>1, <2>3, <2>4, <2>5
<1>7. ASSUME NEW p \in Procs, pc[p] \in {"w_buf", "w_push"}
      PROVE  Partial \in Seq(Bytes) /\ Block(entry.buffptr) = Partial \o call[p].data
  <2>1. \A r \in Procs \ {p} : pc[r] \notin {"w_copy", "w_buf", "w_push"}
    BY <1>0, <1>7, OneWriter DEF EntryLocked
  <2>2. Pushing = {p} /\ \A r \in Procs : kbuf[r] = NULL
    BY <1>0, <1>7, <2>1 DEF Pushing, MemSafe, KbufOk
  <2>3. q = entry.buffptr /\ n = entry.size - Len(call[p].data)
    BY <1>3, <2>2 DEF q
  <2>4. PICK s \in Seq(Bytes) : Block(entry.buffptr) = s \o call[p].data
    BY <1>7 DEF TailOk
  <2>5. PICK c \in Seq(Bytes) : c = call[p].data
    BY <1>0, CallBytes
  <2>6. Len(Block(entry.buffptr)) = entry.size
    <3>1. entry.buffptr \in Ptrs => ~Dangling(entry.buffptr)
      BY <1>0, <1>7 DEF MemSafe, EntryOk, Dangling
    <3>2. Len(<< >>) = 0
      OBVIOUS
    <3> QED  BY <1>4, <3>1, <3>2
  <2>7. Len(s \o c) = Len(s) + Len(c) /\ Len(s) \in Nat /\ Len(c) \in Nat
    BY Joined
  <2>8. n = Len(s) /\ ~(Len(s \o c) < Len(s))
    BY <1>4, <2>3, <2>4, <2>5, <2>6, <2>7
  <2>9. Partial = SubSeq(s \o c, 1, Len(s))
    BY <1>1, <2>3, <2>4, <2>5, <2>8
  <2>10. Partial = s
    BY <2>9, FrontOf
  <2> QED  BY <2>4, <2>10
<1> QED  BY <1>5, <1>6, <1>7

(* The commands the users see are the blocks of the live slots.            *)
LEMMA RecentShape ==
  ASSUME MemInv, undefined = "no"
  PROVE  /\ Recent \in Seq(Seq(Bytes)) /\ Len(Recent) = LiveCount(buffer)
         /\ LiveCount(buffer) \in 0 .. Slots
         /\ \A k \in 1 .. LiveCount(buffer) :
              /\ SlotAt(buffer, k - 1) \in SlotIndex /\ Slot(SlotAt(buffer, k - 1)) # NULL
              /\ Recent[k] = heap[Slot(SlotAt(buffer, k - 1))]
              /\ Len(Recent[k]) = SizeAt(buffer, k)
<1>0. MemTypes /\ MemSafe /\ WellFormed(buffer, Stored)
  BY DEF MemInv, MemTypes
<1>1. LiveCount(buffer) \in 0 .. Slots
  BY <1>0, LiveCountValue
<1>2. ASSUME NEW k \in 1 .. LiveCount(buffer)
      PROVE  /\ SlotAt(buffer, k - 1) \in SlotIndex /\ Slot(SlotAt(buffer, k - 1)) # NULL
             /\ heap[Contents(buffer)[k].buffptr] = heap[Slot(SlotAt(buffer, k - 1))]
             /\ heap[Slot(SlotAt(buffer, k - 1))] \in Seq(Bytes)
             /\ Len(heap[Slot(SlotAt(buffer, k - 1))]) = SizeAt(buffer, k)
  <2>1. k - 1 \in SlotIndex
    BY <1>1, SlotsAssumption DEF SlotIndex
  <2>2. SlotAt(buffer, k - 1) \in SlotIndex
    BY <1>0, <2>1, SlotAtValue
  <2>3. Contents(buffer)[k] = buffer.entry[SlotAt(buffer, k - 1)] /\ Contents(buffer)[k] \in Stored
    <3>1. Contents(buffer) \in Seq(Stored) /\ Len(Contents(buffer)) = LiveCount(buffer)
      BY <1>0, ContentsShape
    <3>2. Contents(buffer)[k] \in Stored
      BY <3>1
    <3>3. Contents(buffer)[k] = buffer.entry[SlotAt(buffer, k - 1)]
      BY <1>0, ContentsShape
    <3> QED  BY <3>2, <3>3
  <2>4. Slot(SlotAt(buffer, k - 1)) \in Ptrs /\ Slot(SlotAt(buffer, k - 1)) # NULL
    BY <1>0, <2>3, MemFacts DEF Slot, Stored
  <2>5. /\ heap[Slot(SlotAt(buffer, k - 1))] # NULL
        /\ Len(heap[Slot(SlotAt(buffer, k - 1))]) = SizeAt(buffer, k)
    BY <1>0, <2>2, <2>4 DEF MemSafe, SlotsOwn, SizeAt
  <2>6. heap[Slot(SlotAt(buffer, k - 1))] \in Seq(Bytes)
    BY <1>0, <2>4, <2>5, MemFacts
  <2> QED  BY <2>2, <2>3, <2>4, <2>5, <2>6 DEF Slot
<1>3. Recent \in [1 .. LiveCount(buffer) -> Seq(Bytes)]
  BY <1>2 DEF Recent
<1>4. \A k \in 1 .. LiveCount(buffer) : Recent[k] = heap[Contents(buffer)[k].buffptr]
  BY DEF Recent
<1>5. LiveCount(buffer) \in Nat
  BY <1>1
<1>6. Recent \in Seq(Seq(Bytes)) /\ Len(Recent) = LiveCount(buffer)
  BY <1>3, <1>5
<1> QED  BY <1>1, <1>2, <1>4, <1>6

(* They stay what they are when the ring and the blocks of its slots do.   *)
LEMMA RecentStays ==
  ASSUME MemInv, undefined = "no", UNCHANGED buffer,
         \A i \in SlotIndex : Slot(i) # NULL => heap'[Slot(i)] = heap[Slot(i)]
  PROVE  UNCHANGED Recent
<1>1. \A k \in 1 .. LiveCount(buffer) :
        heap[Contents(buffer)[k].buffptr] = heap'[Contents(buffer)[k].buffptr]
  <2> TAKE k \in 1 .. LiveCount(buffer)
  <2>1. SlotAt(buffer, k - 1) \in SlotIndex /\ Slot(SlotAt(buffer, k - 1)) # NULL
    BY RecentShape
  <2>2. Contents(buffer)[k] = buffer.entry[SlotAt(buffer, k - 1)]
    BY ContentsShape DEF MemInv, MemTypes
  <2> QED  BY <2>1, <2>2 DEF Slot
<1>2. Recent' = [k \in 1 .. LiveCount(buffer) |-> heap'[Contents(buffer)[k].buffptr]]
  BY Zenon DEF Recent
<1> QED  BY <1>1, <1>2 DEF Recent

(* An empty ring.                                                          *)
LEMMA RecentEmpty == buffer = EmptyBuffer => Recent = << >>
<1> SUFFICES ASSUME buffer = EmptyBuffer PROVE Recent = << >>
  OBVIOUS
<1>1. LiveCount(buffer) = 0
  BY EmptyRing, EmptyWellFormed
<1>2. Recent = [k \in 1 .. 0 |-> heap[Contents(buffer)[k].buffptr]]
  BY <1>1 DEF Recent
<1> QED  BY <1>2

(* All bytes of the kept commands, one behind the other: byte j of the     *)
(* k-th command is where the search expects it.                            *)
LEMMA AllBytes ==
  ASSUME MemInv, undefined = "no"
  PROVE  /\ FlattenSeq(Recent) \in Seq(Bytes)
         /\ Len(FlattenSeq(Recent)) = SearchOffset(buffer)[LiveCount(buffer)]
         /\ \A k \in 1 .. LiveCount(buffer) : \A j \in 1 .. SizeAt(buffer, k) :
              FlattenSeq(Recent)[SearchOffset(buffer)[k - 1] + j]
                = heap[Slot(SlotAt(buffer, k - 1))][j]
<1> DEFINE n  == LiveCount(buffer)
           so == [k \in 0 .. n |-> SearchOffset(buffer)[k]]
<1>1. /\ Recent \in Seq(Seq(Bytes)) /\ Len(Recent) = n /\ n \in 0 .. Slots
      /\ \A k \in 1 .. n : /\ Recent[k] = heap[Slot(SlotAt(buffer, k - 1))]
                           /\ Len(Recent[k]) = SizeAt(buffer, k)
  BY RecentShape
<1>2. /\ SearchOffset(buffer) \in [0 .. Slots -> Nat] /\ SearchOffset(buffer)[0] = 0
      /\ \A k \in 1 .. Slots :
           SearchOffset(buffer)[k] = SearchOffset(buffer)[k - 1] + SizeAt(buffer, k)
  BY SearchOffsetStep DEF MemInv, MemTypes
<1> HIDE DEF n
<1>3. /\ \A k \in 0 .. n : k \in 0 .. Slots
      /\ \A k \in 1 .. n : k \in 1 .. Slots /\ k \in 0 .. n /\ k - 1 \in 0 .. n
      /\ 0 \in 0 .. n /\ n \in 0 .. n
  BY <1>1, SlotsAssumption
<1>4. /\ so \in [0 .. n -> Nat] /\ \A k \in 0 .. n : so[k] = SearchOffset(buffer)[k]
  BY <1>2, <1>3
<1> HIDE DEF so
<1>5. so[0] = 0 /\ \A k \in 1 .. n : so[k] = so[k - 1] + Len(Recent[k])
  BY <1>1, <1>2, <1>3, <1>4
<1>6. PICK s \in Seq(Seq(Bytes)) : s = Recent
  BY <1>1
<1>7. /\ Len(s) = n /\ so \in [0 .. Len(s) -> Nat] /\ so[0] = 0
      /\ \A k \in 1 .. Len(s) : so[k] = so[k - 1] + Len(s[k])
  BY <1>1, <1>4, <1>5, <1>6
<1>8. /\ FlattenSeq(s) \in Seq(Bytes) /\ Len(FlattenSeq(s)) = so[Len(s)]
      /\ \A k \in 1 .. Len(s) : \A j \in 1 .. Len(s[k]) : FlattenSeq(s)[so[k - 1] + j] = s[k][j]
  <2>1. PICK sn \in [0 .. Len(s) -> Nat] : sn = so
    BY <1>7
  <2>2. sn[0] = 0 /\ \A k \in 1 .. Len(s) : sn[k] = sn[k - 1] + Len(s[k])
    BY <1>7, <2>1
  <2>3. /\ FlattenSeq(s) \in Seq(Bytes) /\ Len(FlattenSeq(s)) = sn[Len(s)]
        /\ \A k \in 1 .. Len(s) : \A j \in 1 .. Len(s[k]) : FlattenSeq(s)[sn[k - 1] + j] = s[k][j]
    BY <2>2, FlattenShape
  <2> QED  BY <2>1, <2>3
<1>9. /\ FlattenSeq(Recent) \in Seq(Bytes) /\ Len(FlattenSeq(Recent)) = SearchOffset(buffer)[n]
  BY <1>3, <1>4, <1>6, <1>7, <1>8
<1>10. ASSUME NEW k \in 1 .. n, NEW j \in 1 .. SizeAt(buffer, k)
       PROVE  FlattenSeq(Recent)[SearchOffset(buffer)[k - 1] + j] = heap[Slot(SlotAt(buffer, k - 1))][j]
  <2>1. j \in 1 .. Len(s[k]) /\ s[k] = heap[Slot(SlotAt(buffer, k - 1))]
    BY <1>1, <1>6
  <2>2. so[k - 1] = SearchOffset(buffer)[k - 1]
    BY <1>3, <1>4
  <2>3. FlattenSeq(s)[so[k - 1] + j] = s[k][j]
    BY <1>7, <1>8, <2>1
  <2> QED  BY <1>6, <2>1, <2>2, <2>3
<1> QED  BY <1>9, <1>10 DEF n

(* What is in front of the same bytes is the same.                         *)
LEMMA SameFront ==
  ASSUME NEW B, NEW s \in Seq(B), NEW t \in Seq(B), NEW c \in Seq(B), s \o c = t \o c
  PROVE  s = t
<1>1. /\ Len(s \o c) = Len(s) + Len(c) /\ Len(t \o c) = Len(t) + Len(c)
      /\ Len(s) \in Nat /\ Len(t) \in Nat /\ Len(c) \in Nat
  BY Joined
<1>2. Len(s) = Len(t)
  BY <1>1
<1>3. SubSeq(s \o c, 1, Len(s)) = s /\ SubSeq(t \o c, 1, Len(t)) = t
  BY FrontOf
<1> QED  BY <1>2, <1>3

(* All that the refinement needs to know of a state.                       *)
DeviceInv == DriverInv /\ TailOk

(* No write is under way when nothing is loaded.                           *)
LEMMA DeviceInit == Init => DeviceInv
<1> SUFFICES ASSUME Init PROVE DeviceInv
  OBVIOUS
<1>1. TailOk
  BY DEF Init, TailOk
<1> QED  BY <1>1, DriverInit DEF DeviceInv

(* Every step of the driver keeps it.                                      *)
LEMMA DeviceNext == DeviceInv /\ [Next]_vars => DeviceInv'
  BY DriverNext, TailNext DEF DeviceInv

(* The parts that the steps below use.                                     *)
LEMMA DeviceFacts ==
  ASSUME DeviceInv
  PROVE  /\ LocksInv /\ MemInv /\ MemTypes /\ CallInv /\ PosInv /\ PartialIs
         /\ undefined = "no" => MemSafe
         /\ \A p \in Procs : call[p].data \in Seq(Bytes)
         /\ pc \in [Procs -> Locations] /\ call \in [Procs -> Calls]
<1>1. LocksInv /\ MemInv /\ MemTypes /\ CallInv /\ PosInv /\ (undefined = "no" => MemSafe)
  BY DEF DeviceInv, DriverInv, MemInv
<1>2. PartialIs
  BY PartialShape DEF DeviceInv
<1>3. pc \in [Procs -> Locations] /\ call \in [Procs -> Calls]
  BY <1>1 DEF LocksInv, MemTypes
<1>4. \A p \in Procs : call[p].data \in Seq(Bytes)
  BY <1>3, CallBytes
<1> QED  BY <1>1, <1>2, <1>3, <1>4

Filling == {"w_copy", "w_buf", "w_push"}

(* A step that leaves dev->entry, the memory and the writes that work on   *)
(* them alone does not change the unfinished command.                      *)
LEMMA PartialStays ==
  ASSUME PartialIs, PartialIs', undefined = "no", UNCHANGED <<entry, heap, undefined>>,
         \A p \in Procs : call[p].data \in Seq(Bytes),
         \A p \in Procs : \/ pc'[p] = pc[p]
                          \/ pc[p] \notin Filling /\ pc'[p] \notin Filling
                          \/ pc[p] = "w_buf" /\ pc'[p] = "w_push",
         \A p \in Procs : pc[p] \in Filling => kbuf'[p] = kbuf[p],
         \A p \in Procs : pc[p] \in Filling => call'[p] = call[p]
  PROVE  UNCHANGED Partial
<1>1. CASE \A p \in Procs : pc[p] \notin Filling
  <2>1. \A p \in Procs : pc'[p] \notin Filling
    BY <1>1 DEF Filling
  <2>2. Partial = Block(entry.buffptr)
    BY <1>1 DEF PartialIs, Filling
  <2>3. Partial' = Block(entry.buffptr)'
    BY <2>1 DEF PartialIs, Filling
  <2> QED  BY <2>2, <2>3 DEF Block, Dangling
<1>2. ASSUME NEW p \in Procs, pc[p] = "w_copy" PROVE UNCHANGED Partial
  <2>1. pc'[p] = "w_copy" /\ kbuf'[p] = kbuf[p]
    BY <1>2 DEF Filling
  <2>2. Partial = SubSeq(Block(kbuf[p]), 1, entry.size)
    BY <1>2 DEF PartialIs
  <2>3. Partial' = SubSeq(Block(kbuf[p])', 1, entry.size')
    BY <2>1 DEF PartialIs
  <2>4. Block(kbuf[p])' = Block(kbuf[p])
    BY <2>1 DEF Block, Dangling
  <2> QED  BY <2>2, <2>3, <2>4
<1>3. ASSUME NEW p \in Procs, pc[p] \in {"w_buf", "w_push"} PROVE UNCHANGED Partial
  <2>1. pc'[p] \in {"w_buf", "w_push"} /\ call'[p] = call[p]
    BY <1>3 DEF Filling
  <2>2. Partial \in Seq(Bytes) /\ Block(entry.buffptr) = Partial \o call[p].data
    BY <1>3 DEF PartialIs
  <2>3. Partial' \in Seq(Bytes) /\ Block(entry.buffptr)' = Partial' \o call'[p].data
    BY <2>1 DEF PartialIs
  <2>4. Block(entry.buffptr)' = Block(entry.buffptr)
    BY DEF Block, Dangling
  <2>5. PICK c \in Seq(Bytes) : c = call[p].data
    OBVIOUS
  <2>6. Partial \o c = Partial' \o c
    BY <2>1, <2>2, <2>3, <2>4, <2>5
  <2> QED  BY <2>2, <2>3, <2>6, SameFront
<1> QED  BY <1>1, <1>2, <1>3 DEF Filling

(* The blocks of a sequence of entries.                                    *)
BlocksOf(c, h) == [k \in 1 .. Len(c) |-> h[c[k].buffptr]]

(* One more entry behind it is one more block, and without the first entry *)
(* they are without the first block.                                       *)
LEMMA BlocksAppend ==
  ASSUME NEW E, NEW c \in Seq(E), NEW e \in E, NEW h
  PROVE  /\ BlocksOf(Append(c, e), h) = Append(BlocksOf(c, h), h[e.buffptr])
         /\ c # << >> => BlocksOf(Tail(c), h) = Tail(BlocksOf(c, h))
<1> DEFINE B == {h[x.buffptr] : x \in E}
           b == BlocksOf(c, h)
<1>0. Len(c) \in Nat /\ \A k \in 1 .. Len(c) : c[k] \in E
  OBVIOUS
<1>1. b \in Seq(B) /\ Len(b) = Len(c) /\ \A k \in 1 .. Len(c) : b[k] = h[c[k].buffptr]
  <2>1. b = [k \in 1 .. Len(c) |-> h[c[k].buffptr]]
    BY DEF BlocksOf
  <2>2. \A k \in 1 .. Len(c) : h[c[k].buffptr] \in B
    BY <1>0
  <2> HIDE DEF b, B
  <2>3. b \in [1 .. Len(c) -> B]
    BY <2>1, <2>2
  <2> QED  BY <1>0, <2>1, <2>3
<1>2. h[e.buffptr] \in B
  OBVIOUS
<1> HIDE DEF b, B
<1>3. BlocksOf(Append(c, e), h) = Append(b, h[e.buffptr])
  <2>1. /\ Len(Append(c, e)) = Len(c) + 1 /\ Append(c, e)[Len(c) + 1] = e
        /\ \A k \in 1 .. Len(c) : Append(c, e)[k] = c[k]
    BY <1>0
  <2>2. Append(b, h[e.buffptr]) = [k \in 1 .. Len(c) + 1 |-> IF k = Len(c) + 1 THEN h[e.buffptr] ELSE b[k]]
    BY <1>0, <1>1, <1>2
  <2>3. BlocksOf(Append(c, e), h) = [k \in 1 .. Len(c) + 1 |-> h[Append(c, e)[k].buffptr]]
    BY <2>1 DEF BlocksOf
  <2>4. \A k \in 1 .. Len(c) + 1 :
          h[Append(c, e)[k].buffptr] = IF k = Len(c) + 1 THEN h[e.buffptr] ELSE b[k]
    <3> TAKE k \in 1 .. Len(c) + 1
    <3>1. k = Len(c) + 1 \/ k \in 1 .. Len(c)
      BY <1>0
    <3> QED  BY <1>1, <2>1, <3>1
  <2> QED  BY <2>2, <2>3, <2>4, Zenon
<1>4. ASSUME c # << >> PROVE BlocksOf(Tail(c), h) = Tail(b)
  <2>1. /\ Len(Tail(c)) = Len(c) - 1 /\ Len(c) >= 1
        /\ \A k \in 1 .. Len(c) - 1 : Tail(c)[k] = c[k + 1]
    BY <1>0, <1>4
  <2>2. Tail(b) = [k \in 1 .. Len(c) - 1 |-> b[k + 1]]
    <3>1. b # << >>
      BY <1>1, <2>1
    <3>2. /\ Tail(b) \in Seq(B) /\ Len(Tail(b)) = Len(c) - 1
          /\ \A k \in 1 .. Len(c) - 1 : Tail(b)[k] = b[k + 1]
      BY <1>0, <1>1, <2>1, <3>1
    <3>3. PICK u \in Seq(B) : u = Tail(b)
      BY <3>2
    <3>4. u = [k \in 1 .. Len(u) |-> u[k]]
      OBVIOUS
    <3> QED  BY <3>2, <3>3, <3>4, Zenon
  <2>3. BlocksOf(Tail(c), h) = [k \in 1 .. Len(c) - 1 |-> h[Tail(c)[k].buffptr]]
    BY <2>1 DEF BlocksOf
  <2>4. \A k \in 1 .. Len(c) - 1 : h[Tail(c)[k].buffptr] = b[k + 1]
    BY <1>0, <1>1, <2>1
  <2> QED  BY <2>2, <2>3, <2>4, Zenon
<1> QED  BY <1>3, <1>4 DEF b

(* A complete command becomes the newest one, and pushes out the oldest    *)
(* one when the ring is full.                                              *)
LEMMA RecentPush ==
  ASSUME MemInv, MemInv', undefined = "no", undefined' = "no", entry \in Stored,
         heap[entry.buffptr] \in Seq(Bytes), buffer' = AddEntry(buffer, entry),
         \A q \in Ptrs : heap'[q] = NULL \/ heap'[q] = heap[q]
  PROVE  Recent' = Device!Newest(Append(Recent, heap[entry.buffptr]))
<1> DEFINE C == Contents(buffer)
           D == Contents(buffer')
           b == BlocksOf(C, heap)
           t == heap[entry.buffptr]
<1>0. /\ WellFormed(buffer, Stored) /\ WellFormed(buffer', Stored) /\ MemSafe /\ MemSafe' /\ MemTypes'
  BY DEF MemInv, MemTypes
<1>1. /\ C \in Seq(Stored) /\ Len(C) = LiveCount(buffer)
      /\ D \in Seq(Stored) /\ Len(D) = LiveCount(buffer')
      /\ \A k \in 1 .. LiveCount(buffer') : D[k] = buffer'.entry[SlotAt(buffer', k - 1)]
  BY <1>0, ContentsShape
<1>2. ASSUME NEW k \in 1 .. LiveCount(buffer') PROVE heap'[D[k].buffptr] = heap[D[k].buffptr]
  <2>1. SlotAt(buffer', k - 1) \in SlotIndex
    <3>1. k - 1 \in SlotIndex
      BY <1>0, LiveCountValue, SlotsAssumption DEF SlotIndex
    <3> QED  BY <1>0, <3>1, SlotAtValue
  <2>2. D[k] \in Stored
    BY <1>1
  <2>3. D[k].buffptr \in Ptrs /\ D[k].buffptr # NULL
    BY <2>2, DriverAssumption DEF Stored
  <2>4. D[k].buffptr = Slot(SlotAt(buffer, k - 1))'
    BY <1>1 DEF Slot
  <2>5. heap'[D[k].buffptr] # NULL
    BY <1>0, <1>1, <2>1, <2>3 DEF MemSafe, SlotsOwn, Slot
  <2> QED  BY <2>3, <2>5
<1>3. Recent' = BlocksOf(D, heap)
  <2>1. Recent' = [k \in 1 .. LiveCount(buffer') |-> heap'[D[k].buffptr]]
    BY Zenon DEF Recent
  <2>2. BlocksOf(D, heap) = [k \in 1 .. LiveCount(buffer') |-> heap[D[k].buffptr]]
    BY <1>1 DEF BlocksOf
  <2> QED  BY <1>2, <2>1, <2>2, Zenon
<1>4. Recent = b
  BY <1>1 DEF Recent, BlocksOf
<1>5. Len(b) = Len(C) /\ Len(C) \in Nat /\ Len(Append(b, t)) = Len(C) + 1
  <2>1. LiveCount(buffer) \in 0 .. Slots /\ Recent \in Seq(Seq(Bytes)) /\ Len(Recent) = LiveCount(buffer)
    BY RecentShape
  <2>2. t \in {t} \cup Seq(Bytes) /\ Recent \in Seq({t} \cup Seq(Bytes))
    BY <2>1
  <2>3. Len(Append(Recent, t)) = Len(Recent) + 1
    BY <2>1
  <2> QED  BY <1>1, <1>4, <2>1, <2>3, SlotsAssumption
<1> HIDE DEF t, b
<1>6. CASE ~buffer.full
  <2>1. D = Append(C, entry) /\ Len(C) < Slots
    BY <1>0, <1>6, AddContents
  <2>2. BlocksOf(D, heap) = Append(b, t)
    BY <1>1, <2>1, BlocksAppend DEF b, t
  <2>3. ~(Len(Append(b, t)) > Slots)
    BY <1>5, <2>1, SlotsAssumption
  <2>4. Device!Newest(Append(b, t)) = Append(b, t)
    BY <2>3 DEF Device!Newest
  <2> QED  BY <1>3, <1>4, <2>2, <2>4 DEF t
<1>7. CASE buffer.full
  <2>1. D = Append(Tail(C), entry) /\ Len(C) = Slots
    BY <1>0, <1>7, AddContents
  <2>2. C # << >> /\ Tail(C) \in Seq(Stored)
    BY <1>1, <2>1, SlotsAssumption
  <2>3. BlocksOf(D, heap) = Append(BlocksOf(Tail(C), heap), t)
    <3>1. PICK c \in Seq(Stored) : c = Tail(C)
      BY <2>2
    <3>2. BlocksOf(Append(c, entry), heap) = Append(BlocksOf(c, heap), t)
      BY BlocksAppend DEF t
    <3> QED  BY <2>1, <3>1, <3>2
  <2>4. BlocksOf(Tail(C), heap) = Tail(b)
    BY <1>1, <2>2, BlocksAppend DEF b
  <2>5. Len(Append(b, t)) > Slots
    BY <1>5, <2>1, SlotsAssumption
  <2>6. Tail(Append(b, t)) = Append(Tail(b), t)
    <3>1. b \in Seq(Seq(Bytes)) /\ Len(b) >= 1
      <4>1. Recent \in Seq(Seq(Bytes))
        BY RecentShape
      <4> QED  BY <1>4, <1>5, <2>1, <4>1, SlotsAssumption
    <3>2. t \in Seq(Bytes)
      BY DEF t
    <3> QED  BY <3>1, <3>2
  <2>7. Device!Newest(Append(b, t)) = Tail(Append(b, t))
    BY <2>5 DEF Device!Newest
  <2> QED  BY <1>3, <1>4, <2>3, <2>4, <2>6, <2>7 DEF t
<1> QED  BY <1>6, <1>7

(* The empty string, and the part of a string before its first byte.       *)
LEMMA NoBytes ==
  ASSUME NEW B
  PROVE  /\ << >> \in Seq(B) /\ Len(<< >>) = 0
         /\ \A s \in Seq(B) : Len(s) = 0 => s = << >>
         /\ \A s \in Seq(B) : \A n \in Nat : SubSeq(s, n + 1, n) = << >> /\ SubSeq(s, n + 1, n + 0) = << >>
<1>1. ASSUME NEW s \in Seq(B), NEW n \in Nat
      PROVE  SubSeq(s, n + 1, n) = << >> /\ SubSeq(s, n + 1, n + 0) = << >>
  <2>1. n + 1 .. n = {} /\ n + 0 = n
    OBVIOUS
  <2>2. SubSeq(s, n + 1, n) \in Seq(B) /\ Len(SubSeq(s, n + 1, n)) = 0
    BY <2>1
  <2> QED  BY <2>1, <2>2
<1> QED  BY <1>1

(* What dev->entry points to when the pointer does not dangle.             *)
LEMMA EntryBytes ==
  ASSUME MemTypes, MemSafe
  PROVE  /\ Block(entry.buffptr) \in Seq(Bytes) /\ entry.size \in Nat
         /\ ~Dangling(entry.buffptr) => Len(Block(entry.buffptr)) = entry.size
         /\ Dangling(entry.buffptr) => Block(entry.buffptr) = << >>
<1>1. entry.size \in Nat /\ << >> \in Seq(Bytes) /\ Len(<< >>) = 0
  BY MemFacts
<1>2. entry.buffptr \in Ptrs /\ heap[entry.buffptr] # NULL =>
        heap[entry.buffptr] \in Seq(Bytes) /\ Len(heap[entry.buffptr]) = entry.size
  BY MemFacts DEF MemSafe, EntryOk
<1>3. entry.buffptr \notin Ptrs => entry.size = 0
  BY DEF MemSafe, EntryOk
<1> QED  BY <1>1, <1>2, <1>3 DEF Block, Dangling

(* kzalloc and memcpy: the larger block starts with the unfinished command.*)
LEMMA PartialAlloc ==
  ASSUME DeviceInv, DeviceInv', NEW p \in Procs, write_alloc(p)
  PROVE  UNCHANGED Partial
<1> DEFINE old == Block(entry.buffptr)
           c   == call[p].data
<1>0. /\ LocksInv /\ MemTypes /\ MemSafe /\ PartialIs /\ undefined = "no" /\ pc[p] = "w_alloc"
      /\ pc \in [Procs -> Locations] /\ c \in Seq(Bytes) /\ Len(c) \in Nat
  <2>1. undefined = "no" /\ pc[p] = "w_alloc"
    BY DEF write_alloc, At
  <2> QED  BY <2>1, DeviceFacts
<1>1. PartialIs'
  BY PartialShape, PTL DEF DeviceInv
<1>2. \A r \in Procs \ {p} : pc[r] \notin {"w_copy", "w_buf", "w_push"}
  BY <1>0, OneWriter DEF EntryLocked
<1>3. Partial = old
  BY <1>0, <1>2 DEF PartialIs
<1>4. UNCHANGED <<entry, call>>
  BY DEF write_alloc
<1>5. /\ old \in Seq(Bytes) /\ entry.size \in Nat
      /\ ~Dangling(entry.buffptr) => Len(old) = entry.size
      /\ Dangling(entry.buffptr) => old = << >>
  BY <1>0, EntryBytes
<1> HIDE DEF old, c
<1>6. CASE Goto(p, "w_out")
  <2>1. ~Goto(p, "w_copy")
    BY <1>0, <1>6 DEF Goto
  <2>2. UNCHANGED <<undefined, heap, kbuf>>
    BY <2>1, Zenon DEF write_alloc
  <2>3. \A r \in Procs : pc'[r] \notin {"w_copy", "w_buf", "w_push"}
    BY <1>0, <1>2, <1>6 DEF Goto
  <2>4. Partial' = Block(entry.buffptr)'
    BY <1>0, <1>1, <2>2, <2>3 DEF PartialIs
  <2>5. Block(entry.buffptr)' = Block(entry.buffptr)
    BY <1>4, <2>2 DEF Block, Dangling
  <2> QED  BY <1>3, <2>4, <2>5 DEF old
<1>7. CASE Goto(p, "w_copy")
  <2>1. ~Goto(p, "w_out")
    BY <1>0, <1>7 DEF Goto
  <2>2. /\ undefined' = IF Dangling(entry.buffptr) THEN "entry" ELSE "no"
        /\ \E q \in Fresh(entry.size + Len(c)) :
             /\ kbuf' = [kbuf EXCEPT ![p] = q]
             /\ heap' = [r \in Ptrs |->
                           IF r = q THEN old \o Zeros(Len(c))
                           ELSE IF r = entry.buffptr THEN NULL
                           ELSE heap[r]]
    BY <2>1, Zenon DEF write_alloc, old, c
  <2>3. PICK q \in Fresh(entry.size + Len(c)) :
          /\ kbuf' = [kbuf EXCEPT ![p] = q]
          /\ q \in Ptrs => heap'[q] = old \o Zeros(Len(c))
    BY <2>2
  <2>4. CASE Dangling(entry.buffptr)
    <3>1. Partial' = << >>
      BY <2>2, <2>4 DEF Partial
    <3> QED  BY <1>3, <1>5, <2>4, <3>1
  <2>5. CASE ~Dangling(entry.buffptr)
    <3>1. undefined' = "no" /\ Len(old) = entry.size
      BY <1>5, <2>2, <2>5
    <3>2. pc'[p] = "w_copy" /\ kbuf'[p] = q
      BY <1>0, <1>7, <2>3 DEF Goto, MemTypes
    <3>3. Partial' = SubSeq(Block(kbuf[p])', 1, entry.size)
      BY <1>1, <1>4, <3>1, <3>2 DEF PartialIs
    <3>4. CASE q \in Ptrs
      <4>1. Zeros(Len(c)) \in Seq(Bytes)
        <5>1. 0 \in Bytes
          BY DEF Bytes
        <5> QED  BY <1>0, <5>1 DEF Zeros
      <4>2. PICK z \in Seq(Bytes) : z = Zeros(Len(c))
        BY <4>1
      <4>3. heap'[q] = old \o z /\ old \o z \in Seq(Bytes) /\ SubSeq(old \o z, 1, Len(old)) = old
        BY <1>5, <2>3, <3>4, <4>2, Joined, FrontOf
      <4>4. Block(kbuf[p])' = old \o z
        BY <3>2, <3>4, <4>3, DriverAssumption DEF Block, Dangling
      <4> QED  BY <1>3, <3>1, <3>3, <4>3, <4>4
    <3>5. CASE q \notin Ptrs
      <4>1. entry.size + Len(c) = 0
        BY <2>3, <3>5 DEF Fresh
      <4>2. entry.size = 0 /\ Len(old) = 0
        BY <1>0, <1>5, <3>1, <4>1
      <4>3. Block(kbuf[p])' = << >>
        BY <3>2, <3>5 DEF Block
      <4>4. old = << >> /\ SubSeq(<< >>, 1, 0) = << >>
        BY <1>5, <4>2
      <4> QED  BY <1>3, <3>3, <4>2, <4>3, <4>4
    <3> QED  BY <3>4, <3>5
  <2> QED  BY <2>4, <2>5
<1> QED  BY <1>6, <1>7 DEF write_alloc

(* copy_from_user: what it puts behind the unfinished command does not     *)
(* count yet, and a fault loses the command.                               *)
LEMMA PartialCopy ==
  ASSUME DeviceInv, DeviceInv', NEW p \in Procs, write_copy(p)
  PROVE  IF pc'[p] = "w_buf" THEN UNCHANGED Partial ELSE Partial' = << >>
<1>0. /\ LocksInv /\ MemInv /\ MemTypes /\ MemSafe /\ PartialIs /\ undefined = "no" /\ pc[p] = "w_copy"
      /\ pc \in [Procs -> Locations] /\ call[p].data \in Seq(Bytes)
  <2>1. undefined = "no" /\ pc[p] = "w_copy"
    BY DEF write_copy, At
  <2> QED  BY <2>1, DeviceFacts
<1>1. PartialIs'
  BY PartialShape, PTL DEF DeviceInv
<1>2. UNCHANGED <<call, undefined>>
  BY DEF write_copy
<1>3. CASE pc'[p] = "w_buf"
  <2>1. /\ SubSeq(Block(kbuf[p]), 1, entry.size) \in Seq(Bytes)
        /\ Block(entry.buffptr)' = SubSeq(Block(kbuf[p]), 1, entry.size) \o call[p].data
    BY <1>0, <1>3, CopyBehind
  <2>2. Partial = SubSeq(Block(kbuf[p]), 1, entry.size)
    BY <1>0 DEF PartialIs
  <2>3. Partial' \in Seq(Bytes) /\ Block(entry.buffptr)' = Partial' \o call'[p].data
    BY <1>0, <1>1, <1>2, <1>3 DEF PartialIs
  <2>4. PICK c \in Seq(Bytes) : c = call[p].data
    BY <1>0
  <2>5. Partial \in Seq(Bytes) /\ Partial \o c = Partial' \o c
    BY <1>2, <2>1, <2>2, <2>3, <2>4
  <2>6. Partial' = Partial
    BY <2>3, <2>5, SameFront
  <2> QED  BY <1>3, <2>6
<1>4. CASE pc'[p] # "w_buf"
  <2>1. ~Goto(p, "w_buf")
    BY <1>0, <1>4 DEF Goto
  <2>2. heap' = [heap EXCEPT ![kbuf[p]] = NULL] /\ Goto(p, "w_out") /\ UNCHANGED entry
    BY <2>1, Zenon DEF write_copy
  <2>3. \A r \in Procs : pc'[r] \notin {"w_copy", "w_buf", "w_push"}
    BY <1>0, <2>2, OneWriter DEF EntryLocked, Goto
  <2>4. Partial' = Block(entry.buffptr)'
    BY <1>0, <1>1, <1>2, <2>3 DEF PartialIs
  <2>5. entry.buffptr \in Ptrs => heap[entry.buffptr] = NULL /\ heap'[entry.buffptr] = NULL
    BY <1>0, <2>2 DEF MemSafe, KbufOk, MemTypes
  <2>6. Block(entry.buffptr)' = << >>
    BY <2>2, <2>5 DEF Block, Dangling
  <2> QED  BY <1>4, <2>4, <2>6
<1> QED  BY <1>3, <1>4

(* A step that leaves the ring, dev->entry and the memory alone leaves the *)
(* device alone.                                                           *)
LEMMA DeviceStays ==
  ASSUME DeviceInv, DeviceInv', undefined = "no", UNCHANGED <<buffer, entry, heap, undefined, kbuf>>,
         NEW p \in Procs, NEW loc, pc' = [pc EXCEPT ![p] = loc],
         \/ pc[p] \notin Filling /\ loc \notin Filling
         \/ pc[p] = "w_buf" /\ loc = "w_push" /\ call'[p] = call[p],
         \A r \in Procs \ {p} : call'[r] = call[r]
  PROVE  UNCHANGED <<Recent, Partial>>
<1>1. MemInv /\ PartialIs /\ pc \in [Procs -> Locations] /\ \A r \in Procs : call[r].data \in Seq(Bytes)
  BY DeviceFacts
<1>2. PartialIs'
  BY PartialShape, PTL DEF DeviceInv
<1>3. \A r \in Procs : \/ pc'[r] = pc[r]
                       \/ pc[r] \notin Filling /\ pc'[r] \notin Filling
                       \/ pc[r] = "w_buf" /\ pc'[r] = "w_push"
  BY <1>1
<1>4. \A r \in Procs : pc[r] \in Filling => call'[r] = call[r]
  BY <1>1
<1>5. \A r \in Procs : pc[r] \in Filling => kbuf'[r] = kbuf[r]
  OBVIOUS
<1>6. UNCHANGED Partial
  BY <1>1, <1>2, <1>3, <1>4, <1>5, PartialStays
<1>7. UNCHANGED Recent
  BY <1>1, RecentStays
<1> QED  BY <1>6, <1>7

DeviceStep == Device!Next \/ UNCHANGED Device!vars

(* Taking and releasing a lock, opening the file, and finding an entry     *)
(* before it is copied out: nothing the users see.                         *)
LEMMA StepQuiet ==
  ASSUME DeviceInv, DeviceInv', NEW p \in Procs,
         aesd_open(p) \/ read_lock(p) \/ write_lock(p) \/ write_buf_lock(p) \/ write_out(p)
  PROVE  DeviceStep
<1>1. /\ undefined = "no" /\ UNCHANGED <<buffer, entry, heap, undefined, kbuf, call, ret, f_pos, got>>
      /\ \E loc \in {"user", "r_find", "w_alloc", "w_push"} :
           /\ pc' = [pc EXCEPT ![p] = loc]
           /\ \/ pc[p] \notin Filling /\ loc \notin Filling
              \/ pc[p] = "w_buf" /\ loc = "w_push"
  BY DEF aesd_open, read_lock, write_lock, write_buf_lock, write_out, At, Goto, devVars, Filling
<1>2. UNCHANGED <<Recent, Partial>>
  BY <1>1, DeviceStays
<1> QED  BY <1>1, <1>2 DEF DeviceStep, Device!vars

(* Closing the file.                                                       *)
LEMMA StepClose ==
  ASSUME DeviceInv, DeviceInv', NEW p \in Procs, aesd_release(p)
  PROVE  DeviceStep
<1>0. CallInv /\ call \in [Procs -> Calls] /\ ret \in [Procs -> Results]
  BY DeviceFacts DEF CallInv
<1>1. /\ undefined = "no" /\ UNCHANGED <<buffer, entry, heap, undefined, kbuf>>
      /\ pc[p] = "user" /\ pc' = [pc EXCEPT ![p] = "closed"]
      /\ \A r \in Procs \ {p} : call'[r] = call[r]
  BY <1>0 DEF aesd_release, At, Goto, devVars
<1>2. UNCHANGED <<Recent, Partial>>
  BY <1>1, DeviceStays DEF Filling
<1>3. ret[p] # "busy"
  BY <1>0, <1>1 DEF CallInv, Inside, Reading
<1>4. Device!Close(p)
  BY <1>2, <1>3 DEF aesd_release, Device!Close, Device!device
<1> QED  BY <1>4 DEF DeviceStep, Device!Next

(* Entering aesd_read or aesd_write.                                       *)
LEMMA StepCall ==
  ASSUME DeviceInv, DeviceInv', NEW p \in Procs, NEW c \in Calls, NEW loc \in {"r_lock", "w_lock"},
         Enter(p, c, loc)
  PROVE  DeviceStep
<1>0. CallInv /\ call \in [Procs -> Calls] /\ ret \in [Procs -> Results]
  BY DeviceFacts DEF CallInv
<1>1. /\ undefined = "no" /\ UNCHANGED <<buffer, entry, heap, undefined, kbuf>>
      /\ pc[p] = "user" /\ pc' = [pc EXCEPT ![p] = loc]
      /\ \A r \in Procs \ {p} : call'[r] = call[r]
  BY <1>0 DEF Enter, At, Goto, devVars
<1>2. UNCHANGED <<Recent, Partial>>
  BY <1>1, DeviceStays DEF Filling
<1>3. ret[p] # "busy"
  BY <1>0, <1>1 DEF CallInv, Inside, Reading
<1>4. Device!Call(p)
  BY <1>2, <1>3 DEF Enter, Result, Device!Call
<1> QED  BY <1>4 DEF DeviceStep, Device!Next

(* A call that is interrupted while it waits for its first lock.           *)
LEMMA StepInterrupted ==
  ASSUME DeviceInv, DeviceInv', NEW p \in Procs, read_interrupted(p) \/ write_interrupted(p)
  PROVE  DeviceStep
<1>0. CallInv /\ MemTypes
  BY DeviceFacts
<1>1. /\ undefined = "no" /\ UNCHANGED <<buffer, entry, heap, undefined, kbuf, call, f_pos, got>>
      /\ pc[p] \in {"r_lock", "w_lock"} /\ pc' = [pc EXCEPT ![p] = "user"]
      /\ ret' = [ret EXCEPT ![p] = "ERESTARTSYS"]
  BY DEF read_interrupted, write_interrupted, At, Goto, Result, devVars
<1>2. UNCHANGED <<Recent, Partial>>
  BY <1>1, DeviceStays DEF Filling
<1>3. ret[p] = "busy" /\ (call[p].op = "read" \/ call[p].op = "write")
  BY <1>0, <1>1 DEF CallInv, Inside, Reading, MemTypes, Writing
<1>4. Device!Fail(p)
  BY <1>1, <1>2, <1>3 DEF Device!Fail, Device!Outcome
<1> QED  BY <1>4 DEF DeviceStep, Device!Next

(* kzalloc: nothing the users see, or ENOMEM.                              *)
LEMMA StepAlloc ==
  ASSUME DeviceInv, DeviceInv', NEW p \in Procs, write_alloc(p)
  PROVE  DeviceStep
<1>1. /\ MemInv /\ MemTypes /\ MemSafe /\ CallInv /\ undefined = "no" /\ pc[p] = "w_alloc"
  <2>1. undefined = "no" /\ pc[p] = "w_alloc"
    BY DEF write_alloc, At
  <2> QED  BY <2>1, DeviceFacts
<1>2. UNCHANGED Partial /\ UNCHANGED <<buffer, call, f_pos, got>>
  BY PartialAlloc DEF write_alloc
<1>3. UNCHANGED Recent
  <2>1. ASSUME NEW i \in SlotIndex, Slot(i) # NULL PROVE heap'[Slot(i)] = heap[Slot(i)]
    <3>1. Slot(i) \in Ptrs /\ heap[Slot(i)] # NULL /\ Slot(i) # entry.buffptr
      BY <1>1, <2>1, MemFacts DEF MemSafe, SlotsOwn
    <3>2. CASE UNCHANGED heap
      BY <3>2
    <3>3. CASE \E q \in Fresh(entry.size + Len(call[p].data)) :
                 heap' = [r \in Ptrs |->
                            IF r = q THEN Block(entry.buffptr) \o Zeros(Len(call[p].data))
                            ELSE IF r = entry.buffptr THEN NULL ELSE heap[r]]
      <4>1. PICK q \in Fresh(entry.size + Len(call[p].data)) :
              heap' = [r \in Ptrs |->
                         IF r = q THEN Block(entry.buffptr) \o Zeros(Len(call[p].data))
                         ELSE IF r = entry.buffptr THEN NULL ELSE heap[r]]
        BY <3>3
      <4>2. Slot(i) # q
        BY <3>1, DriverAssumption DEF Fresh
      <4> QED  BY <3>1, <4>1, <4>2
    <3> QED  BY <3>2, <3>3, Zenon DEF write_alloc
  <2> QED  BY <1>1, <1>2, <2>1, RecentStays
<1>4. CASE UNCHANGED ret
  BY <1>2, <1>3, <1>4 DEF DeviceStep, Device!vars
<1>5. CASE Result(p, "ENOMEM")
  <2>1. ret[p] = "busy" /\ call[p].op = "write"
    BY <1>1 DEF CallInv, Inside, MemTypes, Writing
  <2>2. Device!Fail(p)
    BY <1>2, <1>3, <1>5, <2>1 DEF Result, Device!Fail, Device!Outcome
  <2> QED  BY <2>2 DEF DeviceStep, Device!Next
<1> QED  BY <1>4, <1>5 DEF write_alloc

(* copy_from_user: nothing the users see, or the unfinished command is     *)
(* lost.                                                                   *)
LEMMA StepCopy ==
  ASSUME DeviceInv, DeviceInv', NEW p \in Procs, write_copy(p)
  PROVE  DeviceStep
<1>1. /\ LocksInv /\ MemInv /\ MemTypes /\ MemSafe /\ CallInv /\ undefined = "no" /\ pc[p] = "w_copy"
      /\ pc \in [Procs -> Locations]
  <2>1. undefined = "no" /\ pc[p] = "w_copy"
    BY DEF write_copy, At
  <2> QED  BY <2>1, DeviceFacts
<1>2. UNCHANGED <<buffer, call, f_pos, got>>
  BY DEF write_copy
<1>3. UNCHANGED Recent
  <2>1. \A x \in Ptrs : x # kbuf[p] => heap'[x] = heap[x]
    BY <1>1 DEF write_copy, MemTypes
  <2>2. \A i \in SlotIndex : Slot(i) # NULL => heap'[Slot(i)] = heap[Slot(i)]
    BY <1>1, <2>1, MemFacts DEF MemSafe, SlotsOwn
  <2> QED  BY <1>1, <1>2, <2>2, RecentStays
<1>4. CASE pc'[p] = "w_buf"
  <2>1. ~Goto(p, "w_out")
    BY <1>1, <1>4 DEF Goto
  <2>2. UNCHANGED ret
    BY <2>1, Zenon DEF write_copy
  <2>3. UNCHANGED Partial
    BY <1>4, PartialCopy
  <2> QED  BY <1>2, <1>3, <2>2, <2>3 DEF DeviceStep, Device!vars
<1>5. CASE pc'[p] # "w_buf"
  <2>1. ~Goto(p, "w_buf")
    BY <1>1, <1>5 DEF Goto
  <2>2. Result(p, "EFAULT")
    BY <2>1, Zenon DEF write_copy
  <2>3. Partial' = << >>
    BY <1>5, PartialCopy
  <2>4. ret[p] = "busy" /\ call[p].op = "write"
    BY <1>1 DEF CallInv, Inside, MemTypes, Writing
  <2>5. Device!Lost(p)
    BY <1>2, <1>3, <2>2, <2>3, <2>4 DEF Result, Device!Lost, Device!Outcome
  <2> QED  BY <2>5 DEF DeviceStep, Device!Next
<1> QED  BY <1>4, <1>5

(* A write that is interrupted while it waits for the ring has appended    *)
(* its bytes.                                                              *)
LEMMA StepLate ==
  ASSUME DeviceInv, DeviceInv', NEW p \in Procs, write_buf_interrupted(p)
  PROVE  DeviceStep
<1>1. /\ undefined = "no" /\ pc[p] = "w_buf" /\ pc' = [pc EXCEPT ![p] = "w_out"]
      /\ UNCHANGED <<buffer, entry, heap, undefined, call, f_pos, got>>
      /\ ret' = [ret EXCEPT ![p] = "EINTR"]
  BY DEF write_buf_interrupted, At, Goto, Result, devVars
<1>2. /\ LocksInv /\ MemInv /\ MemTypes /\ CallInv /\ PartialIs /\ pc \in [Procs -> Locations]
  BY DeviceFacts
<1>3. PartialIs'
  BY PartialShape, PTL DEF DeviceInv
<1>4. UNCHANGED Recent
  BY <1>1, <1>2, RecentStays
<1>5. \A r \in Procs : pc'[r] \notin {"w_copy", "w_buf", "w_push"}
  BY <1>1, <1>2, OneWriter DEF EntryLocked
<1>6. Partial' = Block(entry.buffptr)'
  BY <1>1, <1>3, <1>5 DEF PartialIs
<1>7. Block(entry.buffptr)' = Block(entry.buffptr)
  BY <1>1 DEF Block, Dangling
<1>8. Block(entry.buffptr) = Partial \o call[p].data
  BY <1>1, <1>2 DEF PartialIs
<1>9. ret[p] = "busy" /\ call[p].op = "write"
  BY <1>1, <1>2 DEF CallInv, Inside, MemTypes, Writing
<1>10. Device!Interrupted(p)
  BY <1>1, <1>4, <1>6, <1>7, <1>8, <1>9 DEF Device!Interrupted, Device!Outcome
<1> QED  BY <1>10 DEF DeviceStep, Device!Next

(* The decision whether the bytes complete a command.                      *)
LEMMA StepPush ==
  ASSUME DeviceInv, DeviceInv', NEW p \in Procs, write_push(p)
  PROVE  DeviceStep
<1> DEFINE text     == Block(entry.buffptr)
           complete == entry.size > 0 /\ text[entry.size] = NL
<1>1. /\ undefined = "no" /\ pc[p] = "w_push" /\ pc' = [pc EXCEPT ![p] = "w_out"]
      /\ UNCHANGED <<call, f_pos, got>> /\ ret' = [ret EXCEPT ![p] = "ok"]
  BY DEF write_push, At, Goto, Result
<1>2. /\ LocksInv /\ MemInv /\ MemTypes /\ MemSafe /\ CallInv /\ PartialIs /\ pc \in [Procs -> Locations]
  BY <1>1, DeviceFacts
<1>3. PartialIs' /\ MemInv'
  BY PartialShape, PTL DEF DeviceInv, DriverInv
<1>4. \A r \in Procs : pc'[r] \notin {"w_copy", "w_buf", "w_push"}
  BY <1>1, <1>2, OneWriter DEF EntryLocked
<1>5. undefined' = "no" => Partial' = Block(entry.buffptr)'
  BY <1>3, <1>4 DEF PartialIs
<1>6. text = Partial \o call[p].data
  BY <1>1, <1>2 DEF PartialIs
<1>7. ret[p] = "busy" /\ call[p].op = "write"
  BY <1>1, <1>2 DEF CallInv, Inside, MemTypes, Writing
<1>8. text \in Seq(Bytes) /\ entry.size \in Nat /\ Len(text) = entry.size
  <2>1. ~Dangling(entry.buffptr)
    BY <1>1, <1>2 DEF MemSafe, EntryOk, Dangling
  <2> QED  BY <1>2, <2>1, EntryBytes
<1>9. complete <=> text # << >> /\ text[Len(text)] = NL
  <2>1. text # << >> <=> entry.size > 0
    BY <1>8
  <2> QED  BY <1>8, <2>1
<1>10. CASE /\ complete
            /\ buffer' = AddEntry(buffer, entry)
            /\ heap' = [q \in Ptrs |-> IF q = Overwritten(buffer) THEN NULL ELSE heap[q]]
            /\ entry' = NoEntry
            /\ undefined' = IF Dangling(Overwritten(buffer)) THEN "ring" ELSE "no"
  <2>1. undefined' = "no"
    BY <1>3, <1>10 DEF MemInv, DefinedBehaviour
  <2>2. entry.buffptr \in Ptrs /\ entry \in Stored
    BY <1>2, <1>8, <1>10 DEF MemSafe, EntryOk, MemTypes, Entries, Stored
  <2>3. text = heap[entry.buffptr]
    <3>1. ~Dangling(entry.buffptr)
      BY <1>1, <1>2 DEF MemSafe, EntryOk, Dangling
    <3> QED  BY <2>2, <3>1 DEF Block
  <2>4. \A q \in Ptrs : heap'[q] = NULL \/ heap'[q] = heap[q]
    BY <1>10
  <2>5. Recent' = Device!Newest(Append(Recent, text))
    <3>1. heap[entry.buffptr] \in Seq(Bytes)
      BY <1>8, <2>3
    <3> HIDE DEF text
    <3>2. Recent' = Device!Newest(Append(Recent, heap[entry.buffptr]))
      BY <1>1, <1>2, <1>3, <1>10, <2>1, <2>2, <2>4, <3>1, RecentPush
    <3> QED  BY <2>3, <3>2
  <2>6. Partial' = << >>
    <3>1. entry'.buffptr \notin Ptrs
      BY <1>10, DriverAssumption DEF NoEntry
    <3> QED  BY <1>5, <2>1, <3>1 DEF Block
  <2>7. text # << >> /\ text[Len(text)] = NL
    BY <1>9, <1>10
  <2> HIDE DEF text
  <2>8. Device!Write(p)
    BY <1>1, <1>6, <1>7, <2>5, <2>6, <2>7 DEF Device!Write, Device!Outcome
  <2> QED  BY <2>8 DEF DeviceStep, Device!Next
<1>11. CASE /\ ~complete
            /\ undefined' = IF entry.size = 0 THEN "empty" ELSE "no"
            /\ UNCHANGED <<buffer, heap, entry>>
  <2>1. UNCHANGED Recent
    BY <1>1, <1>2, <1>11, RecentStays
  <2>2. Block(entry.buffptr)' = text
    BY <1>11 DEF Block, Dangling
  <2>3. Partial' = text
    <3>1. CASE entry.size = 0
      <4>1. text = << >>
        BY <1>8, <3>1
      <4>2. Partial' = << >>
        BY <1>11, <3>1 DEF Partial
      <4> QED  BY <4>1, <4>2
    <3>2. CASE entry.size # 0
      BY <1>5, <1>11, <2>2, <3>2
    <3> QED  BY <3>1, <3>2
  <2>4. ~(text # << >> /\ text[Len(text)] = NL)
    BY <1>9, <1>11
  <2> HIDE DEF text
  <2>5. Device!Write(p)
    BY <1>1, <1>6, <1>7, <2>1, <2>3, <2>4 DEF Device!Write, Device!Outcome
  <2> QED  BY <2>5 DEF DeviceStep, Device!Next
<1> QED  BY <1>10, <1>11, Zenon DEF write_push

(* A piece of a string is the same piece of a longer one that holds it.    *)
LEMMA SamePiece ==
  ASSUME NEW B, NEW s \in Seq(B), NEW t \in Seq(B), NEW x \in Nat, NEW o \in Nat, NEW n \in Nat,
         o + n <= Len(s), x + Len(s) <= Len(t), \A j \in 1 .. Len(s) : t[x + j] = s[j]
  PROVE  SubSeq(s, o + 1, o + n) = SubSeq(t, x + o + 1, x + o + n)
<1>0. Len(s) \in Nat /\ Len(t) \in Nat
  OBVIOUS
<1>1. \A j \in 1 .. n : o + j \in 1 .. Len(s) /\ x + o + j \in 1 .. Len(t)
  BY <1>0
<1>2. SubSeq(s, o + 1, o + n) = [j \in 1 .. n |-> s[o + j]]
  <2>1. SubSeq(s, o + 1, o + n) = [j \in 1 .. (o + n) - (o + 1) + 1 |-> s[o + 1 + j - 1]]
    BY <1>0
  <2>2. (o + n) - (o + 1) + 1 = n /\ \A j \in 1 .. n : o + 1 + j - 1 = o + j
    OBVIOUS
  <2> QED  BY <2>1, <2>2
<1>3. SubSeq(t, x + o + 1, x + o + n) = [j \in 1 .. n |-> t[x + o + j]]
  <2>1. PICK y \in Nat : y = x + o
    OBVIOUS
  <2>2. SubSeq(t, y + 1, y + n) = [j \in 1 .. (y + n) - (y + 1) + 1 |-> t[y + 1 + j - 1]]
    BY <1>0
  <2>3. (y + n) - (y + 1) + 1 = n /\ \A j \in 1 .. n : y + 1 + j - 1 = y + j
    OBVIOUS
  <2> QED  BY <2>1, <2>2, <2>3
<1>4. \A j \in 1 .. n : s[o + j] = t[x + o + j]
  <2> TAKE j \in 1 .. n
  <2>1. PICK m \in 1 .. Len(s) : m = o + j
    BY <1>1
  <2>2. x + m = x + o + j
    BY <2>1
  <2>3. t[x + m] = s[m]
    OBVIOUS
  <2> QED  BY <2>1, <2>2, <2>3
<1> QED  BY <1>2, <1>3, <1>4

(* What a successful aesd_read copies: the bytes of the kept commands from *)
(* its position on, some unless there are none or none were asked for.     *)
LEMMA ReadBytes ==
  ASSUME DeviceInv, undefined = "no", NEW p \in Procs, pc[p] = "r_copy"
  PROVE  LET all == FlattenSeq(Recent)
             o   == found[p].offset
             n   == found[p].read_count
         IN  /\ SubSeq(Block(found[p].buffptr), o + 1, o + n)
                  = SubSeq(all, f_pos[p] + 1, f_pos[p] + n)
             /\ n \in Nat /\ f_pos[p] \in Nat /\ Len(all) \in Nat /\ call[p].count \in Nat
             /\ n <= Len(all) - f_pos[p] /\ n <= call[p].count
             /\ n = 0 => call[p].count = 0
<1> DEFINE all == FlattenSeq(Recent)
           o   == found[p].offset
           n   == found[p].read_count
           so  == SearchOffset(buffer)
<1>0. MemInv /\ MemTypes /\ MemSafe /\ PosInv /\ WellFormed(buffer, Stored) /\ f_pos[p] \in Nat
  BY DeviceFacts DEF MemTypes, PosInv
<1>1. PICK i \in 1 .. LiveCount(buffer) :
           /\ so[i - 1] <= f_pos[p] /\ f_pos[p] < so[i]
           /\ found[p].buffptr = Slot(SlotAt(buffer, i - 1))
           /\ o = f_pos[p] - so[i - 1]
           /\ n \in Nat /\ call[p].count \in Nat
           /\ n <= so[i] - f_pos[p]
           /\ n <= call[p].count
           /\ n = so[i] - f_pos[p] \/ n = call[p].count
  BY <1>0, ReadPlace
<1>2. /\ all \in Seq(Bytes) /\ Len(all) = so[LiveCount(buffer)]
      /\ \A j \in 1 .. SizeAt(buffer, i) : all[so[i - 1] + j] = heap[Slot(SlotAt(buffer, i - 1))][j]
  BY <1>0, AllBytes
<1>3. /\ SlotAt(buffer, i - 1) \in SlotIndex /\ Slot(SlotAt(buffer, i - 1)) # NULL
      /\ LiveCount(buffer) \in 0 .. Slots
  BY <1>0, RecentShape
<1> DEFINE s == heap[Slot(SlotAt(buffer, i - 1))]
<1>4. /\ Slot(SlotAt(buffer, i - 1)) \in Ptrs /\ s # NULL /\ s \in Seq(Bytes)
      /\ Len(s) = SizeAt(buffer, i)
  BY <1>0, <1>3, MemFacts DEF MemSafe, SlotsOwn, SizeAt
<1>5. Block(found[p].buffptr) = s
  BY <1>1, <1>4 DEF Block, Dangling
<1>6. /\ so[i - 1] \in Nat /\ so[i] \in Nat /\ so[i] = so[i - 1] + Len(s) /\ so[i] <= Len(all)
      /\ Len(all) \in Nat
  <2>1. i \in 1 .. Slots /\ i \in 0 .. LiveCount(buffer) /\ i - 1 \in 0 .. Slots /\ i \in 0 .. Slots
    BY <1>3, SlotsAssumption
  <2>2. so \in [0 .. Slots -> Nat] /\ so[i] = so[i - 1] + SizeAt(buffer, i)
    BY <1>0, <2>1, SearchOffsetStep
  <2>3. so[i] <= so[LiveCount(buffer)]
    BY <1>0, <1>3, <2>1, SearchOffsetGrows
  <2> QED  BY <1>2, <1>3, <1>4, <2>1, <2>2, <2>3
<1> DEFINE x == so[i - 1]
           y == so[i]
           z == f_pos[p]
<1>7. /\ x \in Nat /\ y \in Nat /\ z \in Nat /\ x <= z /\ z < y /\ o = z - x /\ n \in Nat
      /\ n <= y - z /\ y = x + Len(s) /\ y <= Len(all) /\ Len(all) \in Nat /\ Len(s) \in Nat
      /\ n = y - z \/ n = call[p].count
  BY <1>0, <1>1, <1>4, <1>6
<1>8. all \in Seq(Bytes) /\ s \in Seq(Bytes) /\ \A j \in 1 .. Len(s) : all[x + j] = s[j]
  BY <1>2, <1>4
<1> HIDE DEF x, y, z, o, n, s, all
<1>9. /\ o \in Nat /\ x + o = z /\ o + n <= Len(s) /\ x + Len(s) <= Len(all)
      /\ n <= Len(all) - z /\ (n = 0 => n = call[p].count)
  BY <1>7
<1>10. SubSeq(s, o + 1, o + n) = SubSeq(all, x + o + 1, x + o + n)
  BY <1>7, <1>8, <1>9, SamePiece
<1>11. SubSeq(s, o + 1, o + n) = SubSeq(all, z + 1, z + n)
  BY <1>9, <1>10
<1>12. /\ SubSeq(Block(found[p].buffptr), o + 1, o + n) = SubSeq(all, f_pos[p] + 1, f_pos[p] + n)
       /\ n <= Len(all) - f_pos[p]
  BY <1>5, <1>9, <1>11 DEF z
<1> QED  BY <1>0, <1>1, <1>7, <1>9, <1>12 DEF o, n, all

(* The two modules flatten alike.                                          *)
LEMMA SameFlatten == Device!FlattenSeq(Recent) = FlattenSeq(Recent)
  BY Zenon DEF Device!FlattenSeq, FlattenSeq

(* The search: the end of the data, or nothing the users see.              *)
LEMMA StepFind ==
  ASSUME DeviceInv, DeviceInv', NEW p \in Procs, read_find(p)
  PROVE  DeviceStep
<1>0. /\ undefined = "no" /\ pc[p] = "r_find"
      /\ UNCHANGED <<buffer, entry, heap, undefined, kbuf, call, f_pos, got>>
  BY DEF read_find, ReadDone, At
<1>1. /\ MemInv /\ MemTypes /\ CallInv /\ PosInv /\ WellFormed(buffer, Stored) /\ f_pos \in [Procs -> Nat]
      /\ pc \in [Procs -> Locations] /\ call \in [Procs -> Calls]
  BY DeviceFacts DEF MemTypes, PosInv
<1>2. \E loc \in {"user", "r_copy"} : pc' = [pc EXCEPT ![p] = loc]
  BY DEF read_find, ReadDone, Goto
<1>3. UNCHANGED <<Recent, Partial>>
  BY <1>0, <1>2, DeviceStays DEF Filling
<1>4. CASE FindEntry(buffer, f_pos[p]) # NULL
  <2>1. UNCHANGED ret
    BY <1>4, Zenon DEF read_find
  <2> QED  BY <1>0, <1>3, <2>1 DEF DeviceStep, Device!vars
<1>5. CASE FindEntry(buffer, f_pos[p]) = NULL
  <2> DEFINE all == FlattenSeq(Recent)
             n   == f_pos[p]
             m   == call[p].count
             most == IF m < Len(all) - n THEN m ELSE Len(all) - n
  <2>1. Result(p, "ok")
    BY <1>5, Zenon DEF read_find, ReadDone
  <2>2. all \in Seq(Bytes) /\ Len(all) = SearchOffset(buffer)[LiveCount(buffer)]
    BY <1>0, <1>1, AllBytes
  <2>3. n \in Nat
    BY <1>1
  <2>4. ~(n < Len(all))
    <3>1. PICK k \in Nat : k = n
      BY <2>3
    <3>2. FindEntry(buffer, k) = NULL
      BY <1>5, <3>1
    <3>3. ~(k < SearchOffset(buffer)[LiveCount(buffer)])
      BY <1>1, <3>2, FindValue
    <3> QED  BY <2>2, <3>1, <3>3
  <2>5. m \in Nat
    <3>1. call[p] \in Calls
      BY <1>1
    <3>2. call[p].count \in ReadCounts \cup {0}
      BY <3>1 DEF Calls, NoCall
    <3>3. 0 \in Nat /\ ReadCounts \subseteq Nat
      BY DriverAssumption
    <3> QED  BY <3>2, <3>3, Zenon
  <2> HIDE DEF all, n, m
  <2>6. ~(most > 0)
    BY <2>2, <2>3, <2>4, <2>5
  <2>7. SubSeq(all, n + 1, n + 0) = << >> /\ n + 0 = n
    BY <2>2, <2>3, NoBytes
  <2>8. got[p] = << >> /\ ret[p] = "busy" /\ call[p].op = "read"
    BY <1>0, <1>1 DEF CallInv, Inside, Reading
  <2>9. got' = [got EXCEPT ![p] = SubSeq(all, n + 1, n + 0)]
    <3>1. got = [r \in Procs |-> got[r]]
      BY <1>1 DEF CallInv
    <3> QED  BY <1>0, <2>7, <2>8, <3>1
  <2>10. f_pos' = [f_pos EXCEPT ![p] = @ + 0]
    BY <1>0, <1>1
  <2>11. 0 \in IF most > 0 THEN 1 .. most ELSE {0}
    BY <2>6
  <2>12. Device!Outcome(p, "read", {"ok"})
    BY <2>1, <2>8 DEF Device!Outcome, Result
  <2>13. Device!Read(p)
    <3> HIDE DEF most
    <3>1. \E k \in IF most > 0 THEN 1 .. most ELSE {0} :
            /\ got' = [got EXCEPT ![p] = SubSeq(all, n + 1, n + k)]
            /\ f_pos' = [f_pos EXCEPT ![p] = @ + k]
      BY <2>9, <2>10, <2>11, Zenon
    <3> QED  BY <1>0, <1>3, <2>12, <3>1, SameFlatten, Zenon DEF Device!Read, most, all, n, m
  <2> QED  BY <2>13 DEF DeviceStep, Device!Next
<1> QED  BY <1>4, <1>5

(* copy_to_user.                                                           *)
LEMMA StepRead ==
  ASSUME DeviceInv, DeviceInv', NEW p \in Procs, read_copy(p)
  PROVE  DeviceStep
<1>0. /\ undefined = "no" /\ pc[p] = "r_copy" /\ UNCHANGED <<buffer, entry, heap, kbuf, call>>
      /\ pc' = [pc EXCEPT ![p] = "user"]
  BY DEF read_copy, ReadDone, At, Goto
<1>1. /\ CallInv /\ MemTypes /\ MemSafe /\ PosInv
  BY <1>0, DeviceFacts
<1>2. undefined' = "no" /\ ~Dangling(found[p].buffptr)
  <2>1. MemInv'
    BY DEF DeviceInv, DriverInv
  <2>2. undefined' # "ring"
    BY <2>1 DEF MemInv, DefinedBehaviour
  <2> QED  BY <2>2, Zenon DEF read_copy
<1>3. UNCHANGED <<Recent, Partial>>
  BY <1>0, <1>2, DeviceStays DEF Filling
<1>4. ret[p] = "busy" /\ call[p].op = "read"
  BY <1>0, <1>1 DEF CallInv, Inside, Reading
<1> DEFINE all  == FlattenSeq(Recent)
           o    == found[p].offset
           n    == found[p].read_count
           m    == call[p].count
           most == IF m < Len(all) - f_pos[p] THEN m ELSE Len(all) - f_pos[p]
<1>5. CASE ReadDone(p, "EFAULT") /\ UNCHANGED <<f_pos, got>>
  <2>1. Device!Fail(p)
    BY <1>0, <1>3, <1>4, <1>5 DEF ReadDone, Result, Device!Fail, Device!Outcome
  <2> QED  BY <2>1 DEF DeviceStep, Device!Next
<1>6. CASE /\ got' = [got EXCEPT ![p] = IF Dangling(found[p].buffptr) THEN << >>
                                        ELSE SubSeq(Block(found[p].buffptr), o + 1, o + n)]
           /\ f_pos' = [f_pos EXCEPT ![p] = @ + n]
           /\ ReadDone(p, "ok")
  <2>1. /\ SubSeq(Block(found[p].buffptr), o + 1, o + n) = SubSeq(all, f_pos[p] + 1, f_pos[p] + n)
        /\ n \in Nat /\ f_pos[p] \in Nat /\ Len(all) \in Nat /\ m \in Nat
        /\ n <= Len(all) - f_pos[p] /\ n <= m /\ (n = 0 => m = 0)
    BY <1>0, ReadBytes
  <2>2. got' = [got EXCEPT ![p] = SubSeq(all, f_pos[p] + 1, f_pos[p] + n)]
    BY <1>2, <1>6, <2>1, Zenon
  <2>3. n \in IF most > 0 THEN 1 .. most ELSE {0}
    <3> DEFINE l == Len(all) - f_pos[p]
    <3>1. l \in Int /\ n \in Nat /\ n <= l /\ n <= m /\ m \in Nat /\ (n = 0 => m = 0)
      BY <2>1
    <3> HIDE DEF l, n, m
    <3> QED  BY <3>1 DEF l
  <2>4. Device!Outcome(p, "read", {"ok"})
    BY <1>4, <1>6 DEF Device!Outcome, ReadDone, Result
  <2>5. Device!Read(p)
    <3> HIDE DEF most, n
    <3>1. \E k \in IF most > 0 THEN 1 .. most ELSE {0} :
            /\ got' = [got EXCEPT ![p] = SubSeq(all, f_pos[p] + 1, f_pos[p] + k)]
            /\ f_pos' = [f_pos EXCEPT ![p] = @ + k]
      BY <1>6, <2>2, <2>3, Zenon
    <3> QED  BY <1>0, <1>3, <2>4, <3>1, SameFlatten, Zenon DEF Device!Read, most
  <2> QED  BY <2>5 DEF DeviceStep, Device!Next
<1> QED  BY <1>5, <1>6, Zenon DEF read_copy

(* Loading the module finds the device empty, unloading leaves it so.      *)
LEMMA StepLoad ==
  ASSUME DeviceInv, DeviceInv', aesd_init_module \/ aesd_cleanup_module
  PROVE  DeviceStep
<1>0. LocksInv /\ MemInv /\ CallInv /\ PartialIs /\ pc \in [Procs -> Locations]
  BY DeviceFacts
<1>1. PartialIs'
  BY PartialShape, PTL DEF DeviceInv
<1>2. /\ undefined = "no" /\ undefined' = "no" /\ UNCHANGED <<pc, call, ret, f_pos, got>>
      /\ \A p \in Procs : pc[p] = "closed"
      /\ buffer' = EmptyBuffer /\ entry' = NoEntry
  BY <1>0 DEF aesd_init_module, aesd_cleanup_module, procVars, LocksInv
<1>3. Partial' = << >>
  <2>1. Partial' = Block(entry.buffptr)'
    BY <1>1, <1>2 DEF PartialIs
  <2>2. entry'.buffptr \notin Ptrs
    BY <1>2, DriverAssumption DEF NoEntry
  <2> QED  BY <2>1, <2>2 DEF Block
<1>4. Recent' = << >>
  <2>1. LiveCount(EmptyBuffer) = 0
    BY EmptyRing, EmptyWellFormed
  <2>2. Recent' = [k \in 1 .. 0 |-> heap'[Contents(buffer')[k].buffptr]]
    BY <1>2, <2>1 DEF Recent
  <2> QED  BY <2>2
<1>5. CASE aesd_cleanup_module
  <2>1. \A p \in Procs : ret[p] # "busy"
    BY <1>0, <1>2 DEF CallInv, Inside, Reading
  <2>2. Device!Unload
    BY <1>2, <1>3, <1>4, <2>1 DEF Device!Unload
  <2> QED  BY <2>2 DEF DeviceStep, Device!Next
<1>6. CASE aesd_init_module
  <2>1. buffer = EmptyBuffer /\ entry = NoEntry
    BY <1>0, <1>6 DEF MemInv, aesd_init_module
  <2>2. Recent = << >>
    BY <2>1, RecentEmpty
  <2>3. Partial = << >>
    <3>1. Partial = Block(entry.buffptr)
      BY <1>0, <1>2 DEF PartialIs
    <3>2. entry.buffptr \notin Ptrs
      BY <2>1, DriverAssumption DEF NoEntry
    <3> QED  BY <3>1, <3>2 DEF Block
  <2> QED  BY <1>2, <1>3, <1>4, <2>2, <2>3 DEF DeviceStep, Device!vars
<1> QED  BY <1>5, <1>6

(* Every step of the driver is a step of the device or none.               *)
LEMMA StepDevice == DeviceInv /\ DeviceInv' /\ [Next]_vars => DeviceStep
<1> SUFFICES ASSUME DeviceInv, DeviceInv', [Next]_vars PROVE DeviceStep
  OBVIOUS
<1>1. CASE UNCHANGED vars
  <2>1. UNCHANGED <<buffer, entry, heap, undefined, pc, call, ret, f_pos, kbuf, got>>
    BY <1>1 DEF vars, devVars, procVars
  <2>2. UNCHANGED Recent
    BY <2>1 DEF Recent
  <2>3. UNCHANGED Partial
    <3>1. UNCHANGED Pending /\ UNCHANGED Pushing
      BY <2>1 DEF Pending, Pushing
    <3> QED  BY <2>1, <3>1 DEF Partial, Block, Dangling
  <2> QED  BY <2>1, <2>2, <2>3 DEF DeviceStep, Device!vars
<1>2. ASSUME NEW p \in Procs, Read(p) PROVE DeviceStep
  <2>1. ASSUME NEW n \in ReadCounts, read(p, n) PROVE DeviceStep
    <3>1. [op |-> "read", count |-> n, data |-> << >>] \in Calls
      BY DEF Calls
    <3> QED  BY <2>1, <3>1, StepCall DEF read
  <2> QED  BY <1>2, <2>1, StepQuiet, StepInterrupted, StepFind, StepRead DEF Read
<1>3. ASSUME NEW p \in Procs, Write(p) PROVE DeviceStep
  <2>1. ASSUME NEW c \in Chunks, write(p, c) PROVE DeviceStep
    <3>1. [op |-> "write", count |-> 0, data |-> c] \in Calls
      BY DEF Calls
    <3>2. Enter(p, [op |-> "write", count |-> 0, data |-> c], "w_lock")
      BY <2>1 DEF write
    <3> QED  BY <3>1, <3>2, StepCall
  <2> QED
    BY <1>3, <2>1, StepQuiet, StepInterrupted, StepAlloc, StepCopy, StepLate, StepPush DEF Write
<1> QED  BY <1>1, <1>2, <1>3, StepQuiet, StepClose, StepLoad DEF Next

(* For every number of slots and processes, every set of writes and every  *)
(* failure: aesd_read and aesd_write, whose steps interleave at every lock *)
(* and every copy, are atomic.  Their users see a device that keeps the    *)
(* newest commands whole and in order and returns contiguous bytes of      *)
(* them; a call that fails changes nothing, except the write interrupted   *)
(* at buf_lock, which has appended its bytes, and the write that faults,   *)
(* which loses the unfinished command (main.c:57-187).                     *)
THEOREM DriverIsDevice == Spec => DriverImplementsDevice
<1>1. Init => Device!Init
  <2> SUFFICES ASSUME Init PROVE Device!Init
    OBVIOUS
  <2>1. Recent = << >>
    BY RecentEmpty DEF Init
  <2>2. PartialIs
    BY DeviceInit, DeviceFacts
  <2>3. Partial = Block(entry.buffptr) /\ entry.buffptr \notin Ptrs
    BY <2>2, DriverAssumption DEF Init, PartialIs, NoEntry
  <2>4. Partial = << >>
    BY <2>3 DEF Block
  <2> QED  BY <2>1, <2>4 DEF Init, Device!Init
<1>2. DeviceStep => [Device!Next]_(Device!vars)
  BY DEF DeviceStep
<1> QED  BY <1>1, <1>2, DeviceInit, DeviceNext, StepDevice, PTL DEF Spec, DriverImplementsDevice, Device!Spec
=============================================================================
