----------------------------- MODULE CharDriver -----------------------------
(***************************************************************************)
(* aesd-char-driver/main.c: the file operations of /dev/aesdchar, run by    *)
(* processes that each have one file open, and loading and unloading the    *)
(* module.  One action per step between two points where another process    *)
(* can get in: taking a lock, allocating, copying from or to user space.    *)
(***************************************************************************)
EXTENDS CircularBuffer, FiniteSetsExt, Functions

CONSTANTS
  Procs,        \* the processes
  Ptrs,         \* addresses kzalloc may return
  ZeroPtr,      \* ZERO_SIZE_PTR, what kzalloc(0) returns
  NL,           \* the newline character
  Chunks,       \* byte strings a process may write
  ReadCounts,   \* sizes of the buffer a process may read into
  Faults,       \* the failures that may happen, a subset of AllFaults
  MaxEntry,     \* bound: bytes of an unfinished command
  MaxLeaks      \* bound: leaked blocks with which the module is loaded again

AllFaults == {"read lock", "read copy", "write lock", "write nomem",
              "write copy new", "write copy append", "write buf lock"}

(* What a block of memory can hold: bytes that were written, and zeroes.   *)
Bytes == {0} \cup UNION {Range(c) : c \in Chunks}

ASSUME DriverAssumption ==
  /\ Faults \subseteq AllFaults
  /\ NULL \notin Procs \cup Ptrs /\ ZeroPtr \notin Ptrs \cup {NULL}
  /\ Chunks \subseteq Seq(Bytes) /\ NULL \notin Seq(Bytes)
  /\ ReadCounts \subseteq Nat /\ MaxEntry \in Nat /\ MaxLeaks \in Nat
  /\ IsFiniteSet(Procs) /\ IsFiniteSet(Ptrs)
  \* one block per slot, the unfinished entry, its larger copy, the leaks
  /\ Cardinality(Ptrs) >= Slots + 2 + MaxLeaks

VARIABLES
  loaded,       \* the module is loaded
  buffer,       \* dev->buf
  entry,        \* dev->entry, the unfinished command
  entry_lock,   \* the process that holds dev->entry_lock, or NULL
  buf_lock,     \* the process that holds dev->buf_lock, or NULL
  heap,         \* [Ptrs -> bytes of the block, or NULL when not allocated]
  leaked,       \* blocks nothing points to any more
  undefined,    \* whose memory the driver wrongly read or freed, see Causes
  pc,           \* [Procs -> where the process is]
  call,         \* [Procs -> the arguments of its last read or write]
  ret,          \* [Procs -> the outcome of that call, "busy" before]
  f_pos,        \* [Procs -> the position of its file]
  found,        \* [Procs -> what aesd_read passes to copy_to_user]
  kbuf,         \* [Procs -> aesd_write's kbuf]
  got           \* [Procs -> bytes its last read copied out]

devVars  == <<loaded, buffer, entry, entry_lock, buf_lock, heap, leaked, undefined>>
procVars == <<pc, call, ret, f_pos, found, kbuf, got>>
vars     == <<devVars, procVars>>

(* Nothing yet, the unfinished command's freed block, the byte in front of *)
(* an empty one, or a block of the ring.                                   *)
Causes == {"no", "entry", "empty", "ring"}

NoCall == [op |-> "none", count |-> 0, data |-> << >>]

Calls == {NoCall}
           \cup [op : {"read"}, count : ReadCounts, data : {<< >>}]
           \cup [op : {"write"}, count : {0}, data : Chunks]

Locations == {"closed", "user", "r_lock", "r_find", "r_copy",
              "w_lock", "w_alloc", "w_copy", "w_buf", "w_push", "w_out"}

Init ==
  /\ loaded = FALSE
  /\ buffer = EmptyBuffer /\ entry = NoEntry
  /\ entry_lock = NULL /\ buf_lock = NULL
  /\ heap = [q \in Ptrs |-> NULL] /\ leaked = {} /\ undefined = "no"
  /\ pc = [p \in Procs |-> "closed"]
  /\ call = [p \in Procs |-> NoCall]
  /\ ret = [p \in Procs |-> "ok"]
  /\ f_pos = [p \in Procs |-> 0]
  /\ found = [p \in Procs |-> NULL] /\ kbuf = [p \in Procs |-> NULL]
  /\ got = [p \in Procs |-> << >>]

At(p, loc)   == pc[p] = loc /\ undefined = "no"
Goto(p, loc) == pc' = [pc EXCEPT ![p] = loc]
Result(p, r) == ret' = [ret EXCEPT ![p] = r]

(* Linux: kzalloc returns a zeroed block, or ZERO_SIZE_PTR for size 0.     *)
Fresh(size)       == IF size = 0 THEN {ZeroPtr} ELSE {q \in Ptrs : heap[q] = NULL}
Zeros(size)       == [i \in 1 .. size |-> 0]
Dangling(q)       == q \in Ptrs /\ heap[q] = NULL
Block(q)          == IF q \notin Ptrs \/ Dangling(q) THEN << >> ELSE heap[q]

-----------------------------------------------------------------------------
(* aesd_init_module.  When registering the device fails nothing is loaded. *)
aesd_init_module ==
  /\ ~loaded /\ undefined = "no" /\ Cardinality(leaked) <= MaxLeaks
  /\ loaded' = TRUE
  /\ buffer' = EmptyBuffer /\ entry' = NoEntry
  /\ buf_lock' = NULL /\ entry_lock' = NULL
  /\ UNCHANGED <<heap, leaked, undefined>> /\ UNCHANGED procVars

(* aesd_cleanup_module.  The kernel lets the module go only when no file   *)
(* of the device is open.  The ring's blocks are freed; dev->entry's is    *)
(* not, and nothing points to it once the module's memory is gone.         *)
RingPtrs_Range ==  \* mutant: only the slots from out_offs up to in_offs
  {buffer.entry[i].buffptr : i \in buffer.out_offs .. buffer.in_offs - 1} \ {NULL}

RingPtrs == {buffer.entry[i].buffptr : i \in SlotIndex} \ {NULL}

aesd_cleanup_module ==
  LET rest == {entry.buffptr} \cap {q \in Ptrs : heap[q] # NULL}
  IN  /\ loaded /\ undefined = "no" /\ \A p \in Procs : pc[p] = "closed"
      /\ heap' = [q \in Ptrs |-> IF q \in RingPtrs THEN NULL ELSE heap[q]]
      /\ leaked' = leaked \cup rest
      /\ loaded' = FALSE
      /\ buffer' = EmptyBuffer /\ entry' = NoEntry
      /\ UNCHANGED <<entry_lock, buf_lock, undefined>> /\ UNCHANGED procVars

(* A new struct file starts at position 0; the release handler does        *)
(* nothing, and the struct file is gone.                                   *)
aesd_open(p) ==
  /\ loaded /\ At(p, "closed")
  /\ Goto(p, "user")
  /\ UNCHANGED devVars /\ UNCHANGED <<call, ret, f_pos, found, kbuf, got>>

aesd_release(p) ==
  /\ At(p, "user")
  /\ Goto(p, "closed")
  /\ f_pos' = [f_pos EXCEPT ![p] = 0]
  /\ call' = [call EXCEPT ![p] = NoCall]
  /\ ret' = [ret EXCEPT ![p] = "ok"]
  /\ got' = [got EXCEPT ![p] = << >>]
  /\ UNCHANGED devVars /\ UNCHANGED <<found, kbuf>>

-----------------------------------------------------------------------------
(* A process enters aesd_read or aesd_write.                               *)
Enter(p, c, loc) ==
  /\ At(p, "user")
  /\ Goto(p, loc)
  /\ call' = [call EXCEPT ![p] = c]
  /\ Result(p, "busy")
  /\ got' = [got EXCEPT ![p] = << >>]
  /\ UNCHANGED devVars /\ UNCHANGED <<f_pos, found, kbuf>>

read(p, n) == Enter(p, [op |-> "read", count |-> n, data |-> << >>], "r_lock")

InFlight == {p \in Procs : pc[p] \in {"w_lock", "w_alloc", "w_copy"}}
Pending  == [p \in Procs |-> Len(call[p].data)]

write(p, c) ==
  \* bound: the unfinished command and the writes under way fit in MaxEntry
  /\ entry.size + Len(c) + SumFunctionOnSet(Pending, InFlight) <= MaxEntry
  /\ Enter(p, [op |-> "write", count |-> 0, data |-> c], "w_lock")

-----------------------------------------------------------------------------
(* aesd_read.  A lock attempt can be interrupted only while it waits.      *)
read_lock(p) ==
  /\ At(p, "r_lock") /\ buf_lock = NULL
  /\ buf_lock' = p
  /\ Goto(p, "r_find")
  /\ UNCHANGED <<loaded, buffer, entry, entry_lock, heap, leaked, undefined>>
  /\ UNCHANGED <<call, ret, f_pos, found, kbuf, got>>

read_interrupted(p) ==
  /\ At(p, "r_lock") /\ buf_lock # NULL /\ "read lock" \in Faults
  /\ Result(p, "ERESTARTSYS")
  /\ Goto(p, "user")
  /\ UNCHANGED devVars /\ UNCHANGED <<call, f_pos, found, kbuf, got>>

(* Unlock dev->buf_lock and return.                                        *)
ReadDone(p, r) ==
  /\ Result(p, r)
  /\ buf_lock' = NULL
  /\ found' = [found EXCEPT ![p] = NULL]
  /\ Goto(p, "user")
  /\ UNCHANGED <<loaded, buffer, entry, entry_lock, heap, leaked>>

(* The search; at the end of the data the read returns 0.  Otherwise it    *)
(* copies at most the rest of the entry that was found.                    *)
read_find(p) ==
  LET f == FindEntry(buffer, f_pos[p])
      e == buffer.entry[f.slot]
  IN  /\ At(p, "r_find")
      /\ \/ /\ f = NULL
            /\ ReadDone(p, "ok")
         \/ /\ f # NULL
            /\ found' = [found EXCEPT ![p] =
                            [buffptr |-> e.buffptr, offset |-> f.offset,
                             read_count |-> Min({e.size - f.offset, call[p].count})]]
            /\ Goto(p, "r_copy")
            /\ UNCHANGED <<loaded, buffer, entry, entry_lock, buf_lock, heap, leaked, ret>>
      /\ UNCHANGED <<undefined, call, f_pos, kbuf, got>>

(* copy_to_user, which may sleep: what it reads from must stay allocated.  *)
read_copy(p) ==
  LET q == found[p].buffptr
      o == found[p].offset
      n == found[p].read_count
  IN  /\ At(p, "r_copy")
      /\ undefined' = IF Dangling(q) THEN "ring" ELSE "no"
      /\ \/ /\ got' = [got EXCEPT ![p] =
                          IF Dangling(q) THEN << >> ELSE SubSeq(Block(q), o + 1, o + n)]
            /\ f_pos' = [f_pos EXCEPT ![p] = @ + n]
            /\ ReadDone(p, "ok")
         \/ /\ "read copy" \in Faults
            /\ ReadDone(p, "EFAULT")
            /\ UNCHANGED <<f_pos, got>>
      /\ UNCHANGED <<call, kbuf>>

-----------------------------------------------------------------------------
(* aesd_write.                                                             *)
write_lock(p) ==
  /\ At(p, "w_lock") /\ entry_lock = NULL
  /\ entry_lock' = p
  /\ Goto(p, "w_alloc")
  /\ UNCHANGED <<loaded, buffer, entry, buf_lock, heap, leaked, undefined>>
  /\ UNCHANGED <<call, ret, f_pos, found, kbuf, got>>

write_interrupted(p) ==
  /\ At(p, "w_lock") /\ entry_lock # NULL /\ "write lock" \in Faults
  /\ Result(p, "ERESTARTSYS")
  /\ Goto(p, "user")
  /\ UNCHANGED devVars /\ UNCHANGED <<call, f_pos, found, kbuf, got>>

(* kzalloc; with data from a previous write, a larger block that starts    *)
(* with a copy of it, after which the previous block is freed.             *)
write_alloc(p) ==
  LET old == Block(entry.buffptr)
      c   == call[p].data
  IN  /\ At(p, "w_alloc")
      /\ \/ /\ undefined' = IF Dangling(entry.buffptr) THEN "entry" ELSE "no"   \* memcpy, kfree
            /\ \E q \in Fresh(entry.size + Len(c)) :
                 /\ kbuf' = [kbuf EXCEPT ![p] = q]
                 /\ heap' = [r \in Ptrs |->
                               IF r = q THEN old \o Zeros(Len(c))
                               ELSE IF r = entry.buffptr THEN NULL
                               ELSE heap[r]]
            /\ Goto(p, "w_copy")
            /\ UNCHANGED ret
         \/ /\ "write nomem" \in Faults
            /\ Result(p, "ENOMEM")
            /\ Goto(p, "w_out")
            /\ UNCHANGED <<undefined, heap, kbuf>>
      /\ UNCHANGED <<loaded, buffer, entry, entry_lock, buf_lock, leaked>>
      /\ UNCHANGED <<call, f_pos, found, got>>

(* copy_from_user behind the previous data; a fault frees the new block    *)
(* and leaves dev->entry as it was.                                        *)
CopyFault == IF entry.buffptr = NULL THEN "write copy new" ELSE "write copy append"

write_copy(p) ==
  LET q == kbuf[p]
      c == call[p].data
  IN  /\ At(p, "w_copy")
      /\ \/ /\ heap' = [heap EXCEPT ![q] = SubSeq(@, 1, entry.size) \o c]
            /\ entry' = [buffptr |-> q, size |-> entry.size + Len(c)]
            /\ Goto(p, "w_buf")
            /\ UNCHANGED ret
         \/ /\ CopyFault \in Faults /\ c # << >>
            /\ heap' = [heap EXCEPT ![q] = NULL]
            /\ Result(p, "EFAULT")
            /\ Goto(p, "w_out")
            /\ UNCHANGED entry
      /\ kbuf' = [kbuf EXCEPT ![p] = NULL]
      /\ UNCHANGED <<loaded, buffer, entry_lock, buf_lock, leaked, undefined>>
      /\ UNCHANGED <<call, f_pos, found, got>>

write_buf_lock_NoWait(p) ==  \* mutant: does not wait for the reader
  /\ At(p, "w_buf")
  /\ Goto(p, "w_push")
  /\ UNCHANGED devVars /\ UNCHANGED <<call, ret, f_pos, found, kbuf, got>>

write_buf_lock(p) ==
  /\ At(p, "w_buf") /\ buf_lock = NULL
  /\ buf_lock' = p
  /\ Goto(p, "w_push")
  /\ UNCHANGED <<loaded, buffer, entry, entry_lock, heap, leaked, undefined>>
  /\ UNCHANGED <<call, ret, f_pos, found, kbuf, got>>

write_buf_interrupted_Locked(p) ==  \* mutant: returns with entry_lock held
  /\ At(p, "w_buf") /\ buf_lock # NULL /\ "write buf lock" \in Faults
  /\ Result(p, "EINTR")
  /\ Goto(p, "user")
  /\ UNCHANGED devVars /\ UNCHANGED <<call, f_pos, found, kbuf, got>>

write_buf_interrupted(p) ==
  /\ At(p, "w_buf") /\ buf_lock # NULL /\ "write buf lock" \in Faults
  /\ Result(p, "EINTR")
  /\ Goto(p, "w_out")
  /\ UNCHANGED devVars /\ UNCHANGED <<call, f_pos, found, kbuf, got>>

(* A newline at the end completes the command: it goes into the ring, the  *)
(* block of the command it replaces is freed, and dev->entry is reset.     *)
write_push(p) ==
  LET complete == entry.size > 0 /\ Block(entry.buffptr)[entry.size] = NL
      old      == Overwritten(buffer)
  IN  /\ At(p, "w_push")
      /\ \/ /\ complete
            /\ buffer' = AddEntry(buffer, entry)
            /\ heap' = [q \in Ptrs |-> IF q = old THEN NULL ELSE heap[q]]
            /\ entry' = NoEntry
            /\ undefined' = IF Dangling(old) THEN "ring" ELSE "no"          \* kfree
         \/ /\ ~complete
            /\ undefined' = IF entry.size = 0 THEN "empty" ELSE "no"       \* buffptr[-1]
            /\ UNCHANGED <<buffer, heap, entry>>
      /\ buf_lock' = NULL
      /\ Result(p, "ok")
      /\ Goto(p, "w_out")
      /\ UNCHANGED <<loaded, entry_lock, leaked, call, f_pos, found, kbuf, got>>

write_out(p) ==
  /\ At(p, "w_out")
  /\ entry_lock' = NULL
  /\ Goto(p, "user")
  /\ UNCHANGED <<loaded, buffer, entry, buf_lock, heap, leaked, undefined>>
  /\ UNCHANGED <<call, ret, f_pos, found, kbuf, got>>

-----------------------------------------------------------------------------
Read(p) ==
  \/ \E n \in ReadCounts : read(p, n)
  \/ read_lock(p) \/ read_interrupted(p) \/ read_find(p) \/ read_copy(p)

Write(p) ==
  \/ \E c \in Chunks : write(p, c)
  \/ write_lock(p) \/ write_interrupted(p) \/ write_alloc(p) \/ write_copy(p)
  \/ write_buf_lock(p) \/ write_buf_interrupted(p) \/ write_push(p) \/ write_out(p)

Next ==
  \/ aesd_init_module \/ aesd_cleanup_module
  \/ \E p \in Procs : aesd_open(p) \/ aesd_release(p) \/ Read(p) \/ Write(p)

Spec == Init /\ [][Next]_vars

(* A process inside the driver keeps running, and a mutex that is released *)
(* again and again reaches every waiter (kernel mutexes hand off to the    *)
(* first waiter).  Nothing makes a process call or stop calling.           *)
Fairness ==
  \A p \in Procs :
    /\ WF_vars(read_find(p) \/ read_copy(p))
    /\ WF_vars(write_alloc(p) \/ write_copy(p) \/ write_push(p) \/ write_out(p))
    /\ SF_vars(read_lock(p)) /\ SF_vars(write_lock(p)) /\ SF_vars(write_buf_lock(p))

FairSpec == Spec /\ Fairness

-----------------------------------------------------------------------------
(* The ring's offsets stay in the array, an unfinished command keeps to    *)
(* its bound and no read moves a file position past the kept data.         *)
TypeOK ==
  /\ loaded \in BOOLEAN /\ undefined \in Causes
  /\ DOMAIN buffer.entry = SlotIndex
  /\ buffer.in_offs \in SlotIndex /\ buffer.out_offs \in SlotIndex
  /\ buffer.full \in BOOLEAN
  /\ entry.buffptr \in Ptrs \cup {NULL, ZeroPtr} /\ entry.size \in 0 .. MaxEntry
  /\ entry_lock \in Procs \cup {NULL} /\ buf_lock \in Procs \cup {NULL}
  /\ leaked \subseteq Ptrs
  /\ pc \in [Procs -> Locations]
  /\ call \in [Procs -> Calls]
  /\ ret \in [Procs -> {"ok", "busy", "ERESTARTSYS", "ENOMEM", "EFAULT", "EINTR"}]
  /\ f_pos \in [Procs -> 0 .. Slots * MaxEntry]
  /\ kbuf \in [Procs -> Ptrs \cup {NULL, ZeroPtr}]

(* Every allocated block has exactly one owner, so that it is freed once   *)
(* and only when nothing reads it any more: a slot of the ring, dev->entry,*)
(* a write under way, or nobody when the module was unloaded over it.      *)
(* What a slot points to is allocated and as long as its size says.  This  *)
(* holds until the driver has touched memory it does not own.              *)
UsedSlots == {i \in SlotIndex : buffer.entry[i].buffptr # NULL}
InRing    == {buffer.entry[i].buffptr : i \in UsedSlots}
Kept      == {entry.buffptr} \cap {q \in Ptrs : heap[q] # NULL}
UnderWay  == {kbuf[p] : p \in Procs} \cap Ptrs

BlocksOwnedOnce ==
  undefined = "no" =>
    /\ {q \in Ptrs : heap[q] # NULL} = InRing \cup Kept \cup UnderWay \cup leaked
    /\ InRing \cap (Kept \cup UnderWay \cup leaked) = {}
    /\ Kept \cap (UnderWay \cup leaked) = {} /\ UnderWay \cap leaked = {}
    /\ \A i, j \in UsedSlots : buffer.entry[i].buffptr = buffer.entry[j].buffptr => i = j
    /\ \A p, r \in Procs : kbuf[p] = kbuf[r] /\ kbuf[p] \in Ptrs => p = r
    /\ \A i \in UsedSlots : Len(heap[buffer.entry[i].buffptr]) = buffer.entry[i].size

(* The commands in the ring are never read after they were freed and never *)
(* freed twice, whatever the readers and writers do and whichever calls    *)
(* fail; and only a write of no bytes to an empty entry looks at the byte  *)
(* in front of it (size - 1, main.c:157).                                  *)
DefinedBehaviour ==
  /\ undefined # "ring"
  /\ undefined = "empty" =>
       \E p \in Procs : pc[p] = "w_out" /\ call[p].op = "write" /\ call[p].data = << >>

(* aesd-circular-buffer.h:23-29: buffptr is where the contents are stored  *)
(* and size is the number of bytes stored there; of dev->entry this should *)
(* hold whenever no write is in progress.                                  *)
EntryStoresItsBytes ==
  entry_lock = NULL => Len(Block(entry.buffptr)) = entry.size

(* A read or write that entered the driver returns: the two locks are      *)
(* always taken in the same order and released on every path.              *)
CallsReturn == \A p \in Procs : ret[p] = "busy" ~> ret[p] # "busy" /\ pc[p] = "user"

-----------------------------------------------------------------------------
(* The device as its users see it.  A write takes effect when it pushes or *)
(* decides not to; until then its bytes do not count.                      *)
Pushing == {p \in Procs : pc[p] \in {"w_buf", "w_push"}}

Partial ==
  LET q    == IF \E p \in Procs : kbuf[p] # NULL
                THEN kbuf[CHOOSE p \in Procs : kbuf[p] # NULL] ELSE entry.buffptr
      size == entry.size - SumFunctionOnSet(Pending, Pushing)
  IN  IF undefined # "no" \/ Len(Block(q)) < size THEN << >> ELSE SubSeq(Block(q), 1, size)

Recent == [k \in 1 .. LiveCount(buffer) |-> heap[Contents(buffer)[k].buffptr]]

Device == INSTANCE AesdDevice
            WITH Capacity <- Slots, recent <- Recent, partial <- Partial, pos <- f_pos

(* Reads and writes are atomic: whatever the interleaving, the processes   *)
(* see a device that keeps the newest commands whole and in order, returns *)
(* contiguous bytes of them and changes nothing when a call fails, except  *)
(* that a write interrupted at buf_lock has appended its bytes, and that a *)
(* fault while appending loses the unfinished command.                     *)
DriverImplementsDevice == Device!Spec
=============================================================================
