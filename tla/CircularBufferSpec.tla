------------------------- MODULE CircularBufferSpec -------------------------
(***************************************************************************)
(* A caller that adds entries to one circular buffer, and looks bytes up    *)
(* in it, in every order.  This is how aesd_write and aesd_read (and the    *)
(* unit test of the buffer) use it.                                         *)
(***************************************************************************)
EXTENDS CircularBuffer, SequencesExt

CONSTANT Entries   \* the struct aesd_buffer_entry values a caller may add

(* A caller only adds entries with data in them: aesd_write adds one when  *)
(* its last byte is a newline, so its size is at least 1.                  *)
ASSUME EntriesAssumption ==
  \A e \in Entries : /\ e = [buffptr |-> e.buffptr, size |-> e.size]
                     /\ e.buffptr # NULL
                     /\ e.size \in Nat \ {0}

VARIABLES buffer,    \* the struct aesd_circular_buffer
          dropped    \* the return value of the last add_entry

vars == <<buffer, dropped>>

Init == buffer = EmptyBuffer /\ dropped = NULL

add_entry(e) ==
  /\ buffer' = AddEntry(buffer, e)
  /\ dropped' = Overwritten(buffer)

Next == \E e \in Entries : add_entry(e)

Spec == Init /\ [][Next]_vars

-----------------------------------------------------------------------------
(* Every slot holds an entry or is unused; the offsets stay in the array   *)
(* (aesd-circular-buffer.h:33-52).                                         *)
TypeOK ==
  /\ buffer \in [entry    : [SlotIndex -> Entries \cup {NoEntry}],
                 in_offs  : SlotIndex,
                 out_offs : SlotIndex,
                 full     : BOOLEAN]
  /\ dropped \in {e.buffptr : e \in Entries} \cup {NULL}

(* The offsets and the flag agree on which slots are in use: before the    *)
(* buffer fills up the used slots are 0 .. in_offs-1 and reading starts at *)
(* slot 0; from then on the next slot to write is the oldest one.  This is *)
(* what lets add_entry decide "full" by comparing the two offsets after    *)
(* the increments (aesd-circular-buffer.c:75-83).                          *)
OffsetsAgree ==
  /\ ~buffer.full => /\ buffer.out_offs = 0
                     /\ \A i \in SlotIndex :
                          i < buffer.in_offs <=> buffer.entry[i] # NoEntry
  /\ buffer.full => /\ buffer.in_offs = buffer.out_offs
                    /\ \A i \in SlotIndex : buffer.entry[i] # NoEntry

(* The ring is a list of the newest entries: every add_entry is an Add of  *)
(* RecentEntries, the returned pointer included.                           *)
Recent == INSTANCE RecentEntries
            WITH Capacity <- Slots, recent <- Contents(buffer)

RingIsRecentList == Recent!Spec

-----------------------------------------------------------------------------
(* The reference for the search: number the bytes of the held entries      *)
(* consecutively, oldest first; byte n of the buffer is <<pointer, index>>.*)
Flat ==
  FlattenSeq([k \in 1 .. LiveCount(buffer) |->
                LET e == Contents(buffer)[k] IN [i \in 1 .. e.size |-> <<e.buffptr, i - 1>>]])

(* find_entry_offset_for_fpos returns, for every offset, the entry and     *)
(* index of that byte of the concatenation, and NULL from its end on       *)
(* (aesd-circular-buffer.c:22-29), also when the entries wrap around the   *)
(* array.                                                                  *)
FindIsIndexing ==
  \A n \in 0 .. Len(Flat) + 1 :
    LET f == FindEntry(buffer, n)
    IN  IF n < Len(Flat)
          THEN /\ f # NULL
               /\ <<buffer.entry[f.slot].buffptr, f.offset>> = Flat[n + 1]
               /\ f.offset < buffer.entry[f.slot].size
          ELSE f = NULL
=============================================================================
