--------------------------- MODULE CircularBuffer ---------------------------
(***************************************************************************)
(* aesd-char-driver/aesd-circular-buffer.{h,c}: the ring of the newest      *)
(* write operations, as operators on one record                            *)
(*                                                                         *)
(*   [entry, in_offs, out_offs, full]     (struct aesd_circular_buffer)    *)
(*                                                                         *)
(* None of the C functions locks anything; the caller serialises them      *)
(* (CharDriver does, with buf_lock).                                       *)
(***************************************************************************)
EXTENDS Integers, Sequences

CONSTANTS
  Slots,   \* AESDCHAR_MAX_WRITE_OPERATIONS_SUPPORTED
  NULL     \* the null pointer

(* in_offs, out_offs and the loop index of the search are uint8_t.         *)
ASSUME SlotsAssumption == Slots \in 1 .. 256

SlotIndex == 0 .. Slots - 1

(* The search tells "not found" from what it finds.                        *)
ASSUME NullAssumption == NULL \notin [slot : SlotIndex, offset : Nat]

(* An unused struct aesd_buffer_entry, as memset leaves it.                *)
NoEntry == [buffptr |-> NULL, size |-> 0]

(* aesd_circular_buffer_init                                               *)
EmptyBuffer ==
  [entry    |-> [i \in SlotIndex |-> NoEntry],
   in_offs  |-> 0,
   out_offs |-> 0,
   full     |-> FALSE]

(* The modular increment used for both offsets.                            *)
NextSlot_NoWrap(i) == i + 1      \* mutant: no modulus

NextSlot(i) == (i + 1) % Slots

(***************************************************************************)
(* aesd_circular_buffer_add_entry: the buffer it leaves behind ...         *)
(***************************************************************************)
AddEntry_OutStays(b, e) ==  \* mutant: out_offs not advanced when full
  LET in == NextSlot(b.in_offs)
  IN  [entry    |-> [b.entry EXCEPT ![b.in_offs] = e],
       in_offs  |-> in,
       out_offs |-> b.out_offs,
       full     |-> b.full \/ in = b.out_offs]

AddEntry(b, e) ==
  LET out == IF b.full THEN NextSlot(b.out_offs) ELSE b.out_offs
      in  == NextSlot(b.in_offs)
  IN  [entry    |-> [b.entry EXCEPT ![b.in_offs] = e],
       in_offs  |-> in,
       out_offs |-> out,
       full     |-> b.full \/ in = out]

(* ... and the pointer it returns, which the caller has to free.           *)
Overwritten_Newest(b) ==    \* mutant: returns the newest entry's data
  IF b.full THEN b.entry[(b.in_offs + Slots - 1) % Slots].buffptr ELSE NULL

Overwritten(b) == IF b.full THEN b.entry[b.out_offs].buffptr ELSE NULL

(***************************************************************************)
(* aesd_circular_buffer_find_entry_offset_for_fpos.  The do-while loop     *)
(* visits all slots once, oldest first; SearchOffset(b)[k] is the value of *)
(* search_offset after k slots.  The result is the slot of the first entry *)
(* that ends beyond char_offset and the offset into it, or NULL.           *)
(***************************************************************************)
SlotAt(b, k) == (b.out_offs + k) % Slots

SearchOffset(b) ==
  LET sum[k \in 0 .. Slots] ==
        IF k = 0 THEN 0 ELSE sum[k - 1] + b.entry[SlotAt(b, k - 1)].size
  IN  sum

(* Stop at the first iteration of a set of them.                           *)
StopAt(b, char_offset, iterations) ==
  IF iterations = {} THEN NULL
  ELSE LET k == CHOOSE k \in iterations : \A m \in iterations : k <= m
       IN  [slot   |-> SlotAt(b, k - 1),
            offset |-> char_offset - SearchOffset(b)[k - 1]]

FindEntry_Inclusive(b, char_offset) ==   \* mutant: >= instead of >
  StopAt(b, char_offset,
         {k \in 1 .. Slots : SearchOffset(b)[k] >= char_offset})

FindEntry(b, char_offset) ==
  StopAt(b, char_offset,
         {k \in 1 .. Slots : SearchOffset(b)[k] > char_offset})

-----------------------------------------------------------------------------
(* The entries the buffer holds, oldest first.                             *)
LiveCount(b) == IF b.full THEN Slots ELSE (b.in_offs - b.out_offs) % Slots

Contents(b) == [k \in 1 .. LiveCount(b) |-> b.entry[SlotAt(b, k - 1)]]
=============================================================================
