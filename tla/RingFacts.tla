----------------------------- MODULE RingFacts -----------------------------
(***************************************************************************)
(* What the operators on the circular buffer compute, for every number of  *)
(* slots, every set of entries and every consistent ring: the facts that   *)
(* the proofs about the buffer and about the driver share.                 *)
(***************************************************************************)
EXTENDS CircularBuffer, NatFacts, SequencesExt

(* Modular arithmetic on one lap of the array: the increment of            *)
(* aesd-circular-buffer.c:54,77,80 either stays in the array or wraps once.*)
LEMMA ModOneLap ==
  ASSUME NEW n \in Nat \ {0}, NEW x \in Nat
  PROVE  /\ x < n => x % n = x
         /\ n <= x /\ x < 2 * n => x % n = x - n
  OBVIOUS

(* The increment of an offset, spelled out.                                *)
LEMMA NextSlotValue ==
  ASSUME NEW i \in SlotIndex
  PROVE  /\ NextSlot(i) \in SlotIndex
         /\ i + 1 < Slots => NextSlot(i) = i + 1
         /\ i + 1 = Slots => NextSlot(i) = 0
  BY SlotsAssumption, ModOneLap DEF NextSlot, SlotIndex

(* A slot is the last of the array or has a successor in it.               *)
LEMMA LastOrNot ==
  ASSUME NEW i \in SlotIndex PROVE i + 1 < Slots \/ i + 1 = Slots
  BY SlotsAssumption DEF SlotIndex

(* A consistent ring of entries of E, none of which looks like an unused   *)
(* slot: the offsets and the flag agree on which slots are in use.         *)
WellFormed(b, E) ==
  /\ \A e \in E : e # NoEntry /\ e.size \in Nat
  /\ b.entry \in [SlotIndex -> E \cup {NoEntry}]
  /\ b.in_offs \in SlotIndex
  /\ b.out_offs \in SlotIndex
  /\ b.full \in BOOLEAN
  /\ ~b.full => /\ b.out_offs = 0
                 /\ \A i \in SlotIndex : i < b.in_offs <=> b.entry[i] # NoEntry
  /\ b.full => /\ b.in_offs = b.out_offs
                /\ \A i \in SlotIndex : b.entry[i] # NoEntry

(* What aesd_circular_buffer_init leaves is consistent and empty.          *)
LEMMA EmptyWellFormed ==
  ASSUME NEW E, \A e \in E : e # NoEntry /\ e.size \in Nat
  PROVE  WellFormed(EmptyBuffer, E) /\ LiveCount(EmptyBuffer) = 0
<1>1. 0 \in SlotIndex /\ \A i \in SlotIndex : ~(i < 0)
  BY SlotsAssumption DEF SlotIndex
<1>2. (0 - 0) % Slots = 0
  BY SlotsAssumption
<1> QED  BY <1>1, <1>2 DEF WellFormed, EmptyBuffer, LiveCount

(* What add_entry does to the offsets, in the three situations the code  *)
(* can meet: room left, the last free slot, and a full ring.               *)
LEMMA AddShape ==
  ASSUME NEW E, NEW b, WellFormed(b, E), NEW e \in E
  PROVE  LET n == AddEntry(b, e) IN
         /\ ~b.full /\ b.in_offs + 1 < Slots =>
              ~n.full /\ n.out_offs = 0 /\ n.in_offs = b.in_offs + 1
         /\ ~b.full /\ b.in_offs + 1 = Slots =>
              n.full /\ n.out_offs = 0 /\ n.in_offs = 0
         /\ b.full =>
              n.full /\ n.out_offs = NextSlot(b.out_offs) /\ n.in_offs = n.out_offs
<1> DEFINE n == AddEntry(b, e)
           i == b.in_offs
           o == b.out_offs
<1>1. /\ i \in SlotIndex /\ o \in SlotIndex /\ b.full \in BOOLEAN
      /\ ~b.full => o = 0
      /\ b.full => i = o
  BY DEF WellFormed
<1>2. /\ n.entry = [b.entry EXCEPT ![i] = e]
      /\ n.in_offs = NextSlot(i)
      /\ n.out_offs = IF b.full THEN NextSlot(o) ELSE o
      /\ n.full = (b.full \/ NextSlot(i) = n.out_offs)
  BY DEF AddEntry
<1> HIDE DEF n, i, o
<1>3. /\ i + 1 < Slots => NextSlot(i) = i + 1 /\ i + 1 # 0
      /\ i + 1 = Slots => NextSlot(i) = 0
  BY <1>1, NextSlotValue, SlotsAssumption DEF SlotIndex
<1> QED  BY <1>1, <1>2, <1>3 DEF n, i, o

(* add_entry keeps the array, the offsets and the flag consistent.         *)
LEMMA AddWellFormed ==
  ASSUME NEW E, NEW b, WellFormed(b, E), NEW e \in E
  PROVE  WellFormed(AddEntry(b, e), E)
<1> DEFINE n == AddEntry(b, e)
<1> SUFFICES WellFormed(n, E)
  OBVIOUS
<1>1. /\ b.in_offs \in SlotIndex /\ b.out_offs \in SlotIndex /\ b.full \in BOOLEAN
      /\ b.entry \in [SlotIndex -> E \cup {NoEntry}] /\ e # NoEntry
  BY DEF WellFormed
<1>2. /\ n.entry = [b.entry EXCEPT ![b.in_offs] = e] /\ n.full \in BOOLEAN
      /\ n.entry \in [SlotIndex -> E \cup {NoEntry}]
      /\ \A k \in SlotIndex : n.entry[k] # NoEntry <=> k = b.in_offs \/ b.entry[k] # NoEntry
  BY <1>1 DEF AddEntry
<1>a. /\ ~b.full /\ b.in_offs + 1 < Slots =>
           ~n.full /\ n.out_offs = 0 /\ n.in_offs = b.in_offs + 1
      /\ ~b.full /\ b.in_offs + 1 = Slots => n.full /\ n.out_offs = 0 /\ n.in_offs = 0
      /\ b.full => n.full /\ n.out_offs = NextSlot(b.out_offs) /\ n.in_offs = n.out_offs
  BY AddShape
<1> HIDE DEF n
<1>3. CASE ~b.full /\ b.in_offs + 1 < Slots
  <2>1. ~n.full /\ n.out_offs = 0 /\ n.in_offs = b.in_offs + 1
    BY <1>a, <1>3
  <2>2. /\ 0 \in SlotIndex /\ b.in_offs + 1 \in SlotIndex
        /\ \A k \in SlotIndex : k < b.in_offs + 1 <=> k < b.in_offs \/ k = b.in_offs
    BY <1>1, <1>3, SlotsAssumption DEF SlotIndex
  <2> QED  BY <1>2, <1>3, <2>1, <2>2 DEF WellFormed
<1>4. CASE ~b.full /\ b.in_offs + 1 = Slots
  <2>1. n.full /\ n.out_offs = 0 /\ n.in_offs = 0
    BY <1>a, <1>4
  <2>2. 0 \in SlotIndex /\ \A k \in SlotIndex : k < b.in_offs \/ k = b.in_offs
    BY <1>1, <1>4, SlotsAssumption DEF SlotIndex
  <2> QED  BY <1>2, <1>4, <2>1, <2>2 DEF WellFormed
<1>5. CASE b.full
  <2>1. n.full /\ n.out_offs = NextSlot(b.out_offs) /\ n.in_offs = n.out_offs
    BY <1>a, <1>5
  <2>2. n.out_offs \in SlotIndex
    BY <1>1, <2>1, NextSlotValue
  <2> QED  BY <1>2, <1>5, <2>1, <2>2 DEF WellFormed
<1> QED  BY <1>1, <1>3, <1>4, <1>5, LastOrNot

(* The slot of the k-th live entry, as it wraps around the array.          *)
LEMMA SlotAtValue ==
  ASSUME NEW E, NEW b, WellFormed(b, E), NEW k \in SlotIndex
  PROVE  /\ SlotAt(b, k) \in SlotIndex
         /\ SlotAt(b, k) = IF b.out_offs + k < Slots
                             THEN b.out_offs + k
                             ELSE b.out_offs + k - Slots
  <1> DEFINE o == b.out_offs
  <1>1. o \in SlotIndex
    BY DEF WellFormed
  <1> HIDE DEF o
  <1>2. (o + k) % Slots = IF o + k < Slots THEN o + k ELSE o + k - Slots
    <2>1. Slots \in Nat \ {0} /\ o + k \in Nat /\ o + k < 2 * Slots
      BY <1>1, SlotsAssumption DEF SlotIndex
    <2>2. PICK x \in Nat : x = o + k
      BY <2>1
    <2>3. x % Slots = IF x < Slots THEN x ELSE x - Slots
      BY <2>1, <2>2
    <2>4. o \in Nat /\ k \in Nat /\ Slots \in Nat
      BY <1>1, SlotsAssumption DEF SlotIndex
    <2> QED BY <2>2, <2>3, <2>4
  <1>3. SlotAt(b, k) = (o + k) % Slots
    BY DEF SlotAt, o
  <1>4. SlotAt(b, k) \in SlotIndex
    BY <1>1, <1>2, <1>3, SlotsAssumption DEF SlotIndex
  <1> QED BY <1>2, <1>3, <1>4 DEF o

(* How many live entries there are, before and after the ring is full.     *)
LEMMA LiveCountValue ==
  ASSUME NEW E, NEW b, WellFormed(b, E)
  PROVE  /\ LiveCount(b) = IF b.full THEN Slots ELSE b.in_offs
         /\ LiveCount(b) \in 0 .. Slots
  <1> DEFINE i == b.in_offs
  <1>1. i \in SlotIndex
    BY DEF WellFormed
  <1> HIDE DEF i
  <1>2. (i - 0) % Slots = i
    BY <1>1, SlotsAssumption, ModOneLap DEF SlotIndex
  <1>3. LiveCount(b) = IF b.full THEN Slots ELSE i
    BY <1>2 DEF LiveCount, WellFormed, i
  <1> QED BY <1>1, <1>3, SlotsAssumption DEF SlotIndex, i

(* The live entries as a sequence: where each of them is stored.           *)
LEMMA ContentsShape ==
  ASSUME NEW E, NEW b, WellFormed(b, E)
  PROVE  /\ Contents(b) \in Seq(E)
         /\ Len(Contents(b)) = LiveCount(b)
         /\ \A k \in 1 .. LiveCount(b) :
              Contents(b)[k] = b.entry[SlotAt(b, k - 1)]
  <1>1. ASSUME NEW k \in 1 .. LiveCount(b)
        PROVE  b.entry[SlotAt(b, k - 1)] \in E
    <2>1. k - 1 \in SlotIndex
      BY LiveCountValue, SlotsAssumption DEF SlotIndex
    <2>2. SlotAt(b, k - 1) \in SlotIndex
      BY <2>1, SlotAtValue
    <2>3. b.entry[SlotAt(b, k - 1)] # NoEntry
      <3>1. CASE b.full
        BY <3>1, <2>2 DEF WellFormed
      <3>2. CASE ~b.full
        <4>1. b.out_offs = 0 /\ LiveCount(b) = b.in_offs /\ b.in_offs \in SlotIndex
          BY <3>2, LiveCountValue DEF WellFormed
        <4>2. SlotAt(b, k - 1) = k - 1 /\ k - 1 < b.in_offs
          BY <4>1, <2>1, SlotAtValue, SlotsAssumption DEF SlotIndex
        <4> QED BY <3>2, <2>2, <4>2 DEF WellFormed
      <3> QED BY <3>1, <3>2
    <2> QED BY <2>2, <2>3 DEF WellFormed
  <1>2. LiveCount(b) \in Nat
    BY LiveCountValue
  <1>3. Contents(b) \in [1 .. LiveCount(b) -> E]
    BY <1>1 DEF Contents
  <1> QED BY <1>2, <1>3 DEF Contents

(* The slots of a full ring, seen from the next oldest slot: entry k of the *)
(* new order is entry k + 1 of the old one, and the last is the oldest slot.*)
LEMMA RotateSlots ==
  ASSUME NEW E, NEW b, WellFormed(b, E), NEW c, WellFormed(c, E),
         c.out_offs = NextSlot(b.out_offs)
  PROVE  /\ \A k \in 1 .. Slots - 1 : /\ SlotAt(c, k - 1) = SlotAt(b, k)
                                      /\ SlotAt(b, k) # b.out_offs
         /\ SlotAt(c, Slots - 1) = b.out_offs
         /\ SlotAt(b, 0) = b.out_offs
  <1> DEFINE o == b.out_offs
             p == c.out_offs
             Wrap(q, k) == IF q + k < Slots THEN q + k ELSE q + k - Slots
  <1>1. /\ o \in SlotIndex /\ p \in SlotIndex
        /\ p = IF o + 1 < Slots THEN o + 1 ELSE 0
    BY NextSlotValue, SlotsAssumption DEF WellFormed, SlotIndex
  <1>2. \A k \in SlotIndex : SlotAt(b, k) = Wrap(o, k) /\ SlotAt(c, k) = Wrap(p, k)
    BY SlotAtValue
  <1> HIDE DEF o, p
  <1>3. ASSUME NEW k \in 1 .. Slots - 1
        PROVE  SlotAt(c, k - 1) = SlotAt(b, k) /\ SlotAt(b, k) # o
    <2>1. k \in SlotIndex /\ k - 1 \in SlotIndex
      BY SlotsAssumption DEF SlotIndex
    <2>2. Wrap(p, k - 1) = Wrap(o, k) /\ Wrap(o, k) # o
      BY <1>1, <2>1, SlotsAssumption DEF SlotIndex
    <2> QED BY <1>2, <2>1, <2>2
  <1>4. SlotAt(c, Slots - 1) = o /\ SlotAt(b, 0) = o
    <2>1. Slots - 1 \in SlotIndex /\ 0 \in SlotIndex
      BY SlotsAssumption DEF SlotIndex
    <2>2. Wrap(p, Slots - 1) = o /\ Wrap(o, 0) = o
      BY <1>1, SlotsAssumption DEF SlotIndex
    <2> QED BY <1>2, <2>1, <2>2
  <1> QED BY <1>3, <1>4 DEF o

(* Adding to a list that is not full: the entry becomes the last one.      *)
LEMMA AppendToContents ==
  ASSUME NEW E, NEW e \in E,
         NEW b, WellFormed(b, E), ~b.full,
         NEW c, WellFormed(c, E), c.out_offs = 0,
         \A k \in SlotIndex : c.entry[k] = IF k = b.in_offs THEN e ELSE b.entry[k],
         LiveCount(c) = b.in_offs + 1
  PROVE  Contents(c) = Append(Contents(b), e)
  <1>0. /\ Contents(c) \in Seq(E) /\ Len(Contents(c)) = LiveCount(c)
        /\ \A k \in 1 .. LiveCount(c) : Contents(c)[k] = c.entry[SlotAt(c, k - 1)]
    <2>1. ASSUME NEW x, WellFormed(x, E)
          PROVE  /\ Contents(x) \in Seq(E) /\ Len(Contents(x)) = LiveCount(x)
                 /\ \A k \in 1 .. LiveCount(x) : Contents(x)[k] = x.entry[SlotAt(x, k - 1)]
      BY <2>1, ContentsShape
    <2> QED BY <2>1
  <1> DEFINE s == Contents(b)
             t == Contents(c)
             n == b.in_offs
  <1>1. /\ b.out_offs = 0 /\ n \in SlotIndex /\ LiveCount(b) = n
        /\ b.entry \in [SlotIndex -> E \cup {NoEntry}]
    BY LiveCountValue DEF WellFormed
  <1>2. /\ s \in Seq(E) /\ Len(s) = n
        /\ \A k \in 1 .. n : s[k] = b.entry[SlotAt(b, k - 1)]
    BY <1>1, ContentsShape
  <1>3. /\ t \in Seq(E) /\ Len(t) = n + 1
        /\ \A k \in 1 .. n + 1 : t[k] = c.entry[SlotAt(c, k - 1)]
    BY <1>0, <1>1
  <1>4. \A k \in SlotIndex : SlotAt(b, k) = k /\ SlotAt(c, k) = k
    <2> TAKE k \in SlotIndex
    <2>1. k \in Int /\ 0 + k = k /\ k < Slots
      BY SlotsAssumption DEF SlotIndex
    <2> QED BY <1>1, <2>1, SlotAtValue
  <1> HIDE DEF s, t, n
  <1>5. ASSUME NEW k \in 1 .. n + 1
        PROVE  t[k] = IF k <= n THEN s[k] ELSE e
    <2>1. k - 1 \in SlotIndex /\ (k <= n => k \in 1 .. n /\ k - 1 # n)
          /\ (~(k <= n) => k - 1 = n)
      BY <1>1, SlotsAssumption DEF SlotIndex
    <2>2. t[k] = c.entry[k - 1]
      BY <1>3, <1>4, <2>1
    <2>3. c.entry[k - 1] = IF k - 1 = n THEN e ELSE b.entry[k - 1]
      BY <1>1, <2>1 DEF n
    <2>4. k <= n => s[k] = b.entry[k - 1]
      BY <1>2, <1>4, <2>1
    <2> QED BY <2>1, <2>2, <2>3, <2>4
  <1>6. n \in Nat
    BY <1>1, SlotsAssumption DEF SlotIndex
  <1>7. t = Append(s, e)
    BY <1>2, <1>3, <1>5, <1>6
  <1> QED BY <1>7 DEF s, t

(* Adding to a full list: the oldest entry goes, the new one is the last.  *)
LEMMA RotateContents ==
  ASSUME NEW E, NEW e \in E,
         NEW b, WellFormed(b, E), b.full,
         NEW c, WellFormed(c, E), c.full,
         c.out_offs = NextSlot(b.out_offs),
         \A k \in SlotIndex : c.entry[k] = IF k = b.in_offs THEN e ELSE b.entry[k]
  PROVE  /\ Contents(c) = Append(Tail(Contents(b)), e)
         /\ Len(Contents(b)) = Slots
         /\ Head(Contents(b)) = b.entry[b.out_offs]
  <1> DEFINE s == Contents(b)
             t == Contents(c)
  <1>0. Slots \in Nat /\ Slots >= 1
    BY SlotsAssumption
  <1>1. /\ LiveCount(b) = Slots /\ LiveCount(c) = Slots
        /\ b.in_offs = b.out_offs /\ b.out_offs \in SlotIndex
        /\ b.entry \in [SlotIndex -> E \cup {NoEntry}]
    BY LiveCountValue DEF WellFormed
  <1>2. /\ s \in Seq(E) /\ Len(s) = Slots
        /\ \A k \in 1 .. Slots : s[k] = b.entry[SlotAt(b, k - 1)]
    BY <1>1, ContentsShape
  <1>3. /\ t \in Seq(E) /\ Len(t) = Slots
        /\ \A k \in 1 .. Slots : t[k] = c.entry[SlotAt(c, k - 1)]
    <2>1. /\ Contents(c) \in Seq(E) /\ Len(Contents(c)) = LiveCount(c)
          /\ \A k \in 1 .. LiveCount(c) : Contents(c)[k] = c.entry[SlotAt(c, k - 1)]
      BY ContentsShape
    <2> QED BY <1>1, <2>1
  <1> HIDE DEF s, t
  <1>4. ASSUME NEW k \in 1 .. Slots - 1
        PROVE  t[k] = s[k + 1]
    <2>1. k \in 1 .. Slots /\ k + 1 \in 1 .. Slots /\ (k + 1) - 1 = k /\ k \in SlotIndex
      BY <1>0 DEF SlotIndex
    <2>2. t[k] = c.entry[SlotAt(b, k)] /\ SlotAt(b, k) # b.out_offs
      BY <1>3, <2>1, RotateSlots
    <2>3. s[k + 1] = b.entry[SlotAt(b, k)]
      BY <1>2, <2>1
    <2>4. SlotAt(b, k) \in SlotIndex
      BY <2>1, SlotAtValue
    <2> QED BY <1>1, <2>2, <2>3, <2>4
  <1>5. t[Slots] = e
    BY <1>0, <1>1, <1>3, RotateSlots
  <1>6. s[1] = b.entry[b.out_offs]
    <2>1. 1 \in 1 .. Slots /\ 1 - 1 = 0
      BY <1>0
    <2> QED BY <1>2, <2>1, RotateSlots
  <1>7. Head(s) = s[1]
    BY <1>0, <1>2
  <1>8. t = Append(Tail(s), e)
    <2> DEFINE u == Tail(s)
    <2>1. /\ u \in Seq(E) /\ Len(u) = Slots - 1
          /\ \A k \in 1 .. Slots - 1 : u[k] = s[k + 1]
      BY <1>0, <1>2
    <2> HIDE DEF u
    <2>2. \A k \in 1 .. Slots - 1 : t[k] = u[k]
      BY <2>1, <1>4
    <2>3. t = Append(u, e)
      BY <1>0, <1>3, <1>5, <2>1, <2>2
    <2> QED BY <2>3 DEF u
  <1> QED BY <1>2, <1>6, <1>7, <1>8 DEF s, t

(* add_entry appends to the list of the live entries, after dropping the   *)
(* oldest one, whose pointer it returns, when the ring is full.            *)
LEMMA AddContents ==
  ASSUME NEW E, NEW b, WellFormed(b, E), NEW e \in E
  PROVE  /\ ~b.full => /\ Contents(AddEntry(b, e)) = Append(Contents(b), e)
                        /\ Len(Contents(b)) < Slots /\ Overwritten(b) = NULL
         /\ b.full => /\ Contents(AddEntry(b, e)) = Append(Tail(Contents(b)), e)
                       /\ Len(Contents(b)) = Slots
                       /\ Overwritten(b) = Head(Contents(b)).buffptr
<1> DEFINE n == AddEntry(b, e)
<1>1. /\ WellFormed(n, E)
      /\ \A k \in SlotIndex : n.entry[k] = IF k = b.in_offs THEN e ELSE b.entry[k]
  <2>1. n.entry = [b.entry EXCEPT ![b.in_offs] = e] /\ DOMAIN b.entry = SlotIndex
    BY DEF AddEntry, WellFormed
  <2> QED  BY <2>1, AddWellFormed
<1>a. /\ ~b.full /\ b.in_offs + 1 < Slots =>
           ~n.full /\ n.out_offs = 0 /\ n.in_offs = b.in_offs + 1
      /\ ~b.full /\ b.in_offs + 1 = Slots => n.full /\ n.out_offs = 0 /\ n.in_offs = 0
      /\ b.full => n.full /\ n.out_offs = NextSlot(b.out_offs) /\ n.in_offs = n.out_offs
  BY AddShape
<1> HIDE DEF n
<1>2. ASSUME ~b.full
      PROVE  /\ Contents(n) = Append(Contents(b), e)
             /\ Len(Contents(b)) < Slots /\ Overwritten(b) = NULL
  <2>1. b.in_offs \in SlotIndex
    BY DEF WellFormed
  <2>2. LiveCount(n) = b.in_offs + 1 /\ n.out_offs = 0
    <3>1. CASE b.in_offs + 1 < Slots
      BY <1>1, <1>2, <3>1, <1>a, LiveCountValue
    <3>2. CASE b.in_offs + 1 = Slots
      BY <1>1, <1>2, <3>2, <1>a, LiveCountValue
    <3> QED  BY <2>1, <3>1, <3>2, LastOrNot
  <2>3. Contents(n) = Append(Contents(b), e)
    BY <1>1, <1>2, <2>2, AppendToContents
  <2>4. Len(Contents(b)) = b.in_offs
    BY <1>2, ContentsShape, LiveCountValue
  <2> QED  BY <1>2, <2>1, <2>3, <2>4, SlotsAssumption DEF SlotIndex, Overwritten
<1>3. ASSUME b.full
      PROVE  /\ Contents(n) = Append(Tail(Contents(b)), e)
             /\ Len(Contents(b)) = Slots
             /\ Overwritten(b) = Head(Contents(b)).buffptr
  <2>1. n.full /\ n.out_offs = NextSlot(b.out_offs)
    BY <1>3, <1>a
  <2>2. Contents(n) = Append(Tail(Contents(b)), e)
    BY <1>1, <1>3, <2>1, RotateContents
  <2>3. Len(Contents(b)) = Slots /\ Head(Contents(b)) = b.entry[b.out_offs]
    BY <1>1, <1>3, <2>1, RotateContents
  <2> QED  BY <1>3, <2>2, <2>3 DEF Overwritten
<1> QED  BY <1>2, <1>3 DEF n

-----------------------------------------------------------------------------
(* The search.  SearchOffset is defined by recursion; what it computes     *)
(* follows from RecursionUpTo and InductionUpTo.                           *)
SizeAt(b, k) == b.entry[SlotAt(b, k - 1)].size

(* The size the loop adds in its k-th iteration, which is 0 for the slots  *)
(* behind the live entries.                                                *)
LEMMA SizeAtValue ==
  ASSUME NEW E, NEW b, WellFormed(b, E), NEW k \in 1 .. Slots
  PROVE  /\ SlotAt(b, k - 1) \in SlotIndex
         /\ SizeAt(b, k) \in Nat
         /\ LiveCount(b) < k => SizeAt(b, k) = 0
<1>1. k - 1 \in SlotIndex /\ k \in Nat
  BY SlotsAssumption DEF SlotIndex
<1>2. SlotAt(b, k - 1) \in SlotIndex
  BY <1>1, SlotAtValue
<1>3. b.entry[SlotAt(b, k - 1)] \in E \cup {NoEntry}
  BY <1>2 DEF WellFormed
<1>4. SizeAt(b, k) \in Nat
  BY <1>3 DEF SizeAt, NoEntry, WellFormed
<1>5. ASSUME LiveCount(b) < k PROVE b.entry[SlotAt(b, k - 1)] = NoEntry
  <2>1. ~b.full /\ LiveCount(b) = b.in_offs /\ b.out_offs = 0 /\ b.in_offs \in SlotIndex
    BY <1>5, LiveCountValue, SlotsAssumption DEF WellFormed
  <2>2. SlotAt(b, k - 1) = k - 1
    BY <1>1, <2>1, SlotAtValue, SlotsAssumption DEF SlotIndex
  <2>3. ~(k - 1 < b.in_offs)
    BY <1>1, <1>5, <2>1, SlotsAssumption DEF SlotIndex
  <2> QED  BY <1>1, <2>1, <2>2, <2>3 DEF WellFormed
<1> QED  BY <1>2, <1>4, <1>5 DEF SizeAt, NoEntry

(* search_offset starts at 0 and grows by one entry's size per iteration   *)
(* (aesd-circular-buffer.c:36-55).                                         *)
LEMMA SearchOffsetStep ==
  ASSUME NEW E, NEW b, WellFormed(b, E)
  PROVE  /\ SearchOffset(b) \in [0 .. Slots -> Nat]
         /\ SearchOffset(b)[0] = 0
         /\ \A k \in 1 .. Slots : SearchOffset(b)[k] = SearchOffset(b)[k - 1] + SizeAt(b, k)
<1> DEFINE size == [k \in 1 .. Slots |-> SizeAt(b, k)]
           step == [x \in (1 .. Slots) \X Nat |-> x[2] + size[x[1]]]
<1>0. Slots \in Nat
  BY SlotsAssumption
<1>1. step \in StepsOf(Slots, Nat)
  <2>1. \A k \in 1 .. Slots : size[k] \in Nat
    BY SizeAtValue
  <2> HIDE DEF size
  <2>2. \A x \in (1 .. Slots) \X Nat : x[2] + size[x[1]] \in Nat
    BY <2>1
  <2> QED  BY <2>2 DEF StepsOf
<1>2. PICK g \in [0 .. Slots -> Nat] :
        g[0] = 0 /\ \A k \in 1 .. Slots : g[k] = step[<<k, g[k - 1]>>]
  <2> HIDE DEF step
  <2>1. PICK g : Recursion(g, Slots, Nat, 0, step)
    BY <1>0, <1>1, RecursionUpTo
  <2> QED  BY <2>1 DEF Recursion
<1>3. ASSUME NEW k \in 1 .. Slots
      PROVE  g[k] = g[k - 1] + SizeAt(b, k)
  <2>1. g[k - 1] \in Nat
    BY <1>0
  <2>2. \A x \in Nat : step[<<k, x>>] = x + SizeAt(b, k)
    BY <1>0
  <2> QED  BY <1>2, <2>1, <2>2
<1> HIDE DEF step, size
<1>4. g = [k \in 0 .. Slots |-> IF k = 0 THEN 0 ELSE g[k - 1] + SizeAt(b, k)]
  <2>1. ASSUME NEW k \in 0 .. Slots
        PROVE  g[k] = IF k = 0 THEN 0 ELSE g[k - 1] + SizeAt(b, k)
    <3>1. k # 0 => k \in 1 .. Slots
      BY <1>0
    <3> QED  BY <1>2, <1>3, <3>1
  <2>2. g = [k \in 0 .. Slots |-> g[k]]
    OBVIOUS
  <2> QED  BY <2>1, <2>2
<1> DEFINE f == SearchOffset(b)
<1>5. f = [k \in 0 .. Slots |-> IF k = 0 THEN 0 ELSE f[k - 1] + SizeAt(b, k)]
  BY <1>4 DEF SearchOffset, SizeAt
<1> HIDE DEF f
<1>6. f[0] = 0 /\ \A k \in 1 .. Slots : f[k] = f[k - 1] + SizeAt(b, k)
  <2>1. \A k \in 0 .. Slots : f[k] = IF k = 0 THEN 0 ELSE f[k - 1] + SizeAt(b, k)
    BY <1>5
  <2> QED  BY <1>0, <2>1
<1>7. f = [k \in 0 .. Slots |-> f[k]]
  BY <1>5
<1>8. 0 .. Slots \subseteq {k \in 0 .. Slots : f[k] \in Nat}
  <2> DEFINE S == {k \in 0 .. Slots : f[k] \in Nat}
  <2>1. 0 \in S
    BY <1>0, <1>6
  <2>2. \A k \in 1 .. Slots : k - 1 \in S => k \in S
    BY <1>0, <1>6, SizeAtValue
  <2> HIDE DEF S
  <2>3. 0 .. Slots \subseteq S
    BY <1>0, <2>1, <2>2, InductionUpTo
  <2> QED  BY <2>3 DEF S
<1>9. f \in [0 .. Slots -> Nat]
  BY <1>7, <1>8
<1> QED  BY <1>6, <1>9 DEF f

(* search_offset never decreases.                                          *)
LEMMA SearchOffsetGrows ==
  ASSUME NEW E, NEW b, WellFormed(b, E), NEW m \in 0 .. Slots
  PROVE  \A k \in 0 .. m : SearchOffset(b)[k] <= SearchOffset(b)[m]
<1> DEFINE f == SearchOffset(b)
           S == {m2 \in 0 .. Slots : \A k \in 0 .. m2 : f[k] <= f[m2]}
<1>0. Slots \in Nat
  BY SlotsAssumption
<1>1. /\ f \in [0 .. Slots -> Nat]
      /\ \A k \in 1 .. Slots : f[k] = f[k - 1] + SizeAt(b, k) /\ SizeAt(b, k) \in Nat
  BY SearchOffsetStep, SizeAtValue
<1> HIDE DEF f
<1>2. 0 \in S
  BY <1>0, <1>1
<1>3. ASSUME NEW n \in 1 .. Slots, n - 1 \in S PROVE n \in S
  <2>1. f[n - 1] \in Nat /\ f[n] \in Nat /\ f[n - 1] <= f[n]
    BY <1>0, <1>1
  <2>2. ASSUME NEW k \in 0 .. n PROVE f[k] <= f[n]
    <3>1. CASE k = n
      BY <2>1, <3>1
    <3>2. CASE k # n
      <4>1. k \in 0 .. n - 1 /\ k \in 0 .. Slots
        BY <1>0, <3>2
      <4>2. f[k] <= f[n - 1] /\ f[k] \in Nat
        BY <1>1, <1>3, <4>1
      <4> QED  BY <2>1, <4>2
    <3> QED  BY <3>1, <3>2
  <2> QED  BY <1>0, <2>2
<1>4. 0 .. Slots \subseteq S
  <2> HIDE DEF S
  <2> QED  BY <1>0, <1>2, <1>3, InductionUpTo
<1> QED  BY <1>4 DEF f

(* Behind the live entries it stays what it is.                            *)
LEMMA SearchOffsetStops ==
  ASSUME NEW E, NEW b, WellFormed(b, E), NEW m \in 0 .. Slots
  PROVE  SearchOffset(b)[m] <= SearchOffset(b)[LiveCount(b)]
<1> DEFINE f == SearchOffset(b)
           n == LiveCount(b)
           S == {k \in 0 .. Slots : f[k] <= f[n]}
<1>0. Slots \in Nat /\ n \in 0 .. Slots
  BY SlotsAssumption, LiveCountValue
<1>1. /\ f \in [0 .. Slots -> Nat]
      /\ \A k \in 1 .. Slots : /\ f[k] = f[k - 1] + SizeAt(b, k)
                               /\ n < k => SizeAt(b, k) = 0
      /\ \A k \in 0 .. n : f[k] <= f[n]
  BY <1>0, SearchOffsetStep, SizeAtValue, SearchOffsetGrows
<1> HIDE DEF f, n
<1>2. 0 \in S
  BY <1>0, <1>1
<1>3. ASSUME NEW k \in 1 .. Slots, k - 1 \in S PROVE k \in S
  <2>1. CASE n < k
    <3>1. f[k - 1] \in Nat /\ f[k] = f[k - 1]
      BY <1>0, <1>1, <2>1
    <3> QED  BY <1>0, <1>3, <3>1
  <2>2. CASE ~(n < k)
    BY <1>0, <1>1, <2>2
  <2> QED  BY <2>1, <2>2
<1>4. 0 .. Slots \subseteq S
  <2> HIDE DEF S
  <2> QED  BY <1>0, <1>2, <1>3, InductionUpTo
<1> QED  BY <1>4 DEF f, n

(* Appending one more piece to a sequence: what is where.                  *)
LEMMA AppendPiece ==
  ASSUME NEW B, NEW s \in Seq(B), NEW t \in Seq(B)
  PROVE  /\ s \o t \in Seq(B) /\ Len(s \o t) = Len(s) + Len(t)
         /\ \A j \in 1 .. Len(s) : (s \o t)[j] = s[j]
         /\ \A j \in Len(s) + 1 .. Len(s) + Len(t) : (s \o t)[j] = t[j - Len(s)]
  OBVIOUS

(* FlattenSeq puts the pieces one behind the other: so[k] bytes are before *)
(* the end of the k-th piece, and its j-th byte is j behind the so[k - 1]  *)
(* bytes before it.                                                        *)
LEMMA FlattenShape ==
  ASSUME NEW B, NEW s \in Seq(Seq(B)), NEW so \in [0 .. Len(s) -> Nat], so[0] = 0,
         \A k \in 1 .. Len(s) : so[k] = so[k - 1] + Len(s[k])
  PROVE  /\ FlattenSeq(s) \in Seq(B) /\ Len(FlattenSeq(s)) = so[Len(s)]
         /\ \A k \in 1 .. Len(s) : \A j \in 1 .. Len(s[k]) :
              FlattenSeq(s)[so[k - 1] + j] = s[k][j]
<1> DEFINE n == Len(s)
           step == [x \in (1 .. n) \X Seq(B) |-> x[2] \o s[x[1]]]
           F(f) == f = [i \in 1 .. n |-> IF i = 1 THEN s[i] ELSE f[i - 1] \o s[i]]
<1>0. n \in Nat /\ \A k \in 1 .. n : s[k] \in Seq(B)
  OBVIOUS
<1>1. CASE n = 0
  <2>1. s = << >> /\ FlattenSeq(s) = s
    BY <1>1 DEF FlattenSeq
  <2>2. << >> \in Seq(B) /\ Len(<< >>) = 0
    OBVIOUS
  <2> QED  BY <1>1, <2>1, <2>2
<1>2. CASE n # 0
  <2>0. n \in 1 .. n /\ 1 \in 1 .. n
    BY <1>0, <1>2
  <2>1. FlattenSeq(s) = (CHOOSE f : F(f))[n]
    BY <1>2 DEF FlattenSeq
  <2> HIDE DEF n
  <2>2. PICK g : Recursion(g, n, Seq(B), << >>, step)
    <3>1. \A x \in (1 .. n) \X Seq(B) : x[2] \o s[x[1]] \in Seq(B)
      BY <1>0, AppendPiece
    <3>2. step \in StepsOf(n, Seq(B))
      BY <3>1 DEF StepsOf
    <3>3. << >> \in Seq(B)
      OBVIOUS
    <3> HIDE DEF step
    <3> QED  BY <1>0, <3>2, <3>3, RecursionUpTo
  <2>3. /\ g[0] = << >>
        /\ \A k \in 1 .. n : g[k - 1] \in Seq(B) /\ g[k] = g[k - 1] \o s[k]
    <3>1. /\ g \in [0 .. n -> Seq(B)] /\ g[0] = << >>
          /\ \A k \in 1 .. n : g[k] = step[<<k, g[k - 1]>>]
      <4> HIDE DEF step
      <4> QED  BY <2>2 DEF Recursion
    <3>2. \A k \in 1 .. n : k - 1 \in 0 .. n
      BY <1>0
    <3>3. \A k \in 1 .. n : g[k - 1] \in Seq(B)
      BY <3>1, <3>2
    <3>4. \A k \in 1 .. n : step[<<k, g[k - 1]>>] = g[k - 1] \o s[k]
      BY <3>3
    <3> HIDE DEF step
    <3> QED  BY <3>1, <3>3, <3>4
  <2>4. \E f : F(f)
    <3> DEFINE h == [i \in 1 .. n |-> g[i]]
    <3>1. \A i \in 1 .. n : h[i] = IF i = 1 THEN s[i] ELSE h[i - 1] \o s[i]
      <4> SUFFICES ASSUME NEW i \in 1 .. n PROVE g[i] = IF i = 1 THEN s[i] ELSE h[i - 1] \o s[i]
        OBVIOUS
      <4>1. CASE i = 1
        <5>1. g[1] = << >> \o s[1] /\ s[1] \in Seq(B)
          <6>1. 1 \in 1 .. n /\ 1 - 1 = 0
            BY <2>0
          <6>2. g[1] = g[0] \o s[1] /\ s[1] \in Seq(B)
            BY <1>0, <2>3, <6>1
          <6> QED  BY <2>3, <6>2
        <5>2. << >> \o s[1] = s[1]
          BY <5>1
        <5> QED  BY <4>1, <5>1, <5>2
      <4>2. CASE i # 1
        <5>1. i - 1 \in 1 .. n
          BY <1>0, <4>2
        <5>2. h[i - 1] = g[i - 1]
          BY <5>1
        <5> QED  BY <2>3, <4>2, <5>2
      <4> QED  BY <4>1, <4>2
    <3>2. h = [i \in 1 .. n |-> h[i]]
      OBVIOUS
    <3> HIDE DEF h
    <3>3. F(h)
      BY <3>1, <3>2
    <3> QED  BY <3>3
  <2>5. PICK f : F(f) /\ FlattenSeq(s) = f[n]
    <3> HIDE DEF F
    <3>1. F(CHOOSE f : F(f))
      BY <2>4
    <3> QED  BY <2>1, <3>1
  <2>6. f[1] = s[1] /\ \A i \in 1 .. n : i # 1 => f[i] = f[i - 1] \o s[i]
    <3>1. \A i \in 1 .. n : f[i] = IF i = 1 THEN s[i] ELSE f[i - 1] \o s[i]
      BY <2>5
    <3> QED  BY <2>0, <3>1
  <2> HIDE DEF F
  <2>7. /\ so \in [0 .. n -> Nat]
        /\ \A k \in 1 .. n : k - 1 \in 0 .. n /\ so[k] = so[k - 1] + Len(s[k])
    BY <1>0 DEF n
  <2> DEFINE Good(m) == /\ f[m] \in Seq(B) /\ Len(f[m]) = so[m]
                        /\ \A k \in 1 .. m : /\ so[k] <= so[m]
                                             /\ \A j \in 1 .. Len(s[k]) : f[m][so[k - 1] + j] = s[k][j]
             S == {m \in 0 .. n : m # 0 => Good(m)}
  <2>8. 0 \in S
    BY <1>0
  <2>9. ASSUME NEW m \in 1 .. n, m - 1 \in S PROVE m \in S
    <3>1. CASE m = 1
      <4>1. f[1] \in Seq(B) /\ so[1] = Len(s[1]) /\ Len(s[1]) \in Nat /\ so[1 - 1] = 0
        BY <1>0, <2>0, <2>6, <2>7
      <4>2. \A j \in 1 .. Len(s[1]) : f[1][so[1 - 1] + j] = s[1][j]
        BY <2>6, <4>1
      <4>3. \A k \in 1 .. 1 : k = 1
        OBVIOUS
      <4>4. Good(1)
        BY <2>6, <4>1, <4>2, <4>3
      <4> QED  BY <1>0, <3>1, <4>4
    <3>2. CASE m # 1
      <4> DEFINE t == f[m - 1]
                 a == so[m - 1]
      <4>1. Good(m - 1) /\ m - 1 \in 0 .. n /\ m - 1 # 0
        BY <2>9, <3>2
      <4>2. /\ t \in Seq(B) /\ Len(t) = a /\ a \in Nat /\ f[m] = t \o s[m]
            /\ s[m] \in Seq(B) /\ Len(s[m]) \in Nat /\ so[m] = a + Len(s[m])
        <5>1. t \in Seq(B) /\ Len(t) = a
          BY <4>1
        <5>2. f[m] = t \o s[m] /\ s[m] \in Seq(B)
          BY <1>0, <2>6, <3>2
        <5>3. a \in Nat /\ so[m] = a + Len(s[m])
          BY <2>7
        <5> HIDE DEF t, a
        <5>4. Len(s[m]) \in Nat
          BY <5>2
        <5> QED  BY <5>1, <5>2, <5>3, <5>4
      <4>3. /\ f[m] \in Seq(B) /\ Len(f[m]) = so[m]
            /\ \A j \in 1 .. a : f[m][j] = t[j]
            /\ \A j \in a + 1 .. a + Len(s[m]) : f[m][j] = s[m][j - a]
        <5> HIDE DEF t, a
        <5>1. PICK u \in Seq(B) : u = s[m]
          BY <4>2
        <5>2. PICK v \in Seq(B) : v = t
          BY <4>2
        <5>3. /\ v \o u \in Seq(B) /\ Len(v \o u) = Len(v) + Len(u)
              /\ \A j \in 1 .. Len(v) : (v \o u)[j] = v[j]
              /\ \A j \in Len(v) + 1 .. Len(v) + Len(u) : (v \o u)[j] = u[j - Len(v)]
          BY AppendPiece
        <5> QED  BY <4>2, <5>1, <5>2, <5>3
      <4>4. ASSUME NEW j \in 1 .. Len(s[m]) PROVE f[m][a + j] = s[m][j]
        <5>1. a + j \in a + 1 .. a + Len(s[m]) /\ (a + j) - a = j
          BY <4>2
        <5> HIDE DEF t, a
        <5> QED  BY <4>3, <5>1
      <4>5. ASSUME NEW k \in 1 .. m - 1
            PROVE  so[k] <= so[m] /\ \A j \in 1 .. Len(s[k]) : f[m][so[k - 1] + j] = s[k][j]
        <5>0. k \in 1 .. n
          BY <1>0
        <5>1. /\ so[k] <= a /\ so[k] \in Nat /\ so[k - 1] \in Nat
              /\ so[k] = so[k - 1] + Len(s[k]) /\ Len(s[k]) \in Nat
          <6>1. so[k] <= a
            BY <4>1
          <6>2. so[k - 1] \in Nat /\ so[k] \in Nat /\ so[k] = so[k - 1] + Len(s[k])
            <7>1. k \in 0 .. n /\ k - 1 \in 0 .. n
              BY <1>0, <5>0
            <7> QED  BY <2>7, <5>0, <7>1
          <6>3. Len(s[k]) \in Nat
            <7>1. s[k] \in Seq(B)
              BY <1>0, <5>0
            <7> QED  BY <7>1
          <6> QED  BY <6>1, <6>2, <6>3
        <5>2. so[k] <= so[m]
          BY <4>2, <5>1
        <5>3. ASSUME NEW j \in 1 .. Len(s[k]) PROVE f[m][so[k - 1] + j] = s[k][j]
          <6>1. so[k - 1] + j \in 1 .. a
            <7> DEFINE x == so[k - 1]
                       y == so[k]
                       w == Len(s[k])
            <7>1. y <= a /\ a \in Nat /\ x \in Nat /\ y = x + w /\ w \in Nat /\ j \in 1 .. w
              BY <4>2, <5>1, <5>3
            <7> HIDE DEF x, y, w, a
            <7>2. x + j \in 1 .. a
              BY <7>1
            <7> QED  BY <7>2 DEF x
          <6>2. t[so[k - 1] + j] = s[k][j]
            BY <4>1
          <6> HIDE DEF t, a
          <6> QED  BY <4>3, <6>1, <6>2
        <5> QED  BY <5>2, <5>3
      <4>6. \A k \in 1 .. m : k = m \/ k \in 1 .. m - 1
        BY <1>0
      <4>7. so[m] <= so[m]
        BY <4>2
      <4>8. Good(m)
        BY <4>3, <4>4, <4>5, <4>6, <4>7
      <4> QED  BY <1>0, <4>8
    <3> QED  BY <3>1, <3>2
  <2>10. Good(n)
    <3>1. 0 .. n \subseteq S
      <4> HIDE DEF S
      <4> QED  BY <1>0, <2>8, <2>9, InductionUpTo
    <3> QED  BY <1>0, <1>2, <3>1
  <2> QED  BY <2>5, <2>10 DEF n
<1> QED  BY <1>1, <1>2

(* The search stops in the live entry that holds byte n, or finds that     *)
(* there is none.                                                          *)
LEMMA FindValue ==
  ASSUME NEW E, NEW b, WellFormed(b, E), NEW n \in Nat
  PROVE  IF n < SearchOffset(b)[LiveCount(b)]
           THEN \E i \in 1 .. LiveCount(b) :
                  /\ SearchOffset(b)[i - 1] <= n /\ n < SearchOffset(b)[i]
                  /\ FindEntry(b, n) = [slot   |-> SlotAt(b, i - 1),
                                        offset |-> n - SearchOffset(b)[i - 1]]
                  /\ FindEntry(b, n) # NULL
           ELSE FindEntry(b, n) = NULL
<1> DEFINE so == SearchOffset(b)
           l  == LiveCount(b)
           S == {k \in 1 .. Slots : so[k] > n}
<1>0. l \in Nat /\ Slots \in Nat /\ l <= Slots /\ so \in [0 .. Slots -> Nat] /\ so[0] = 0
  BY LiveCountValue, SlotsAssumption, SearchOffsetStep
<1>1. \A k \in 0 .. Slots : so[k] <= so[l]
  BY SearchOffsetStops
<1>2. ASSUME n < so[l]
      PROVE  \E i \in 1 .. l :
               /\ so[i - 1] <= n /\ n < so[i]
               /\ FindEntry(b, n) = [slot |-> SlotAt(b, i - 1), offset |-> n - so[i - 1]]
               /\ FindEntry(b, n) # NULL
  <2> DEFINE i == CHOOSE k \in S : \A m \in S : k <= m
             f == [slot |-> SlotAt(b, i - 1), offset |-> n - so[i - 1]]
  <2>1. S \subseteq Nat /\ l \in S
    <3>1. l # 0 /\ so[l] > n
      BY <1>0, <1>2
    <3> QED  BY <1>0, <3>1
  <2>2. FindEntry(b, n) = f
    BY <2>1 DEF FindEntry, StopAt
  <2>3. i \in S /\ \A m \in S : i <= m
    <3> HIDE DEF S
    <3>1. \E k \in S : \A m \in S : k <= m
      BY <2>1, LeastNat
    <3> QED  BY <3>1
  <2> HIDE DEF i, so
  <2>4. i \in 1 .. l /\ i \in 1 .. Slots /\ so[i] > n /\ so[i] \in Nat
    BY <1>0, <2>1, <2>3
  <2>5. so[i - 1] \in Nat /\ so[i - 1] <= n
    <3>1. i - 1 \notin S
      BY <1>0, <2>3, <2>4
    <3>2. i - 1 = 0 \/ i - 1 \in 1 .. Slots
      BY <1>0, <2>4
    <3> QED  BY <1>0, <2>4, <3>1, <3>2
  <2>6. f \in [slot : SlotIndex, offset : Nat]
    BY <2>4, <2>5, SizeAtValue
  <2>7. f # NULL
    BY <2>6, NullAssumption
  <2>8. n < so[i]
    BY <2>4
  <2> QED  BY <2>2, <2>4, <2>5, <2>7, <2>8
<1>3. ASSUME ~(n < so[l]) PROVE FindEntry(b, n) = NULL
  <2>1. S = {}
    <3> SUFFICES ASSUME NEW k \in 1 .. Slots PROVE ~(so[k] > n)
      OBVIOUS
    <3>1. k \in 0 .. Slots /\ so[k] \in Nat /\ so[l] \in Nat
      BY <1>0
    <3>2. so[k] <= so[l]
      BY <1>1, <3>1
    <3> HIDE DEF so
    <3> QED  BY <1>3, <3>1, <3>2
  <2> QED  BY <2>1 DEF FindEntry, StopAt
<1> HIDE DEF S
<1> QED  BY <1>2, <1>3
=============================================================================
