------------------------ MODULE CircularBufferProofs ------------------------
(***************************************************************************)
(* For every number of slots and every set of entries: the offsets stay     *)
(* consistent, the ring implements the list of the newest entries, and the  *)
(* search is indexing.  OffsetsAgree is inductive together with TypeOK; the *)
(* rest needs it to know which slot is the oldest and that a full ring has  *)
(* no free slot.                                                            *)
(***************************************************************************)
EXTENDS CircularBufferSpec, RingFacts

Inv == TypeOK /\ OffsetsAgree

(* The invariant says that the ring is consistent.                         *)
LEMMA InvWellFormed == Inv => WellFormed(buffer, Entries)
<1>1. \A e \in Entries : e # NoEntry /\ e.size \in Nat
  BY EntriesAssumption DEF NoEntry
<1> QED  BY <1>1 DEF Inv, TypeOK, OffsetsAgree, WellFormed

(* aesd_circular_buffer_init leaves a consistent, empty buffer.            *)
LEMMA InitInv == Init => Inv
  BY SlotsAssumption DEF Init, Inv, TypeOK, OffsetsAgree, EmptyBuffer, SlotIndex

(* One add_entry keeps the array, the offsets and the flag consistent.     *)
LEMMA AddInv ==
  ASSUME Inv, NEW e \in Entries, add_entry(e)
  PROVE  Inv'
<1>1. WellFormed(buffer, Entries) /\ WellFormed(buffer', Entries)
  BY InvWellFormed, AddWellFormed DEF add_entry
<1>2. OffsetsAgree'
  BY <1>1 DEF WellFormed, OffsetsAgree
<1>3. TypeOK'
  <2>1. dropped' \in {x.buffptr : x \in Entries} \cup {NULL}
    <3>1. buffer.entry[buffer.out_offs] \in Entries \cup {NoEntry}
      BY <1>1 DEF WellFormed
    <3> QED  BY <3>1 DEF add_entry, Overwritten, NoEntry
  <2>2. buffer' = [entry    |-> buffer'.entry,    in_offs |-> buffer'.in_offs,
                   out_offs |-> buffer'.out_offs, full    |-> buffer'.full]
    BY DEF add_entry, AddEntry
  <2>3. /\ buffer'.entry \in [SlotIndex -> Entries \cup {NoEntry}]
        /\ buffer'.in_offs \in SlotIndex /\ buffer'.out_offs \in SlotIndex
        /\ buffer'.full \in BOOLEAN
    BY <1>1 DEF WellFormed
  <2> QED  BY <2>1, <2>2, <2>3 DEF TypeOK
<1> QED  BY <1>2, <1>3 DEF Inv

(* The offsets and the full flag always agree on the used slots            *)
(* (aesd_circular_buffer_add_entry), for every number of slots.            *)
THEOREM OffsetsAlwaysAgree == Spec => [](TypeOK /\ OffsetsAgree)
<1>1. Inv /\ [Next]_vars => Inv'
  <2> SUFFICES ASSUME Inv, [Next]_vars PROVE Inv'
    OBVIOUS
  <2>1. CASE Next
    BY <2>1, AddInv DEF Next
  <2>2. CASE UNCHANGED vars
    BY <2>2 DEF vars, Inv, TypeOK, OffsetsAgree
  <2> QED  BY <2>1, <2>2
<1> QED  BY InitInv, <1>1, PTL DEF Spec, Inv

-----------------------------------------------------------------------------
(* One add_entry is one Add of the abstract list.                          *)
LEMMA AddRefines ==
  ASSUME Inv, NEW e \in Entries, add_entry(e)
  PROVE  Recent!Add(e)
<1>1. WellFormed(buffer, Entries) /\ buffer.full \in BOOLEAN
  BY InvWellFormed DEF WellFormed
<1>2. buffer' = AddEntry(buffer, e) /\ dropped' = Overwritten(buffer)
  BY DEF add_entry
<1>3. CASE ~buffer.full
  BY <1>1, <1>2, <1>3, AddContents DEF Recent!Add
<1>4. CASE buffer.full
  BY <1>1, <1>2, <1>4, AddContents DEF Recent!Add
<1> QED  BY <1>1, <1>3, <1>4

(* The ring implements the list of the newest entries, return value of     *)
(* add_entry included, for every number of slots and every set of entries. *)
THEOREM RingImplementsRecentList == Spec => RingIsRecentList
<1>1. Init => Recent!Init
  BY SlotsAssumption DEF Init, Recent!Init, Contents, LiveCount, EmptyBuffer
<1>2. Inv /\ [Next]_vars => [Recent!Next]_<<Contents(buffer), dropped>>
  <2> SUFFICES ASSUME Inv, [Next]_vars
               PROVE  [Recent!Next]_<<Contents(buffer), dropped>>
    OBVIOUS
  <2>1. CASE Next
    BY <2>1, AddRefines DEF Next, Recent!Next
  <2>2. CASE UNCHANGED vars
    BY <2>2 DEF vars
  <2> QED  BY <2>1, <2>2
<1>3. Spec => []Inv
  BY OffsetsAlwaysAgree DEF Inv
<1> QED  BY <1>1, <1>2, <1>3, PTL DEF Spec, RingIsRecentList, Recent!Spec

-----------------------------------------------------------------------------
(* The bytes of the k-th entry are in Flat from search_offset before it to *)
(* search_offset after it.                                                 *)
LEMMA FlatShape ==
  ASSUME WellFormed(buffer, Entries)
  PROVE  /\ Len(Flat) = SearchOffset(buffer)[LiveCount(buffer)]
         /\ \A k \in 1 .. LiveCount(buffer) :
              LET e == Contents(buffer)[k]
              IN  /\ e = buffer.entry[SlotAt(buffer, k - 1)]
                  /\ SearchOffset(buffer)[k] = SearchOffset(buffer)[k - 1] + e.size
                  /\ \A j \in 1 .. e.size :
                       Flat[SearchOffset(buffer)[k - 1] + j] = <<e.buffptr, j - 1>>
<1> DEFINE c  == Contents(buffer)
           n  == LiveCount(buffer)
           so == SearchOffset(buffer)
           B  == {e.buffptr : e \in Entries} \X Int
           P  == [k \in 1 .. n |-> [i \in 1 .. c[k].size |-> <<c[k].buffptr, i - 1>>]]
           sn == [k \in 0 .. n |-> so[k]]
<1>0. n \in Nat /\ Slots \in Nat /\ n <= Slots
  BY LiveCountValue, SlotsAssumption
<1>1. /\ \A k \in 1 .. n : /\ c[k] = buffer.entry[SlotAt(buffer, k - 1)]
                           /\ c[k] \in Entries /\ c[k].size \in Nat
      /\ so \in [0 .. Slots -> Nat] /\ so[0] = 0
      /\ \A k \in 1 .. n : so[k] = so[k - 1] + c[k].size
  <2>1. c \in Seq(Entries) /\ Len(c) = n
        /\ \A k \in 1 .. n : c[k] = buffer.entry[SlotAt(buffer, k - 1)]
    BY ContentsShape
  <2>2. \A k \in 1 .. n : c[k].size = SizeAt(buffer, k) /\ k \in 1 .. Slots
    BY <1>0, <2>1 DEF SizeAt
  <2> HIDE DEF n, c
  <2>3. \A k \in 1 .. n : c[k] \in Entries
    BY <2>1
  <2> QED  BY <2>1, <2>2, <2>3, SearchOffsetStep, EntriesAssumption
<1>2. Flat = FlattenSeq(P)
  BY DEF Flat
<1> HIDE DEF c, n, so
<1>3. ASSUME NEW k \in 1 .. n
      PROVE  /\ P[k] \in Seq(B) /\ Len(P[k]) = c[k].size
             /\ \A i \in 1 .. c[k].size : P[k][i] = <<c[k].buffptr, i - 1>>
  <2>1. P[k] = [i \in 1 .. c[k].size |-> <<c[k].buffptr, i - 1>>]
    OBVIOUS
  <2>2. \A i \in 1 .. c[k].size : <<c[k].buffptr, i - 1>> \in B
    BY <1>1
  <2> HIDE DEF P, B
  <2> DEFINE p == P[k]
             m == c[k].size
  <2>3. m \in Nat /\ p \in [1 .. m -> B] /\ \A i \in 1 .. m : p[i] = <<c[k].buffptr, i - 1>>
    BY <1>1, <2>1, <2>2
  <2> HIDE DEF p, m
  <2>4. p \in Seq(B) /\ Len(p) = m
    BY <2>3
  <2> QED  BY <2>3, <2>4 DEF p, m
<1>4. P \in Seq(Seq(B)) /\ Len(P) = n
  <2>1. P = [k \in 1 .. n |-> P[k]]
    OBVIOUS
  <2> HIDE DEF P, B
  <2>2. P \in [1 .. n -> Seq(B)]
    BY <1>3, <2>1
  <2> QED  BY <1>0, <2>2
<1> HIDE DEF P, B
<1>5. /\ sn \in [0 .. n -> Nat] /\ sn[0] = 0
      /\ \A k \in 1 .. n : sn[k] = so[k] /\ sn[k - 1] = so[k - 1]
      /\ \A k \in 1 .. n : sn[k] = sn[k - 1] + Len(P[k])
      /\ sn[n] = so[n]
  <2>1. /\ 0 \in 0 .. n /\ n \in 0 .. n /\ \A k \in 0 .. n : k \in 0 .. Slots
        /\ \A k \in 1 .. n : k \in 0 .. n /\ k - 1 \in 0 .. n
    BY <1>0
  <2> QED  BY <1>1, <1>3, <2>1
<1> HIDE DEF sn
<1>6. /\ Len(FlattenSeq(P)) = sn[n]
      /\ \A k \in 1 .. n : \A j \in 1 .. Len(P[k]) : FlattenSeq(P)[sn[k - 1] + j] = P[k][j]
  BY <1>4, <1>5, FlattenShape
<1>7. ASSUME NEW k \in 1 .. n, NEW j \in 1 .. c[k].size
      PROVE  Flat[so[k - 1] + j] = <<c[k].buffptr, j - 1>>
  <2>1. FlattenSeq(P)[sn[k - 1] + j] = P[k][j]
    BY <1>3, <1>6
  <2>2. P[k][j] = <<c[k].buffptr, j - 1>>
    BY <1>3
  <2> QED  BY <1>2, <1>5, <2>1, <2>2
<1>8. Len(Flat) = so[n]
  BY <1>2, <1>5, <1>6
<1> QED  BY <1>1, <1>7, <1>8 DEF c, n, so

(* The search finds the byte the numbering says, or that there is none.    *)
LEMMA FindFlat == WellFormed(buffer, Entries) => FindIsIndexing
<1> SUFFICES ASSUME WellFormed(buffer, Entries) PROVE FindIsIndexing
  OBVIOUS
<1> DEFINE so == SearchOffset(buffer)
           l  == LiveCount(buffer)
<1>1. l \in Nat /\ l <= Slots /\ Slots \in Nat /\ so \in [0 .. Slots -> Nat] /\ Len(Flat) = so[l]
  <2>1. l \in 0 .. Slots
    BY LiveCountValue
  <2>2. so \in [0 .. Slots -> Nat]
    BY SearchOffsetStep
  <2>3. Len(Flat) = so[l]
    BY FlatShape
  <2> HIDE DEF so, l
  <2> QED  BY <2>1, <2>2, <2>3, SlotsAssumption
<1>2. ASSUME NEW n \in Nat, n < Len(Flat)
      PROVE  /\ FindEntry(buffer, n) # NULL
             /\ <<buffer.entry[FindEntry(buffer, n).slot].buffptr, FindEntry(buffer, n).offset>>
                  = Flat[n + 1]
             /\ FindEntry(buffer, n).offset < buffer.entry[FindEntry(buffer, n).slot].size
  <2>1. PICK i \in 1 .. l :
          /\ so[i - 1] <= n /\ n < so[i] /\ FindEntry(buffer, n) # NULL
          /\ FindEntry(buffer, n) = [slot |-> SlotAt(buffer, i - 1), offset |-> n - so[i - 1]]
    BY <1>1, <1>2, FindValue
  <2>2. PICK e : /\ e = buffer.entry[SlotAt(buffer, i - 1)] /\ so[i] = so[i - 1] + e.size
                 /\ \A j \in 1 .. e.size : Flat[so[i - 1] + j] = <<e.buffptr, j - 1>>
    BY FlatShape
  <2>3. so[i - 1] \in Nat /\ so[i] \in Nat
    BY <1>1
  <2> HIDE DEF so, l
  <2>4. PICK o \in Nat : o = n - so[i - 1]
    BY <2>1, <2>3
  <2>5. n + 1 = so[i - 1] + (o + 1) /\ (o + 1) - 1 = o
    BY <2>3, <2>4
  <2>6. e.size = so[i] - so[i - 1] \/ e.size \notin Int
    BY <2>2, <2>3
  <2>7. e.size \in Nat
    <3>1. SlotAt(buffer, i - 1) \in SlotIndex /\ SizeAt(buffer, i) \in Nat
      BY <1>1, SizeAtValue
    <3> QED  BY <2>2, <3>1 DEF SizeAt
  <2>8. o + 1 \in 1 .. e.size /\ o < e.size
    BY <2>1, <2>3, <2>4, <2>6, <2>7
  <2>9. Flat[n + 1] = <<e.buffptr, o>>
    BY <2>2, <2>5, <2>8
  <2> QED  BY <2>1, <2>2, <2>4, <2>8, <2>9
<1>3. ASSUME NEW n \in Nat, ~(n < Len(Flat)) PROVE FindEntry(buffer, n) = NULL
  BY <1>1, <1>3, FindValue
<1>4. \A n \in 0 .. Len(Flat) + 1 : n \in Nat
  BY <1>1
<1> QED  BY <1>2, <1>3, <1>4 DEF FindIsIndexing

(* The array and the offsets keep their types, for every number of slots   *)
(* (aesd-circular-buffer.h:33-52).                                         *)
THEOREM RingTypes == Spec => []TypeOK
  BY OffsetsAlwaysAgree, PTL

(* For every number of slots and every set of entries, whenever it is      *)
(* called: find_entry_offset_for_fpos is indexing into the concatenation   *)
(* of the entries, oldest first, also when they wrap around the array      *)
(* (aesd-circular-buffer.c:22-59).                                         *)
THEOREM SearchIsIndexing == Spec => []FindIsIndexing
<1>1. TypeOK /\ OffsetsAgree => FindIsIndexing
  BY InvWellFormed, FindFlat DEF Inv
<1> QED  BY <1>1, OffsetsAlwaysAgree, PTL
=============================================================================
