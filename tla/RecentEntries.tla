---------------------------- MODULE RecentEntries ----------------------------
(***************************************************************************)
(* What the circular buffer promises its caller: a list of the Capacity     *)
(* newest entries in the order they were added.  Adding to a full list      *)
(* drops the oldest entry and hands its data pointer back, so that the      *)
(* caller can free it.                                                      *)
(***************************************************************************)
EXTENDS Integers, Sequences

CONSTANTS Capacity, Entries, NULL

VARIABLES recent,    \* the entries held, oldest first
          dropped    \* the pointer the last addition handed back, or NULL

Init == recent = << >> /\ dropped = NULL

Add(e) ==
  \/ /\ Len(recent) < Capacity
     /\ recent' = Append(recent, e)
     /\ dropped' = NULL
  \/ /\ Len(recent) = Capacity
     /\ recent' = Append(Tail(recent), e)
     /\ dropped' = Head(recent).buffptr

Next == \E e \in Entries : Add(e)

Spec == Init /\ [][Next]_<<recent, dropped>>
=============================================================================
