----------------------------- MODULE WorkerList -----------------------------
(***************************************************************************)
(* The singly linked list of queue.h as aesdsocket uses it: a head pointer, *)
(* and a next pointer in every entry.  An entry has the name of the client  *)
(* its worker serves.                                                       *)
(***************************************************************************)
EXTENDS Naturals, FiniteSets

CONSTANTS Clients, NULL

ASSUME ListAssumption == NULL \notin Clients

SLIST_INIT == [slh_first |-> NULL, sle_next |-> [e \in Clients |-> NULL]]

SLIST_FIRST(list)   == list.slh_first
SLIST_NEXT(list, e) == list.sle_next[e]

(* The entries that following the pointers from the head comes by: the     *)
(* least set that the head and every next pointer in it lead into.         *)
Followed(list, S) ==
  /\ SLIST_FIRST(list) \in S \cup {NULL}
  /\ \A e \in S : SLIST_NEXT(list, e) \in S \cup {NULL}

Listed(list) ==
  {e \in Clients : \A S \in SUBSET Clients : Followed(list, S) => e \in S}

SLIST_INSERT_HEAD(list, e) ==
  [slh_first |-> e, sle_next |-> [list.sle_next EXCEPT ![e] = SLIST_FIRST(list)]]

SLIST_REMOVE_HEAD(list) ==
  [list EXCEPT !.slh_first = SLIST_NEXT(list, SLIST_FIRST(list))]

SLIST_REMOVE_First(list, e) == SLIST_REMOVE_HEAD(list)   \* mutant: does not search

(* The removed entry keeps its own pointer.                                *)
SLIST_REMOVE(list, e) ==
  LET curelm == CHOOSE p \in Listed(list) : SLIST_NEXT(list, p) = e
  IN  IF SLIST_FIRST(list) = e
        THEN SLIST_REMOVE_HEAD(list)
        ELSE [list EXCEPT !.sle_next[curelm] = SLIST_NEXT(list, e)]
=============================================================================
