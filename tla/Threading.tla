----------------------------- MODULE Threading -----------------------------
(***************************************************************************)
(* examples/threading/threading.c: threads that sleep, lock a shared mutex, *)
(* sleep and unlock it, and report whether all of that succeeded.           *)
(***************************************************************************)
EXTENDS Naturals

CONSTANTS Starts,   \* the calls of start_thread_obtaining_mutex; each names its thread
          NoThread

VARIABLES
  at,         \* [Starts -> where the call or its thread is]
  mutex,      \* the thread that holds the mutex, or NoThread
  data,       \* [Starts -> what became of the thread_data]
  success     \* [Starts -> data->thread_complete_success]

vars == <<at, mutex, data, success>>

Init ==
  /\ at = [t \in Starts |-> "new"] /\ mutex = NoThread
  /\ data = [t \in Starts |-> "none"] /\ success = [t \in Starts |-> FALSE]

Go(t, from, to) == at[t] = from /\ at' = [at EXCEPT ![t] = to]

(* thread_data_create and pthread_create; data of a thread that cannot be  *)
(* created is not freed.                                                   *)
start_thread_obtaining_mutex(t) ==
  /\ \/ Go(t, "new", "sleep") /\ data' = [data EXCEPT ![t] = "thread"]
     \/ Go(t, "new", "refused") /\ UNCHANGED data                   \* malloc
     \/ Go(t, "new", "refused") /\ data' = [data EXCEPT ![t] = "leaked"]
  /\ UNCHANGED <<mutex, success>>

(* try_sleep(wait_to_obtain_ms); any failure skips what follows it.        *)
sleep_before(t) ==
  /\ Go(t, "sleep", "lock") \/ Go(t, "sleep", "fail")
  /\ UNCHANGED <<mutex, data, success>>

(* pthread_mutex_lock waits as long as another thread has the mutex.       *)
try_lock(t) ==
  /\ Go(t, "lock", "hold") /\ mutex = NoThread
  /\ mutex' = t
  /\ UNCHANGED <<data, success>>

(* It may fail, and nothing obliges it to: ThreadFairness leaves this out. *)
try_lock_fails(t) == Go(t, "lock", "fail") /\ UNCHANGED <<mutex, data, success>>

(* try_sleep(wait_to_release_ms): its failure skips the unlock.            *)
sleep_holding(t) ==
  /\ Go(t, "hold", "unlock") \/ Go(t, "hold", "fail")
  /\ UNCHANGED <<mutex, data, success>>

try_unlock_Keeps(t) ==   \* mutant: the mutex stays locked
  Go(t, "unlock", "succeed") /\ UNCHANGED <<mutex, data, success>>

try_unlock(t) ==
  /\ \/ Go(t, "unlock", "succeed") /\ mutex' = NoThread
     \/ Go(t, "unlock", "fail") /\ UNCHANGED mutex
  /\ UNCHANGED <<data, success>>

(* thread_complete_success is set and the thread returns its data.         *)
finish(t) ==
  /\ \/ Go(t, "succeed", "done") /\ success' = [success EXCEPT ![t] = TRUE]
     \/ Go(t, "fail", "done") /\ UNCHANGED success
  /\ data' = [data EXCEPT ![t] = "returned"]
  /\ UNCHANGED mutex

(* The caller joins the thread, reads the result and frees the data.       *)
join(t) ==
  /\ Go(t, "done", "joined")
  /\ data' = [data EXCEPT ![t] = "freed"]
  /\ UNCHANGED <<mutex, success>>

Step(t) ==
  \/ start_thread_obtaining_mutex(t) \/ sleep_before(t) \/ try_lock(t)
  \/ try_lock_fails(t) \/ sleep_holding(t) \/ try_unlock(t) \/ finish(t) \/ join(t)

Next == \E t \in Starts : Step(t)

-----------------------------------------------------------------------------
Over(t) == at[t] \in {"done", "joined"}

(* A thread that reports success has let go of the mutex, and a mutex that *)
(* no running thread will unlock was left behind by one that reports       *)
(* failure: the caller can tell from the results.                          *)
FailureTellsMutex ==
  \A t \in Starts : Over(t) /\ mutex = t => ~success[t]

(* Every thread that was started gets the mutex and ends, unless one that  *)
(* reports failure has ended with it (its second sleep or its unlock did   *)
(* not succeed): then those that wait for the mutex wait for ever.         *)
Abandoned == \E u \in Starts : Over(u) /\ mutex = u /\ ~success[u]

ThreadsEnd == \A t \in Starts : at[t] = "sleep" ~> Over(t) \/ Abandoned
=============================================================================
