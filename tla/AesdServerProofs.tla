-------------------------- MODULE AesdServerProofs --------------------------
(***************************************************************************)
(* The server, for every number of clients, every packet and every failure:*)
(* the mutex output_lock_ and the data file; the memory of the workers; the*)
(* main thread's book-keeping of them, which is the list, the entry in its *)
(* hands and the freed ones, up to the end of srv_shutdown; and what the   *)
(* workers and the timestamps leave in the output.                         *)
(***************************************************************************)
EXTENDS AesdServer, NatFacts, FiniteSetTheorems, TLAPS

LockTypes ==
  /\ wpc \in [Clients -> WorkerLocs]
  /\ conn \in [Clients -> ConnStates]
  /\ backlog \in Seq(Clients)
  /\ lock \in Clients \cup {NULL}

(* A connection that waits for accept() has no worker yet and waits once.  *)
BacklogUnserved ==
  \A i \in 1 .. Len(backlog) :
    /\ wpc[backlog[i]] = "none" /\ conn[backlog[i]] # "new"
    /\ \A j \in 1 .. Len(backlog) : backlog[j] = backlog[i] => j = i

(* A client that has a worker has connected.                               *)
WorkersConnected == \A c \in Clients : wpc[c] # "none" => conn[c] # "new"

(* The client for whom a worker is being started has none.                 *)
SpawnsOnce ==
  main = "spawn" =>
    /\ subject \in Clients
    /\ wpc[subject] = "none" /\ conn[subject] # "new"
    /\ \A i \in 1 .. Len(backlog) : backlog[i] # subject

(* LockMatchesFile alone is not inductive: starting a second worker for a  *)
(* client would take the first one out of the file with the mutex held.    *)
LockInv ==
  LockTypes /\ LockMatchesFile /\ BacklogUnserved /\ WorkersConnected /\ SpawnsOnce

(* Initially nobody holds the mutex and no worker exists.                  *)
LEMMA LockInit == Init => LockInv
  BY ServerAssumption
  DEF Init, LockInv, LockTypes, LockMatchesFile, InFile, BacklogUnserved,
      WorkersConnected, SpawnsOnce, WorkerLocs, ConnStates, Threads

(* A step that touches none of the variables of the invariant keeps it.    *)
LEMMA LockFrame ==
  ASSUME LockInv, UNCHANGED <<wpc, conn, backlog, lock>>,
         main' # "spawn" \/ UNCHANGED <<main, subject>>
  PROVE  LockInv'
  BY DEF LockInv, LockTypes, LockMatchesFile, InFile, BacklogUnserved,
         WorkersConnected, SpawnsOnce

(* The steps of the main thread that leave workers and connections alone.  *)
LEMMA LockMainFrame ==
  ASSUME LockInv,
         \/ start \/ server_init \/ srv_bind \/ srv_listen \/ run_start \/ run_loop
         \/ accept_enter \/ insert_worker \/ check_worker \/ check_join \/ check_end
         \/ stop_worker \/ stop_join \/ shutdown_unlink \/ run_return
  PROVE  LockInv'
  BY LockFrame
  DEF Control, start, server_init, srv_bind, srv_listen, run_start, run_loop, accept_enter,
      insert_worker, check_worker, check_join, check_end, stop_worker, stop_join,
      Join, shutdown_unlink, run_return, AtMain, listVars, fileVars, netVars, workVars

(* accept_client takes the first connection out of the backlog.            *)
LEMMA LockAccept == ASSUME LockInv, accept_client PROVE LockInv'
<1>1. CASE UNCHANGED backlog /\ main' = "loop"
  BY <1>1, LockFrame DEF accept_client, workVars, fileVars
<1>2. CASE subject' = Head(backlog) /\ backlog' = Tail(backlog)
  <2>1. backlog # << >> /\ backlog \in Seq(Clients)
    BY DEF accept_client, LockInv, LockTypes
  <2>2. /\ backlog' \in Seq(Clients) /\ Len(backlog') = Len(backlog) - 1
        /\ \A i \in 1 .. Len(backlog') : backlog'[i] = backlog[i + 1]
        /\ subject' = backlog[1] /\ 1 \in 1 .. Len(backlog)
        /\ Len(backlog) \in Nat
    BY <2>1, <1>2
  <2>3. UNCHANGED <<wpc, conn, lock>>
    BY DEF accept_client, workVars, fileVars
  <2>4. LockTypes' /\ LockMatchesFile' /\ WorkersConnected'
    BY <2>2, <2>3 DEF LockInv, LockTypes, LockMatchesFile, InFile, WorkersConnected
  <2>5. BacklogUnserved'
    <3>1. \A i \in 1 .. Len(backlog') : i + 1 \in 1 .. Len(backlog) /\ backlog'[i] = backlog[i + 1]
      BY <2>2
    <3>2. \A i, j \in 1 .. Len(backlog') : j + 1 = i + 1 => j = i
      BY <2>2
    <3> QED  BY <2>3, <3>1, <3>2 DEF LockInv, BacklogUnserved
  <2>6. SpawnsOnce'
    BY <2>1, <2>2, <2>3 DEF LockInv, BacklogUnserved, SpawnsOnce
  <2> QED  BY <2>4, <2>5, <2>6 DEF LockInv
<1> QED  BY <1>1, <1>2 DEF accept_client

(* The new worker starts outside the file, and its client had none.        *)
LEMMA LockStart == ASSUME LockInv, start_worker PROVE LockInv'
<1>1. CASE UNCHANGED wpc /\ main' = "killed"
  BY <1>1, LockFrame DEF start_worker, netVars, fileVars
<1>2. CASE wpc' = Set(wpc, subject, "recv_lock") /\ main' = "insert"
  <2>1. /\ subject \in Clients /\ wpc[subject] = "none" /\ conn[subject] # "new"
        /\ \A i \in 1 .. Len(backlog) : backlog[i] # subject
    BY DEF start_worker, AtMain, LockInv, SpawnsOnce
  <2>2. UNCHANGED <<conn, backlog, lock>>
    BY DEF start_worker, netVars, fileVars
  <2>3. LockTypes' /\ WorkersConnected' /\ SpawnsOnce'
    BY <1>2, <2>1, <2>2
    DEF LockInv, LockTypes, WorkersConnected, SpawnsOnce, Set, WorkerLocs
  <2>4. LockMatchesFile'
    BY <1>2, <2>1, <2>2 DEF LockInv, LockTypes, LockMatchesFile, InFile, Set
  <2>5. BacklogUnserved'
    BY <1>2, <2>1, <2>2 DEF LockInv, LockTypes, BacklogUnserved, Set
  <2> QED  BY <2>3, <2>4, <2>5 DEF LockInv
<1> QED  BY <1>1, <1>2 DEF start_worker

(* srv_shutdown drops the waiting connections.                             *)
LEMMA LockShutdown == ASSUME LockInv, shutdown_begin PROVE LockInv'
<1>1. /\ UNCHANGED <<wpc, lock>> /\ backlog' = << >> /\ main' = "stop"
      /\ conn' \in [Clients -> ConnStates]
      /\ \A c \in Clients : conn'[c] = "new" => conn[c] = "new"
  BY DEF shutdown_begin, workVars, fileVars, LockInv, LockTypes, ConnStates
<1> QED
  BY <1>1 DEF LockInv, LockTypes, LockMatchesFile, InFile, BacklogUnserved,
              WorkersConnected, SpawnsOnce

(* What a worker's step does to the mutex: it keeps it when it stays on    *)
(* the same side of the file, takes it free when it enters, drops its own  *)
(* when it leaves.                                                         *)
WorkerMove(c) ==
  \E loc \in WorkerLocs \ {"none"} :
    /\ wpc[c] # "none" /\ wpc' = Set(wpc, c, loc)
    /\ \/ UNCHANGED lock /\ (InFile(c) <=> InFile(c)')
       \/ lock = NULL /\ lock' = c /\ InFile(c)'
       \/ InFile(c) /\ lock' = NULL /\ ~InFile(c)'

(* Every such move keeps the invariant.                                    *)
LEMMA LockMove ==
  ASSUME LockInv, NEW c \in Clients, WorkerMove(c), UNCHANGED <<backlog, subject>>,
         main' # "spawn" \/ UNCHANGED main,
         conn' \in [Clients -> ConnStates],
         \A d \in Clients : conn'[d] = "new" => conn[d] = "new"
  PROVE  LockInv'
<1>1. PICK loc \in WorkerLocs \ {"none"} :
        /\ wpc[c] # "none" /\ wpc' = Set(wpc, c, loc)
        /\ \/ UNCHANGED lock /\ (InFile(c) <=> InFile(c)')
           \/ lock = NULL /\ lock' = c /\ InFile(c)'
           \/ InFile(c) /\ lock' = NULL /\ ~InFile(c)'
  BY DEF WorkerMove
<1>2. /\ wpc \in [Clients -> WorkerLocs] /\ wpc' \in [Clients -> WorkerLocs]
      /\ wpc'[c] = loc /\ \A d \in Clients \ {c} : wpc'[d] = wpc[d]
  BY <1>1 DEF LockInv, LockTypes, Set
<1>3. LockTypes' /\ WorkersConnected'
  BY <1>1, <1>2 DEF LockInv, LockTypes, WorkersConnected
<1>4. LockMatchesFile'
  BY <1>1, <1>2, ServerAssumption DEF LockInv, LockMatchesFile, InFile, Threads
<1>5. \A d \in Clients : wpc[d] = "none" => wpc'[d] = "none"
  BY <1>1, <1>2
<1>6. BacklogUnserved' /\ SpawnsOnce'
  BY <1>5 DEF LockInv, LockTypes, BacklogUnserved, SpawnsOnce
<1> QED  BY <1>3, <1>4, <1>6 DEF LockInv

(* Every step of a worker, on every path through receive_data and          *)
(* send_response, is such a move, or the death of the process.             *)
LEMMA LockWorker ==
  ASSUME LockInv, NEW c \in Clients, WorkerStep(c) PROVE LockInv'
<1> USE DEF AtWorker, Goto, Others, mainVars, listVars, fileVars, netVars
<1>0. /\ wpc \in [Clients -> WorkerLocs] /\ conn \in [Clients -> ConnStates]
      /\ lock = c <=> InFile(c)
  BY DEF LockInv, LockTypes, LockMatchesFile
<1>a. ASSUME NEW loc \in WorkerLocs, wpc' = Set(wpc, c, loc)
      PROVE  wpc'[c] = loc
  BY <1>0, <1>a DEF Set
<1>1. CASE recv_lock(c)
  <2>1. WorkerMove(c)
    BY <1>0, <1>1, <1>a DEF recv_lock, WorkerMove, InFile, WorkerLocs
  <2> QED  BY <1>0, <1>1, <2>1, LockMove DEF recv_lock
<1>2. CASE recv_check(c)
  <2>1. WorkerMove(c)
    BY <1>0, <1>2, <1>a DEF recv_check, WorkerMove, InFile, WorkerLocs
  <2> QED  BY <1>0, <1>2, <2>1, LockMove DEF recv_check
<1>3. CASE recv(c)
  <2>1. WorkerMove(c)
    BY <1>0, <1>3, <1>a DEF recv, WorkerMove, InFile, WorkerLocs
  <2> QED  BY <1>0, <1>3, <2>1, LockMove DEF recv
<1>4. CASE recv_error(c)
  <2>1. WorkerMove(c)
    BY <1>0, <1>4, <1>a DEF recv_error, WorkerMove, InFile, WorkerLocs
  <2> QED  BY <1>0, <1>4, <2>1, LockMove DEF recv_error
<1>5. CASE recv_done(c)
  <2>1. WorkerMove(c)
    BY <1>0, <1>5, <1>a DEF recv_done, WorkerMove, InFile, WorkerLocs
  <2> QED  BY <1>0, <1>5, <2>1, LockMove DEF recv_done
<1>6. CASE recv_return(c)
  <2>1. WorkerMove(c)
    BY <1>0, <1>6, <1>a DEF recv_return, WorkerMove, InFile, WorkerLocs
  <2> QED  BY <1>0, <1>6, <2>1, LockMove DEF recv_return
<1>7. CASE send_lock(c)
  <2>1. WorkerMove(c)
    BY <1>0, <1>7, <1>a DEF send_lock, WorkerMove, InFile, WorkerLocs
  <2> QED  BY <1>0, <1>7, <2>1, LockMove DEF send_lock
<1>8. CASE send_check(c)
  <2>1. WorkerMove(c)
    BY <1>0, <1>8, <1>a DEF send_check, SendEnd, WorkerMove, InFile, WorkerLocs
  <2> QED  BY <1>0, <1>8, <2>1, LockMove DEF send_check
<1>9. CASE send(c)
  <2>1. WorkerMove(c)
    BY <1>0, <1>9, <1>a DEF send, SendEnd, WorkerMove, InFile, WorkerLocs
  <2>2. /\ conn' \in [Clients -> ConnStates]
        /\ \A d \in Clients : conn'[d] = "new" => conn[d] = "new"
    BY <1>0, <1>9 DEF send, Set, ConnStates
  <2> QED  BY <1>9, <2>1, <2>2, LockMove DEF send
<1>10. CASE send_error(c)
  <2>1. WorkerMove(c)
    BY <1>0, <1>10, <1>a DEF send_error, SendEnd, WorkerMove, InFile, WorkerLocs
  <2> QED  BY <1>0, <1>10, <2>1, LockMove DEF send_error
<1>11. CASE send_sigpipe(c)
  BY <1>11, LockFrame DEF send_sigpipe, workVars
<1>12. CASE close_client(c)
  <2>1. WorkerMove(c)
    BY <1>0, <1>12, <1>a DEF close_client, WorkerMove, InFile, WorkerLocs
  <2>2. /\ conn' \in [Clients -> ConnStates]
        /\ \A d \in Clients : conn'[d] = "new" => conn[d] = "new"
    BY <1>0, <1>12 DEF close_client, Set, ConnStates
  <2> QED  BY <1>12, <2>1, <2>2, LockMove DEF close_client
<1>13. CASE worker_exit(c)
  <2>1. WorkerMove(c)
    BY <1>0, <1>13, <1>a DEF worker_exit, WorkerMove, InFile, WorkerLocs
  <2> QED  BY <1>0, <1>13, <2>1, LockMove DEF worker_exit
<1>14. CASE worker_end(c)
  <2>1. WorkerMove(c)
    BY <1>0, <1>14, <1>a DEF worker_end, WorkerMove, InFile, WorkerLocs
  <2> QED  BY <1>0, <1>14, <2>1, LockMove DEF worker_end
<1> QED
  BY <1>1, <1>2, <1>3, <1>4, <1>5, <1>6, <1>7, <1>8, <1>9, <1>10, <1>11, <1>12,
     <1>13, <1>14 DEF WorkerStep

(* The signal handlers: alarm_handler takes and releases the mutex in one  *)
(* step and never leaves with it.                                          *)
LEMMA LockSignals ==
  ASSUME LockInv,
         signal_handler \/ signal_default \/ timer_expires \/ \E t \in Threads : alarm_handler(t)
  PROVE  LockInv'
<1>1. /\ UNCHANGED <<wpc, conn, backlog, lock, subject>>
      /\ main' # "spawn" \/ UNCHANGED main
  BY DEF signal_handler, signal_default, timer_expires, alarm_handler, workVars,
         fileVars, netVars, mainVars, listVars
<1> QED  BY <1>1, LockFrame

(* A client that connects joins the backlog once.                          *)
LEMMA LockConnect ==
  ASSUME LockInv, NEW c \in Clients, client_connect(c) PROVE LockInv'
<1>1. /\ conn[c] = "new" /\ conn' = Set(conn, c, "open")
      /\ backlog' = Append(backlog, c)
      /\ UNCHANGED <<wpc, lock, main, subject>>
  BY DEF client_connect, workVars, fileVars, mainVars, listVars
<1>2. conn' \in [Clients -> ConnStates] /\ conn'[c] = "open"
      /\ \A d \in Clients \ {c} : conn'[d] = conn[d]
  BY <1>1 DEF LockInv, LockTypes, Set, ConnStates
<1>3. /\ backlog' \in Seq(Clients) /\ Len(backlog') = Len(backlog) + 1
      /\ \A i \in 1 .. Len(backlog) : backlog'[i] = backlog[i] /\ backlog[i] \in Clients
      /\ backlog'[Len(backlog) + 1] = c /\ Len(backlog) \in Nat
  BY <1>1 DEF LockInv, LockTypes
<1>4. wpc[c] = "none" /\ \A i \in 1 .. Len(backlog) : backlog[i] # c
  BY <1>1 DEF LockInv, WorkersConnected, BacklogUnserved
<1>5. LockTypes' /\ LockMatchesFile' /\ WorkersConnected'
  BY <1>1, <1>2, <1>3
  DEF LockInv, LockTypes, LockMatchesFile, InFile, WorkersConnected
<1>6. BacklogUnserved'
  <2> SUFFICES ASSUME NEW i \in 1 .. Len(backlog')
               PROVE  /\ wpc'[backlog'[i]] = "none" /\ conn'[backlog'[i]] # "new"
                      /\ \A j \in 1 .. Len(backlog') : backlog'[j] = backlog'[i] => j = i
    BY DEF BacklogUnserved
  <2>1. CASE i = Len(backlog) + 1
    BY <2>1, <1>1, <1>2, <1>3, <1>4
  <2>2. CASE i \in 1 .. Len(backlog)
    BY <2>2, <1>1, <1>2, <1>3, <1>4 DEF LockInv, BacklogUnserved
  <2> QED  BY <2>1, <2>2, <1>3
<1>7. SpawnsOnce'
  <2> SUFFICES ASSUME main = "spawn"
               PROVE  /\ subject \in Clients
                      /\ wpc[subject] = "none" /\ conn'[subject] # "new"
                      /\ \A i \in 1 .. Len(backlog') : backlog'[i] # subject
    BY <1>1 DEF SpawnsOnce
  <2>1. /\ subject \in Clients /\ wpc[subject] = "none" /\ conn[subject] # "new"
        /\ \A i \in 1 .. Len(backlog) : backlog[i] # subject
    BY DEF LockInv, SpawnsOnce
  <2>2. subject # c
    BY <1>1, <2>1
  <2> QED  BY <2>1, <2>2, <1>2, <1>3
<1> QED  BY <1>5, <1>6, <1>7 DEF LockInv

(* A client that sends, reads or leaves changes nothing the invariant      *)
(* speaks of, except its own connection.                                   *)
LEMMA LockClient ==
  ASSUME LockInv, NEW c \in Clients, client_send(c) \/ client_read(c) \/ client_leave(c)
  PROVE  LockInv'
<1>1. CASE client_send(c) \/ client_read(c)
  BY <1>1, LockFrame DEF client_send, client_read, workVars, fileVars, mainVars, listVars
<1>2. CASE client_leave(c)
  <2>1. /\ UNCHANGED <<wpc, lock, backlog, main, subject>>
        /\ conn' \in [Clients -> ConnStates]
        /\ \A d \in Clients : conn'[d] = "new" => conn[d] = "new"
    BY <1>2 DEF client_leave, workVars, fileVars, mainVars, listVars, LockInv, LockTypes,
                Set, ConnStates
  <2> QED
    BY <2>1 DEF LockInv, LockTypes, LockMatchesFile, InFile, BacklogUnserved,
                WorkersConnected, SpawnsOnce
<1> QED  BY <1>1, <1>2

(* Every step of the process, of a client or of the kernel keeps LockInv.  *)
LEMMA LockNext == LockInv /\ [Next]_vars => LockInv'
<1> SUFFICES ASSUME LockInv, [Next]_vars PROVE LockInv'
  OBVIOUS
<1>1. CASE MainStep
  BY <1>1, LockMainFrame, LockAccept, LockStart, LockShutdown DEF MainStep
<1>2. CASE signal_handler \/ signal_default \/ timer_expires \/ \E t \in Threads : alarm_handler(t)
  BY <1>2, LockSignals
<1>3. CASE \E c \in Clients : WorkerStep(c) \/ ClientStep(c)
  BY <1>3, LockWorker, LockConnect, LockClient DEF ClientStep
<1>4. CASE UNCHANGED vars
  BY <1>4, LockFrame DEF vars, mainVars, listVars, workVars, fileVars, netVars
<1> QED  BY <1>1, <1>2, <1>3, <1>4 DEF Next

(* For every number of clients, every way a packet is cut into segments    *)
(* and every failure: the mutex is held exactly by the worker that has the *)
(* data file open, so at most one has, and receive_data and send_response  *)
(* release it on every path (aesd_worker.c:17-124).                        *)
THEOREM MutexGuardsFile == Spec => []LockMatchesFile
<1>1. LockInv => LockMatchesFile
  BY DEF LockInv
<1> QED  BY <1>1, LockInit, LockNext, PTL DEF Spec

-----------------------------------------------------------------------------
(* A step that frees nothing and moves no worker that is over keeps        *)
(* FreedIsOver.                                                            *)
LEMMA FreedFrame ==
  ASSUME FreedIsOver, UNCHANGED freed,
         \A c \in Clients : wpc[c] = "dead" => wpc'[c] = "dead"
  PROVE  FreedIsOver'
  BY DEF FreedIsOver

(* The main thread frees only what it has joined, and starts a worker only *)
(* for a client that has none.                                             *)
LEMMA FreedMain ==
  ASSUME LockInv, FreedIsOver, MainStep PROVE FreedIsOver'
<1>1. CASE check_join \/ stop_join
  <2>1. /\ UNCHANGED wpc /\ freed' = freed \cup {subject}
        /\ wpc[subject] = "dead"
    BY <1>1 DEF check_join, stop_join, Join, Over
  <2> QED  BY <2>1 DEF FreedIsOver
<1>2. CASE start_worker
  <2>1. CASE UNCHANGED wpc
    BY <1>2, <2>1, FreedFrame DEF start_worker, flagVars
  <2>2. CASE wpc' = Set(wpc, subject, "recv_lock")
    <3>1. wpc[subject] = "none" /\ wpc \in [Clients -> WorkerLocs]
      BY <1>2 DEF start_worker, AtMain, LockInv, SpawnsOnce, LockTypes
    <3>2. \A c \in Clients : wpc[c] = "dead" => wpc'[c] = "dead"
      BY <2>2, <3>1 DEF Set
    <3> QED  BY <1>2, <3>2, FreedFrame DEF start_worker, flagVars
  <2> QED  BY <1>2, <2>1, <2>2 DEF start_worker
<1>3. CASE stop_worker
  BY <1>3, FreedFrame DEF stop_worker
<1>4. CASE \/ start \/ server_init \/ srv_bind \/ srv_listen \/ run_start \/ run_loop
           \/ accept_enter \/ accept_client \/ insert_worker \/ check_worker
           \/ check_end \/ shutdown_begin \/ shutdown_unlink \/ run_return
  <2>1. UNCHANGED workVars
    BY <1>4 DEF Control, start, server_init, srv_bind, srv_listen, run_start, run_loop,
                accept_enter, accept_client, insert_worker, check_worker, check_end,
                shutdown_begin, shutdown_unlink, run_return
  <2> QED  BY <2>1, FreedFrame DEF workVars, flagVars
<1> QED  BY <1>1, <1>2, <1>3, <1>4 DEF MainStep

(* A worker that takes a step is not over, and frees nothing.              *)
LEMMA FreedWorker ==
  ASSUME LockInv, FreedIsOver, NEW c \in Clients, WorkerStep(c) PROVE FreedIsOver'
<1>1. wpc \in [Clients -> WorkerLocs]
  BY DEF LockInv, LockTypes
<1>2. CASE send_sigpipe(c)
  BY <1>2, FreedFrame DEF send_sigpipe, workVars, flagVars
<1>3. CASE ~send_sigpipe(c)
  <2>1. wpc[c] # "dead" /\ UNCHANGED freed /\ \E loc \in WorkerLocs : wpc' = Set(wpc, c, loc)
    BY <1>3 DEF WorkerStep, AtWorker, Goto, Others, SendEnd, WorkerLocs, flagVars,
                recv_lock, recv_check, recv, recv_error, recv_done, recv_return,
                send_lock, send_check, send, send_error, close_client, worker_exit,
                worker_end
  <2>2. \A d \in Clients : wpc[d] = "dead" => wpc'[d] = "dead"
    BY <1>1, <2>1 DEF Set
  <2> QED  BY <2>1, <2>2, FreedFrame
<1> QED  BY <1>2, <1>3

(* Nobody else moves a worker or frees one.                                *)
LEMMA FreedNext == LockInv /\ FreedIsOver /\ [Next]_vars => FreedIsOver'
<1> SUFFICES ASSUME LockInv, FreedIsOver, [Next]_vars PROVE FreedIsOver'
  OBVIOUS
<1>1. CASE MainStep
  BY <1>1, FreedMain
<1>2. CASE \E c \in Clients : WorkerStep(c)
  BY <1>2, FreedWorker
<1>3. CASE \/ signal_handler \/ signal_default \/ timer_expires
           \/ \E t \in Threads : alarm_handler(t)
           \/ \E c \in Clients : ClientStep(c)
           \/ UNCHANGED vars
  <2>1. UNCHANGED workVars
    BY <1>3 DEF signal_handler, signal_default, timer_expires, alarm_handler,
                ClientStep, client_connect, client_send, client_read, client_leave, vars
  <2> QED  BY <2>1, FreedFrame DEF workVars, flagVars
<1> QED  BY <1>1, <1>2, <1>3 DEF Next

-----------------------------------------------------------------------------
(* What the SLIST macros of queue.h do to the set of entries in the list.  *)
Lists == [slh_first : Clients \cup {NULL}, sle_next : [Clients -> Clients \cup {NULL}]]

(* No entry is reached in two ways: the head and the next pointers of the  *)
(* entries in the list all lead to different entries, or nowhere.          *)
Linear(list) ==
  \A p \in Listed(list) :
    SLIST_NEXT(list, p) # NULL =>
      /\ SLIST_NEXT(list, p) # SLIST_FIRST(list)
      /\ \A q \in Listed(list) : SLIST_NEXT(list, q) = SLIST_NEXT(list, p) => q = p

(* Following a pointer of the list never leaves the list.                  *)
LEMMA ListedFollowed ==
  ASSUME NEW list \in Lists
  PROVE  Listed(list) \subseteq Clients /\ Followed(list, Listed(list))
  BY DEF Listed, Followed, Lists, SLIST_FIRST, SLIST_NEXT

(* The list is the least set of entries with that property.                *)
LEMMA ListedLeast ==
  ASSUME NEW list \in Lists, NEW S, S \subseteq Clients, Followed(list, S)
  PROVE  Listed(list) \subseteq S
  BY DEF Listed

(* An entry of the list that is not the first has another one in front of  *)
(* it.                                                                     *)
LEMMA Predecessor ==
  ASSUME NEW list \in Lists, NEW e \in Listed(list), e # SLIST_FIRST(list)
  PROVE  \E p \in Listed(list) \ {e} : SLIST_NEXT(list, p) = e
<1> SUFFICES ASSUME \A p \in Listed(list) \ {e} : SLIST_NEXT(list, p) # e PROVE FALSE
  OBVIOUS
<1>1. Followed(list, Listed(list) \ {e})
  BY ListedFollowed DEF Followed
<1> QED  BY <1>1, ListedFollowed, ListedLeast

(* SLIST_INIT makes a list with nothing in it.                             *)
LEMMA InitEmpty ==
  SLIST_INIT \in Lists /\ Listed(SLIST_INIT) = {} /\ Linear(SLIST_INIT)
<1>1. SLIST_INIT \in Lists
  BY DEF SLIST_INIT, Lists
<1>2. Followed(SLIST_INIT, {})
  BY DEF Followed, SLIST_INIT, SLIST_FIRST
<1>3. Listed(SLIST_INIT) = {}
  BY <1>1, <1>2, ListedLeast
<1> QED  BY <1>1, <1>3 DEF Linear

(* SLIST_INSERT_HEAD adds the entry, loses none, and the list stays linear.*)
LEMMA InsertAdds ==
  ASSUME NEW list \in Lists, Linear(list), NEW e \in Clients, e \notin Listed(list)
  PROVE  LET new == SLIST_INSERT_HEAD(list, e) IN
         /\ new \in Lists /\ Linear(new) /\ SLIST_FIRST(new) = e
         /\ Listed(new) = Listed(list) \cup {e}
<1> DEFINE new == SLIST_INSERT_HEAD(list, e)
<1>1. /\ new \in Lists /\ SLIST_FIRST(new) = e
      /\ SLIST_NEXT(new, e) = SLIST_FIRST(list)
      /\ \A p \in Clients \ {e} : SLIST_NEXT(new, p) = SLIST_NEXT(list, p)
  BY DEF SLIST_INSERT_HEAD, Lists, SLIST_FIRST, SLIST_NEXT
<1> HIDE DEF new
<1>2. Followed(list, Listed(list)) /\ Listed(list) \subseteq Clients
  BY ListedFollowed
<1>3. Followed(new, Listed(new)) /\ Listed(new) \subseteq Clients
  BY <1>1, ListedFollowed
<1>4. Listed(new) \subseteq Listed(list) \cup {e}
  <2>1. Followed(new, Listed(list) \cup {e})
    BY <1>1, <1>2 DEF Followed
  <2> QED  BY <1>1, <1>2, <2>1, ListedLeast
<1>5. Listed(list) \cup {e} \subseteq Listed(new)
  <2>1. e \in Listed(new)
    BY <1>1, <1>3, ListAssumption DEF Followed
  <2>2. Followed(list, Listed(new) \cap Listed(list))
    BY <1>1, <1>2, <1>3, <2>1 DEF Followed
  <2> QED  BY <2>1, <2>2, <1>2, ListedLeast
<1>6. Linear(new)
  BY <1>1, <1>2, <1>4, <1>5, ListAssumption DEF Linear, Followed
<1> QED  BY <1>1, <1>4, <1>5, <1>6 DEF new

(* SLIST_REMOVE takes out the entry, loses no other, and the list stays    *)
(* linear, wherever in it the entry was.                                   *)
LEMMA RemoveFirst ==
  ASSUME NEW list \in Lists, Linear(list), NEW e \in Listed(list), SLIST_FIRST(list) = e
  PROVE  LET new == SLIST_REMOVE(list, e) IN
         /\ new \in Lists /\ Linear(new) /\ SLIST_FIRST(new) = SLIST_NEXT(list, e)
         /\ Listed(new) = Listed(list) \ {e} /\ SLIST_NEXT(list, e) # e
<1> DEFINE new == SLIST_REMOVE(list, e)
<1>1. Followed(list, Listed(list)) /\ Listed(list) \subseteq Clients
  BY ListedFollowed
<1>2. /\ new \in Lists /\ SLIST_FIRST(new) = SLIST_NEXT(list, e)
      /\ \A p \in Clients : SLIST_NEXT(new, p) = SLIST_NEXT(list, p)
  BY <1>1 DEF SLIST_REMOVE, SLIST_REMOVE_HEAD, Lists, SLIST_FIRST, SLIST_NEXT
<1> HIDE DEF new
<1>3. Followed(new, Listed(new)) /\ Listed(new) \subseteq Clients
  BY <1>2, ListedFollowed
<1>4. Listed(new) \subseteq Listed(list) \ {e}
  <2>1. Followed(new, Listed(list) \ {e})
    BY <1>1, <1>2, ListAssumption DEF Followed, Linear
  <2> QED  BY <1>1, <1>2, <2>1, ListedLeast
<1>5. Listed(list) \subseteq Listed(new) \cup {e}
  <2>1. Followed(list, Listed(new) \cup {e})
    BY <1>1, <1>2, <1>3 DEF Followed
  <2> QED  BY <1>1, <1>3, <2>1, ListedLeast
<1>6. Linear(new)
  BY <1>1, <1>2, <1>4, <1>5 DEF Linear, Followed
<1>7. SLIST_NEXT(list, e) # e
  BY <1>1, ListAssumption DEF Linear
<1> QED  BY <1>2, <1>4, <1>5, <1>6, <1>7 DEF new

(* The same for an entry further down, where SLIST_REMOVE searches for the *)
(* entry in front of it.                                                   *)
LEMMA RemoveLater ==
  ASSUME NEW list \in Lists, Linear(list), NEW e \in Listed(list), SLIST_FIRST(list) # e
  PROVE  LET new == SLIST_REMOVE(list, e) IN
         /\ new \in Lists /\ Linear(new) /\ SLIST_NEXT(list, e) # e
         /\ Listed(new) = Listed(list) \ {e}
<1> DEFINE new    == SLIST_REMOVE(list, e)
           curelm == CHOOSE p \in Listed(list) : SLIST_NEXT(list, p) = e
<1>1. /\ Followed(list, Listed(list)) /\ Listed(list) \subseteq Clients
      /\ e \in Clients /\ e # NULL
  BY ListedFollowed, ListAssumption
<1>2. PICK p \in Listed(list) \ {e} : SLIST_NEXT(list, p) = e
  BY Predecessor
<1>3. curelm \in Listed(list) /\ SLIST_NEXT(list, curelm) = e
  BY <1>2
<1>4. /\ new \in Lists /\ SLIST_FIRST(new) = SLIST_FIRST(list)
      /\ SLIST_NEXT(new, curelm) = SLIST_NEXT(list, e)
      /\ \A q \in Clients \ {curelm} : SLIST_NEXT(new, q) = SLIST_NEXT(list, q)
  BY <1>1, <1>3 DEF SLIST_REMOVE, Lists, SLIST_FIRST, SLIST_NEXT
<1> HIDE DEF new, curelm
<1>5. curelm # e /\ SLIST_NEXT(list, e) # e
  BY <1>1, <1>2, <1>3 DEF Linear
<1>6. Followed(new, Listed(new)) /\ Listed(new) \subseteq Clients
  BY <1>4, ListedFollowed
<1>7. Listed(new) \subseteq Listed(list) \ {e}
  <2>1. Followed(new, Listed(list) \ {e})
    BY <1>1, <1>3, <1>4, <1>5 DEF Followed, Linear
  <2> QED  BY <1>1, <1>4, <2>1, ListedLeast
<1>8. curelm \in Listed(new)
  <2> SUFFICES ASSUME curelm \notin Listed(new) PROVE FALSE
    OBVIOUS
  <2>1. Followed(list, Listed(new))
    BY <1>4, <1>6 DEF Followed
  <2> QED  BY <1>6, <1>7, <2>1, ListedLeast
<1>9. Listed(list) \subseteq Listed(new) \cup {e}
  <2>1. Followed(list, Listed(new) \cup {e})
    BY <1>3, <1>4, <1>6, <1>8 DEF Followed
  <2> QED  BY <1>1, <1>6, <2>1, ListedLeast
<1>10. Linear(new)
  BY <1>1, <1>3, <1>4, <1>5, <1>7, <1>9 DEF Linear
<1> QED  BY <1>4, <1>5, <1>7, <1>9, <1>10 DEF new

(* SLIST_REMOVE in both cases; what followed the entry is still listed.    *)
LEMMA RemoveTakesOut ==
  ASSUME NEW list \in Lists, Linear(list), NEW e \in Listed(list)
  PROVE  LET new == SLIST_REMOVE(list, e) IN
         /\ new \in Lists /\ Linear(new) /\ Listed(new) = Listed(list) \ {e}
         /\ SLIST_NEXT(list, e) \in Listed(new) \cup {NULL}
         /\ SLIST_FIRST(list) = e => SLIST_FIRST(new) = SLIST_NEXT(list, e)
<1>1. SLIST_NEXT(list, e) \in Listed(list) \cup {NULL}
  BY ListedFollowed DEF Followed
<1> QED  BY <1>1, RemoveFirst, RemoveLater

-----------------------------------------------------------------------------
ListTypes ==
  /\ workers \in Lists /\ Linear(workers)
  /\ subject \in Clients \cup {NULL} /\ entry_temp \in Clients \cup {NULL}
  /\ freed \subseteq Clients

(* aesd_server_init makes the list empty, before the first worker.         *)
NoneAtStart ==
  main \in {"boot", "init"} => \A c \in Clients : wpc[c] = "none"

(* srv_shutdown takes the entries from the head of the list, one by one.   *)
StopTakesFirst ==
  /\ main = "stop" => subject = SLIST_FIRST(workers)
  /\ main = "stop_join" => entry_temp = SLIST_FIRST(workers)

(* After the walk of srv_shutdown every worker has been joined.            *)
AllJoined ==
  main \in {"return", "stopped"} => \A c \in Clients : wpc[c] # "none" => c \in freed

ListInv ==
  /\ ListTypes /\ NoneAtStart /\ StopTakesFirst /\ AllJoined
  /\ Alive => StartedIsKnown /\ WalkStaysInList

(* No worker exists and the list is empty when the process starts.         *)
LEMMA ListInit == Init => ListInv
  BY InitEmpty
  DEF Init, ListInv, ListTypes, NoneAtStart, StopTakesFirst, AllJoined, Alive, Ended,
      StartedIsKnown, Held, WalkStaysInList

(* Where the main thread neither has a worker in its hands nor walks the   *)
(* list.                                                                   *)
Plain == {"boot", "init", "bind", "listen", "start", "loop", "calling", "accept",
          "spawn", "shutdown"}

(* A step that leaves the list, the freed set and the set of started       *)
(* workers alone keeps the invariant when the main thread stays where it   *)
(* is, goes from one plain place to another, or dies.                      *)
LEMMA ListFrame ==
  ASSUME ListInv, UNCHANGED <<workers, freed>>,
         \A c \in Clients : wpc'[c] = "none" <=> wpc[c] = "none",
         \/ UNCHANGED <<main, subject, entry_temp>>
         \/ main' \in {"failed", "killed"} /\ UNCHANGED <<subject, entry_temp>>
         \/ /\ main \in Plain /\ main' \in Plain /\ UNCHANGED entry_temp
            /\ subject' \in Clients \cup {NULL}
            /\ main' \in {"boot", "init"} => main \in {"boot", "init"}
  PROVE  ListInv'
<1>1. {c \in Clients : wpc'[c] # "none"} = {c \in Clients : wpc[c] # "none"}
  OBVIOUS
<1>2. ListTypes' /\ NoneAtStart' /\ StopTakesFirst' /\ AllJoined'
  BY DEF ListInv, ListTypes, NoneAtStart, StopTakesFirst, AllJoined, Plain
<1>3. Alive' => StartedIsKnown' /\ WalkStaysInList'
  BY <1>1 DEF ListInv, Alive, Ended, StartedIsKnown, Held, WalkStaysInList, Plain
<1> QED  BY <1>2, <1>3 DEF ListInv

(* The steps of the main thread outside the walks of the list.             *)
LEMMA ListPlain ==
  ASSUME LockInv, ListInv,
         \/ start \/ srv_bind \/ srv_listen \/ run_start \/ run_loop
         \/ accept_enter \/ accept_client
  PROVE  ListInv'
<1>1. CASE accept_client
  <2>1. Head(backlog) \in Clients
    BY <1>1 DEF accept_client, LockInv, LockTypes
  <2>2. /\ UNCHANGED <<workers, freed, wpc, entry_temp>>
        /\ main \in Plain /\ main' \in Plain \ {"boot", "init"}
        /\ subject' \in Clients \cup {NULL}
    BY <1>1, <2>1 DEF accept_client, AtMain, workVars, flagVars, Plain, ListInv, ListTypes
  <2> QED  BY <2>2, ListFrame
<1>2. CASE ~accept_client
  <2>1. /\ UNCHANGED <<workers, freed, wpc, subject, entry_temp>>
        /\ \/ main' \in {"failed", "killed"}
           \/ /\ main \in Plain /\ main' \in Plain
              /\ main' \in {"boot", "init"} => main \in {"boot", "init"}
    BY <1>2 DEF start, srv_bind, srv_listen, run_start, run_loop, accept_enter, Control,
                AtMain, listVars, workVars, flagVars, Plain
  <2> QED  BY <2>1, ListFrame DEF ListInv, ListTypes
<1> QED  BY <1>1, <1>2

(* aesd_server_init empties a list that was empty.                         *)
LEMMA ListServerInit == ASSUME ListInv, server_init PROVE ListInv'
<1>1. /\ main = "init" /\ main' = "bind" /\ workers' = SLIST_INIT
      /\ UNCHANGED <<subject, entry_temp, freed, wpc>>
  BY DEF server_init, AtMain, workVars, flagVars
<1>2. freed = {} /\ \A c \in Clients : wpc[c] = "none"
  BY <1>1 DEF ListInv, NoneAtStart, StartedIsKnown, Alive, Ended
<1> QED
  BY <1>1, <1>2, InitEmpty
  DEF ListInv, ListTypes, NoneAtStart, StopTakesFirst, AllJoined, Alive, Ended,
      StartedIsKnown, Held, WalkStaysInList

(* A worker that is started is in the main thread's hands.                 *)
LEMMA ListStart == ASSUME LockInv, ListInv, start_worker PROVE ListInv'
<1>0. main = "spawn" /\ UNCHANGED <<workers, subject, entry_temp, freed>>
  BY DEF start_worker, AtMain, listVars, flagVars
<1>1. CASE UNCHANGED wpc /\ main' = "killed"
  BY <1>0, <1>1, ListFrame
<1>2. CASE wpc' = Set(wpc, subject, "recv_lock") /\ main' = "insert"
  <2>1. /\ subject \in Clients /\ wpc[subject] = "none"
        /\ wpc \in [Clients -> WorkerLocs]
    BY <1>0 DEF LockInv, SpawnsOnce, LockTypes
  <2>2. {c \in Clients : wpc'[c] # "none"} = {c \in Clients : wpc[c] # "none"} \cup {subject}
    BY <1>2, <2>1 DEF Set
  <2>3. StartedIsKnown /\ Held = {} /\ Held' = {subject}
    BY <1>0, <1>2 DEF ListInv, Alive, Ended, Held
  <2>4. subject \notin Listed(workers) \cup freed
    BY <2>1, <2>3 DEF StartedIsKnown
  <2>5. StartedIsKnown'
    BY <1>0, <2>2, <2>3, <2>4 DEF StartedIsKnown
  <2> QED
    BY <1>0, <1>2, <2>5
    DEF ListInv, ListTypes, NoneAtStart, StopTakesFirst, AllJoined, WalkStaysInList
<1> QED  BY <1>1, <1>2 DEF start_worker

(* It goes from there into the list, which is walked from the head.        *)
LEMMA ListInsert == ASSUME ListInv, insert_worker PROVE ListInv'
<1>1. /\ main = "insert" /\ main' = "check"
      /\ workers' = SLIST_INSERT_HEAD(workers, subject) /\ subject' = SLIST_FIRST(workers')
      /\ UNCHANGED <<entry_temp, freed, wpc>>
  BY DEF insert_worker, AtMain, workVars, flagVars
<1>2. /\ workers \in Lists /\ Linear(workers)
      /\ subject \in Clients /\ subject \notin Listed(workers) \cup freed
      /\ StartedIsKnown /\ Held = {subject} /\ Held' = {}
  BY <1>1 DEF ListInv, ListTypes, Alive, Ended, StartedIsKnown, Held
<1>3. /\ workers' \in Lists /\ Linear(workers') /\ subject' = subject
      /\ Listed(workers') = Listed(workers) \cup {subject}
  BY <1>1, <1>2, InsertAdds
<1>4. StartedIsKnown' /\ WalkStaysInList'
  BY <1>1, <1>2, <1>3 DEF StartedIsKnown, WalkStaysInList
<1> QED
  BY <1>1, <1>2, <1>3, <1>4
  DEF ListInv, ListTypes, NoneAtStart, StopTakesFirst, AllJoined

(* An entry taken out of the list in a walk is in the main thread's hands, *)
(* and the entry the walk visits next is still in the list.                *)
LEMMA ListTake ==
  ASSUME ListInv, subject # NULL,
         \/ main = "check" /\ main' = "check_join"
         \/ main = "stop" /\ main' = "stop_join",
         workers' = SLIST_REMOVE(workers, subject),
         entry_temp' = SLIST_NEXT(workers, subject),
         UNCHANGED <<subject, freed, wpc>>
  PROVE  ListInv'
<1>1. /\ workers \in Lists /\ Linear(workers) /\ subject \in Listed(workers)
      /\ StartedIsKnown /\ Held = {} /\ Held' = {subject}
  BY DEF ListInv, ListTypes, Alive, Ended, StartedIsKnown, WalkStaysInList, Held
<1>2. /\ workers' \in Lists /\ Linear(workers')
      /\ Listed(workers') = Listed(workers) \ {subject}
      /\ entry_temp' \in Listed(workers') \cup {NULL}
      /\ SLIST_FIRST(workers) = subject => SLIST_FIRST(workers') = entry_temp'
  BY <1>1, RemoveTakesOut
<1>3. Listed(workers') \subseteq Clients
  BY <1>2, ListedFollowed
<1>4. StartedIsKnown' /\ WalkStaysInList'
  BY <1>1, <1>2 DEF StartedIsKnown, WalkStaysInList
<1>5. ListTypes' /\ NoneAtStart' /\ StopTakesFirst' /\ AllJoined'
  BY <1>1, <1>2, <1>3 DEF ListInv, ListTypes, NoneAtStart, StopTakesFirst, AllJoined
<1> QED  BY <1>4, <1>5 DEF ListInv

(* check_workers visits one entry.                                         *)
LEMMA ListCheck == ASSUME ListInv, check_worker PROVE ListInv'
<1>1. /\ main = "check" /\ subject # NULL /\ entry_temp' = SLIST_NEXT(workers, subject)
      /\ UNCHANGED <<freed, wpc>>
  BY DEF check_worker, AtMain, workVars, flagVars
<1>2. CASE exited[subject]
  BY <1>1, <1>2, ListTake DEF check_worker
<1>3. CASE ~exited[subject]
  <2>1. subject' = entry_temp' /\ UNCHANGED <<workers, main>>
    BY <1>3 DEF check_worker
  <2>2. subject \in Listed(workers) /\ workers \in Lists
    BY <1>1 DEF ListInv, ListTypes, Alive, Ended, WalkStaysInList
  <2>3. entry_temp' \in Listed(workers) \cup {NULL} /\ Listed(workers) \subseteq Clients
    BY <1>1, <2>2, ListedFollowed DEF Followed
  <2> QED
    BY <1>1, <2>1, <2>3
    DEF ListInv, ListTypes, NoneAtStart, StopTakesFirst, AllJoined, Alive, Ended,
        StartedIsKnown, Held, WalkStaysInList
<1> QED  BY <1>2, <1>3

(* The end of the walk of check_workers.                                   *)
LEMMA ListCheckEnd == ASSUME ListInv, check_end PROVE ListInv'
  BY DEF check_end, AtMain, workVars, flagVars, ListInv, ListTypes, NoneAtStart,
         StopTakesFirst, AllJoined, Alive, Ended, StartedIsKnown, Held, WalkStaysInList

(* A joined worker goes from the main thread's hands to the freed ones.    *)
LEMMA ListJoin == ASSUME ListInv, check_join \/ stop_join PROVE ListInv'
<1>1. /\ \/ main = "check_join" /\ main' = "check"
         \/ main = "stop_join" /\ main' = "stop"
      /\ freed' = freed \cup {subject} /\ subject' = entry_temp
      /\ UNCHANGED <<workers, entry_temp, wpc>>
  BY DEF check_join, stop_join, Join, AtMain
<1>2. StartedIsKnown /\ Held = {subject} /\ Held' = {} /\ subject \in Clients
  BY <1>1 DEF ListInv, Alive, Ended, StartedIsKnown, Held
<1>3. StartedIsKnown'
  BY <1>1, <1>2 DEF StartedIsKnown
<1> QED
  BY <1>1, <1>2, <1>3
  DEF ListInv, ListTypes, NoneAtStart, StopTakesFirst, AllJoined, Alive, Ended, WalkStaysInList

(* srv_shutdown begins at the head of the list ...                         *)
LEMMA ListShutdown == ASSUME ListInv, shutdown_begin PROVE ListInv'
<1>1. /\ main = "shutdown" /\ main' = "stop" /\ subject' = SLIST_FIRST(workers)
      /\ UNCHANGED <<workers, entry_temp, freed, wpc>>
  BY DEF shutdown_begin, AtMain, FirstToStop, workVars, flagVars
<1>2. SLIST_FIRST(workers) \in Listed(workers) \cup {NULL} /\ Listed(workers) \subseteq Clients
  BY ListedFollowed DEF ListInv, ListTypes, Followed
<1> QED
  BY <1>1, <1>2
  DEF ListInv, ListTypes, NoneAtStart, StopTakesFirst, AllJoined, Alive, Ended,
      StartedIsKnown, Held, WalkStaysInList

(* ... and ends when the list is empty: everybody has been joined.         *)
LEMMA ListUnlink == ASSUME ListInv, shutdown_unlink PROVE ListInv'
<1>1. /\ main = "stop" /\ subject = NULL /\ main' = "return" /\ entry_temp' = NULL
      /\ UNCHANGED <<workers, subject, freed, wpc>>
  BY DEF shutdown_unlink, AtMain, workVars, flagVars
<1>2. SLIST_FIRST(workers) = NULL /\ workers \in Lists /\ StartedIsKnown /\ Held = {}
  BY <1>1 DEF ListInv, ListTypes, StopTakesFirst, Alive, Ended, Held
<1>3. Listed(workers) = {}
  BY <1>2, ListedLeast DEF Followed
<1>4. \A c \in Clients : wpc[c] # "none" => c \in freed
  BY <1>2, <1>3 DEF StartedIsKnown
<1> QED
  BY <1>1, <1>4
  DEF ListInv, ListTypes, NoneAtStart, StopTakesFirst, AllJoined, Alive, Ended,
      StartedIsKnown, Held, WalkStaysInList

(* Every step of the main thread.                                          *)
LEMMA ListMain == ASSUME LockInv, ListInv, MainStep PROVE ListInv'
<1>1. CASE stop_worker
  BY <1>1, ListTake DEF stop_worker, AtMain
<1>2. CASE run_return
  BY <1>2 DEF run_return, Control, AtMain, listVars, workVars, flagVars, ListInv, ListTypes,
              NoneAtStart, StopTakesFirst, AllJoined, Alive, Ended
<1> QED
  BY <1>1, <1>2, ListPlain, ListServerInit, ListStart, ListInsert, ListCheck, ListCheckEnd,
     ListJoin, ListShutdown, ListUnlink DEF MainStep

(* Every step of the process, of a client or of the kernel keeps ListInv.  *)
LEMMA ListNext == LockInv /\ ListInv /\ [Next]_vars => ListInv'
<1> SUFFICES ASSUME LockInv, ListInv, [Next]_vars PROVE ListInv'
  OBVIOUS
<1>1. CASE MainStep
  BY <1>1, ListMain
<1>2. ASSUME NEW c \in Clients, WorkerStep(c) PROVE ListInv'
  <2>1. CASE send_sigpipe(c)
    BY <2>1, ListFrame DEF send_sigpipe, workVars, listVars, flagVars
  <2>2. CASE ~send_sigpipe(c)
    <3>1. /\ wpc[c] # "none" /\ UNCHANGED <<workers, freed, main, subject, entry_temp>>
          /\ \E loc \in WorkerLocs \ {"none"} : wpc' = Set(wpc, c, loc)
      BY <1>2, <2>2
      DEF WorkerStep, AtWorker, Goto, Others, SendEnd, WorkerLocs, flagVars, mainVars, listVars,
          recv_lock, recv_check, recv, recv_error, recv_done, recv_return, send_lock,
          send_check, send, send_error, close_client, worker_exit, worker_end
    <3>2. \A d \in Clients : wpc'[d] = "none" <=> wpc[d] = "none"
      BY <3>1 DEF LockInv, LockTypes, Set
    <3> QED  BY <3>1, <3>2, ListFrame
  <2> QED  BY <2>1, <2>2
<1>3. CASE signal_handler \/ signal_default \/ timer_expires
  <2>1. /\ UNCHANGED <<workers, freed, wpc, subject, entry_temp>>
        /\ UNCHANGED main \/ main' = "killed" \/ (main = "accept" /\ main' = "loop")
    BY <1>3 DEF signal_handler, signal_default, timer_expires, listVars, workVars, flagVars
  <2> QED  BY <2>1, ListFrame DEF Plain, ListInv, ListTypes
<1>4. CASE \/ \E t \in Threads : alarm_handler(t)
           \/ \E c \in Clients : ClientStep(c)
           \/ UNCHANGED vars
  <2>1. UNCHANGED <<workers, freed, wpc, main, subject, entry_temp>>
    BY <1>4 DEF alarm_handler, ClientStep, client_connect, client_send, client_read,
                client_leave, vars, mainVars,
                listVars, workVars, flagVars
  <2> QED  BY <2>1, ListFrame
<1> QED  BY <1>1, <1>2, <1>3, <1>4 DEF Next

(* For every number of clients, every order in which the workers end and   *)
(* every failure: while the process lives each worker that was started is  *)
(* in exactly one of the list, the main thread's hands or the freed set,   *)
(* and a list walk never stands on an entry that was freed, although it    *)
(* removes entries as it goes (aesd_server.c:158-216, queue.h SLIST).      *)
THEOREM WorkersNeverLost == Spec => []WorkersAccounted
<1>1. FreedIsOver /\ ListInv => WorkersAccounted
  BY DEF WorkersAccounted, ListInv
<1>2. Init => FreedIsOver
  BY DEF Init, FreedIsOver
<1> QED  BY <1>1, <1>2, LockInit, LockNext, FreedNext, ListInit, ListNext, PTL DEF Spec

-----------------------------------------------------------------------------
(* A worker that is past close() has closed its connection, for good.      *)
ClosedAtExit ==
  \A c \in Clients : wpc[c] \in {"exit", "ending", "dead"} => conn[c] = "done"

(* Only threads that exist are inside alarm_handler.                       *)
HandlersRun ==
  /\ alarm \subseteq Threads
  /\ \A c \in Clients : c \in alarm => wpc[c] \notin {"none", "dead"}

(* srv_shutdown stops the timer, unless its id is the null pointer.        *)
TimerStopped ==
  main \in {"stop", "stop_join", "return", "stopped"} /\ timer # NULL => timer = "off"

(* After srv_shutdown has deleted the file only the handler recreates it,  *)
(* and it runs only for a timer that was not stopped.                      *)
FileDeleted ==
  /\ unlinked =>
       /\ main \in {"return", "stopped"}
       /\ output = NoFile \/ (timer = NULL /\ output \in Seq({Main} \X {"stamp", "cut"}))
  /\ main \in {"return", "stopped"} /\ timer # NULL => alarm = {}
  /\ main = "stopped" => alarm = {}

StopInv == ClosedAtExit /\ HandlersRun /\ TimerStopped /\ FileDeleted

(* No worker, handler or timer when the process starts.                    *)
LEMMA StopInit == Init => StopInv
  BY DEF Init, StopInv, ClosedAtExit, HandlersRun, TimerStopped, FileDeleted

(* How a worker's step goes: it moves that worker alone, whose thread is   *)
(* neither missing nor over nor inside the handler, and closes the         *)
(* connection on the way out; or the process dies.                         *)
LEMMA WorkerMoves ==
  ASSUME LockInv, NEW c \in Clients, WorkerStep(c)
  PROVE  /\ Alive /\ wpc[c] \notin {"none", "dead"} /\ c \notin alarm
         /\ UNCHANGED <<alarm, timer, char_dev, unlinked>>
         /\ UNCHANGED main \/ main' = "killed"
         /\ wpc' \in [Clients -> WorkerLocs] /\ wpc'[c] # "none"
         /\ \A d \in Clients \ {c} : wpc'[d] = wpc[d] /\ conn'[d] = conn[d]
         /\ wpc'[c] \in {"exit", "ending", "dead"} =>
              conn'[c] = "done" \/ (UNCHANGED conn /\ wpc[c] \in {"exit", "ending"})
<1> USE DEF AtWorker, Goto, Others, mainVars, storeVars, netVars, sigVars, Set, LockInv, LockTypes,
            WorkerLocs
<1>1. CASE \/ recv_lock(c) \/ recv_check(c) \/ recv(c) \/ recv_error(c)
           \/ recv_done(c) \/ recv_return(c) \/ send_lock(c)
  BY <1>1 DEF recv_lock, recv_check, recv, recv_error, recv_done, recv_return, send_lock
<1>2. CASE send_check(c) \/ send(c) \/ send_error(c)
  BY <1>2 DEF send_check, send, send_error, SendEnd
<1>3. CASE send_sigpipe(c) \/ close_client(c) \/ worker_exit(c) \/ worker_end(c)
  BY <1>3 DEF send_sigpipe, close_client, worker_exit, worker_end, workVars
<1> QED  BY <1>1, <1>2, <1>3 DEF WorkerStep

(* What the other steps do to workers and connections: a worker is started *)
(* for a client that had none, srv_shutdown closes the waiting connections *)
(* and a client changes only a connection that is not closed.              *)
LEMMA OtherMoves ==
  ASSUME LockInv, [Next]_vars, \A c \in Clients : ~WorkerStep(c)
  PROVE  \A c \in Clients :
           /\ wpc'[c] = wpc[c] \/ (wpc[c] = "none" /\ wpc'[c] = "recv_lock")
           /\ conn[c] = "done" => conn'[c] = "done"
<1> USE DEF LockInv, LockTypes, Set, workVars, netVars
<1>1. CASE start_worker
  BY <1>1 DEF start_worker, AtMain, SpawnsOnce
<1>2. CASE shutdown_begin
  BY <1>2 DEF shutdown_begin
<1>3. CASE \E c \in Clients : ClientStep(c)
  BY <1>3 DEF ClientStep, client_connect, client_send, client_read, client_leave
<1>4. CASE \/ start \/ server_init \/ srv_bind \/ srv_listen \/ run_start \/ run_loop
           \/ accept_enter \/ accept_client \/ insert_worker \/ check_worker
           \/ check_join \/ check_end \/ stop_worker \/ stop_join \/ shutdown_unlink
           \/ run_return
  <2>1. UNCHANGED <<wpc, conn>>
    BY <1>4 DEF Control, start, server_init, srv_bind, srv_listen, run_start, run_loop,
                accept_enter, accept_client, insert_worker, check_worker, check_join,
                check_end, Join, stop_worker, stop_join, shutdown_unlink, run_return
  <2> QED  BY <2>1
<1>5. CASE \/ signal_handler \/ signal_default \/ timer_expires
           \/ \E t \in Threads : alarm_handler(t)
           \/ UNCHANGED vars
  <2>1. UNCHANGED <<workVars, netVars>>
    BY <1>5 DEF signal_handler, signal_default, timer_expires, alarm_handler, vars
  <2> QED  BY <2>1
<1> QED  BY <1>1, <1>2, <1>3, <1>4, <1>5 DEF Next, MainStep

(* No step reopens the connection of a worker that is past close().        *)
LEMMA ClosedNext == LockInv /\ ClosedAtExit /\ [Next]_vars => ClosedAtExit'
<1> SUFFICES ASSUME LockInv, ClosedAtExit, [Next]_vars PROVE ClosedAtExit'
  OBVIOUS
<1>1. CASE \E c \in Clients : WorkerStep(c)
  BY <1>1, WorkerMoves DEF ClosedAtExit
<1>2. CASE \A c \in Clients : ~WorkerStep(c)
  BY <1>2, OtherMoves DEF ClosedAtExit
<1> QED  BY <1>1, <1>2

(* A thread that is inside the handler stands still, and the timer         *)
(* interrupts only threads that run.                                       *)
LEMMA HandlersNext == LockInv /\ HandlersRun /\ [Next]_vars => HandlersRun'
<1> SUFFICES ASSUME LockInv, HandlersRun, [Next]_vars PROVE HandlersRun'
  OBVIOUS
<1>1. CASE \E c \in Clients : WorkerStep(c)
  BY <1>1, WorkerMoves DEF HandlersRun
<1>2. CASE \A c \in Clients : ~WorkerStep(c)
  <2>1. \A c \in Clients : wpc[c] \notin {"none", "dead"} => wpc'[c] \notin {"none", "dead"}
    BY <1>2, OtherMoves
  <2>2. CASE alarm' \subseteq alarm
    BY <2>1, <2>2 DEF HandlersRun
  <2>3. CASE timer_expires
    <3>1. UNCHANGED wpc
      BY <2>3 DEF timer_expires, workVars
    <3>2. PICK t \in Interruptible : alarm' = alarm \cup {t}
      BY <2>3 DEF timer_expires
    <3> QED
      BY <3>1, <3>2, ServerAssumption DEF HandlersRun, Interruptible, Threads
  <2>4. CASE \E t \in Threads : alarm_handler(t)
    BY <2>2, <2>4 DEF alarm_handler
  <2>5. CASE \/ signal_handler \/ signal_default \/ UNCHANGED vars
             \/ \E c \in Clients : ClientStep(c)
    BY <2>2, <2>5 DEF signal_handler, signal_default, ClientStep, client_connect, client_send,
                      client_read, client_leave, vars, sigVars
  <2>6. CASE MainStep
    BY <2>2, <2>6 DEF MainStep, Control, start, server_init, srv_bind, srv_listen, run_start,
              run_loop, accept_enter, accept_client, start_worker, insert_worker,
              check_worker, check_join, check_end, Join, shutdown_begin, stop_worker,
              stop_join, shutdown_unlink, run_return, sigVars
  <2> QED  BY <1>2, <2>3, <2>4, <2>5, <2>6 DEF Next
<1> QED  BY <1>1, <1>2

(* The main thread's steps, by what they do to the timer and the file: it  *)
(* enters the stop loop only through shutdown_begin and leaves it only     *)
(* through shutdown_unlink.                                                *)
LEMMA MainMoves ==
  ASSUME MainStep
  PROVE  /\ UNCHANGED <<alarm, char_dev, lock>> /\ AtMain(main)
         /\ \/ main' = "return" /\ main = "stop" /\ (unlinked' => unlinked \/ output' = NoFile)
            \/ main' = "stopped" /\ main = "return" /\ UNCHANGED <<output, unlinked>>
            \/ main' \notin {"return", "stopped"} /\ main \notin {"return", "stopped"}
                 /\ UNCHANGED unlinked
         /\ main' \in {"stop", "stop_join", "return", "stopped"} =>
              \/ main = "shutdown" /\ timer' = StopTimer
              \/ main \in {"stop", "stop_join", "return"} /\ UNCHANGED timer
<1> USE DEF AtMain, sigVars, storeVars, fileVars
<1>1. CASE shutdown_unlink \/ run_return
  BY <1>1 DEF shutdown_unlink, run_return, Control
<1>2. CASE shutdown_begin \/ stop_worker \/ stop_join
  BY <1>2 DEF shutdown_begin, stop_worker, stop_join, Join
<1>3. CASE \/ start \/ server_init \/ srv_bind \/ srv_listen \/ run_start \/ run_loop
           \/ accept_enter \/ accept_client \/ start_worker \/ insert_worker
           \/ check_worker \/ check_join \/ check_end
  <2>1. /\ UNCHANGED <<alarm, char_dev, lock, unlinked>> /\ AtMain(main)
        /\ main \notin {"return", "stopped"}
        /\ main' \notin {"stop", "stop_join", "return", "stopped"}
    BY <1>3 DEF Control, start, server_init, srv_bind, srv_listen, run_start, run_loop,
         accept_enter, accept_client, start_worker, insert_worker, check_worker,
         check_join, check_end, Join
  <2> QED  BY <2>1
<1> QED  BY <1>1, <1>2, <1>3 DEF MainStep

(* The other threads leave the main thread in the stop loop or out of it,  *)
(* and the timer alone.                                                    *)
LEMMA OtherMainMoves ==
  ASSUME LockInv, [Next]_vars, ~MainStep
  PROVE  /\ UNCHANGED <<char_dev, timer, unlinked>>
         /\ main' \in {"stop", "stop_join", "return", "stopped"} => UNCHANGED main
         /\ main \in {"return", "stopped"} =>
              UNCHANGED main \/ \E c \in Clients : WorkerStep(c)
<1>1. CASE \E c \in Clients : WorkerStep(c)
  BY <1>1, WorkerMoves
<1>2. CASE \/ signal_handler \/ signal_default \/ timer_expires
           \/ \E t \in Threads : alarm_handler(t)
           \/ \E c \in Clients : ClientStep(c)
           \/ UNCHANGED vars
  BY <1>2 DEF signal_handler, signal_default, timer_expires, alarm_handler, ClientStep,
              client_connect, client_send, client_read, client_leave, vars, mainVars, storeVars
<1> QED  BY <1>1, <1>2 DEF Next

(* The timer stays stopped.                                                *)
LEMMA TimerNext == LockInv /\ TimerStopped /\ [Next]_vars => TimerStopped'
<1> SUFFICES ASSUME LockInv, TimerStopped, [Next]_vars PROVE TimerStopped'
  OBVIOUS
<1>1. CASE MainStep
  BY <1>1, MainMoves DEF TimerStopped, StopTimer
<1>2. CASE ~MainStep
  BY <1>2, OtherMainMoves DEF TimerStopped
<1> QED  BY <1>1, <1>2

(* When every worker has been joined, only the main thread can be inside   *)
(* the handler.                                                            *)
LEMMA JoinedHandlers ==
  ASSUME FreedIsOver, HandlersRun, \A c \in Clients : wpc[c] # "none" => c \in freed
  PROVE  alarm \subseteq {Main} /\ \A c \in Clients : wpc[c] \in {"none", "dead"}
  BY DEF FreedIsOver, HandlersRun, Threads

(* After the file was deleted no worker is left to write it, and with the  *)
(* timer stopped no handler either.                                        *)
LEMMA DeletedNext ==
  LockInv /\ FreedIsOver /\ ListInv /\ StopInv /\ [Next]_vars
    /\ FreedIsOver' /\ ListInv' /\ HandlersRun' => FileDeleted'
<1> SUFFICES ASSUME LockInv, FreedIsOver, ListInv, StopInv, [Next]_vars,
                    FreedIsOver', ListInv', HandlersRun'
             PROVE  FileDeleted'
  OBVIOUS
<1> DEFINE Late == main \in {"return", "stopped"}
<1>1. Late' => alarm' \subseteq {Main}
  <2>1. Late' => \A c \in Clients : wpc'[c] # "none" => c \in freed'
    BY DEF ListInv, AllJoined
  <2> QED  BY <2>1 DEF FreedIsOver, HandlersRun, Threads
<1>2. CASE MainStep
  BY <1>1, <1>2, MainMoves DEF StopInv, FileDeleted, AtMain
<1>3. CASE ~MainStep /\ ~Late
  <2>1. UNCHANGED <<timer, unlinked>> /\ ~unlinked /\ ~Late'
    BY <1>3, OtherMainMoves DEF StopInv, FileDeleted
  <2> QED  BY <2>1 DEF FileDeleted
<1>4. CASE ~MainStep /\ Late
  <2>1. /\ alarm \subseteq {Main} /\ \A c \in Clients : wpc[c] \in {"none", "dead"}
    BY <1>4, JoinedHandlers DEF ListInv, AllJoined, StopInv
  <2>2. \A c \in Clients : ~WorkerStep(c)
    BY <2>1, WorkerMoves
  <2>3. UNCHANGED <<main, timer, unlinked>>
    BY <1>4, <2>2, OtherMainMoves
  <2>4. CASE UNCHANGED <<alarm, output>>
    BY <2>3, <2>4 DEF StopInv, FileDeleted
  <2>5. CASE timer_expires
    <3>1. main = "return" /\ timer # "off" /\ UNCHANGED output
      BY <1>4, <2>5 DEF timer_expires, Alive, Ended, fileVars
    <3>2. timer = NULL
      BY <3>1 DEF StopInv, TimerStopped
    <3> QED  BY <2>3, <3>1, <3>2 DEF StopInv, FileDeleted
  <2>6. CASE \E t \in Threads : alarm_handler(t)
    <3>1. main = "return" /\ alarm # {}
      BY <1>4, <2>6 DEF alarm_handler, Alive, Ended
    <3>2. timer = NULL
      BY <3>1 DEF StopInv, FileDeleted
    <3>3. \/ UNCHANGED output
          \/ \E kind \in {"stamp", "cut"} : output' = Stamped(kind)
      BY <2>6 DEF alarm_handler
    <3>4. CASE UNCHANGED output
      BY <2>3, <3>1, <3>2, <3>4 DEF StopInv, FileDeleted
    <3>5. ASSUME NEW kind \in {"stamp", "cut"}, output' = Stamped(kind), unlinked
          PROVE  output' \in Seq({Main} \X {"stamp", "cut"})
      <4>1. <<Main, kind>> \in {Main} \X {"stamp", "cut"}
        OBVIOUS
      <4>2. CASE output = NoFile
        BY <3>5, <4>1, <4>2 DEF Stamped
      <4>3. CASE output # NoFile
        <5>1. output \in Seq({Main} \X {"stamp", "cut"})
          BY <3>5, <4>3 DEF StopInv, FileDeleted
        <5> QED  BY <3>5, <4>1, <4>3, <5>1 DEF Stamped
      <4> QED  BY <4>2, <4>3
    <3> QED  BY <2>3, <3>1, <3>2, <3>3, <3>4, <3>5 DEF StopInv, FileDeleted
  <2>7. CASE \/ signal_handler \/ signal_default \/ UNCHANGED vars
             \/ \E c \in Clients : ClientStep(c)
    BY <2>4, <2>7 DEF signal_handler, signal_default, ClientStep, client_connect, client_send,
                      client_read, client_leave, vars, sigVars, fileVars
  <2> QED  BY <1>4, <2>2, <2>5, <2>6, <2>7 DEF Next
<1> QED  BY <1>2, <1>3, <1>4

(* Every step keeps StopInv.                                               *)
LEMMA StopNext ==
  LockInv /\ FreedIsOver /\ ListInv /\ StopInv /\ [Next]_vars
    /\ FreedIsOver' /\ ListInv' => StopInv'
  BY ClosedNext, HandlersNext, TimerNext, DeletedNext DEF StopInv

(* For every number of clients and every failure: when main() has returned *)
(* from srv_shutdown every worker that was ever started is joined, freed   *)
(* and its connection closed, nobody holds the mutex or is inside a        *)
(* handler.  The data file is gone, with every packet in it, unless unlink *)
(* failed; what may be there again is the timestamps of a timer whose id   *)
(* is NULL (aesd_server.c:188-221).                                        *)
THEOREM ShutdownLeavesNothing == Spec => []StoppedIsClean
<1>1. LockInv /\ FreedIsOver /\ ListInv /\ StopInv => StoppedIsClean
  <2> SUFFICES ASSUME LockInv, FreedIsOver, ListInv, StopInv, main = "stopped"
               PROVE  /\ unlinked => output = NoFile \/ StampsOnly
                      /\ lock = NULL /\ alarm = {}
                      /\ \A c \in Clients : wpc[c] # "none" => c \in freed /\ conn[c] = "done"
    BY DEF StoppedIsClean
  <2>1. \A c \in Clients : wpc[c] # "none" => c \in freed /\ wpc[c] = "dead"
    BY DEF ListInv, AllJoined, FreedIsOver
  <2>2. lock = NULL
    BY <2>1 DEF LockInv, LockTypes, LockMatchesFile, InFile
  <2>3. unlinked => output = NoFile \/ StampsOnly
    BY DEF StopInv, FileDeleted, StampsOnly
  <2> QED  BY <2>1, <2>2, <2>3 DEF StopInv, ClosedAtExit, FileDeleted
<1>2. Init => FreedIsOver
  BY DEF Init, FreedIsOver
<1> QED
  BY <1>1, <1>2, LockInit, LockNext, FreedNext, ListInit, ListNext, StopInit, StopNext, PTL DEF Spec

-----------------------------------------------------------------------------
(* Facts about a file: c owns nothing in it; what c owns is at its end; no *)
(* client's pieces are interrupted by those of another.                    *)
NoneOf(c, file) == \A i \in 1 .. Len(file) : file[i][1] # c

OnlyAtEnd(c, file) ==
  \A i \in 1 .. Len(file) :
    file[i][1] = c => \A j \in i .. Len(file) : file[j][1] = c

Contiguous(file) ==
  \A i, k \in 1 .. Len(file) :
    i < k /\ file[i][1] = file[k][1] /\ file[i][1] \in Clients =>
      \A j \in i .. k : file[j][1] = file[i][1]

(* A piece of the client whose pieces are at the end goes there.           *)
LEMMA AppendOwn ==
  ASSUME NEW file \in Seq(Pieces), Contiguous(file), NEW c \in Clients, OnlyAtEnd(c, file),
         NEW kind \in Kinds
  PROVE  LET new == Append(file, <<c, kind>>) IN
         /\ new \in Seq(Pieces) /\ Contiguous(new) /\ OnlyAtEnd(c, new)
         /\ \A d \in Clients \ {c} : NoneOf(d, file) => NoneOf(d, new)
<1> DEFINE new == Append(file, <<c, kind>>)
<1>1. /\ new \in Seq(Pieces) /\ Len(new) = Len(file) + 1 /\ Len(file) \in Nat
      /\ \A i \in 1 .. Len(file) : new[i] = file[i]
      /\ new[Len(file) + 1] = <<c, kind>>
  BY DEF Pieces
<1> HIDE DEF new
<1>2. new[Len(file) + 1][1] = c
  BY <1>1
<1>3. OnlyAtEnd(c, new)
  BY <1>1, <1>2 DEF OnlyAtEnd
<1>4. Contiguous(new)
  <2> SUFFICES ASSUME NEW i \in 1 .. Len(new), NEW k \in 1 .. Len(new), NEW j \in i .. k,
                      i < k, new[i][1] = new[k][1], new[i][1] \in Clients
               PROVE  new[j][1] = new[i][1]
    BY DEF Contiguous
  <2>1. CASE k \in 1 .. Len(file)
    <3>1. /\ i \in 1 .. Len(file) /\ j \in 1 .. Len(file)
          /\ new[i] = file[i] /\ new[j] = file[j] /\ new[k] = file[k]
      BY <1>1, <2>1
    <3> QED  BY <2>1, <3>1 DEF Contiguous
  <2>2. CASE k = Len(file) + 1
    BY <1>1, <1>2, <1>3, <2>2 DEF OnlyAtEnd
  <2> QED  BY <1>1, <2>1, <2>2
<1>5. \A d \in Clients \ {c} : NoneOf(d, file) => NoneOf(d, new)
  BY <1>1, <1>2 DEF NoneOf
<1> QED  BY <1>1, <1>3, <1>4, <1>5 DEF new

(* A timestamp belongs to no client.                                       *)
LEMMA AppendStamp ==
  ASSUME NEW file \in Seq(Pieces), Contiguous(file), NEW kind \in {"stamp", "cut"}
  PROVE  LET new == Append(file, <<Main, kind>>) IN
         /\ new \in Seq(Pieces) /\ Contiguous(new)
         /\ \A d \in Clients : NoneOf(d, file) => NoneOf(d, new)
<1> DEFINE new == Append(file, <<Main, kind>>)
<1>1. /\ new \in Seq(Pieces) /\ Len(new) = Len(file) + 1 /\ Len(file) \in Nat
      /\ \A i \in 1 .. Len(file) : new[i] = file[i]
      /\ new[Len(file) + 1] = <<Main, kind>>
  BY DEF Pieces
<1> HIDE DEF new
<1>2. new[Len(file) + 1][1] \notin Clients
  BY <1>1, ServerAssumption
<1>3. Contiguous(new)
  <2>1. \A i \in 1 .. Len(new) : new[i][1] \in Clients => i \in 1 .. Len(file) /\ new[i] = file[i]
    BY <1>1, <1>2
  <2>2. ASSUME NEW i \in 1 .. Len(new), NEW k \in 1 .. Len(new), i < k, new[i][1] = new[k][1],
               new[i][1] \in Clients, NEW j \in i .. k
        PROVE  new[j][1] = new[i][1]
    <3>1. i \in 1 .. Len(file) /\ new[i] = file[i] /\ k \in 1 .. Len(file) /\ new[k] = file[k]
      BY <2>1, <2>2
    <3>2. j \in 1 .. Len(file) /\ new[j] = file[j]
      BY <1>1, <3>1
    <3> QED  BY <2>2, <3>1, <3>2 DEF Contiguous
  <2> QED  BY <2>2 DEF Contiguous
<1>4. \A d \in Clients : NoneOf(d, file) => NoneOf(d, new)
  BY <1>1, <1>2 DEF NoneOf
<1> QED  BY <1>1, <1>3, <1>4 DEF new

(* What a full device drops is a beginning of what was written.            *)
LEMMA KeepIsSuffix ==
  ASSUME NEW S, NEW out \in Seq(S), NEW device
  PROVE  \E n \in 0 .. Len(out) : Keep(device, out) = SubSeq(out, n + 1, Len(out))
<1> DEFINE full == device /\ Cardinality(Newlines(out)) > Capacity
<1>1. CASE full
  <2>1. Newlines(out) # {}
    <3> SUFFICES ASSUME Newlines(out) = {} PROVE FALSE
      OBVIOUS
    <3>1. Cardinality({}) > Capacity
      BY <1>1
    <3>2. Cardinality({}) = 0 /\ Capacity \in Nat \ {0}
      BY ServerAssumption, FS_EmptySet
    <3> QED  BY <3>1, <3>2
  <2>2. Newlines(out) \subseteq 1 .. Len(out) /\ Newlines(out) \subseteq Nat
    BY DEF Newlines
  <2>3. Min(Newlines(out)) \in 1 .. Len(out)
    BY <2>1, <2>2, MinIsLeast
  <2>4. Keep(device, out) = SubSeq(out, Min(Newlines(out)) + 1, Len(out))
    BY <1>1, Zenon DEF Keep
  <2> QED  BY <2>3, <2>4
<1>2. CASE ~full
  <2>1. Keep(device, out) = out
    BY <1>2, Zenon DEF Keep
  <2>2. out = SubSeq(out, 0 + 1, Len(out)) /\ 0 \in 0 .. Len(out)
    OBVIOUS
  <2> QED  BY <2>1, <2>2
<1> QED  BY <1>1, <1>2

(* Dropping a beginning interrupts no packet.                              *)
LEMMA SuffixKeeps ==
  ASSUME NEW file \in Seq(Pieces), NEW n \in 0 .. Len(file)
  PROVE  LET new == SubSeq(file, n + 1, Len(file)) IN
         /\ new \in Seq(Pieces)
         /\ Contiguous(file) => Contiguous(new)
         /\ \A c \in Clients : NoneOf(c, file) => NoneOf(c, new)
         /\ \A c \in Clients : OnlyAtEnd(c, file) => OnlyAtEnd(c, new)
<1> DEFINE new == SubSeq(file, n + 1, Len(file))
<1>1. /\ new \in Seq(Pieces) /\ Len(new) = Len(file) - n /\ Len(file) \in Nat
      /\ \A i \in 1 .. Len(new) : new[i] = file[n + i]
  OBVIOUS
<1> HIDE DEF new
<1>2. Contiguous(file) => Contiguous(new)
  <2> SUFFICES ASSUME Contiguous(file), NEW i \in 1 .. Len(new), NEW k \in 1 .. Len(new),
                      NEW j \in i .. k,
                      i < k, new[i][1] = new[k][1], new[i][1] \in Clients
               PROVE  new[j][1] = new[i][1]
    BY DEF Contiguous
  <2>1. /\ n + i \in 1 .. Len(file) /\ n + k \in 1 .. Len(file) /\ n + i < n + k
        /\ n + j \in (n + i) .. (n + k)
        /\ new[i] = file[n + i] /\ new[j] = file[n + j] /\ new[k] = file[n + k]
    BY <1>1
  <2> QED  BY <2>1 DEF Contiguous
<1>3. \A c \in Clients : NoneOf(c, file) => NoneOf(c, new)
  BY <1>1 DEF NoneOf
<1>4. \A c \in Clients : OnlyAtEnd(c, file) => OnlyAtEnd(c, new)
  <2> SUFFICES ASSUME NEW c \in Clients, OnlyAtEnd(c, file), NEW i \in 1 .. Len(new),
                      new[i][1] = c, NEW j \in i .. Len(new)
               PROVE  new[j][1] = c
    BY DEF OnlyAtEnd
  <2>1. /\ n + i \in 1 .. Len(file) /\ n + j \in (n + i) .. Len(file)
        /\ new[i] = file[n + i] /\ new[j] = file[n + j]
    BY <1>1
  <2> QED  BY <2>1 DEF OnlyAtEnd
<1> QED  BY <1>1, <1>2, <1>3, <1>4 DEF new
-----------------------------------------------------------------------------
OutputTypes ==
  /\ output = NoFile \/ output \in Seq(Pieces)
  /\ unsent \in [Clients -> Seq(Segments)] /\ wire \in [Clients -> Seq(Segments)]

(* Nobody writes before it has the mutex.                                  *)
NotWrittenYet ==
  \A c \in Clients :
    wpc[c] \in {"none", "recv_lock"} /\ output # NoFile => NoneOf(c, output)

(* What the worker that receives has written is at the end of the file,    *)
(* and the file is there.                                                  *)
ReceiverIsLast ==
  \A c \in Clients :
    wpc[c] \in {"recv_check", "recv"} => output # NoFile /\ OnlyAtEnd(c, output)

OutputInv ==
  /\ OutputTypes /\ NotWrittenYet /\ ReceiverIsLast
  /\ output # NoFile => Contiguous(output)

(* A file with nothing in it.                                              *)
LEMMA EmptyFile ==
  /\ << >> \in Seq(Pieces) /\ << >> # NoFile /\ Contiguous(<< >>)
  /\ \A c : NoneOf(c, << >>) /\ OnlyAtEnd(c, << >>)
<1>1. << >> \in Seq(Pieces) /\ 1 .. Len(<< >>) = {}
  OBVIOUS
<1>2. << >> # NoFile
  BY <1>1, ServerAssumption
<1> QED  BY <1>1, <1>2 DEF Contiguous, NoneOf, OnlyAtEnd

(* The output is missing or empty when the process starts.                 *)
LEMMA OutputInit == Init => OutputInv
<1> SUFFICES ASSUME Init PROVE OutputInv
  OBVIOUS
<1>1. output = NoFile \/ output = << >>
  BY DEF Init
<1>2. \A c \in Clients : wpc[c] = "none"
  BY DEF Init
<1>3. unsent \in [Clients -> Seq(Segments)] /\ wire \in [Clients -> Seq(Segments)]
  BY ServerAssumption DEF Init
<1> QED
  BY <1>1, <1>2, <1>3, EmptyFile
  DEF OutputInv, OutputTypes, NotWrittenYet, ReceiverIsLast

(* A step that leaves the output alone keeps the invariant, when no worker *)
(* begins to receive in it.                                                *)
LEMMA OutputFrame ==
  ASSUME OutputInv, UNCHANGED output,
         unsent' \in [Clients -> Seq(Segments)], wire' \in [Clients -> Seq(Segments)],
         \A c \in Clients :
           /\ wpc'[c] \in {"none", "recv_lock"} => wpc[c] \in {"none", "recv_lock"}
           /\ wpc'[c] \in {"recv_check", "recv"} => wpc[c] \in {"recv_check", "recv"}
  PROVE  OutputInv'
  BY DEF OutputInv, OutputTypes, NotWrittenYet, ReceiverIsLast, NoneOf, OnlyAtEnd, Contiguous

(* receive_data opens or creates the file.                                 *)
LEMMA OutputRecvLock ==
  ASSUME LockInv, OutputInv, NEW c \in Clients, recv_lock(c) PROVE OutputInv'
<1>1. /\ wpc \in [Clients -> WorkerLocs] /\ wpc[c] = "recv_lock" /\ lock = NULL
      /\ UNCHANGED <<unsent, wire>>
  BY DEF recv_lock, AtWorker, LockInv, LockTypes, Others, netVars
<1>2. CASE Goto(c, "close") /\ UNCHANGED output
  BY <1>1, <1>2, OutputFrame DEF Goto, Set, OutputInv, OutputTypes
<1>3. CASE /\ Goto(c, "recv_check")
           /\ output' = IF output = NoFile THEN << >> ELSE output
  <2>1. /\ wpc'[c] = "recv_check" /\ \A d \in Clients \ {c} : wpc'[d] = wpc[d]
    BY <1>1, <1>3 DEF Goto, Set
  <2>2. \A d \in Clients : wpc[d] \notin {"recv_check", "recv"}
    BY <1>1, ServerAssumption DEF LockInv, LockMatchesFile, InFile, Threads
  <2>3. /\ output' \in Seq(Pieces) /\ output' # NoFile /\ Contiguous(output')
        /\ \A d \in Clients : wpc[d] \in {"none", "recv_lock"} => NoneOf(d, output')
    BY <1>3, EmptyFile DEF OutputInv, OutputTypes, NotWrittenYet
  <2>4. OnlyAtEnd(c, output')
    BY <1>1, <2>3 DEF NoneOf, OnlyAtEnd
  <2> QED
    BY <1>1, <2>1, <2>2, <2>3, <2>4 DEF OutputInv, OutputTypes, NotWrittenYet, ReceiverIsLast
<1> QED  BY <1>2, <1>3 DEF recv_lock, fileVars

(* What recv writes: a piece at the end, of which a device may drop        *)
(* something at the beginning.                                             *)
LEMMA WriteKeeps ==
  ASSUME NEW file \in Seq(Pieces), Contiguous(file), NEW c \in Clients, OnlyAtEnd(c, file),
         NEW kind \in Kinds, NEW device
  PROVE  \A new \in {Write(file, <<c, kind>>), Keep(device, Write(file, <<c, kind>>))} :
           /\ new \in Seq(Pieces) /\ Contiguous(new) /\ OnlyAtEnd(c, new)
           /\ \A d \in Clients \ {c} : NoneOf(d, file) => NoneOf(d, new)
<1> DEFINE out == Write(file, <<c, kind>>)
<1>1. out = file \/ out = Append(file, <<c, kind>>)
  BY DEF Write
<1> HIDE DEF out
<1>2. /\ out \in Seq(Pieces) /\ Contiguous(out) /\ OnlyAtEnd(c, out)
      /\ \A d \in Clients \ {c} : NoneOf(d, file) => NoneOf(d, out)
  BY <1>1, AppendOwn
<1>3. PICK n \in 0 .. Len(out) : Keep(device, out) = SubSeq(out, n + 1, Len(out))
  BY <1>2, KeepIsSuffix
<1>4. /\ Keep(device, out) \in Seq(Pieces) /\ Contiguous(Keep(device, out))
      /\ OnlyAtEnd(c, Keep(device, out))
      /\ \A d \in Clients \ {c} : NoneOf(d, file) => NoneOf(d, Keep(device, out))
  BY <1>2, <1>3, SuffixKeeps
<1> QED  BY <1>2, <1>4 DEF out

(* A buffer that recv got goes behind what its worker has written so far.  *)
LEMMA OutputRecv ==
  ASSUME LockInv, OutputInv, NEW c \in Clients, recv(c) PROVE OutputInv'
<1> DEFINE end == wire[c] = << >>
           seg == IF end THEN "zeroes" ELSE Head(wire[c])
<1>0. /\ wpc \in [Clients -> WorkerLocs] /\ wpc[c] = "recv" /\ lock = c
      /\ wire \in [Clients -> Seq(Segments)] /\ UNCHANGED unsent
      /\ wire' = IF end THEN wire ELSE Set(wire, c, Tail(wire[c]))
      /\ output # NoFile /\ output \in Seq(Pieces) /\ Contiguous(output) /\ OnlyAtEnd(c, output)
  BY DEF recv, AtWorker, LockInv, LockTypes, LockMatchesFile, InFile, OutputInv, OutputTypes,
         ReceiverIsLast
<1>1. /\ unsent' \in [Clients -> Seq(Segments)] /\ wire' \in [Clients -> Seq(Segments)]
      /\ ~end => Head(wire[c]) \in Segments
  BY <1>0 DEF Set, OutputInv, OutputTypes
<1>2. CASE Goto(c, "close") /\ UNCHANGED output
  BY <1>0, <1>1, <1>2, OutputFrame DEF Goto, Set
<1>3. CASE /\ \/ output' = Keep(char_dev, Write(output, Piece(c, seg)))
              \/ output' = Write(output, <<c, "cut">>)
           /\ Goto(c, IF seg = "nl" THEN "recv_done" ELSE "recv_check")
  <2>1. PICK kind \in Kinds : Piece(c, seg) = <<c, kind>>
    BY <1>1 DEF Piece, Segments, Kinds
  <2>2. /\ output' \in Seq(Pieces) /\ Contiguous(output') /\ OnlyAtEnd(c, output')
        /\ \A d \in Clients \ {c} : NoneOf(d, output) => NoneOf(d, output')
    <3>1. CASE output' = Keep(char_dev, Write(output, <<c, kind>>))
      BY <1>0, <3>1, WriteKeeps
    <3>2. CASE output' = Write(output, <<c, "cut">>)
      BY <1>0, <3>2, WriteKeeps DEF Kinds
    <3> QED  BY <1>3, <2>1, <3>1, <3>2
  <2>3. /\ wpc'[c] \in {"recv_done", "recv_check"} /\ \A d \in Clients \ {c} : wpc'[d] = wpc[d]
    BY <1>0, <1>3 DEF Goto, Set
  <2>4. \A d \in Clients \ {c} : wpc[d] \notin {"recv_check", "recv"}
    BY <1>0 DEF LockInv, LockMatchesFile, InFile
  <2>5. output' # NoFile
    BY <2>2, ServerAssumption
  <2> QED
    BY <1>0, <1>1, <2>2, <2>3, <2>4, <2>5
    DEF OutputInv, OutputTypes, NotWrittenYet, ReceiverIsLast
<1> QED  BY <1>2, <1>3 DEF recv
(* The other steps of a worker write nothing.                              *)
LEMMA OutputWorker ==
  ASSUME LockInv, OutputInv, NEW c \in Clients, WorkerStep(c) PROVE OutputInv'
<1>1. CASE recv_lock(c)
  BY <1>1, OutputRecvLock
<1>2. CASE recv(c)
  BY <1>2, OutputRecv
<1>3. CASE ~recv_lock(c) /\ ~recv(c)
  <2>1. UNCHANGED <<output, unsent, wire>>
    BY <1>3 DEF WorkerStep, Others, netVars, fileVars, recv_check, recv_error, recv_done,
                recv_return, send_lock, send_check, send, send_error, send_sigpipe,
                close_client, worker_exit, worker_end
  <2>2. \A d \in Clients :
          /\ wpc'[d] \in {"none", "recv_lock"} => wpc[d] \in {"none", "recv_lock"}
          /\ wpc'[d] \in {"recv_check", "recv"} => wpc[d] \in {"recv_check", "recv"}
    <3> USE DEF AtWorker, Goto, Set, LockInv, LockTypes
    <3>1. CASE recv_check(c) \/ recv_error(c) \/ recv_done(c) \/ recv_return(c) \/ send_lock(c)
      BY <3>1 DEF recv_check, recv_error, recv_done, recv_return, send_lock
    <3>2. CASE send_check(c) \/ send(c) \/ send_error(c)
      BY <3>2 DEF send_check, send, send_error, SendEnd
    <3>3. CASE send_sigpipe(c) \/ close_client(c) \/ worker_exit(c) \/ worker_end(c)
      BY <3>3 DEF send_sigpipe, close_client, worker_exit, worker_end, workVars
    <3> QED  BY <1>3, <3>1, <3>2, <3>3 DEF WorkerStep
  <2> QED  BY <2>1, <2>2, OutputFrame DEF OutputInv, OutputTypes
<1> QED  BY <1>1, <1>2, <1>3

(* The timestamp is written by a handler that has the mutex, so no worker  *)
(* is receiving.                                                           *)
LEMMA OutputAlarm ==
  ASSUME LockInv, OutputInv, NEW t \in Threads, alarm_handler(t) PROVE OutputInv'
<1>1. UNCHANGED <<wpc, unsent, wire>> /\ lock = NULL
  BY DEF alarm_handler, HandlerMayWrite, workVars, netVars
<1>2. \A d \in Clients : wpc[d] \notin {"recv_check", "recv"}
  BY <1>1, ServerAssumption DEF LockInv, LockMatchesFile, InFile, Threads
<1>3. CASE UNCHANGED output
  BY <1>1, <1>3, OutputFrame DEF OutputInv, OutputTypes
<1>4. ASSUME NEW kind \in {"stamp", "cut"}, output' = Stamped(kind) PROVE OutputInv'
  <2>1. PICK file \in Seq(Pieces) :
          /\ output' = Append(file, <<Main, kind>>) /\ Contiguous(file)
          /\ \A d \in Clients : wpc[d] \in {"none", "recv_lock"} => NoneOf(d, file)
    BY <1>4, EmptyFile DEF Stamped, OutputInv, OutputTypes, NotWrittenYet
  <2>2. /\ output' \in Seq(Pieces) /\ Contiguous(output')
        /\ \A d \in Clients : NoneOf(d, file) => NoneOf(d, output')
    BY <2>1, AppendStamp
  <2> QED
    BY <1>1, <1>2, <2>1, <2>2 DEF OutputInv, OutputTypes, NotWrittenYet, ReceiverIsLast
<1> QED  BY <1>3, <1>4 DEF alarm_handler

(* srv_shutdown deletes the file when no worker is left to write it.       *)
LEMMA OutputUnlink ==
  ASSUME FreedIsOver, ListInv', OutputInv, shutdown_unlink PROVE OutputInv'
<1>1. /\ UNCHANGED <<wpc, freed, unsent, wire>> /\ main' = "return"
      /\ output' = output \/ output' = NoFile
  BY DEF shutdown_unlink, workVars, flagVars, netVars
<1>2. CASE UNCHANGED output
  BY <1>1, <1>2, OutputFrame DEF OutputInv, OutputTypes
<1>3. CASE output' = NoFile
  <2>1. \A d \in Clients : wpc'[d] \in {"none", "dead"}
    BY <1>1 DEF ListInv, AllJoined, FreedIsOver
  <2> QED
    BY <1>1, <1>3, <2>1 DEF OutputInv, OutputTypes, NotWrittenYet, ReceiverIsLast
<1> QED  BY <1>1, <1>2, <1>3

(* The other steps of the main thread leave the output alone.              *)
LEMMA OutputMain ==
  ASSUME LockInv, FreedIsOver, ListInv', OutputInv, MainStep PROVE OutputInv'
<1>1. CASE shutdown_unlink
  BY <1>1, OutputUnlink
<1>2. CASE start_worker
  <2>1. UNCHANGED <<output, unsent, wire>>
    BY <1>2 DEF start_worker, fileVars, netVars
  <2>2. wpc' = wpc \/ (wpc' = Set(wpc, subject, "recv_lock") /\ wpc[subject] = "none")
    BY <1>2 DEF start_worker, AtMain, LockInv, SpawnsOnce
  <2>3. \A d \in Clients :
          /\ wpc'[d] \in {"none", "recv_lock"} => wpc[d] \in {"none", "recv_lock"}
          /\ wpc'[d] \in {"recv_check", "recv"} => wpc[d] \in {"recv_check", "recv"}
    BY <2>2 DEF LockInv, LockTypes, Set
  <2> QED  BY <2>1, <2>3, OutputFrame DEF OutputInv, OutputTypes
<1>3. CASE ~shutdown_unlink /\ ~start_worker
  <2>1. UNCHANGED <<output, unsent, wire, wpc>>
    BY <1>3 DEF MainStep, Control, start, server_init, srv_bind, srv_listen, run_start,
         run_loop, accept_enter, accept_client, insert_worker, check_worker,
         check_join, check_end, Join, shutdown_begin, stop_worker, stop_join,
         run_return, fileVars, netVars, workVars
  <2> QED  BY <2>1, OutputFrame DEF OutputInv, OutputTypes
<1> QED  BY <1>1, <1>2, <1>3

(* A client that sends takes its packet apart, in order.                   *)
LEMMA OutputClient ==
  ASSUME LockInv, OutputInv, NEW c \in Clients, ClientStep(c) PROVE OutputInv'
<1>1. UNCHANGED <<output, wpc>>
  BY DEF ClientStep, client_connect, client_send, client_read, client_leave, fileVars, workVars
<1>2. /\ unsent \in [Clients -> Seq(Segments)] /\ wire \in [Clients -> Seq(Segments)]
  BY DEF OutputInv, OutputTypes
<1>3. CASE client_connect(c) \/ client_read(c)
  BY <1>1, <1>2, <1>3, OutputFrame DEF client_connect, client_read
<1>4. CASE client_send(c)
  <2>1. /\ Head(unsent[c]) \in Segments /\ Tail(unsent[c]) \in Seq(Segments)
    BY <1>2, <1>4 DEF client_send
  <2>2. unsent' \in [Clients -> Seq(Segments)] /\ wire' \in [Clients -> Seq(Segments)]
    BY <1>2, <1>4, <2>1 DEF client_send, Set
  <2> QED  BY <1>1, <2>2, OutputFrame
<1>5. CASE client_leave(c)
  <2>1. /\ << >> \in Seq(Segments) /\ unsent' = [unsent EXCEPT ![c] = << >>]
        /\ UNCHANGED wire \/ wire' = [wire EXCEPT ![c] = << >>]
    BY <1>5 DEF client_leave, Set
  <2>2. unsent' \in [Clients -> Seq(Segments)] /\ wire' \in [Clients -> Seq(Segments)]
    BY <1>2, <2>1
  <2> QED  BY <1>1, <2>2, OutputFrame
<1> QED  BY <1>3, <1>4, <1>5 DEF ClientStep

(* Every step of the process, of a client or of the kernel keeps it.       *)
LEMMA OutputNext ==
  LockInv /\ FreedIsOver /\ ListInv' /\ OutputInv /\ [Next]_vars => OutputInv'
<1> SUFFICES ASSUME LockInv, FreedIsOver, ListInv', OutputInv, [Next]_vars PROVE OutputInv'
  OBVIOUS
<1>1. CASE signal_handler \/ signal_default \/ timer_expires \/ UNCHANGED vars
  <2>1. UNCHANGED <<output, wpc, unsent, wire>>
    BY <1>1 DEF signal_handler, signal_default, timer_expires, vars, fileVars, netVars, workVars
  <2> QED  BY <2>1, OutputFrame DEF OutputInv, OutputTypes
<1> QED  BY <1>1, OutputMain, OutputAlarm, OutputWorker, OutputClient DEF Next

(* For every number of clients, every way the packets are cut into         *)
(* segments, every failure and both builds: the pieces of a packet are     *)
(* next to each other in the output; no other packet and no timestamp gets *)
(* between them (aesd_worker.c:17-69, aesd_server.c:224-249), whichever    *)
(* commands a full device drops.                                           *)
THEOREM PacketsNeverInterleave == Spec => []PacketsContiguous
<1>1. OutputInv => PacketsContiguous
  <2> SUFFICES ASSUME OutputInv, output # NoFile PROVE Contiguous(output) /\ DOMAIN output = 1 .. Len(output)
    BY DEF PacketsContiguous, Contiguous
  <2> QED  BY DEF OutputInv, OutputTypes
<1>2. Init => FreedIsOver
  BY DEF Init, FreedIsOver
<1> QED
  BY <1>1, <1>2, LockInit, LockNext, FreedNext, ListInit, ListNext, OutputInit, OutputNext, PTL
  DEF Spec
-----------------------------------------------------------------------------
(* The rest of TypeOK, which nothing above speaks of.                      *)
OtherTypes ==
  /\ main \in MainLocs /\ running \in BOOLEAN /\ char_dev \in Builds
  /\ timer \in {"off"} \cup TimerIds /\ (char_dev => timer = "off")
  /\ shutdown \in [Clients -> BOOLEAN] /\ exited \in [Clients -> BOOLEAN]
  /\ served \subseteq Clients
  /\ signals \in 0 .. MaxSignals /\ hung \in {"no", "main", "alarm_handler"}
  /\ ticks \in 0 .. MaxTicks /\ unlinked \in BOOLEAN

(* The values Init gives.                                                  *)
LEMMA OtherTypesInit == Init => OtherTypes
<1> SUFFICES ASSUME Init PROVE OtherTypes
  OBVIOUS
<1>1. signals \in 0 .. MaxSignals /\ ticks \in 0 .. MaxTicks
  BY ServerAssumption DEF Init
<1>2. main \in MainLocs /\ timer = "off" /\ served \subseteq Clients
  BY DEF Init, MainLocs
<1>3. shutdown \in [Clients -> BOOLEAN] /\ exited \in [Clients -> BOOLEAN]
  BY DEF Init
<1>4. running \in BOOLEAN /\ char_dev \in Builds /\ unlinked \in BOOLEAN /\ hung = "no"
  BY Zenon DEF Init
<1> QED  BY <1>1, <1>2, <1>3, <1>4 DEF OtherTypes

(* Steps of the main thread: only server_init and srv_shutdown touch the   *)
(* timer, and the device has none.                                         *)
LEMMA OtherTypesMain == ASSUME OtherTypes, ListInv, MainStep PROVE OtherTypes'
<1> USE DEF OtherTypes, AtMain, Control, storeVars, flagVars, respVars, workVars, sigVars
<1>1. CASE start \/ srv_bind \/ srv_listen \/ run_loop \/ accept_enter \/ run_return
  BY <1>1 DEF start, srv_bind, srv_listen, run_loop, accept_enter, run_return, MainLocs, Ended
<1>2. CASE server_init
  BY <1>2 DEF server_init, HasTimer, MainLocs
<1>3. CASE run_start \/ accept_client \/ start_worker \/ insert_worker
  <2>1. /\ UNCHANGED <<char_dev, timer, unlinked, shutdown, exited, served, signals, hung, ticks>>
        /\ main' \in {"loop", "spawn", "insert", "killed", "check"}
    BY <1>3 DEF run_start, accept_client, start_worker, insert_worker
  <2>2. running' = running \/ running' = TRUE
    BY <1>3 DEF run_start, accept_client, start_worker, insert_worker
  <2>3. running' \in BOOLEAN
    BY <2>2, Zenon
  <2> QED  BY <2>1, <2>3 DEF MainLocs, Ended
<1>4. CASE check_worker \/ check_end \/ check_join \/ stop_join
  BY <1>4 DEF check_worker, check_end, check_join, stop_join, Join, MainLocs
<1>5. CASE shutdown_begin
  BY <1>5 DEF shutdown_begin, StopTimer, MainLocs
<1>6. CASE stop_worker
  BY <1>6 DEF stop_worker, Set, MainLocs
<1>7. CASE shutdown_unlink
  <2>1. UNCHANGED unlinked \/ unlinked' = TRUE
    BY <1>7 DEF shutdown_unlink
  <2>2. unlinked' \in BOOLEAN
    BY <2>1, Zenon
  <2> QED  BY <1>7, <2>2 DEF shutdown_unlink, MainLocs
<1> QED  BY <1>1, <1>2, <1>3, <1>4, <1>5, <1>6, <1>7 DEF MainStep

(* Steps of the workers, the handlers and the clients.                     *)
LEMMA OtherTypesNext == OtherTypes /\ ListInv /\ [Next]_vars => OtherTypes'
<1> SUFFICES ASSUME OtherTypes, ListInv, [Next]_vars PROVE OtherTypes'
  OBVIOUS
<1> USE DEF OtherTypes, mainVars, storeVars, flagVars, respVars, workVars, sigVars
<1>1. ASSUME NEW c \in Clients, WorkerStep(c) PROVE OtherTypes'
  <2>1. CASE send(c)
    BY <2>1 DEF send
  <2>2. CASE send_sigpipe(c)
    BY <2>2 DEF send_sigpipe, MainLocs, Ended
  <2>3. CASE worker_exit(c)
    BY <2>3 DEF worker_exit, Set
  <2>4. CASE ~send(c) /\ ~send_sigpipe(c) /\ ~worker_exit(c)
    <3>1. UNCHANGED <<mainVars, flagVars, respVars, sigVars>>
      BY <1>1, <2>4 DEF WorkerStep, Others, recv_lock, recv_check, recv, recv_error, recv_done,
                        recv_return, send_lock, send_check, send_error, close_client, worker_end
    <3> QED  BY <3>1
  <2> QED  BY <2>1, <2>2, <2>3, <2>4
<1>2. CASE signal_handler \/ signal_default
  <2>1. /\ UNCHANGED <<char_dev, timer, unlinked, shutdown, exited, served, ticks>>
        /\ signals' \in 0 .. MaxSignals
    BY <1>2, ServerAssumption DEF signal_handler, signal_default
  <2>2. main' \in MainLocs
    BY <1>2 DEF signal_handler, signal_default, MainLocs, Ended
  <2>3. running' = running \/ running' = FALSE
    BY <1>2, Zenon DEF signal_handler, signal_default
  <2>4. running' \in BOOLEAN
    BY <2>3, Zenon
  <2>5. hung' = hung \/ hung' = "main" \/ hung' = "alarm_handler"
    BY <1>2 DEF signal_handler, signal_default
  <2> QED  BY <2>1, <2>2, <2>4, <2>5
<1>3. CASE timer_expires
  BY <1>3, ServerAssumption DEF timer_expires, MainLocs
<1>4. CASE \/ \E t \in Threads : alarm_handler(t)
           \/ \E c \in Clients : ClientStep(c)
           \/ UNCHANGED vars
  <2>1. UNCHANGED <<mainVars, flagVars, respVars, signals, hung, ticks>>
    BY <1>4 DEF alarm_handler, ClientStep, client_connect, client_send, client_read,
                client_leave, vars
  <2> QED  BY <2>1
<1> QED  BY <1>1, <1>2, <1>3, <1>4, OtherTypesMain DEF Next

(* The kernel never holds more than SendBuf pieces for a client.           *)
UnreadBounded == unread \in [Clients -> 0 .. SendBuf]

(* Only send adds to them, when there is room.                             *)
LEMMA UnreadNext == UnreadBounded /\ [Next]_vars => UnreadBounded'
<1> SUFFICES ASSUME UnreadBounded, [Next]_vars PROVE UnreadBounded'
  OBVIOUS
<1> USE DEF UnreadBounded, Set
<1>1. ASSUME NEW c \in Clients, WorkerStep(c) PROVE UnreadBounded'
  <2>1. CASE send(c)
    <3>1. \/ UNCHANGED unread
          \/ unread' = [unread EXCEPT ![c] = unread[c] + 1] /\ unread[c] < SendBuf
      BY <2>1 DEF send, SendRoom
    <3> QED  BY <3>1, ServerAssumption
  <2>2. CASE close_client(c)
    BY <2>2, ServerAssumption DEF close_client
  <2>3. CASE ~send(c) /\ ~close_client(c)
    <3>1. UNCHANGED unread
      BY <1>1, <2>3 DEF WorkerStep, Others, recv_lock, recv_check, recv, recv_error, recv_done,
                        recv_return, send_lock, send_check, send_error, send_sigpipe,
                        worker_exit, worker_end, netVars
    <3> QED  BY <3>1
  <2> QED  BY <2>1, <2>2, <2>3
<1>2. ASSUME NEW c \in Clients, ClientStep(c) PROVE UnreadBounded'
  BY <1>2, ServerAssumption
  DEF ClientStep, client_connect, client_send, client_read, client_leave
<1>3. CASE MainStep \/ signal_handler \/ signal_default \/ timer_expires
           \/ (\E t \in Threads : alarm_handler(t)) \/ UNCHANGED vars
  <2>1. UNCHANGED unread
    BY <1>3 DEF MainStep, Control, start, server_init, srv_bind, srv_listen, run_start,
         run_loop, accept_enter, accept_client, start_worker, insert_worker, check_worker,
         check_join, check_end, Join, shutdown_begin, stop_worker, stop_join,
         shutdown_unlink, run_return, signal_handler, signal_default, timer_expires,
         alarm_handler, vars, netVars
  <2> QED  BY <2>1
<1> QED  BY <1>1, <1>2, <1>3 DEF Next

(* For every value of the constants, in every reachable state: the device  *)
(* never has a timer, the main thread has a worker in its hands wherever   *)
(* it starts, lists or joins one, and the output holds nothing but pieces. *)
THEOREM ServerTypes == Spec => []TypeOK
<1>1. LockInv /\ ListInv /\ HandlersRun /\ OutputInv /\ OtherTypes /\ UnreadBounded => TypeOK
  <2> SUFFICES ASSUME LockInv, ListInv, HandlersRun, OutputInv, OtherTypes, UnreadBounded
               PROVE  TypeOK
    OBVIOUS
  <2>1. /\ workers.slh_first \in Clients \cup {NULL}
        /\ workers.sle_next \in [Clients -> Clients \cup {NULL}]
    BY DEF ListInv, ListTypes, Lists
  <2>2. main \in {"spawn", "insert", "check_join", "stop_join"} => subject # NULL
    <3>1. main = "spawn" => subject \in Clients
      BY DEF LockInv, SpawnsOnce
    <3>2. main \in {"insert", "check_join", "stop_join"} => subject \in Clients
      BY DEF ListInv, Alive, Ended, StartedIsKnown, Held
    <3> QED  BY <3>1, <3>2, ListAssumption
  <2> QED
    BY <2>1, <2>2 DEF TypeOK, OtherTypes, LockInv, LockTypes, ListInv, ListTypes, HandlersRun,
                      OutputInv, OutputTypes, UnreadBounded
<1>2. Init => FreedIsOver /\ HandlersRun /\ UnreadBounded
  BY ServerAssumption DEF Init, FreedIsOver, HandlersRun, UnreadBounded
<1> QED
  BY <1>1, <1>2, LockInit, LockNext, FreedNext, ListInit, ListNext, HandlersNext,
     OutputInit, OutputNext, OtherTypesInit, OtherTypesNext, UnreadNext, PTL DEF Spec
=============================================================================
