------------------------------ MODULE AesdServer ------------------------------
(***************************************************************************)
(* server/src: the aesdsocket process.  The main thread accepts clients and *)
(* reaps workers (aesd_server.c), a worker thread per client receives one   *)
(* packet and answers with the output (aesd_worker.c), and signal handlers  *)
(* interrupt them (aesdsocket.c, alarm_handler).  The clients and the       *)
(* kernel are the environment.  Built with USE_AESD_CHAR_DEVICE=1 the       *)
(* output is a device, there is no timer and nothing is deleted.            *)
(***************************************************************************)
EXTENDS WorkerList, OutputStore

CONSTANTS
  Main,         \* the main thread
  Script,       \* [Clients -> the recv results of its packet], see Segments
  Builds,       \* the values of USE_AESD_CHAR_DEVICE to look at
  TimerIds,     \* values timer_create may store in timer_, NULL included
  Failures,     \* what may go wrong, a subset of AllFailures
  MaxSignals,   \* bound: SIGINT/SIGTERM signals
  MaxTicks,     \* bound: timer expirations
  SendBuf,      \* pieces the kernel takes for a client that does not read them
  NoFile        \* the data file does not exist

(* What one recv returns: a full buffer or less than that, both without a  *)
(* newline, or data that ends the packet.                                  *)
Segments == {"full", "short", "nl"}

AllFailures == {"start", "socket", "memory", "thread", "file", "space", "timer",
                "close", "reset"}

Threads == Clients \cup {Main}

(* What the output consists of: what workers and timestamps leave in it.   *)
Kinds  == {"full", "padded", "nl", "zeroes", "cut"}
Pieces == (Clients \X Kinds) \cup ({Main} \X {"stamp", "cut"})

ASSUME ServerAssumption ==
  /\ Main \notin Clients /\ IsFiniteSet(Clients)
  /\ NULL \notin Threads /\ NoFile \notin Seq(Pieces)
  /\ Builds \subseteq BOOLEAN /\ Capacity \in Nat \ {0}
  /\ Script \in [Clients -> Seq(Segments)]
  /\ Failures \subseteq AllFailures
  /\ MaxSignals \in Nat /\ MaxTicks \in Nat /\ SendBuf \in Nat \ {0}

VARIABLES
  main,       \* where the main thread is
  running,    \* self->running
  char_dev,   \* self->char_dev_
  timer,      \* "off", or armed with the id timer_create stored
  unlinked,   \* unlink has left no data file behind
  backlog,    \* connections that wait in the listening socket
  workers,    \* the list workers_
  subject,    \* the entry the main thread makes or visits
  entry_temp, \* the entry it visits next (FOREACH_SAFE)
  lock,       \* the thread that holds output_lock_, or NULL
  output,     \* what the file or device holds: pieces, or NoFile
  wpc,        \* [Clients -> where the worker is]
  shutdown,   \* [Clients -> worker->shutdown]
  exited,     \* [Clients -> worker->exited]
  freed,      \* clients whose worker and list entry have been freed
  resp,       \* [Clients -> pieces sent back]
  served,     \* clients that got a complete response
  conn,       \* [Clients -> state of the connection]
  unsent,     \* [Clients -> segments the client has still to send]
  wire,       \* [Clients -> segments sent and not received]
  unread,     \* [Clients -> pieces sent back that the client has not read]
  signals,    \* SIGINT/SIGTERM signals so far
  hung,       \* "no", or what signal_handler is on top of while it waits for ever
              \* for the syslog lock of its own thread
  ticks,      \* timer expirations so far
  alarm       \* threads that are inside alarm_handler

storeVars == <<timer, char_dev, unlinked>>
listVars  == <<workers, subject, entry_temp>>
mainVars  == <<main, running, storeVars, listVars>>
flagVars  == <<shutdown, exited, freed>>
respVars  == <<resp, served>>
workVars  == <<wpc, flagVars, respVars>>
fileVars  == <<lock, output>>
netVars   == <<backlog, conn, unsent, wire, unread>>
sigVars   == <<signals, hung, ticks, alarm>>
vars      == <<mainVars, workVars, fileVars, netVars, sigVars>>

Init ==
  /\ main = "boot" /\ running = FALSE /\ char_dev \in Builds /\ timer = "off"
  /\ unlinked = FALSE
  /\ backlog = << >> /\ workers = SLIST_INIT /\ subject = NULL /\ entry_temp = NULL
  /\ lock = NULL /\ output = IF char_dev THEN << >> ELSE NoFile
  /\ wpc = [c \in Clients |-> "none"]
  /\ shutdown = [c \in Clients |-> FALSE] /\ exited = [c \in Clients |-> FALSE]
  /\ freed = {} /\ resp = [c \in Clients |-> << >>] /\ served = {}
  /\ conn = [c \in Clients |-> "new"]
  /\ unsent = Script /\ wire = [c \in Clients |-> << >>] /\ unread = [c \in Clients |-> 0]
  /\ signals = 0 /\ hung = "no" /\ ticks = 0 /\ alarm = {}

Ended == {"stopped", "failed", "killed"}
Alive == main \notin Ended
Set(f, c, v) == [f EXCEPT ![c] = v]

-----------------------------------------------------------------------------
(* The main thread, which stands still while a handler runs on it.         *)
AtMain(loc) == main = loc /\ Main \notin alarm /\ hung = "no"

(* A step that only takes the main thread from one place to another.       *)
Control(loc, next) ==
  /\ AtMain(loc) /\ main' = next
  /\ UNCHANGED <<running, storeVars, listVars, workVars, fileVars, netVars, sigVars>>

(* main(): fork and daemonize with -d, openlog, register the handlers.     *)
(* setsid, chdir, dup2, fork or sigaction may fail, which ends the process.*)
DaemonizeFails == "start" \in Failures

start ==
  \/ Control("boot", "init")
  \/ DaemonizeFails /\ Control("boot", "failed")

(* aesd_server_init, and start_timestamp_timer for a plain file.           *)
HasTimer_Always == TRUE       \* mutant: also for the device
HasTimer        == ~char_dev

server_init ==
  /\ AtMain("init")
  /\ main' = "bind"
  /\ \/ HasTimer /\ timer' \in TimerIds
     \/ (~HasTimer \/ "timer" \in Failures) /\ timer' = "off"
  /\ running' = FALSE /\ workers' = SLIST_INIT
  /\ UNCHANGED <<char_dev, unlinked, subject, entry_temp, workVars, fileVars, netVars, sigVars>>

srv_bind ==
  \/ Control("bind", "listen")
  \/ "socket" \in Failures /\ Control("bind", "failed")

srv_listen ==
  \/ Control("listen", "start")
  \/ "socket" \in Failures /\ Control("listen", "failed")

run_start ==
  /\ AtMain("start")
  /\ running' = TRUE
  /\ main' = "loop"
  /\ UNCHANGED <<storeVars, listVars, workVars, fileVars, netVars, sigVars>>

(* while (self->running)                                                   *)
run_loop == Control("loop", IF running THEN "calling" ELSE "shutdown")

(* aesd_worker_new, and into accept(): from here on a signal makes it      *)
(* return.                                                                 *)
accept_enter ==
  \/ Control("calling", "accept")
  \/ "memory" \in Failures /\ Control("calling", "loop")

accept_client ==
  /\ AtMain("accept") /\ backlog # << >>
  /\ \/ /\ subject' = Head(backlog) /\ backlog' = Tail(backlog)
        /\ main' = "spawn"
     \/ /\ "socket" \in Failures                  \* accept fails
        /\ main' = "loop" /\ UNCHANGED <<subject, backlog>>
  /\ UNCHANGED <<running, storeVars, workers, entry_temp, workVars, fileVars, sigVars>>
  /\ UNCHANGED <<conn, unsent, wire, unread>>

(* syslog, aesd_worker_entry_new and _start.  When either of these fails   *)
(* the main thread follows a null pointer (entry, or worker at line 150).  *)
start_worker ==
  /\ AtMain("spawn")
  /\ \/ /\ wpc' = Set(wpc, subject, "recv_lock")
        /\ main' = "insert"
     \/ /\ {"memory", "thread"} \cap Failures # {}
        /\ main' = "killed" /\ UNCHANGED wpc
  /\ UNCHANGED <<running, storeVars, listVars, flagVars, respVars, fileVars, netVars, sigVars>>

(* The end of accept_client and the first step of check_workers' loop.     *)
insert_worker ==
  /\ AtMain("insert")
  /\ workers' = SLIST_INSERT_HEAD(workers, subject)
  /\ subject' = SLIST_FIRST(workers')
  /\ main' = "check"
  /\ UNCHANGED <<running, storeVars, entry_temp, workVars, fileVars, netVars, sigVars>>

(* check_workers, one list entry at a time.                                *)
check_worker ==
  /\ AtMain("check") /\ subject # NULL
  /\ entry_temp' = SLIST_NEXT(workers, subject)
  /\ IF exited[subject]
       THEN /\ workers' = SLIST_REMOVE(workers, subject)
            /\ main' = "check_join"
            /\ UNCHANGED subject
       ELSE subject' = entry_temp' /\ UNCHANGED <<workers, main>>
  /\ UNCHANGED <<running, storeVars, workVars, fileVars, netVars, sigVars>>

check_end ==
  /\ AtMain("check") /\ subject = NULL
  /\ main' = "loop" /\ entry_temp' = NULL
  /\ UNCHANGED <<running, storeVars, workers, subject, workVars, fileVars, netVars, sigVars>>

(* pthread_join, then the worker and its list entry are freed.             *)
Over(c) == wpc[c] = "dead"

Join(loc, next) ==
  /\ AtMain(loc) /\ Over(subject)
  /\ freed' = freed \cup {subject}
  /\ subject' = entry_temp
  /\ main' = next
  /\ UNCHANGED <<running, storeVars, workers, entry_temp, fileVars, netVars, sigVars>>
  /\ UNCHANGED <<wpc, shutdown, exited, respVars>>

check_join == Join("check_join", "check")

(* srv_shutdown: stop the timer unless its id is the null pointer, close   *)
(* the listening socket (which drops the connections waiting in it) ...    *)
StopTimer_Runs == timer     \* mutant: the timer is left running
StopTimer      == IF timer = NULL THEN timer ELSE "off"

FirstToStop_None == NULL     \* mutant: does not walk the worker list
FirstToStop      == SLIST_FIRST(workers)

shutdown_begin ==
  /\ AtMain("shutdown")
  /\ timer' = StopTimer
  /\ backlog' = << >>
  /\ conn' = [c \in Clients |-> IF c \in Range(backlog) THEN "done" ELSE conn[c]]
  /\ subject' = FirstToStop
  /\ main' = "stop"
  /\ UNCHANGED <<running, char_dev, unlinked, workers, entry_temp, workVars, fileVars, sigVars>>
  /\ UNCHANGED <<unsent, wire, unread>>

(* ... ask every worker to stop and join it ...                            *)
stop_worker ==
  /\ AtMain("stop") /\ subject # NULL
  /\ entry_temp' = SLIST_NEXT(workers, subject)
  /\ shutdown' = Set(shutdown, subject, TRUE)
  /\ workers' = SLIST_REMOVE(workers, subject)
  /\ main' = "stop_join"
  /\ UNCHANGED <<running, storeVars, subject, fileVars, netVars, sigVars>>
  /\ UNCHANGED <<wpc, exited, freed, respVars>>

stop_join == Join("stop_join", "stop")

(* ... and delete the file, not the device; a failure is reported and that *)
(* is all.  After that main() returns.                                     *)
shutdown_unlink ==
  /\ AtMain("stop") /\ subject = NULL
  /\ \/ ~char_dev /\ output' = NoFile /\ unlinked' = TRUE
     \/ (char_dev \/ "file" \in Failures) /\ UNCHANGED <<output, unlinked>>
  /\ main' = "return" /\ entry_temp' = NULL
  /\ UNCHANGED <<running, timer, char_dev, workers, subject, lock, workVars, netVars, sigVars>>

run_return == Control("return", "stopped")

-----------------------------------------------------------------------------

(* The worker of client c, which stands still while a handler runs on it.  *)
AtWorker(c, loc) == Alive /\ wpc[c] = loc /\ c \notin alarm
Goto(c, loc)     == wpc' = Set(wpc, c, loc)

(* What the steps of a worker leave alone, but for its own progress.       *)
Others == UNCHANGED <<mainVars, netVars, sigVars, flagVars, respVars>>

(* receive_data: lock, and open the file, creating it when it is missing.  *)
recv_lock(c) ==
  /\ AtWorker(c, "recv_lock") /\ lock = NULL
  /\ \/ /\ lock' = c
        /\ output' = IF output = NoFile THEN << >> ELSE output
        /\ Goto(c, "recv_check")
     \/ /\ "file" \in Failures
        /\ Goto(c, "close")
        /\ UNCHANGED fileVars
  /\ Others

(* while (!done && !self->shutdown)                                        *)
recv_check(c) ==
  /\ AtWorker(c, "recv_check")
  /\ Goto(c, IF shutdown[c] THEN "recv_done" ELSE "recv")
  /\ Others /\ UNCHANGED fileVars

(* memset, recv, memchr and write.  Without a newline the whole buffer is  *)
(* written, the zeroes behind a short segment included; at the end of the  *)
(* stream recv returns 0 and the buffer is all zeroes.                     *)
Piece(c, seg) == <<c, IF seg = "short" THEN "padded" ELSE seg>>

(* A file that grows by zeroes only, however many, is the same file.       *)
Write(file, piece) ==
  IF piece[2] = "zeroes" /\ file # << >> /\ file[Len(file)] = piece
    THEN file ELSE Append(file, piece)

recv(c) ==
  LET end == wire[c] = << >>
      seg == IF end THEN "zeroes" ELSE Head(wire[c])
  IN  /\ AtWorker(c, "recv")
      /\ conn[c] \in {"open", "closed"} /\ (end => conn[c] = "closed")
      /\ wire' = IF end THEN wire ELSE Set(wire, c, Tail(wire[c]))
      /\ \/ /\ \/ output' = Keep(char_dev, Write(output, Piece(c, seg)))
               \/ /\ "space" \in Failures /\ ~char_dev /\ ~end   \* writes less than asked
                  /\ output' = Write(output, <<c, "cut">>)
            /\ Goto(c, IF seg = "nl" THEN "recv_done" ELSE "recv_check")
            /\ UNCHANGED lock
         \/ /\ "file" \in Failures            \* write fails
            /\ lock' = NULL
            /\ Goto(c, "close")
            /\ UNCHANGED output
      /\ UNCHANGED <<mainVars, backlog, conn, unsent, unread, sigVars, flagVars, respVars>>

recv_error_Locked(c) ==   \* mutant: returns with the mutex held
  /\ AtWorker(c, "recv") /\ conn[c] = "reset"
  /\ Goto(c, "close")
  /\ Others /\ UNCHANGED fileVars

recv_error(c) ==
  /\ AtWorker(c, "recv") /\ conn[c] = "reset"
  /\ lock' = NULL
  /\ Goto(c, "close")
  /\ Others /\ UNCHANGED output

(* Close the file and unlock; then look at the flag once more.             *)
recv_done_Locked(c) ==   \* mutant: does not unlock
  /\ AtWorker(c, "recv_done")
  /\ Goto(c, "recv_return")
  /\ Others /\ UNCHANGED fileVars

recv_done(c) ==
  /\ AtWorker(c, "recv_done")
  /\ lock' = NULL
  /\ Goto(c, "recv_return")
  /\ Others /\ UNCHANGED output

recv_return(c) ==
  /\ AtWorker(c, "recv_return")
  /\ Goto(c, IF shutdown[c] THEN "close" ELSE "send_lock")
  /\ Others /\ UNCHANGED fileVars

(* send_response: lock, open and then read and send, until a read of 0.    *)
(* Nothing is written in between, so send below can say what was read.     *)
send_lock(c) ==
  /\ AtWorker(c, "send_lock") /\ lock = NULL
  /\ \/ /\ lock' = c
        /\ Goto(c, "send_check")
     \/ /\ "file" \in Failures
        /\ Goto(c, "close")
        /\ UNCHANGED lock
  /\ Others /\ UNCHANGED output

SendEnd(c) == lock' = NULL /\ Goto(c, "close")

(* while (!done && !self->shutdown), and the read, which may fail.         *)
send_check(c) ==
  /\ AtWorker(c, "send_check")
  /\ \/ (shutdown[c] \/ "file" \in Failures) /\ SendEnd(c)
     \/ ~shutdown[c] /\ Goto(c, "send") /\ UNCHANGED lock
  /\ Others /\ UNCHANGED output

(* A client that does not read blocks a send as soon as the buffers are    *)
(* full.  The peer's kernel answers data for a closed socket with a reset. *)
SendRoom(c) == unread[c] < SendBuf

send(c) ==
  LET file == Readable(char_dev, output)
      n    == Len(resp[c]) + 1
  IN  /\ AtWorker(c, "send")
      /\ conn[c] \in {"open", "closed"} /\ (n <= Len(file) => SendRoom(c))
      /\ \/ UNCHANGED conn
         \/ conn[c] = "closed" /\ n <= Len(file) /\ conn' = Set(conn, c, "broken")
      /\ IF n <= Len(file)
           THEN /\ resp' = Set(resp, c, Append(resp[c], file[n]))
                /\ unread' = IF conn[c] = "open" THEN Set(unread, c, unread[c] + 1) ELSE unread
                /\ Goto(c, "send_check")
                /\ UNCHANGED <<lock, served>>
           ELSE /\ served' = served \cup {c}
                /\ SendEnd(c)
                /\ UNCHANGED <<resp, unread>>
      /\ UNCHANGED <<mainVars, output, backlog, unsent, wire, sigVars, flagVars>>

(* send fails on a connection that was reset, also one that is blocked.    *)
send_error(c) ==
  /\ AtWorker(c, "send") /\ conn[c] = "reset"
  /\ SendEnd(c)
  /\ Others /\ UNCHANGED output

(* A second send after the peer's reset raises SIGPIPE, which nobody       *)
(* handles or blocks: the process ends.                                    *)
send_sigpipe(c) ==
  /\ AtWorker(c, "send") /\ conn[c] = "broken"
  /\ main' = "killed"
  /\ UNCHANGED <<running, storeVars, listVars, workVars, fileVars, netVars, sigVars>>

(* What the client has not read by now no longer matters to the server.    *)
close_client(c) ==
  /\ AtWorker(c, "close")
  /\ conn' = Set(conn, c, "done") /\ unread' = Set(unread, c, 0)
  /\ Goto(c, "exit")
  /\ UNCHANGED <<mainVars, fileVars, sigVars, backlog, unsent, wire, flagVars, respVars>>

worker_exit(c) ==
  /\ AtWorker(c, "exit")
  /\ exited' = Set(exited, c, TRUE)
  /\ Goto(c, "ending")
  /\ UNCHANGED <<mainVars, fileVars, netVars, sigVars, shutdown, freed, respVars>>

(* pthread_exit: from here on a join of the thread succeeds.               *)
worker_end(c) ==
  /\ AtWorker(c, "ending")
  /\ Goto(c, "dead")
  /\ Others /\ UNCHANGED fileVars

-----------------------------------------------------------------------------
(* signal_handler for SIGINT and SIGTERM.  Linux runs it on the main       *)
(* thread, which blocks no signal; accept() returns EINTR.  Where the main *)
(* thread calls syslog the handler may find the C library's lock taken by  *)
(* its own thread, and waits for ever.  Before main() has registered the   *)
(* handler the signal ends the process.                                    *)
Logging == {"init", "listen", "spawn", "return"}

signal_handler ==
  /\ Alive /\ main # "boot" /\ hung = "no" /\ signals < MaxSignals
  /\ signals' = signals + 1
  /\ \/ /\ running' = FALSE
        /\ main' = IF main = "accept" THEN "loop" ELSE main
        /\ UNCHANGED hung
     \/ /\ main \in Logging
        /\ hung' = IF Main \in alarm THEN "alarm_handler" ELSE "main"
        /\ UNCHANGED <<main, running>>
  /\ UNCHANGED <<storeVars, listVars, workVars, fileVars, netVars, ticks, alarm>>

signal_default ==
  /\ main = "boot" /\ signals < MaxSignals
  /\ signals' = signals + 1
  /\ main' = "killed"
  /\ UNCHANGED <<running, storeVars, listVars, workVars, fileVars, netVars>>
  /\ UNCHANGED <<hung, ticks, alarm>>

(* The timer expires.  SIGALRM goes to the main thread, or to some worker  *)
(* while the main thread is inside alarm_handler (which blocks SIGALRM).   *)
Interruptible ==
  IF Main \notin alarm THEN {Main}
  ELSE {c \in Clients : wpc[c] \notin {"none", "dead"} /\ c \notin alarm}

timer_expires ==
  /\ Alive /\ timer # "off" /\ ticks < MaxTicks
  /\ ticks' = ticks + 1
  /\ \E t \in Interruptible : alarm' = alarm \cup {t}
  /\ main' = IF main = "accept" /\ Main \in alarm' THEN "loop" ELSE main
  /\ UNCHANGED <<running, storeVars, listVars, workVars, fileVars, netVars, signals, hung>>

(* alarm_handler on thread t waits for the mutex, also when t itself has   *)
(* it; then it appends a timestamp, creating the file, and returns, unless *)
(* a signal_handler on top of it never does.                               *)
Stamped(kind) == Append(IF output = NoFile THEN << >> ELSE output, <<Main, kind>>)

HandlerMayWrite_Always == TRUE          \* mutant: appends without the mutex
HandlerMayWrite        == lock = NULL

alarm_handler(t) ==
  /\ Alive /\ t \in alarm /\ HandlerMayWrite /\ (t = Main => hung # "alarm_handler")
  /\ alarm' = alarm \ {t}
  /\ \/ output' = Stamped("stamp")
     \/ "space" \in Failures /\ output' = Stamped("cut")
     \/ "file" \in Failures /\ UNCHANGED output
  /\ UNCHANGED <<mainVars, workVars, lock, netVars, signals, hung, ticks>>

-----------------------------------------------------------------------------
(* The clients.                                                            *)
Listening == main \in {"start", "loop", "calling", "accept", "spawn", "insert",
                       "check", "check_join", "shutdown"}

client_connect(c) ==
  /\ Listening /\ conn[c] = "new"
  /\ conn' = Set(conn, c, "open")
  /\ backlog' = Append(backlog, c)
  /\ UNCHANGED <<mainVars, workVars, fileVars, sigVars, unsent, wire, unread>>

client_send(c) ==
  /\ Alive /\ conn[c] = "open" /\ unsent[c] # << >>
  /\ wire' = Set(wire, c, Append(wire[c], Head(unsent[c])))
  /\ unsent' = Set(unsent, c, Tail(unsent[c]))
  /\ UNCHANGED <<mainVars, workVars, fileVars, sigVars, backlog, conn, unread>>

client_read(c) ==
  /\ Alive /\ conn[c] = "open" /\ unread[c] > 0
  /\ unread' = Set(unread, c, unread[c] - 1)
  /\ UNCHANGED <<mainVars, workVars, fileVars, sigVars, backlog, conn, unsent, wire>>

(* close() on the client's side, which is an abort when there is something *)
(* it has not read, or an abort that discards what is on its way.          *)
client_leave(c) ==
  /\ Alive /\ conn[c] = "open"
  /\ unsent' = Set(unsent, c, << >>) /\ unread' = Set(unread, c, 0)
  /\ \/ /\ "close" \in Failures /\ UNCHANGED wire
        /\ conn' = Set(conn, c, IF unread[c] = 0 THEN "closed" ELSE "reset")
     \/ "reset" \in Failures /\ conn' = Set(conn, c, "reset") /\ wire' = Set(wire, c, << >>)
  /\ UNCHANGED <<mainVars, workVars, fileVars, sigVars, backlog>>

-----------------------------------------------------------------------------
MainStep ==
  \/ start \/ server_init \/ srv_bind \/ srv_listen \/ run_start \/ run_loop
  \/ accept_enter \/ accept_client \/ start_worker \/ insert_worker
  \/ check_worker \/ check_join \/ check_end
  \/ shutdown_begin \/ stop_worker \/ stop_join \/ shutdown_unlink \/ run_return

WorkerStep(c) ==
  \/ recv_lock(c) \/ recv_check(c) \/ recv(c) \/ recv_error(c)
  \/ recv_done(c) \/ recv_return(c)
  \/ send_lock(c) \/ send_check(c) \/ send(c) \/ send_error(c) \/ send_sigpipe(c)
  \/ close_client(c) \/ worker_exit(c) \/ worker_end(c)

ClientStep(c) ==
  client_connect(c) \/ client_send(c) \/ client_read(c) \/ client_leave(c)

Next ==
  \/ MainStep \/ signal_handler \/ signal_default \/ timer_expires
  \/ \E t \in Threads : alarm_handler(t)
  \/ \E c \in Clients : WorkerStep(c) \/ ClientStep(c)

Spec == Init /\ [][Next]_vars

(* Every thread of the process that is not blocked keeps running.  With    *)
(* finitely many clients the mutex needs no fairness of its own.           *)
ServerFairness ==
  /\ WF_vars(MainStep)
  /\ \A t \in Threads : WF_vars(alarm_handler(t))
  /\ \A c \in Clients : WF_vars(WorkerStep(c))

(* Clients that send the whole of their packet and read the answer.        *)
ClientFairness == \A c \in Clients : WF_vars(client_send(c)) /\ WF_vars(client_read(c))

ServerSpec == Spec /\ ServerFairness
FairSpec   == ServerSpec /\ ClientFairness

-----------------------------------------------------------------------------
MainLocs == Ended \cup {"boot", "init", "bind", "listen", "start", "loop", "calling",
                        "accept", "spawn", "insert", "check", "check_join",
                        "shutdown", "stop", "stop_join", "return"}

WorkerLocs == {"none", "recv_lock", "recv_check", "recv", "recv_done",
               "recv_return", "send_lock", "send_check", "send", "close",
               "exit", "ending", "dead"}

ConnStates == {"new", "open", "closed", "broken", "reset", "done"}

(* The main thread has a worker in its hands while it starts, lists or     *)
(* joins one; lists and sets hold clients, the output holds pieces.        *)
TypeOK ==
  /\ main \in MainLocs /\ running \in BOOLEAN /\ char_dev \in Builds
  /\ timer \in {"off"} \cup TimerIds /\ (char_dev => timer = "off")
  /\ backlog \in Seq(Clients)
  /\ workers.slh_first \in Clients \cup {NULL}
  /\ workers.sle_next \in [Clients -> Clients \cup {NULL}]
  /\ subject \in Clients \cup {NULL} /\ entry_temp \in Clients \cup {NULL}
  /\ main \in {"spawn", "insert", "check_join", "stop_join"} => subject # NULL
  /\ lock \in Clients \cup {NULL}
  /\ output = NoFile \/ output \in Seq(Pieces)
  /\ wpc \in [Clients -> WorkerLocs]
  /\ shutdown \in [Clients -> BOOLEAN] /\ exited \in [Clients -> BOOLEAN]
  /\ freed \subseteq Clients /\ served \subseteq Clients
  /\ conn \in [Clients -> ConnStates]
  /\ unsent \in [Clients -> Seq(Segments)] /\ wire \in [Clients -> Seq(Segments)]
  /\ unlinked \in BOOLEAN /\ unread \in [Clients -> 0 .. SendBuf]
  /\ signals \in 0 .. MaxSignals /\ ticks \in 0 .. MaxTicks
  /\ hung \in {"no", "main", "alarm_handler"}
  /\ alarm \subseteq Threads

(* The mutex is held exactly by the worker that has the data file open, so *)
(* two workers are never in it together and every path out of receive_data *)
(* and send_response releases it, the error paths included.                *)
InFile(c) == wpc[c] \in {"recv_check", "recv", "recv_done", "send_check", "send"}

LockMatchesFile == \A c \in Clients : lock = c <=> InFile(c)

(* A worker structure is freed only after its thread is over, so that no   *)
(* thread uses freed memory: `exited' is set before the thread's last step,*)
(* and a join stands between the flag and the free.                        *)
FreedIsOver == \A c \in Clients : c \in freed => wpc[c] = "dead"

(* A worker thread that was started is always known to the main thread:    *)
(* exactly one of in the list, in its hands, or joined and freed.          *)
Held == IF main \in {"insert", "check_join", "stop_join"} THEN {subject} ELSE {}

StartedIsKnown ==
  /\ {c \in Clients : wpc[c] # "none"} = Listed(workers) \cup Held \cup freed
  /\ Listed(workers) \cap Held = {}
  /\ (Listed(workers) \cup Held) \cap freed = {}

(* The entry a list walk visits now or next is still in the list.          *)
WalkStaysInList ==
  /\ main \in {"check", "stop"} => subject \in Listed(workers) \cup {NULL}
  /\ main \in {"check_join", "stop_join"} => entry_temp \in Listed(workers) \cup {NULL}

(* Both, while the process lives: with the threads of freed workers over,  *)
(* no pointer of the list, of a walk or of an entry in the list leads to   *)
(* freed memory, and no thread is forgotten.                               *)
WorkersAccounted ==
  FreedIsOver /\ (Alive => StartedIsKnown /\ WalkStaysInList)

(* The packets in the file are not interleaved with each other or with the *)
(* timestamps, however many buffers a packet takes to receive.             *)
PacketsContiguous ==
  output # NoFile =>
    \A i, k \in DOMAIN output :
      i < k /\ output[i][1] = output[k][1] /\ output[i][1] \in Clients =>
        \A j \in i .. k : output[j][1] = output[i][1]

(* When main() has returned from a shutdown nobody is in the data file,    *)
(* every worker was joined and freed, and every accepted connection is     *)
(* closed.  If unlink succeeded no packet is left, and no file, but for    *)
(* timestamps of a timer that was not stopped because its id is NULL.      *)
StampsOnly == timer = NULL /\ \A i \in DOMAIN output : output[i][1] = Main

StoppedIsClean ==
  main = "stopped" =>
    /\ unlinked => output = NoFile \/ StampsOnly
    /\ lock = NULL /\ alarm = {}
    /\ \A c \in Clients : wpc[c] # "none" => c \in freed /\ conn[c] = "done"

-----------------------------------------------------------------------------
(* The output as a log of packets: what the worker that is receiving has   *)
(* written, at the end of the output, counts when its packet is over.      *)
Before(c, out) == SubSeq(out, 1, Max({0} \cup {i \in 1 .. Len(out) : out[i][1] # c}))

Receiving == \E c \in Clients : wpc[c] \in {"recv_check", "recv"}

Log ==
  IF output = NoFile THEN << >> ELSE IF Receiving THEN Before(lock, output) ELSE output

Answers == [c \in Clients |-> IF c \in served THEN resp[c] ELSE NULL]

Packets == INSTANCE PacketLog
             WITH device <- char_dev, log <- Log, deleted <- unlinked, answer <- Answers

(* Packets and timestamps are appended atomically and in one piece, and a  *)
(* complete response is all that the output returns at one moment, with    *)
(* the client's own packet in it.  What a worker that failed has written   *)
(* stays as a part of the log, also in front of the next packet of a       *)
(* device; a device that is full drops the oldest command and no other.    *)
FileIsPacketLog == Packets!Spec

-----------------------------------------------------------------------------
(* alarm_handler waits for a mutex that its own thread holds, and so does  *)
(* everyone else from then on (see HandlerCanLock).                        *)
SelfDeadlock == \E t \in alarm : lock = t

(* Every client that connects, sends its packet and reads what it is sent  *)
(* gets a complete response (and `served' never shrinks), unless a signal  *)
(* ends the server or the timer expires twice while a worker has the mutex.*)
ClientsServed ==
  []<>(signals > 0 \/ SelfDeadlock \/ \A c \in Clients : conn[c] # "new" => c \in served)

(* srv_shutdown always comes to its end: every worker notices or finishes, *)
(* also one that was blocked in recv, in send or on the mutex, and every   *)
(* join returns.  What can prevent it is another signal that hangs in      *)
(* syslog and the handler's deadlock, and nothing else.                    *)
ShuttingDown == main \in {"shutdown", "stop", "stop_join", "return"}

ShutdownCompletes == []<>(ShuttingDown => hung # "no" \/ SelfDeadlock)

-----------------------------------------------------------------------------
(* What the requirements in aesdsocket.c and the comments say, and the     *)
(* code does not always do.                                                *)

(* aesdsocket.c:37: the thread of a client that closed its connection      *)
(* ends: it does not go on with the mutex held, and it does not take the   *)
(* process with it.                                                        *)
ClosedClientEnds ==
  \A c \in Clients : conn[c] = "closed" /\ wpc[c] # "none" ~> wpc[c] = "dead"

(* aesdsocket.c:44: locking synchronises the timestamp with the workers;   *)
(* no handler waits for a mutex its own thread holds.                      *)
HandlerCanLock == ~SelfDeadlock

(* aesdsocket.c:25-27: the server accepts until SIGINT or SIGTERM is       *)
(* received and then exits gracefully: also when the signal arrives before *)
(* running is set, just before accept() or during a call of syslog.        *)
SignalEndsAccepting == signals > 0 ~> main \in Ended
=============================================================================
