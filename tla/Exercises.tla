----------------------------- MODULE Exercises -----------------------------
(***************************************************************************)
(* The exercise programs side by side.  They have nothing in common; every  *)
(* behaviour runs one of them.                                              *)
(***************************************************************************)
EXTENDS Integers, Sequences

CONSTANTS
  WriteStr, OldFile, ArgCounts, MaxEINTR,   \* of Writer
  Starts, NoThread,                         \* of Threading
  MaxCalls                                  \* of SystemCalls

ASSUME ExercisesAssumption ==
  /\ WriteStr \in Seq({WriteStr[i] : i \in DOMAIN WriteStr})
  /\ NoThread \notin Starts /\ MaxEINTR \in Nat /\ MaxCalls \in Nat

VARIABLES
  program,
  writer, argc, file, pstr, remaining, exit_status, eintrs,
  at, mutex, data, success,
  calls, parent, function, result, child, command, fds

W == INSTANCE Writer
T == INSTANCE Threading
S == INSTANCE SystemCalls

writerVars == <<writer, argc, file, pstr, remaining, exit_status, eintrs>>
threadVars == <<at, mutex, data, success>>
callVars   == <<calls, parent, function, result, child, command, fds>>
vars       == <<program, writerVars, threadVars, callVars>>

Init ==
  /\ program \in {"writer", "threading", "systemcalls"}
  /\ W!Init /\ T!Init /\ S!Init

Next ==
  /\ \/ program = "writer" /\ W!Next /\ UNCHANGED <<threadVars, callVars>>
     \/ program = "threading" /\ T!Next /\ UNCHANGED <<writerVars, callVars>>
     \/ program = "systemcalls" /\ S!Next /\ UNCHANGED <<writerVars, threadVars>>
  /\ UNCHANGED program

(* The kernel runs every thread; a caller need not start or join any.      *)
ThreadFairness ==
  \A t \in Starts :
    WF_vars(program = "threading" /\ UNCHANGED <<program, writerVars, callVars>>
              /\ (T!sleep_before(t) \/ T!try_lock(t) \/ T!sleep_holding(t)
                    \/ T!try_unlock(t) \/ T!finish(t)))

(* The writer runs, and is not interrupted for ever.                       *)
WriterFairness == WF_vars(program = "writer" /\ UNCHANGED <<program, threadVars, callVars>> /\ W!Next)

Spec == Init /\ [][Next]_vars /\ ThreadFairness /\ WriterFairness

(* writer.c: exit status 0 means that the file holds the whole string.     *)
StatusTellsFile == W!StatusTellsFile

(* writer.c: the loop in try_write ends and the program exits.             *)
WriterExits == program = "writer" ~> writer = "exited"

(* threading.c: a mutex left locked by a thread that is over is reported.  *)
FailureTellsMutex == T!FailureTellsMutex

(* threading.c: started threads end unless a failed one kept the mutex.    *)
ThreadsEnd == T!ThreadsEnd

(* systemcalls.c: the result is that of the call's own command.            *)
ResultTellsCommand == S!ResultTellsCommand
=============================================================================
