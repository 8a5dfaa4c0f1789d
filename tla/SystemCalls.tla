---------------------------- MODULE SystemCalls ----------------------------
(***************************************************************************)
(* examples/systemcalls/systemcalls.c: do_system, do_exec and               *)
(* do_exec_redirect, called one after the other by one process.  Call n has *)
(* child n.  wait() reaps any child, so one that an interrupted wait left   *)
(* behind can be taken for the child of a later call.                       *)
(***************************************************************************)
EXTENDS Integers, FiniteSets

CONSTANT MaxCalls   \* bound: calls of the functions

CallIds == 1 .. MaxCalls

VARIABLES
  calls,      \* calls made so far; the last one may be in progress
  parent,     \* where the calling process is
  function,   \* [CallIds -> the function called]
  result,     \* [CallIds -> what it returned, "none" before; a false that wait()
              \*  caused by failing is "wait_failed"]
  child,      \* [CallIds -> the child process]
  command,    \* [CallIds -> how the command itself ended, "none" before]
  fds         \* calls whose output file the process still has open

vars == <<calls, parent, function, result, child, command, fds>>

Init ==
  /\ calls = 0 /\ parent = "caller"
  /\ function = [n \in CallIds |-> "none"] /\ result = [n \in CallIds |-> "none"]
  /\ child = [n \in CallIds |-> "none"] /\ command = [n \in CallIds |-> "none"]
  /\ fds = {}

Return(r) == parent' = "caller" /\ result' = [result EXCEPT ![calls] = r]

Call(f, next) ==
  /\ parent = "caller" /\ calls < MaxCalls
  /\ calls' = calls + 1
  /\ function' = [function EXCEPT ![calls + 1] = f]
  /\ parent' = next
  /\ UNCHANGED <<result, child, command, fds>>

call_do_system        == Call("do_system", "system")
call_do_exec          == Call("do_exec", "fork")
call_do_exec_redirect == Call("do_exec_redirect", "open")

(* system() runs the command and waits for that child, or fails.           *)
do_system ==
  /\ parent = "system"
  /\ \/ command' = [command EXCEPT ![calls] = "success"] /\ Return("true")
     \/ command' = [command EXCEPT ![calls] = "failed"] /\ Return("false")
     \/ Return("false") /\ UNCHANGED command
  /\ UNCHANGED <<calls, function, child, fds>>

redirect_open ==
  /\ parent = "open"
  /\ \/ fds' = fds \cup {calls} /\ parent' = "fork" /\ UNCHANGED result
     \/ Return("false") /\ UNCHANGED fds
  /\ UNCHANGED <<calls, function, child, command>>

fork ==
  /\ parent = "fork"
  /\ \/ /\ child' = [child EXCEPT ![calls] = "forked"]
        /\ parent' = IF calls \in fds THEN "close" ELSE "wait"
        /\ UNCHANGED result
     \/ Return("false") /\ UNCHANGED child
  /\ UNCHANGED <<calls, function, command, fds>>

redirect_close ==
  /\ parent = "close"
  /\ fds' = fds \ {calls} /\ parent' = "wait"
  /\ UNCHANGED <<calls, function, result, child, command>>

(* In the child: dup2 and execv; when either fails it exits with           *)
(* EXIT_FAILURE and the command is never run.                              *)
child_exec(n) ==
  /\ child[n] = "forked"
  /\ child' = [child EXCEPT ![n] = "running"] \/ child' = [child EXCEPT ![n] = "failed"]
  /\ UNCHANGED <<calls, parent, function, result, command, fds>>

(* The command exits with 0, with another status, or is killed.            *)
command_ends(n) ==
  /\ child[n] = "running"
  /\ \E s \in {"success", "failed"} :
       child' = [child EXCEPT ![n] = s] /\ command' = [command EXCEPT ![n] = s]
  /\ UNCHANGED <<calls, parent, function, result, fds>>

(* wait(): the status of some child that has ended decides about what      *)
(* do_exec returns; do_exec_redirect returns true either way.              *)
Zombies == {n \in CallIds : child[n] \in {"success", "failed"}}

Verdict_Any(status) == "true"   \* mutant: the status is not looked at

Verdict(status) ==
  IF status = "success" \/ function[calls] = "do_exec_redirect" THEN "true" ELSE "false"

wait ==
  /\ parent = "wait"
  /\ \E n \in Zombies :
       /\ Return(Verdict(child[n]))
       /\ child' = [child EXCEPT ![n] = "reaped"]
  /\ UNCHANGED <<calls, function, command, fds>>

(* A signal interrupts wait(): the child stays behind.                     *)
wait_interrupted ==
  /\ parent = "wait" /\ Return("wait_failed")
  /\ UNCHANGED <<calls, function, child, command, fds>>

Next ==
  \/ call_do_system \/ call_do_exec \/ call_do_exec_redirect
  \/ do_system \/ redirect_open \/ fork \/ redirect_close \/ wait \/ wait_interrupted
  \/ \E n \in CallIds : child_exec(n) \/ command_ends(n)

Spec == Init /\ [][Next]_vars

-----------------------------------------------------------------------------
(* do_system and do_exec return true exactly when the command of this very *)
(* call exited with 0, as long as no wait() has failed and left a child    *)
(* that a later call reaps instead of its own.                             *)
ResultTellsCommand ==
  \A n \in CallIds :
    /\ function[n] # "do_exec_redirect" /\ result[n] \in {"true", "false"}
    /\ \A m \in 1 .. n - 1 : result[m] # "wait_failed"
    => (result[n] = "true" <=> command[n] = "success")

(* systemcalls.c:115-116, 140 and 50-53: do_exec_redirect has closed its   *)
(* output file when it returns, whichever of open, fork and wait failed,   *)
(* and like do_exec it returns false for a command that failed.            *)
RedirectAsDocumented ==
  \A n \in CallIds :
    function[n] = "do_exec_redirect" /\ result[n] # "none" =>
      n \notin fds /\ (result[n] = "true" => command[n] = "success")
=============================================================================
