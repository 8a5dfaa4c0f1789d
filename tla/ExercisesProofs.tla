-------------------------- MODULE ExercisesProofs --------------------------
(***************************************************************************)
(* The exercise programs, for every string, every number of threads and    *)
(* every number of calls.                                                  *)
(***************************************************************************)
EXTENDS Exercises, TLAPS

Chars == {WriteStr[i] : i \in DOMAIN WriteStr}

(* The writer: until the file is created nothing has happened; then it     *)
(* holds the characters try_write has passed, and what remains is the rest *)
(* of the string.                                                          *)
WriterInv ==
  /\ writer \in {"args", "create"} => file = OldFile /\ pstr = 0
  /\ writer \in {"write", "close"} =>
       /\ pstr \in Nat /\ remaining \in Nat /\ pstr + remaining = Len(WriteStr)
       /\ file = SubSeq(WriteStr, 1, pstr)
  /\ writer = "close" /\ exit_status = 0 => remaining = 0
  /\ writer = "exited" /\ exit_status = 0 => file = WriteStr
  /\ writer = "exited" => file = OldFile \/ \E n \in 0 .. Len(WriteStr) : file = SubSeq(WriteStr, 1, n)
  /\ writer \in {"args", "create", "write", "close", "exited"}

(* The next characters behind a beginning of a string are a longer         *)
(* beginning of it.                                                        *)
LEMMA PrefixGrows ==
  ASSUME NEW C, NEW s \in Seq(C), NEW i \in Nat, NEW n \in Nat, i + n <= Len(s)
  PROVE  SubSeq(s, 1, i) \o SubSeq(s, i + 1, i + n) = SubSeq(s, 1, i + n)
<1> DEFINE a == SubSeq(s, 1, i)
           b == SubSeq(s, i + 1, i + n)
           c == SubSeq(s, 1, i + n)
<1>1. /\ a \in Seq(C) /\ Len(a) = i /\ \A k \in 1 .. i : a[k] = s[k]
      /\ c \in Seq(C) /\ Len(c) = i + n /\ \A k \in 1 .. i + n : c[k] = s[k]
  OBVIOUS
<1>2. b \in Seq(C) /\ Len(b) = n /\ \A k \in 1 .. n : b[k] = s[i + k]
  OBVIOUS
<1> HIDE DEF a, b, c
<1>3. /\ a \o b \in Seq(C) /\ Len(a \o b) = Len(a) + Len(b)
      /\ \A k \in 1 .. Len(a) + Len(b) : (a \o b)[k] = IF k <= Len(a) THEN a[k] ELSE b[k - Len(a)]
  <2>1. a \in Seq(C) /\ b \in Seq(C)
    BY <1>1, <1>2
  <2> QED  BY <2>1
<1>4. ASSUME NEW k \in 1 .. i + n PROVE (a \o b)[k] = c[k]
  <2>1. (a \o b)[k] = IF k <= i THEN a[k] ELSE b[k - i]
    BY <1>1, <1>2, <1>3
  <2>2. CASE k <= i
    BY <1>1, <2>1, <2>2
  <2>3. CASE ~(k <= i)
    <3>1. k - i \in 1 .. n /\ i + (k - i) = k
      BY <2>3
    <3>2. b[k - i] = s[k]
      BY <1>2, <3>1
    <3> QED  BY <1>1, <2>1, <2>3, <3>2
  <2> QED  BY <2>2, <2>3
<1>5. a \o b = c
  <2>1. Len(a \o b) = i + n
    BY <1>1, <1>2, <1>3
  <2> QED  BY <1>1, <1>3, <1>4, <2>1
<1> QED  BY <1>5 DEF a, b, c

(* A string is its own longest beginning, and empty its shortest one.      *)
LEMMA WholeString ==
  /\ WriteStr \in Seq(Chars) /\ Len(WriteStr) \in Nat
  /\ SubSeq(WriteStr, 1, Len(WriteStr)) = WriteStr /\ SubSeq(WriteStr, 1, 0) = << >>
<1>1. WriteStr \in Seq(Chars)
  BY ExercisesAssumption DEF Chars
<1>2. \A s \in Seq(Chars) : Len(s) \in Nat /\ SubSeq(s, 1, Len(s)) = s /\ SubSeq(s, 1, 0) = << >>
  OBVIOUS
<1> QED  BY <1>1, <1>2

(* Every step of the writer keeps its invariant.                           *)
LEMMA WriterStep == WriterInv /\ W!Next => WriterInv'
<1> SUFFICES ASSUME WriterInv, W!Next PROVE WriterInv'
  OBVIOUS
<1>1. CASE W!check_args
  BY <1>1 DEF WriterInv, W!check_args, W!Exit
<1>2. CASE W!create_file
  <2>1. writer = "create" /\ file = OldFile /\ pstr = 0 /\ UNCHANGED pstr
    BY <1>2 DEF WriterInv, W!create_file
  <2>2. CASE file' = << >> /\ remaining' = Len(WriteStr) /\ writer' = "write"
    BY <2>1, <2>2, WholeString DEF WriterInv
  <2>3. CASE W!Exit(1) /\ UNCHANGED <<file, remaining>>
    BY <2>1, <2>3 DEF WriterInv, W!Exit
  <2> QED  BY <1>2, <2>2, <2>3 DEF W!create_file
<1>3. CASE W!try_write
  <2>1. PICK n \in 1 .. remaining : /\ file' = file \o SubSeq(WriteStr, pstr + 1, pstr + n)
                                    /\ remaining' = remaining - n /\ pstr' = pstr + n
    BY <1>3 DEF W!try_write, W!Advance
  <2>2. writer = "write" /\ UNCHANGED <<writer, exit_status>>
    BY <1>3 DEF W!try_write
  <2>3. /\ pstr \in Nat /\ remaining \in Nat /\ pstr + remaining = Len(WriteStr)
        /\ file = SubSeq(WriteStr, 1, pstr)
    BY <2>2 DEF WriterInv
  <2>4. n \in Nat /\ n <= remaining /\ pstr + n <= Len(WriteStr)
    BY <2>3
  <2>5. file' = SubSeq(WriteStr, 1, pstr + n)
    BY <2>1, <2>3, <2>4, PrefixGrows, WholeString
  <2>6. pstr' \in Nat /\ remaining' \in Nat /\ pstr' + remaining' = Len(WriteStr)
    <3>1. pstr + n \in Nat /\ remaining - n \in Nat
          /\ (pstr + n) + (remaining - n) = pstr + remaining
      BY <2>3, <2>4
    <3> QED  BY <2>1, <2>3, <3>1
  <2> QED  BY <2>1, <2>2, <2>5, <2>6 DEF WriterInv
<1>4. CASE W!write_interrupted
  BY <1>4 DEF WriterInv, W!write_interrupted
<1>5. CASE W!write_end
  BY <1>5 DEF WriterInv, W!write_end, W!AllWritten
<1>6. CASE W!close_file
  <2>1. writer = "close" /\ writer' = "exited" /\ UNCHANGED file /\ exit_status' \in {exit_status, 1}
    BY <1>6 DEF W!close_file, W!Exit
  <2>2. /\ pstr \in Nat /\ remaining \in Nat /\ pstr + remaining = Len(WriteStr)
        /\ file = SubSeq(WriteStr, 1, pstr)
    BY <2>1 DEF WriterInv
  <2>3. pstr \in 0 .. Len(WriteStr)
    BY <2>2, WholeString
  <2>4. exit_status' = 0 => file = WriteStr
    <3>1. exit_status' = 0 => exit_status = 0
      BY <2>1
    <3>2. exit_status = 0 => pstr = Len(WriteStr)
      BY <2>1, <2>2 DEF WriterInv
    <3> QED  BY <2>2, <3>1, <3>2, WholeString
  <2> QED  BY <2>1, <2>2, <2>3, <2>4 DEF WriterInv
<1> QED  BY <1>1, <1>2, <1>3, <1>4, <1>5, <1>6 DEF W!Next

(* For every string and however the writes are cut and interrupted: status *)
(* 0 means that the file holds all of it (writer.c:58-168).                *)
THEOREM WriterStatus == Spec => []StatusTellsFile
<1>1. Init => WriterInv
  BY DEF Init, W!Init, WriterInv
<1>2. WriterInv /\ [Next]_vars => WriterInv'
  <2> SUFFICES ASSUME WriterInv, [Next]_vars, UNCHANGED writerVars PROVE WriterInv'
    BY WriterStep DEF Next, vars
  <2> QED  BY DEF writerVars, WriterInv
<1>3. WriterInv => StatusTellsFile
  <2> SUFFICES ASSUME WriterInv
               PROVE  /\ writer = "exited" /\ exit_status = 0 => file = WriteStr
                      /\ file = OldFile \/ \E n \in 0 .. Len(WriteStr) : file = SubSeq(WriteStr, 1, n)
    BY DEF StatusTellsFile, W!StatusTellsFile
  <2>1. writer \in {"write", "close"} => pstr \in 0 .. Len(WriteStr)
    BY WholeString DEF WriterInv
  <2> QED  BY <2>1 DEF WriterInv
<1> QED  BY <1>1, <1>2, <1>3, PTL DEF Spec

-----------------------------------------------------------------------------
(* The threads: the mutex belongs to a thread that is past its lock and    *)
(* has not unlocked it, and success is reported by threads that are over   *)
(* and have.                                                               *)
ThreadInv ==
  /\ at = [t \in Starts |-> at[t]] /\ success = [t \in Starts |-> success[t]]
  /\ \A t \in Starts : mutex = t => at[t] \in {"hold", "unlock", "fail", "done", "joined"}
  /\ \A t \in Starts : success[t] => at[t] \in {"done", "joined"} /\ mutex # t

(* Every step of a thread keeps it.                                        *)
LEMMA ThreadStep == ThreadInv /\ T!Next => ThreadInv'
<1> SUFFICES ASSUME ThreadInv, NEW t \in Starts, T!Step(t) PROVE ThreadInv'
  BY DEF T!Next
<1> USE DEF ThreadInv, T!Go
<1>1. CASE T!start_thread_obtaining_mutex(t) \/ T!sleep_before(t) \/ T!sleep_holding(t) \/ T!join(t)
  BY <1>1 DEF T!start_thread_obtaining_mutex, T!sleep_before, T!sleep_holding, T!join
<1>2. CASE T!try_lock(t)
  BY <1>2, ExercisesAssumption DEF T!try_lock
<1>3. CASE T!try_lock_fails(t)
  BY <1>3 DEF T!try_lock_fails
<1>4. CASE T!try_unlock(t)
  BY <1>4, ExercisesAssumption DEF T!try_unlock
<1>5. CASE T!finish(t)
  BY <1>5 DEF T!finish
<1> QED  BY <1>1, <1>2, <1>3, <1>4, <1>5 DEF T!Step

(* For every number of threads and every failure: a mutex that is held by  *)
(* a thread that is over was left behind by one that reports failure       *)
(* (threading.c:68-104).                                                   *)
THEOREM MutexLossReported == Spec => []FailureTellsMutex
<1>1. Init => ThreadInv
  BY ExercisesAssumption DEF Init, T!Init, ThreadInv
<1>2. ThreadInv /\ [Next]_vars => ThreadInv'
  <2> SUFFICES ASSUME ThreadInv, [Next]_vars, UNCHANGED threadVars PROVE ThreadInv'
    BY ThreadStep DEF Next, vars
  <2> QED  BY DEF threadVars, ThreadInv
<1>3. ThreadInv => FailureTellsMutex
  BY DEF ThreadInv, FailureTellsMutex, T!FailureTellsMutex
<1> QED  BY <1>1, <1>2, <1>3, PTL DEF Spec

-----------------------------------------------------------------------------
Children == {"forked", "running", "success", "failed"}

(* The calls: the ones to come have left no trace, the ones before the     *)
(* last have returned, and the last has when its caller runs again.        *)
CallsInOrder ==
  /\ calls \in 0 .. MaxCalls
  /\ function = [n \in S!CallIds |-> function[n]] /\ result = [n \in S!CallIds |-> result[n]]
  /\ child = [n \in S!CallIds |-> child[n]] /\ command = [n \in S!CallIds |-> command[n]]
  /\ \A n \in S!CallIds : n > calls =>
       function[n] = "none" /\ result[n] = "none" /\ child[n] = "none" /\ command[n] = "none"
  /\ \A n \in S!CallIds : n < calls => result[n] # "none"
  /\ parent # "caller" => calls \in S!CallIds /\ result[calls] = "none"
  /\ parent = "caller" => \A n \in S!CallIds : n <= calls => result[n] # "none"

(* Where the call in progress is, and what has become of its child.        *)
CallInProgress ==
  /\ parent \in {"system", "open", "fork"} => child[calls] = "none" /\ command[calls] = "none"
  /\ parent \in {"close", "wait"} => child[calls] \in Children
  /\ parent = "system" => function[calls] = "do_system"

(* A child's status is that of its command; a child that was never forked  *)
(* has none.                                                               *)
ChildTellsCommand ==
  \A n \in S!CallIds :
    /\ child[n] = "success" => command[n] = "success"
    /\ child[n] = "failed" => command[n] # "success"
    /\ child[n] \in {"forked", "running"} => command[n] = "none"

(* As long as no wait() has failed, the calls that returned have reaped    *)
(* the children they forked.                                               *)
Waited(n) == \A m \in 1 .. n : result[m] # "wait_failed"

AllReaped ==
  \A n \in S!CallIds : Waited(n) /\ result[n] # "none" => child[n] \in {"none", "reaped"}

CallInv ==
  /\ CallsInOrder /\ CallInProgress /\ ChildTellsCommand /\ AllReaped
  /\ ResultTellsCommand

(* The numbers of the calls.                                               *)
LEMMA CallNumbers ==
  /\ MaxCalls \in Nat /\ \A n \in S!CallIds : n \in Nat /\ n >= 1 /\ n <= MaxCalls
  /\ \A n \in S!CallIds : 1 .. n \subseteq S!CallIds /\ 1 .. n - 1 \subseteq S!CallIds
  /\ \A n \in S!CallIds : \A m \in 1 .. n : m = n \/ m \in 1 .. n - 1
  /\ \A n \in S!CallIds : \A m \in 1 .. n - 1 : m < n /\ m \in 1 .. n
  BY ExercisesAssumption DEF S!CallIds

(* A step inside a call, or of a child, leaves the calls in order ...      *)
LEMMA StaysInOrder ==
  ASSUME CallsInOrder, UNCHANGED <<calls, function, result>>,
         parent' = parent \/ (parent # "caller" /\ parent' # "caller"),
         child' = [n \in S!CallIds |-> child'[n]], command' = [n \in S!CallIds |-> command'[n]],
         \A n \in S!CallIds : n > calls => child'[n] = child[n] /\ command'[n] = command[n]
  PROVE  CallsInOrder'
  BY DEF CallsInOrder

(* ... and so does the return of the last one.                             *)
LEMMA ReturnsInOrder ==
  ASSUME CallsInOrder, parent # "caller", NEW r, r # "none", S!Return(r),
         UNCHANGED <<calls, function>>,
         child' = [n \in S!CallIds |-> child'[n]], command' = [n \in S!CallIds |-> command'[n]],
         \A n \in S!CallIds : n > calls => child'[n] = child[n] /\ command'[n] = command[n]
  PROVE  /\ CallsInOrder' /\ calls \in S!CallIds /\ result'[calls] = r /\ parent' = "caller"
         /\ \A n \in S!CallIds \ {calls} : result'[n] = result[n]
<1>1. /\ calls \in S!CallIds /\ result'[calls] = r /\ parent' = "caller"
      /\ \A n \in S!CallIds \ {calls} : result'[n] = result[n]
      /\ result' = [n \in S!CallIds |-> result'[n]]
  BY DEF CallsInOrder, S!Return
<1>2. \A n \in S!CallIds : n <= calls <=> n < calls \/ n = calls
  BY <1>1, CallNumbers
<1>3. \A n \in S!CallIds : n > calls => n # calls
  BY <1>1, CallNumbers
<1> QED  BY <1>1, <1>2, <1>3 DEF CallsInOrder

(* Of the calls other than the last, the result and whether a wait() has   *)
(* failed before them do not change when the last returns.                 *)
LEMMA OthersWaited ==
  ASSUME CallsInOrder, calls \in S!CallIds, result[calls] = "none",
         \A n \in S!CallIds \ {calls} : result'[n] = result[n],
         NEW n \in S!CallIds, result'[n] # "none"
  PROVE  /\ n # calls => n < calls /\ result[n] # "none" /\ (Waited(n)' <=> Waited(n))
                         /\ \A m \in 1 .. n - 1 : result'[m] = result[m]
         /\ \A m \in 1 .. calls - 1 : result'[m] = result[m]
<1>1. \A m \in 1 .. calls - 1 : m \in S!CallIds \ {calls}
  BY CallNumbers
<1>2. ASSUME n # calls
      PROVE  n < calls /\ result[n] # "none" /\ \A m \in 1 .. n : m \in S!CallIds \ {calls}
  <2>1. result[n] # "none"
    BY <1>2
  <2>2. n < calls
    BY <1>2, <2>1, CallNumbers DEF CallsInOrder
  <2>3. \A m \in 1 .. n : m \in S!CallIds /\ m # calls
    BY <2>2, CallNumbers
  <2> QED  BY <2>1, <2>2, <2>3
<1>3. n # calls => (Waited(n)' <=> Waited(n)) /\ \A m \in 1 .. n - 1 : result'[m] = result[m]
  BY <1>2, CallNumbers DEF Waited
<1> QED  BY <1>1, <1>2, <1>3

(* A call that returns without having forked a child.                      *)
LEMMA ReturnChildless ==
  ASSUME CallInv, parent \in {"system", "open", "fork"}, NEW r \in {"true", "false"}, S!Return(r),
         UNCHANGED <<calls, function, child, fds>>,
         \/ UNCHANGED command /\ r = "false"
         \/ \E s \in {"success", "failed"} :
              command' = [command EXCEPT ![calls] = s] /\ (r = "true" <=> s = "success")
  PROVE  CallInv'
<1>1. /\ calls \in S!CallIds /\ result[calls] = "none"
      /\ child[calls] = "none" /\ command[calls] = "none"
  BY DEF CallInv, CallsInOrder, CallInProgress
<1>2. /\ command' = [n \in S!CallIds |-> command'[n]]
      /\ \A n \in S!CallIds \ {calls} : command'[n] = command[n]
      /\ r = "true" <=> command'[calls] = "success"
  <2>1. command = [n \in S!CallIds |-> command[n]]
    BY DEF CallInv, CallsInOrder
  <2> QED  BY <1>1, <2>1
<1>3. /\ CallsInOrder' /\ result'[calls] = r /\ parent' = "caller"
      /\ \A n \in S!CallIds \ {calls} : result'[n] = result[n]
  <2>1. \A n \in S!CallIds : n > calls => n # calls
    BY <1>1, ExercisesAssumption DEF S!CallIds
  <2> QED  BY <1>1, <1>2, <2>1, ReturnsInOrder DEF CallInv, CallsInOrder
<1>4. CallInProgress'
  BY <1>3 DEF CallInProgress
<1>5. ChildTellsCommand'
  BY <1>1, <1>2 DEF CallInv, ChildTellsCommand
<1>6. AllReaped'
  <2> SUFFICES ASSUME NEW n \in S!CallIds, Waited(n)', result'[n] # "none"
               PROVE  child[n] \in {"none", "reaped"}
    BY DEF AllReaped
  <2>1. CASE n = calls
    BY <1>1, <2>1
  <2>2. CASE n # calls
    BY <1>1, <1>3, <2>2, OthersWaited DEF CallInv, AllReaped
  <2> QED  BY <2>1, <2>2
<1>7. ResultTellsCommand'
  <2> SUFFICES ASSUME NEW n \in S!CallIds,
                      function[n] # "do_exec_redirect", result'[n] \in {"true", "false"},
                      \A m \in 1 .. n - 1 : result'[m] # "wait_failed"
               PROVE  result'[n] = "true" <=> command'[n] = "success"
    BY DEF ResultTellsCommand, S!ResultTellsCommand
  <2>1. CASE n = calls
    BY <1>2, <1>3, <2>1
  <2>2. CASE n # calls
    BY <1>1, <1>2, <1>3, <2>2, OthersWaited DEF CallInv, ResultTellsCommand, S!ResultTellsCommand
  <2> QED  BY <2>1, <2>2
<1> QED  BY <1>3, <1>4, <1>5, <1>6, <1>7 DEF CallInv

(* wait() without a failure before it reaps the child of its own call.     *)
LEMMA WaitStep ==
  ASSUME CallInv, S!wait
  PROVE  CallInv'
<1>1. PICK z \in S!Zombies : /\ S!Return(S!Verdict(child[z]))
                             /\ child' = [child EXCEPT ![z] = "reaped"]
  BY DEF S!wait
<1>2. /\ parent = "wait" /\ UNCHANGED <<calls, function, command, fds>>
      /\ calls \in S!CallIds /\ result[calls] = "none"
      /\ child[calls] \in Children
  BY DEF S!wait, CallInv, CallsInOrder, CallInProgress
<1>3. /\ z \in S!CallIds /\ child[z] \in {"success", "failed"}
      /\ child' = [n \in S!CallIds |-> child'[n]] /\ child'[z] = "reaped"
      /\ \A n \in S!CallIds \ {z} : child'[n] = child[n]
  BY <1>1 DEF S!Zombies, CallInv, CallsInOrder
<1>4. z <= calls
  <2>1. ~(z > calls)
    BY <1>3 DEF CallInv, CallsInOrder
  <2> QED  BY <1>2, <1>3, <2>1, ExercisesAssumption DEF S!CallIds
<1>5. S!Verdict(child[z]) \in {"true", "false"}
  BY DEF S!Verdict
<1>6. /\ CallsInOrder' /\ result'[calls] = S!Verdict(child[z]) /\ parent' = "caller"
      /\ \A n \in S!CallIds \ {calls} : result'[n] = result[n]
  <2>1. \A n \in S!CallIds : n > calls => child'[n] = child[n]
    <3>1. \A n \in S!CallIds : n > calls => n # z
      BY <1>2, <1>3, <1>4, ExercisesAssumption DEF S!CallIds
    <3> QED  BY <1>3, <3>1
  <2> QED  BY <1>1, <1>2, <1>3, <1>5, <2>1, ReturnsInOrder DEF CallInv, CallsInOrder
<1>7. ASSUME \A m \in 1 .. calls - 1 : result[m] # "wait_failed" PROVE z = calls
  <2> SUFFICES ASSUME z # calls PROVE FALSE
    OBVIOUS
  <2>1. z < calls
    BY <1>2, <1>3, <1>4, ExercisesAssumption DEF S!CallIds
  <2>2. result[z] # "none"
    BY <1>3, <2>1 DEF CallInv, CallsInOrder
  <2>3. Waited(z)
    <3>1. \A m \in 1 .. z : m \in 1 .. calls - 1
      BY <1>2, <1>3, <2>1, ExercisesAssumption DEF S!CallIds
    <3> QED  BY <1>7, <3>1 DEF Waited
  <2> QED  BY <1>3, <2>2, <2>3 DEF CallInv, AllReaped
<1>8. CallInProgress'
  BY <1>6 DEF CallInProgress
<1>9. ChildTellsCommand'
  BY <1>2, <1>3 DEF CallInv, ChildTellsCommand
<1>10. AllReaped'
  <2> SUFFICES ASSUME NEW n \in S!CallIds, Waited(n)', result'[n] # "none"
               PROVE  child'[n] \in {"none", "reaped"}
    BY DEF AllReaped
  <2>1. CASE n = calls
    <3>1. \A m \in 1 .. calls - 1 : result[m] # "wait_failed"
      BY <1>2, <1>6, <2>1, CallNumbers DEF Waited
    <3> QED  BY <1>3, <1>7, <2>1, <3>1
  <2>2. CASE n # calls
    BY <1>2, <1>3, <1>6, <2>2, OthersWaited DEF CallInv, AllReaped
  <2> QED  BY <2>1, <2>2
<1>11. ResultTellsCommand'
  <2> SUFFICES ASSUME NEW n \in S!CallIds,
                      function[n] # "do_exec_redirect", result'[n] \in {"true", "false"},
                      \A m \in 1 .. n - 1 : result'[m] # "wait_failed"
               PROVE  result'[n] = "true" <=> command[n] = "success"
    BY <1>2 DEF ResultTellsCommand, S!ResultTellsCommand
  <2>1. CASE n = calls
    <3>1. z = calls
      BY <1>2, <1>6, <1>7, <2>1, OthersWaited DEF CallInv
    <3>2. result'[calls] = "true" <=> child[calls] = "success"
      BY <1>6, <2>1, <3>1 DEF S!Verdict
    <3> QED  BY <1>3, <2>1, <3>1, <3>2 DEF CallInv, ChildTellsCommand
  <2>2. CASE n # calls
    BY <1>2, <1>6, <2>2, OthersWaited DEF CallInv, ResultTellsCommand, S!ResultTellsCommand
  <2> QED  BY <2>1, <2>2
<1> QED  BY <1>6, <1>8, <1>9, <1>10, <1>11 DEF CallInv

(* A new call starts from a clean slate.                                   *)
LEMMA CallStarts ==
  ASSUME CallInv, NEW f \in {"do_system", "do_exec", "do_exec_redirect"},
         NEW loc \in {"system", "fork", "open"}, loc = "system" => f = "do_system",
         S!Call(f, loc)
  PROVE  CallInv'
<1>1. /\ calls' = calls + 1 /\ parent = "caller" /\ parent' = loc
      /\ function' = [function EXCEPT ![calls + 1] = f]
      /\ UNCHANGED <<result, child, command, fds>> /\ calls < MaxCalls /\ calls \in Nat
  BY ExercisesAssumption DEF S!Call, CallInv, CallsInOrder
<1>2. calls + 1 \in S!CallIds /\ calls + 1 > calls
  BY <1>1, ExercisesAssumption DEF S!CallIds
<1>3. /\ result[calls + 1] = "none" /\ child[calls + 1] = "none" /\ command[calls + 1] = "none"
  BY <1>2 DEF CallInv, CallsInOrder
<1>4. /\ function' = [n \in S!CallIds |-> function'[n]] /\ function'[calls + 1] = f
      /\ \A n \in S!CallIds : n # calls + 1 => function'[n] = function[n]
  BY <1>1, <1>2 DEF CallInv, CallsInOrder
<1>5. CallsInOrder'
  <2>1. \A n \in S!CallIds : /\ n > calls + 1 => n > calls /\ n # calls + 1
                             /\ n < calls + 1 => n <= calls
    BY <1>1, ExercisesAssumption DEF S!CallIds
  <2>2. calls + 1 \in 0 .. MaxCalls
    BY <1>1, ExercisesAssumption
  <2> QED  BY <1>1, <1>2, <1>3, <1>4, <2>1, <2>2 DEF CallInv, CallsInOrder
<1>6. CallInProgress'
  BY <1>1, <1>3, <1>4 DEF CallInProgress
<1>7. ChildTellsCommand' /\ AllReaped'
  BY <1>1 DEF CallInv, ChildTellsCommand, AllReaped, Waited
<1>8. ResultTellsCommand'
  BY <1>1, <1>3, <1>4 DEF CallInv, ResultTellsCommand, S!ResultTellsCommand
<1> QED  BY <1>5, <1>6, <1>7, <1>8 DEF CallInv

(* A step that changes neither the results nor how a command ended.        *)
LEMMA ChildMoves ==
  ASSUME CallInv, UNCHANGED <<calls, function, result, command>>,
         parent' = parent \/ (parent # "caller" /\ parent' # "caller"),
         CallInProgress', ChildTellsCommand',
         child' = [n \in S!CallIds |-> child'[n]],
         \A n \in S!CallIds : n > calls \/ result[n] # "none" =>
           \/ UNCHANGED child[n]
           \/ child[n] \in Children /\ child'[n] \in Children,
         \A n \in S!CallIds : n > calls => UNCHANGED child[n]
  PROVE  CallInv'
<1>1. CallsInOrder'
  BY StaysInOrder DEF CallInv, CallsInOrder
<1>2. AllReaped'
  BY DEF CallInv, AllReaped, Waited, Children
<1>3. ResultTellsCommand'
  BY DEF CallInv, ResultTellsCommand, S!ResultTellsCommand
<1> QED  BY <1>1, <1>2, <1>3 DEF CallInv

(* The output file is opened, the child forked, the file closed.           *)
LEMMA ForkSteps ==
  ASSUME CallInv, S!redirect_open \/ S!fork \/ S!redirect_close
  PROVE  CallInv'
<1>0. /\ CallsInOrder /\ CallInProgress /\ ChildTellsCommand
      /\ child = [n \in S!CallIds |-> child[n]]
  BY DEF CallInv, CallsInOrder
<1>1. parent # "caller" /\ calls \in S!CallIds /\ result[calls] = "none"
      /\ \A n \in S!CallIds : n > calls \/ result[n] # "none" => n # calls \/ n > calls
  BY <1>0 DEF S!redirect_open, S!fork, S!redirect_close, CallsInOrder
<1>2. \A n \in S!CallIds : n > calls => n # calls
  BY <1>1, ExercisesAssumption DEF S!CallIds
<1>3. CASE S!redirect_open
  <2>1. CASE S!Return("false") /\ UNCHANGED fds
    BY <1>3, <2>1, ReturnChildless DEF S!redirect_open
  <2>2. CASE fds' = fds \cup {calls} /\ parent' = "fork" /\ UNCHANGED result
    <3>1. CallInProgress' /\ ChildTellsCommand'
      BY <1>0, <1>3, <2>2 DEF S!redirect_open, CallInProgress, ChildTellsCommand
    <3> QED  BY <1>0, <1>1, <1>3, <2>2, <3>1, ChildMoves DEF S!redirect_open
  <2> QED  BY <1>3, <2>1, <2>2 DEF S!redirect_open
<1>4. CASE S!fork
  <2>1. CASE S!Return("false") /\ UNCHANGED child
    BY <1>4, <2>1, ReturnChildless DEF S!fork
  <2>2. CASE /\ child' = [child EXCEPT ![calls] = "forked"]
             /\ parent' = (IF calls \in fds THEN "close" ELSE "wait") /\ UNCHANGED result
    <3>1. /\ child'[calls] = "forked" /\ \A n \in S!CallIds \ {calls} : child'[n] = child[n]
          /\ child' = [n \in S!CallIds |-> child'[n]]
      BY <1>0, <1>1, <2>2
    <3>2. CallInProgress'
      BY <1>4, <2>2, <3>1 DEF S!fork, CallInProgress, Children
    <3>3. ChildTellsCommand'
      BY <1>0, <1>1, <1>4, <3>1 DEF S!fork, ChildTellsCommand, CallInProgress
    <3> QED
      BY <1>0, <1>1, <1>2, <1>4, <2>2, <3>1, <3>2, <3>3, ChildMoves DEF S!fork
  <2> QED  BY <1>4, <2>1, <2>2 DEF S!fork
<1>5. CASE S!redirect_close
  <2>1. CallInProgress' /\ ChildTellsCommand'
    BY <1>0, <1>5 DEF S!redirect_close, CallInProgress, ChildTellsCommand
  <2> QED  BY <1>0, <1>1, <1>5, <2>1, ChildMoves DEF S!redirect_close
<1> QED  BY <1>3, <1>4, <1>5

(* The child runs the command, and the command ends.                       *)
LEMMA ChildSteps ==
  ASSUME CallInv, NEW k \in S!CallIds, S!child_exec(k) \/ S!command_ends(k)
  PROVE  CallInv'
<1>0. /\ CallsInOrder /\ CallInProgress /\ ChildTellsCommand
      /\ child = [n \in S!CallIds |-> child[n]] /\ command = [n \in S!CallIds |-> command[n]]
  BY DEF CallInv, CallsInOrder
<1>1. PICK c \in {"running", "failed", "success"} :
        /\ child' = [child EXCEPT ![k] = c] /\ child[k] \in {"forked", "running"}
        /\ UNCHANGED <<calls, parent, function, result, fds>>
        /\ \/ c # "success" /\ UNCHANGED command
           \/ c # "running" /\ command' = [command EXCEPT ![k] = c]
  BY DEF S!child_exec, S!command_ends
<1>2. /\ child'[k] = c /\ \A n \in S!CallIds \ {k} : child'[n] = child[n]
      /\ child' = [n \in S!CallIds |-> child'[n]]
  BY <1>0, <1>1
<1>3. /\ command' = [n \in S!CallIds |-> command'[n]]
      /\ \A n \in S!CallIds \ {k} : command'[n] = command[n]
      /\ command[k] = "none"
      /\ c = "success" => command'[k] = "success"
      /\ c = "failed" => command'[k] # "success"
      /\ c = "running" => command'[k] = "none"
  BY <1>0, <1>1 DEF ChildTellsCommand
<1>4. ~(k > calls)
  BY <1>0, <1>1 DEF CallsInOrder
<1>5. CallsInOrder'
  BY <1>0, <1>1, <1>2, <1>3, <1>4, StaysInOrder
<1>6. CallInProgress'
  <2>1. parent \in {"system", "open", "fork"} => k # calls
    BY <1>0, <1>1 DEF CallInProgress
  <2>2. parent # "caller" => calls \in S!CallIds
    BY <1>0 DEF CallsInOrder
  <2>3. parent \in {"system", "open", "fork"} => child'[calls] = "none" /\ command'[calls] = "none"
    BY <1>0, <1>2, <1>3, <2>1, <2>2 DEF CallInProgress
  <2>4. parent \in {"close", "wait"} => child'[calls] \in Children
    BY <1>0, <1>2, <2>2 DEF CallInProgress, Children
  <2> QED  BY <1>0, <1>1, <2>3, <2>4 DEF CallInProgress
<1>7. ChildTellsCommand'
  <2> SUFFICES ASSUME NEW n \in S!CallIds
               PROVE  /\ child'[n] = "success" => command'[n] = "success"
                      /\ child'[n] = "failed" => command'[n] # "success"
                      /\ child'[n] \in {"forked", "running"} => command'[n] = "none"
    BY DEF ChildTellsCommand
  <2>1. CASE n = k
    BY <1>1, <1>2, <1>3, <2>1
  <2>2. CASE n # k
    BY <1>0, <1>2, <1>3, <2>2 DEF ChildTellsCommand
  <2> QED  BY <2>1, <2>2
<1>8. AllReaped'
  BY <1>1, <1>2 DEF CallInv, AllReaped, Waited
<1>9. ResultTellsCommand'
  <2> SUFFICES ASSUME NEW n \in S!CallIds,
                      function[n] # "do_exec_redirect", result[n] \in {"true", "false"},
                      \A m \in 1 .. n - 1 : result[m] # "wait_failed"
               PROVE  result[n] = "true" <=> command'[n] = "success"
    BY <1>1 DEF ResultTellsCommand, S!ResultTellsCommand
  <2>1. Waited(n)
    BY CallNumbers DEF Waited
  <2>2. n # k
    BY <1>1, <2>1 DEF CallInv, AllReaped
  <2> QED  BY <1>3, <2>2 DEF CallInv, ResultTellsCommand, S!ResultTellsCommand
<1> QED  BY <1>5, <1>6, <1>7, <1>8, <1>9 DEF CallInv

(* wait() fails and the child stays behind.                                *)
LEMMA WaitFails ==
  ASSUME CallInv, S!wait_interrupted
  PROVE  CallInv'
<1>1. /\ parent = "wait" /\ S!Return("wait_failed")
      /\ UNCHANGED <<calls, function, child, command, fds>>
      /\ calls \in S!CallIds /\ result[calls] = "none"
  BY DEF S!wait_interrupted, CallInv, CallsInOrder, CallInProgress
<1>2. /\ CallsInOrder' /\ result'[calls] = "wait_failed" /\ parent' = "caller"
      /\ \A n \in S!CallIds \ {calls} : result'[n] = result[n]
  BY <1>1, ReturnsInOrder DEF CallInv, CallsInOrder
<1>3. CallInProgress' /\ ChildTellsCommand'
  BY <1>1, <1>2 DEF CallInv, CallInProgress, ChildTellsCommand
<1>4. ASSUME NEW n \in S!CallIds, result'[n] \notin {"none", "wait_failed"}
      PROVE  /\ n # calls /\ result'[n] = result[n] /\ (Waited(n)' <=> Waited(n))
             /\ \A m \in 1 .. n - 1 : result'[m] = result[m]
  BY <1>1, <1>2, <1>4, OthersWaited DEF CallInv
<1>5. AllReaped'
  <2> SUFFICES ASSUME NEW n \in S!CallIds, Waited(n)', result'[n] # "none"
               PROVE  child[n] \in {"none", "reaped"}
    BY <1>1 DEF AllReaped
  <2>1. result'[n] # "wait_failed"
    BY CallNumbers DEF Waited
  <2> QED  BY <1>4, <2>1 DEF CallInv, AllReaped
<1>6. ResultTellsCommand'
  BY <1>1, <1>4 DEF CallInv, ResultTellsCommand, S!ResultTellsCommand
<1> QED  BY <1>2, <1>3, <1>5, <1>6 DEF CallInv

(* Every step of the functions keeps the invariant.                        *)
LEMMA CallStep == CallInv /\ S!Next => CallInv'
<1> SUFFICES ASSUME CallInv, S!Next PROVE CallInv'
  OBVIOUS
<1>1. CASE S!call_do_system \/ S!call_do_exec \/ S!call_do_exec_redirect
  BY <1>1, CallStarts DEF S!call_do_system, S!call_do_exec, S!call_do_exec_redirect
<1>2. CASE S!do_system
  BY <1>2, ReturnChildless DEF S!do_system
<1> QED  BY <1>1, <1>2, ForkSteps, ChildSteps, WaitStep, WaitFails DEF S!Next

(* For every number of calls, whatever fails: the invariant of the calls.  *)
LEMMA CallsInv == Spec => []CallInv
<1>1. Init => CallInv
  <2> SUFFICES ASSUME Init PROVE CallInv
    OBVIOUS
  <2>1. S!Init /\ \A n \in S!CallIds : ~(n < 0) /\ ~(n <= 0)
    BY ExercisesAssumption DEF Init, S!CallIds
  <2>2. CallsInOrder
    BY <2>1, ExercisesAssumption DEF S!Init, CallsInOrder
  <2> QED
    BY <2>1, <2>2
    DEF S!Init, CallInv, CallInProgress, ChildTellsCommand, AllReaped,
        ResultTellsCommand, S!ResultTellsCommand
<1>2. CallInv /\ [Next]_vars => CallInv'
  <2> SUFFICES ASSUME CallInv, [Next]_vars, UNCHANGED callVars PROVE CallInv'
    BY CallStep DEF Next, vars
  <2> QED
    BY DEF callVars, CallInv, CallsInOrder, CallInProgress, ChildTellsCommand, AllReaped, Waited,
           ResultTellsCommand, S!ResultTellsCommand
<1> QED  BY <1>1, <1>2, PTL DEF Spec

(* do_system and do_exec return true exactly when the command of this very *)
(* call exited with 0, as long as no wait() has failed before              *)
(* (systemcalls.c:15-128).                                                 *)
THEOREM ResultIsOwn == Spec => []ResultTellsCommand
<1>1. CallInv => ResultTellsCommand
  BY DEF CallInv
<1> QED  BY <1>1, CallsInv, PTL
=============================================================================
