----------------------------- MODULE AesdDevice -----------------------------
(***************************************************************************)
(* What /dev/aesdchar promises to the programs that open it.  The device    *)
(* keeps the Capacity newest commands (byte strings that end in a newline)  *)
(* and the beginning of the next one; every read and write takes effect in  *)
(* one step between its call and its return.                                *)
(***************************************************************************)
EXTENDS Integers, SequencesExt

CONSTANTS Procs, Capacity, NL, Calls, NoCall

VARIABLES
  recent,    \* the commands the device keeps, oldest first
  partial,   \* the bytes written since the last command was completed
  pos,       \* [Procs -> Nat]: the position of each open file
  call,      \* [Procs -> Calls]: the system call each process made last ...
  ret,       \* [Procs -> STRING]: ... and its outcome, "busy" until it has one
  got        \* [Procs -> Seq]: the bytes the last read returned

device == <<recent, partial>>
vars   == <<recent, partial, pos, call, ret, got>>

Init ==
  /\ recent = << >> /\ partial = << >>
  /\ pos = [p \in Procs |-> 0]
  /\ call = [p \in Procs |-> NoCall]
  /\ ret = [p \in Procs |-> "ok"]
  /\ got = [p \in Procs |-> << >>]

Newest(s) == IF Len(s) > Capacity THEN Tail(s) ELSE s

(* Closing the file: the next one opened starts over.                      *)
Close(p) ==
  /\ ret[p] # "busy"
  /\ pos' = [pos EXCEPT ![p] = 0]
  /\ call' = [call EXCEPT ![p] = NoCall]
  /\ ret' = [ret EXCEPT ![p] = "ok"]
  /\ got' = [got EXCEPT ![p] = << >>]
  /\ UNCHANGED device

Call(p) ==
  /\ ret[p] # "busy"
  /\ \E c \in Calls : call' = [call EXCEPT ![p] = c]
  /\ ret' = [ret EXCEPT ![p] = "busy"]
  /\ got' = [got EXCEPT ![p] = << >>]
  /\ UNCHANGED <<recent, partial, pos>>

Outcome(p, op, results) ==
  /\ ret[p] = "busy" /\ call[p].op = op
  /\ \E r \in results : ret' = [ret EXCEPT ![p] = r]

(* A read returns the next bytes of the kept commands, at least one unless *)
(* it is at the end or asked for none, and moves the position past them.   *)
Read(p) ==
  LET all  == FlattenSeq(recent)
      most == IF call[p].count < Len(all) - pos[p]
                THEN call[p].count ELSE Len(all) - pos[p]
  IN  /\ Outcome(p, "read", {"ok"})
      /\ \E n \in IF most > 0 THEN 1 .. most ELSE {0} :
           /\ got' = [got EXCEPT ![p] = SubSeq(all, pos[p] + 1, pos[p] + n)]
           /\ pos' = [pos EXCEPT ![p] = @ + n]
      /\ UNCHANGED <<recent, partial, call>>

(* A write that succeeds appends its bytes; a newline at the end completes *)
(* the command, which pushes out the oldest one when there are too many.   *)
Write(p) ==
  LET text == partial \o call[p].data
  IN  /\ Outcome(p, "write", {"ok"})
      /\ IF text # << >> /\ text[Len(text)] = NL
           THEN recent' = Newest(Append(recent, text)) /\ partial' = << >>
           ELSE recent' = recent /\ partial' = text
      /\ UNCHANGED <<pos, call, got>>

(* A write interrupted late has appended its bytes although it reports an  *)
(* error, and a newline at the end is not noticed.                         *)
Interrupted(p) ==
  /\ Outcome(p, "write", {"EINTR"})
  /\ partial' = partial \o call[p].data
  /\ UNCHANGED <<recent, pos, call, got>>

(* A write that cannot read its buffer loses the unfinished command.       *)
Lost(p) ==
  /\ Outcome(p, "write", {"EFAULT"})
  /\ partial' = << >>
  /\ UNCHANGED <<recent, pos, call, got>>

(* Every other failure leaves the device and the position as they were.    *)
Fail(p) ==
  /\ \/ Outcome(p, "read", {"ERESTARTSYS", "EFAULT"})
     \/ Outcome(p, "write", {"ERESTARTSYS", "ENOMEM", "EFAULT"})
  /\ UNCHANGED <<recent, partial, pos, call, got>>

(* Unloading the module forgets everything; no call is in progress then.   *)
Unload ==
  /\ \A p \in Procs : ret[p] # "busy"
  /\ recent' = << >> /\ partial' = << >>
  /\ UNCHANGED <<pos, call, ret, got>>

Next ==
  \/ Unload
  \/ \E p \in Procs : \/ Close(p) \/ Call(p) \/ Read(p) \/ Write(p)
                      \/ Interrupted(p) \/ Lost(p) \/ Fail(p)

Spec == Init /\ [][Next]_vars
=============================================================================
