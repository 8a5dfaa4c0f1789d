------------------------------- MODULE Writer -------------------------------
(***************************************************************************)
(* finder-app/writer.c: writes its second argument to the file its first    *)
(* argument names, with a loop around write() that copes with short writes  *)
(* and interruptions.                                                       *)
(***************************************************************************)
EXTENDS Integers, Sequences

CONSTANTS
  WriteStr,       \* argv[2], a sequence of characters
  OldFile,        \* what the file held before, or that it did not exist
  ArgCounts,      \* values of argc
  MaxEINTR        \* bound: interrupted writes

VARIABLES
  writer,         \* where main() is
  argc,
  file,           \* what the file holds
  pstr,           \* characters try_write has passed: pstr - str
  remaining,
  exit_status,
  eintrs          \* interrupted writes so far

vars == <<writer, argc, file, pstr, remaining, exit_status, eintrs>>

Init ==
  /\ writer = "args" /\ argc \in ArgCounts
  /\ file = OldFile /\ pstr = 0 /\ remaining = 0
  /\ exit_status = 0 /\ eintrs = 0

Exit(status) == writer' = "exited" /\ exit_status' = status

check_args ==
  /\ writer = "args"
  /\ \/ argc # 3 /\ Exit(1)
     \/ argc = 3 /\ writer' = "create" /\ UNCHANGED exit_status
  /\ UNCHANGED <<argc, file, pstr, remaining, eintrs>>

(* creat truncates a file that is there.                                   *)
create_file ==
  /\ writer = "create"
  /\ \/ /\ file' = << >>
        /\ remaining' = Len(WriteStr)
        /\ writer' = "write" /\ UNCHANGED exit_status
     \/ Exit(1) /\ UNCHANGED <<file, remaining>>
  /\ UNCHANGED <<argc, pstr, eintrs>>

(* One round of try_write: all that remains or a part of it is written.    *)
Advance_All(n) == remaining' = 0 /\ pstr' = pstr + n   \* mutant: takes it for all
Advance(n)     == remaining' = remaining - n /\ pstr' = pstr + n

AllWritten_Never == remaining < 0    \* mutant: while (remaining >= 0)
AllWritten       == remaining = 0

try_write ==
  /\ writer = "write" /\ remaining > 0
  /\ \E n \in 1 .. remaining :
       /\ file' = file \o SubSeq(WriteStr, pstr + 1, pstr + n)
       /\ Advance(n)
  /\ UNCHANGED <<writer, argc, exit_status, eintrs>>

write_interrupted ==
  /\ writer = "write" /\ remaining > 0 /\ eintrs < MaxEINTR
  /\ eintrs' = eintrs + 1
  /\ UNCHANGED <<writer, argc, file, pstr, remaining, exit_status>>

(* Done, or an error that ends the loop; both close the file.              *)
write_end ==
  /\ writer = "write"
  /\ \/ AllWritten /\ UNCHANGED exit_status
     \/ remaining > 0 /\ exit_status' = 1
  /\ writer' = "close"
  /\ UNCHANGED <<argc, file, pstr, remaining, eintrs>>

close_file ==
  /\ writer = "close"
  /\ \/ Exit(exit_status)
     \/ Exit(1)
  /\ UNCHANGED <<argc, file, pstr, remaining, eintrs>>

Next ==
  check_args \/ create_file \/ try_write \/ write_interrupted \/ write_end \/ close_file

-----------------------------------------------------------------------------
(* The status tells what became of the file: 0 only when it holds the      *)
(* whole string, however the writes were cut and interrupted; and at every *)
(* moment it holds what it held before or a beginning of the string.       *)
StatusTellsFile ==
  /\ writer = "exited" /\ exit_status = 0 => file = WriteStr
  /\ file = OldFile \/ \E n \in 0 .. Len(WriteStr) : file = SubSeq(WriteStr, 1, n)
=============================================================================
