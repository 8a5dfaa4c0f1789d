---------------------------- MODULE MCCharDriver ----------------------------
(* Small instances of the driver.                                          *)
EXTENDS CharDriver, TLC

CONSTANT a   \* a byte other than the newline

(* Chunks that begin, continue and end a command.                          *)
Texts       == {<<a>>, <<NL>>}
Newline     == {<<NL>>}
TextsOrNone == Texts \cup {<< >>}

Same == Permutations(Ptrs) \cup Permutations(Procs)
=============================================================================
