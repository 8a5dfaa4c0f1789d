---------------------------- MODULE OutputStore ----------------------------
(***************************************************************************)
(* What becomes of the pieces <<owner, kind>> the server writes: a plain    *)
(* file keeps and returns all of them; /dev/aesdchar (see AesdDevice) keeps *)
(* the Capacity newest commands and returns nothing behind the last         *)
(* newline.  A piece of kind "nl" ends in a newline.                        *)
(***************************************************************************)
EXTENDS Integers, Sequences, FiniteSets, FiniteSetsExt

CONSTANT Capacity   \* AESDCHAR_MAX_WRITE_OPERATIONS_SUPPORTED

Newlines(out) == {i \in DOMAIN out : out[i][2] = "nl"}

(* A device drops the oldest command for the one too many.                 *)
Keep(device, out) ==
  IF device /\ Cardinality(Newlines(out)) > Capacity
    THEN SubSeq(out, Min(Newlines(out)) + 1, Len(out)) ELSE out

Readable(device, out) ==
  IF device THEN SubSeq(out, 1, Max(Newlines(out) \cup {0})) ELSE out
=============================================================================
