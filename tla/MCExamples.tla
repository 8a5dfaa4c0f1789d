----------------------------- MODULE MCExamples -----------------------------
(* A small instance of the exercise programs: a string that can be cut in  *)
(* every way, two threads, three calls.                                    *)
EXTENDS Exercises

Text == <<"a", "b", "c">>
=============================================================================
