-------------------------- MODULE MCCircularBuffer --------------------------
(* Small instances of the ring: entries of one to three bytes.             *)
EXTENDS CircularBufferSpec

CONSTANTS Pointers, Sizes

MCEntries == [buffptr : Pointers, size : Sizes]
=============================================================================
