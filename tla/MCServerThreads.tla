--------------------------- MODULE MCServerThreads ---------------------------
(***************************************************************************)
(* ServerThreads with a buffer of 9 bytes of which 3 are the header, a     *)
(* fixed reply, and arrays at and above the 6 bytes of room: three         *)
(* threads, so that two can race the third.                                *)
(***************************************************************************)
EXTENDS ServerThreads, TLC

MCFixedSizes == {2}
MCArraySizes == {6, 7}
Symmetry     == Permutations(Threads)
==============================================================================
