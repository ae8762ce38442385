---------------------------- MODULE MCOffloadApi ----------------------------
(* OffloadApi on small instances.                                          *)
EXTENDS OffloadApi

\* Every launch tells apart the contents and the scalar it was given.
MCKernel(v, n) == (v + n) % 2
MCContents     == {0, 1}
\* For the run whose properties are not about contents.
MCSameContents(v, n) == v
=============================================================================
