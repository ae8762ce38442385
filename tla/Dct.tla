--------------------------------- MODULE Dct ---------------------------------
(***************************************************************************)
(* The kernel DCT8x8 of DCT8x8.cl, launched as dct.c does, against         *)
(* DCT8x8CPU of the phone.  A work-item copies a column of its block into  *)
(* local memory, transforms a row of it in place and then its column: it   *)
(* reads what the others of its block have stored, with no barrier.        *)
(*                                                                         *)
(* Arithmetic is symbolic: element k of a transformed vector is a term of  *)
(* the vector and k.  Blocks of N by N stand for those of 8 by 8.          *)
(***************************************************************************)
EXTENDS Naturals, Sequences, TLC

CONSTANTS
  N,                  \* BLOCK_SIZE
  BLOCK_X, BLOCK_Y,   \* pixels of a group
  Images,             \* <<width, height>>
  LockStep            \* work-items side by side take every step together

DctAssumption ==
  /\ N \in Nat \ {0} /\ BLOCK_X \in Nat \ {0} /\ BLOCK_Y \in Nat \ {0}
  /\ BLOCK_X % N = 0 /\ BLOCK_Y % N = 0
  /\ Images \subseteq (Nat \ {0}) \X (Nat \ {0}) /\ LockStep \in BOOLEAN

VARIABLES
  imageW, imageH,
  group,         \* the group that runs: groups share nothing
  l_Transpose,   \* by row and column
  pc, n, D,      \* of each work-item: its loop, the loop's i, its vector
  d_Dst,         \* the pixels written
  early          \* (history) blocks in which a cell was read before it was stored

vars == <<imageW, imageH, group, l_Transpose, pc, n, D, d_Dst, early>>

iDivUp(dividend, divisor) == dividend \div divisor + (IF dividend % divisor # 0 THEN 1 ELSE 0)
Items == (0..(BLOCK_X - 1)) \X (0..(BLOCK_Y \div N - 1))
Cells == (0..(BLOCK_Y - 1)) \X (0..(BLOCK_X - 1))

Src(y, x) == <<"src", y, x>>
Unset     == <<>>
DCT8(v)   == [k \in 0..(N - 1) |-> <<"dct", v, k, "">>]

globalX(i) == group[1] * BLOCK_X + i[1]
globalY(i) == group[2] * BLOCK_Y + N * i[2]
modLocalX(i) == i[1] % N
Block(i) == <<i[1] \div N, i[2]>>
Full(i) == globalX(i) - modLocalX(i) + N - 1 < imageW /\ globalY(i) + N - 1 < imageH

Init ==
  /\ \E image \in Images : imageW = image[1] /\ imageH = image[2]
  /\ group \in (0..(iDivUp(imageW, BLOCK_X) - 1)) \X (0..(iDivUp(imageH, BLOCK_Y) - 1))
  /\ l_Transpose = [c \in Cells |-> Unset]
  /\ pc = [i \in Items |-> IF Full(i) THEN "fill" ELSE "done"]
  /\ n = [i \in Items |-> 0] /\ D = [i \in Items |-> [k \in 0..(N - 1) |-> Unset]]
  /\ d_Dst = <<>> /\ early = {}
-------------------------------------------------------------------------------
\* l_V[n * (BLOCK_X + 1)] and l_H[n]
V(i) == <<N * i[2] + n[i], i[1]>>
H(i) == <<N * i[2] + modLocalX(i), i[1] - modLocalX(i) + n[i]>>

\* The work-items that take a step together, an access to memory each.
Teams == (IF LockStep THEN {{i \in Items : i[2] = y /\ Full(i)} : y \in 0..(BLOCK_Y \div N - 1)}
          ELSE {{i} : i \in Items}) \ {{}}

InLoop(S, loop) == \A i \in S : pc[i] = loop
Advance(S, loop) ==
  /\ n' = [i \in Items |-> IF i \in S THEN (n[i] + 1) % N ELSE n[i]]
  /\ pc' = [i \in Items |-> IF i \in S /\ n[i] = N - 1 THEN loop ELSE pc[i]]
  /\ UNCHANGED <<imageW, imageH, group>>

\* Each work-item i of S stores val[i] in, or loads from, cell[i].
Stored(S, cell, val) ==
  [c \in Cells |-> IF \E i \in S : cell[i] = c THEN val[CHOOSE i \in S : cell[i] = c] ELSE l_Transpose[c]]
Loaded(S, cell) ==
  [i \in Items |-> IF i \notin S THEN D[i]
                   ELSE LET v == [D[i] EXCEPT ![n[i]] = l_Transpose[cell[i]]] IN
                        IF n[i] = N - 1 THEN DCT8(v) ELSE v]

\* The work-item of i's block whose column, or whose row, i is about to read
Other(i) == <<i[1] - modLocalX(i) + n[i], i[2]>>
\* ... and whether it has yet to store the cell in that loop.
Awaits(i, loop, before) ==
  LET o == Other(i) IN pc[o] \in before \/ (pc[o] = loop /\ n[o] <= modLocalX(i))

Fill(S) ==
  /\ InLoop(S, "fill") /\ Advance(S, "row")
  /\ l_Transpose' = Stored(S, [i \in S |-> V(i)], [i \in S |-> Src(globalY(i) + n[i], globalX(i))])
  /\ UNCHANGED <<D, d_Dst, early>>

LoadRow(S) ==
  /\ InLoop(S, "row") /\ Advance(S, "put") /\ D' = Loaded(S, [i \in S |-> H(i)])
  /\ early' = early \cup {Block(i) : i \in {j \in S : Awaits(j, "fill", {})}}
  /\ UNCHANGED <<l_Transpose, d_Dst>>

PutRow(S) ==
  /\ InLoop(S, "put") /\ Advance(S, "col")
  /\ l_Transpose' = Stored(S, [i \in S |-> H(i)], [i \in S |-> D[i][n[i]]])
  /\ UNCHANGED <<D, d_Dst, early>>

LoadColumn(S) ==
  /\ InLoop(S, "col") /\ Advance(S, "out") /\ D' = Loaded(S, [i \in S |-> V(i)])
  /\ early' = early \cup {Block(i) : i \in {j \in S : Awaits(j, "put", {"fill", "row"})}}
  /\ UNCHANGED <<l_Transpose, d_Dst>>

Out(S) ==
  /\ InLoop(S, "out") /\ Advance(S, "done")
  /\ d_Dst' = [p \in {<<globalY(i) + n[i], globalX(i)>> : i \in S} |->
                 LET i == CHOOSE j \in S : globalX(j) = p[2] IN D[i][n[i]]] @@ d_Dst
  /\ UNCHANGED <<l_Transpose, D, early>>

Next == \E S \in Teams : Fill(S) \/ LoadRow(S) \/ PutRow(S) \/ LoadColumn(S) \/ Out(S)
Spec == Init /\ [][Next]_vars
-------------------------------------------------------------------------------
(* DCT8x8CPU: the rows of every whole block, then its columns, in place.   *)
BlockPixels(side) == {p \in 0..side : p < side /\ (p \div N) * N + N - 1 < side}
CPURow(y, x) == LET left == (x \div N) * N IN
  DCT8([k \in 0..(N - 1) |-> Src(y, left + k)])[x - left]
DCT8x8CPU == [p \in BlockPixels(imageH) \X BlockPixels(imageW) |->
  LET top == (p[1] \div N) * N IN
  DCT8([k \in 0..(N - 1) |-> CPURow(top + k, p[2])])[p[1] - top]]
-------------------------------------------------------------------------------
IsTerm(t) == t = Unset \/ t[1] \in {"src", "dct"}
TypeOK ==
  /\ pc \in [Items -> {"fill", "row", "put", "col", "out", "done"}] /\ n \in [Items -> 0..(N - 1)]
  /\ DOMAIN l_Transpose = Cells /\ \A c \in Cells : IsTerm(l_Transpose[c])
  /\ \A i \in Items : DOMAIN D[i] = 0..(N - 1)
  /\ early \subseteq (0..(BLOCK_X \div N - 1)) \X (0..(BLOCK_Y \div N - 1))

Finished(b) == \A i \in Items : Block(i) = b => pc[i] = "done"
GroupPixels(b) == {p \in DOMAIN DCT8x8CPU :
  \E i \in Items : /\ Block(i) = b /\ globalX(i) = p[2]
                   /\ p[1] \in globalY(i)..(globalY(i) + N - 1)}

(* A block is transformed as the CPU does it exactly when none of its      *)
(* work-items read a cell before the one that stores it had: what the rest *)
(* of the group does, and in which order, is of no account.                *)
RightUnlessEarly ==
  \A b \in {Block(i) : i \in Items} : Finished(b) =>
    (b \notin early <=> \A p \in GroupPixels(b) : p \in DOMAIN d_Dst /\ d_Dst[p] = DCT8x8CPU[p])

(* Blocks the image cuts off are left alone, as in the CPU's loops, and    *)
(* nothing outside the image is written.                                   *)
WholeBlocksOnly == DOMAIN d_Dst \subseteq DOMAIN DCT8x8CPU

(* In lock-step nothing is read early, so that the kernel is right on a    *)
(* device whose warps are as wide as a group; dct.c asks for the CPU.      *)
MatchesCPU ==
  \A b \in {Block(i) : i \in Items} : Finished(b) =>
    \A p \in GroupPixels(b) : p \in DOMAIN d_Dst /\ d_Dst[p] = DCT8x8CPU[p]
==============================================================================
