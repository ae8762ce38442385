------------------------------ MODULE MatrixMul ------------------------------
(***************************************************************************)
(* matrixMul of MatrixMul.cl, launched as matrix_mul.c does.  The work-    *)
(* items of a group load a tile of A and one of B into local memory, meet  *)
(* at a barrier, add up their products and meet again before they load the *)
(* next tiles.  An element of A or B stands for its index, so that a sum   *)
(* is the sequence of the products in it; computeGold is the reference.    *)
(***************************************************************************)
EXTENDS Integers, SequencesExt

CONSTANTS BLOCK_SIZE, WA, HA, WB

\* The sides are multiples of BLOCK_SIZE (matrix_mul.c 15-20), so that
\* shrRoundUp changes none and trueLocalSize1 holds nobody back.
MatrixAssumption ==
  /\ BLOCK_SIZE \in Nat \ {0}
  /\ \A side \in {WA, HA, WB} : \E n \in 1..side : side = n * BLOCK_SIZE

Side   == 0..(BLOCK_SIZE - 1)
Groups == (0..((WB \div BLOCK_SIZE) - 1)) \X (0..((HA \div BLOCK_SIZE) - 1))
Locals == Side \X Side     \* <<tx, ty>>
Items  == Groups \X Locals

Empty  == [t \in Locals |-> -1]

VARIABLES
  As, Bs,   \* of each group: local memory
  tile,     \* of each work-item: the tiles it has used
  pc, k,
  Csub,
  C

vars == <<As, Bs, tile, pc, k, Csub, C>>

Init ==
  /\ As = [g \in Groups |-> Empty] /\ Bs = As
  /\ tile = [i \in Items |-> 0] /\ k = tile
  /\ pc = [i \in Items |-> "a"] /\ Csub = [i \in Items |-> <<>>]
  /\ C = [n \in 0..(WB * HA - 1) |-> <<>>]
-------------------------------------------------------------------------------
At(i, from, to) == pc[i] = from /\ pc' = [pc EXCEPT ![i] = to]

\* `a` and `b` of the loop.
ABase(i) == WA * BLOCK_SIZE * i[1][2] + tile[i] * BLOCK_SIZE
BBase(i) == BLOCK_SIZE * i[1][1] + tile[i] * BLOCK_SIZE * WB

LoadA(i) ==
  /\ At(i, "a", "b")
  /\ As' = [As EXCEPT ![i[1]][i[2]] = ABase(i) + WA * i[2][2] + i[2][1]]
  /\ UNCHANGED <<Bs, tile, k, Csub, C>>

LoadB(i) ==
  /\ At(i, "b", "loaded")
  /\ Bs' = [Bs EXCEPT ![i[1]][i[2]] = BBase(i) + WB * i[2][2] + i[2][1]]
  /\ UNCHANGED <<As, tile, k, Csub, C>>

BarrierM1(g, from, to) ==
  \E t \in Locals : At(<<g, t>>, from, to) /\ k' = [k EXCEPT ![<<g, t>>] = 0]
\* barrier(): the whole group is there before anyone goes on.
Barrier(g, from, to) ==
  /\ \A t \in Locals : pc[<<g, t>>] = from
  /\ pc' = [i \in Items |-> IF i[1] = g THEN to ELSE pc[i]]
  /\ k' = [i \in Items |-> IF i[1] = g THEN 0 ELSE k[i]]

Loaded(g) == Barrier(g, "loaded", "add") /\ UNCHANGED <<As, Bs, tile, Csub, C>>

Add(i) ==
  /\ At(i, "add", IF k[i] + 1 = BLOCK_SIZE THEN "added" ELSE "add")
  /\ k' = [k EXCEPT ![i] = @ + 1]
  /\ Csub' = [Csub EXCEPT ![i] =
       Append(@, <<As[i[1]][<<k[i], i[2][2]>>], Bs[i[1]][<<i[2][1], k[i]>>]>>)]
  /\ UNCHANGED <<As, Bs, tile, C>>

Added(g) ==
  /\ LET t == CHOOSE t \in Locals : TRUE
     IN Barrier(g, "added", IF (tile[<<g, t>>] + 1) * BLOCK_SIZE < WA THEN "a" ELSE "store")
  /\ tile' = [i \in Items |-> IF i[1] = g THEN tile[i] + 1 ELSE tile[i]]
  /\ UNCHANGED <<As, Bs, Csub, C>>

GlobalId(i, dim) == i[1][dim] * BLOCK_SIZE + i[2][dim]

Store(i) ==
  /\ At(i, "store", "done")
  /\ C' = [C EXCEPT ![GlobalId(i, 2) * WB + GlobalId(i, 1)] = Csub[i]]
  /\ UNCHANGED <<As, Bs, tile, k, Csub>>

Next ==
  \/ \E i \in Items : LoadA(i) \/ LoadB(i) \/ Add(i) \/ Store(i)
  \/ \E g \in Groups : Loaded(g) \/ Added(g)
Spec == Init /\ [][Next]_vars
-------------------------------------------------------------------------------
\* computeGold, the elements of the row and the column in order.
computeGold == [n \in DOMAIN C |->
  [kk \in 1..WA |-> <<(n \div WB) * WA + kk - 1, (kk - 1) * WB + (n % WB)>>]]

\* Every work-item is in its group's tile, between the same two barriers.
TypeOK ==
  /\ \A i \in Items : pc[i] \in {"a", "b", "loaded", "add", "added", "store", "done"}
  /\ \A i, j \in Items : i[1] = j[1] => tile[i] = tile[j] /\ tile[i] \in 0..(WA \div BLOCK_SIZE)

\* What a work-item has added up so far is the beginning of its reference sum:
\* no element of another tile, none before it is loaded, none left out.
SumsFollowReference == \A i \in Items :
  IsPrefix(Csub[i], computeGold[GlobalId(i, 2) * WB + GlobalId(i, 1)])

\* When the launch is over C is what computeGold computes, in the same order
\* of addition.
MatchesReference == (\A i \in Items : pc[i] = "done") => C = computeGold
==============================================================================
