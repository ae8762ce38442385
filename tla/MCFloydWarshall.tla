--------------------------- MODULE MCFloydWarshall ---------------------------
(* FloydWarshall on three nodes: one graph in which the way through every   *)
(* node improves another pair, and one with ties and weights of zero.       *)
EXTENDS FloydWarshallProofs

MatrixOf(rows) == [c \in Cells |-> rows[c[1] + 1][c[2] + 1]]
MCGraphs == {MatrixOf(<<<<0, 9, 2>>, <<3, 0, 8>>, <<7, 1, 0>>>>),
             MatrixOf(<<<<0, 0, 5>>, <<4, 0, 5>>, <<4, 4, 0>>>>)}
AllRows  == Nodes       \* a launch over both dimensions
FirstRow == {0}         \* a launch with work_dim 1

\* Least weight of a walk of at most m + 1 edges from y to x.
Lightest(S) == CHOOSE w \in S : \A v \in S : w <= v
WalkWeight(g) ==
  LET walk[m \in 0..N] ==
        IF m = 0 THEN g
        ELSE LET shorter == walk[m - 1] IN
             [c \in Cells |-> Lightest({shorter[<<c[1], z>>] + g[<<z, c[2]>>] : z \in Nodes})]
  IN walk[N]

\* ShortestPaths means what it says: the lightest walks from a node are the
\* greatest potential that is zero there.
ASSUME WalksArePotentials ==
  \A g \in Graphs, y \in Nodes :
    LET w == [x \in Nodes |-> WalkWeight(g)[<<y, x>>]] IN
      /\ w[y] = 0 /\ Potential(g, w)
      /\ \A p \in [Nodes -> UNION {0..g[c] : c \in Cells}] :
           p[y] = 0 /\ Potential(g, p) => \A x \in Nodes : p[x] <= w[x]
==============================================================================
