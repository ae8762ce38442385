---------------------------- MODULE FloydWarshall ----------------------------
(***************************************************************************)
(* floyd_warshall.c and its kernel floydWarshallPass: one launch per node  *)
(* k, clFinish between launches, and in a launch one work-item per cell    *)
(* that updates the one matrix all of them read.  A work-item is three     *)
(* steps: it loads its own cell and the one in column k; it loads the one  *)
(* in row k; it compares and stores.  Its own cell is written by no other  *)
(* work-item of the launch and pathBuffer is read by none, so neither      *)
(* needs a step of its own.                                                *)
(*                                                                         *)
(* Cell <<y, x>> of a matrix is element yValue * numNodes + xValue.        *)
(***************************************************************************)
EXTENDS Naturals

CONSTANTS
  N,         \* num_nodes
  Rows,      \* the values of get_global_id(1) in a launch
  Graphs,    \* path_dist_mtx the application may start from
  Unwritten  \* what a cell of pathBuffer holds before the first store

Nodes == 0..(N - 1)
Cells == Nodes \X Nodes
Items == Rows \X Nodes          \* the work-items of a launch, by their cell

\* Weights are unsigned, far from 2^32, and the diagonal is zero
\* (fill_rand, and the loop that follows it).
ASSUME GraphAssumption ==
  /\ N \in Nat \ {0} /\ Rows \subseteq Nodes
  /\ Graphs \subseteq [Cells -> Nat]
  /\ \A g \in Graphs : \A n \in Nodes : g[<<n, n>>] = 0
  /\ Unwritten \notin Nat

VARIABLES
  graph,   \* path_dist_mtx as it was uploaded
  dist,    \* pathDistanceBuffer
  path,    \* pathBuffer, created without contents
  k,       \* the pass
  before,  \* dist as the pass found it
  pc,      \* of a work-item
  old, toK, fromK   \* oldWeight and the two terms of tempWeight

vars == <<graph, dist, path, k, before, pc, old, toK, fromK>>
regs == <<old, toK, fromK>>

Init ==
  /\ graph \in Graphs
  /\ dist = graph /\ before = graph
  /\ path = [c \in Cells |-> Unwritten]
  /\ k = 0
  /\ pc = [i \in Items |-> "start"]
  /\ old = [i \in Items |-> 0] /\ toK = old /\ fromK = old

\* pathDistanceBuffer[yValue * numNodes + k]
ColumnCellM1(y, x) == dist[<<k, y>>]
ColumnCell(y, x) == dist[<<y, k>>]

LoadOldAndColumn(y, x) ==
  /\ k < N /\ pc[<<y, x>>] = "start"
  /\ pc' = [pc EXCEPT ![<<y, x>>] = "row"]
  /\ old' = [old EXCEPT ![<<y, x>>] = dist[<<y, x>>]]
  /\ toK' = [toK EXCEPT ![<<y, x>>] = ColumnCell(y, x)]
  /\ UNCHANGED <<graph, dist, path, k, before, fromK>>

LoadRow(y, x) ==
  /\ k < N /\ pc[<<y, x>>] = "row"
  /\ pc' = [pc EXCEPT ![<<y, x>>] = "store"]
  /\ fromK' = [fromK EXCEPT ![<<y, x>>] = dist[<<k, x>>]]
  /\ UNCHANGED <<graph, dist, path, k, before, old, toK>>

\* if (tempWeight < oldWeight)
ImprovesM1(temp, weight) == temp <= weight
ImprovesM2(temp, weight) == TRUE
Improves(temp, weight) == temp < weight

Store(y, x) ==
  /\ k < N /\ pc[<<y, x>>] = "store"
  /\ pc' = [pc EXCEPT ![<<y, x>>] = "done"]
  /\ LET temp == toK[<<y, x>>] + fromK[<<y, x>>] IN
       IF Improves(temp, old[<<y, x>>])
       THEN /\ dist' = [dist EXCEPT ![<<y, x>>] = temp]
            /\ path' = [path EXCEPT ![<<y, x>>] = k]
       ELSE UNCHANGED <<dist, path>>
  /\ UNCHANGED <<graph, k, before, regs>>

PassDone == \A i \in Items : pc[i] = "done"
LastPassM1 == N - 1
LastPass == N

\* clFinish has returned; the host loop sets argument 3 and launches again.
NextPass ==
  /\ k < LastPass /\ PassDone
  /\ k' = k + 1 /\ before' = dist
  /\ pc' = [i \in Items |-> "start"]
  /\ UNCHANGED <<graph, dist, path, regs>>

Finished == k = LastPass
Done == Finished /\ UNCHANGED vars   \* the loop is over

Next ==
  \/ \E y \in Rows, x \in Nodes : LoadOldAndColumn(y, x) \/ LoadRow(y, x) \/ Store(y, x)
  \/ NextPass
  \/ Done

Spec == Init /\ [][Next]_vars
-------------------------------------------------------------------------------
(* floydWarshallCPU of android/floyd/jni/floyd_cpu.c: three nested loops   *)
(* over one matrix.  run[n] is what the first n rounds of a loop leave.    *)
InitialPath == [c \in Cells |-> c[1]]

CPUStep(s, kk, y, x) ==
  LET indirect == s.d[<<y, kk>>] + s.d[<<kk, x>>] IN
    IF indirect < s.d[<<y, x>>]
    THEN [d |-> [s.d EXCEPT ![<<y, x>>] = indirect], p |-> [s.p EXCEPT ![<<y, x>>] = kk]]
    ELSE s

CPURow(s, kk, y) ==
  LET run[n \in 0..N] == IF n = 0 THEN s ELSE CPUStep(run[n - 1], kk, y, n - 1)
  IN run[N]

CPUPass(s, kk) ==
  LET run[n \in 0..N] == IF n = 0 THEN s ELSE CPURow(run[n - 1], kk, n - 1)
  IN run[N]

CPUPasses(g) ==
  LET run[n \in 0..N] == IF n = 0 THEN [d |-> g, p |-> InitialPath]
                         ELSE CPUPass(run[n - 1], n - 1)
  IN run

CPU(g) == CPUPasses(g)[N]

\* A weight for every node that no edge of g undercuts.
Potential(g, p) == \A z, x \in Nodes : p[x] <= p[z] + g[<<z, x>>]

Smaller(a, b) == IF b < a THEN b ELSE a
-------------------------------------------------------------------------------
(* What the variables range over.                                          *)
TypeOK ==
  /\ graph \in Graphs
  /\ dist \in [Cells -> Nat] /\ before \in [Cells -> Nat]
  /\ path \in [Cells -> Nodes \union {Unwritten}]
  /\ k \in 0..N
  /\ pc \in [Items -> {"start", "row", "store", "done"}]
  /\ old \in [Items -> Nat] /\ toK \in [Items -> Nat] /\ fromK \in [Items -> Nat]

(* The cells that work-items read of each other, row k and column k, do    *)
(* not change during pass k, in whatever order the work-items run: that is *)
(* what makes the update in place sound without a barrier or a second      *)
(* matrix (FloydWarshall.cl:134-141).                                      *)
RowAndColumnStable ==
  k < N => \A n \in Nodes : dist[<<k, n>>] = before[<<k, n>>] /\ dist[<<n, k>>] = before[<<n, k>>]

(* When a pass is over, every cell that was launched holds what the        *)
(* comment of the kernel says (FloydWarshall.cl:111), the minimum of the    *)
(* weight before and of the way through k, both taken before the pass; the *)
(* others are untouched.                                                   *)
PassFormula ==
  k < N /\ PassDone => \A y, x \in Nodes :
    dist[<<y, x>>] = IF y \in Rows THEN Smaller(before[<<y, x>>], before[<<y, k>>] + before[<<k, x>>])
                 ELSE before[<<y, x>>]

(* The matrices the passes leave are those of the sequential reference,    *)
(* except that a cell no pass improved is unwritten in pathBuffer, where   *)
(* the reference has the application's initial matrix.                     *)
MatchesCPU ==
  Finished => /\ dist = CPU(graph).d
              /\ \A c \in Cells : path[c] # Unwritten => path[c] = CPU(graph).p[c]
              /\ \A c \in Cells : path[c] = Unwritten <=> dist[c] = graph[c]

(* "calculates the shortest path between each pair of nodes": the weights  *)
(* left from a node y are the greatest potential of the uploaded graph that *)
(* is zero at y, which is what the lightest walks from y weigh.  Where no   *)
(* pass found a way, the weight is that of the edge; elsewhere pathBuffer   *)
(* has a node between, and the ways to and from it make up the weight.      *)
ShortestPaths ==
  Finished =>
    /\ \A y \in Nodes :
         /\ dist[<<y, y>>] = 0 /\ Potential(graph, [x \in Nodes |-> dist[<<y, x>>]])
         /\ \A p \in [Nodes -> UNION {0..graph[c] : c \in Cells}] :
              p[y] = 0 /\ Potential(graph, p) => \A x \in Nodes : p[x] <= dist[<<y, x>>]
    /\ \A y, x \in Nodes :
         LET z == path[<<y, x>>] IN
           dist[<<y, x>>] = IF z = Unwritten THEN graph[<<y, x>>]
                            ELSE dist[<<y, z>>] + dist[<<z, x>>]
==============================================================================
