------------------------- MODULE FloydWarshallProofs -------------------------
(***************************************************************************)
(* Proofs about the in-place passes, for any number of nodes, any weights  *)
(* and any set of launched rows.  The argument: cell [k, x] and cell [y, k]*)
(* have a way through k that is no shorter than themselves, because the    *)
(* diagonal is zero, so no work-item stores into row or column k, and what *)
(* a work-item loads from there is what the pass began with.               *)
(* The shortest paths follow in two halves.  Every weight ever in the      *)
(* matrix is that of some walk, so no potential of the graph that is zero  *)
(* at the row's node exceeds it (KeepsPotentials); and a pass over every   *)
(* row leaves no cell heavier than the way through its k (Closed), so in   *)
(* the end each row is itself such a potential.                            *)
(* The reference goes through the cells one by one, but from the same rows *)
(* and columns, so a pass of it leaves the same matrix (PassReaches), and  *)
(* the kernel follows it pass by pass (FollowsCPU).                        *)
(***************************************************************************)
EXTENDS FloydWarshall, WellFoundedInduction, TLAPS

\* The diagonal stays zero.
ZeroDiagonal == \A n \in Nodes : dist[<<n, n>>] = 0 /\ before[<<n, n>>] = 0

\* The weight the way through k had when the pass began.
Through(y, x) == before[<<y, k>>] + before[<<k, x>>]

\* A work-item's registers and its cell, at every point of its program.
ItemInv(y, x) ==
  /\ pc[<<y, x>>] # "done" => dist[<<y, x>>] = before[<<y, x>>]
  /\ pc[<<y, x>>] \in {"row", "store"} => old[<<y, x>>] = before[<<y, x>>] /\ toK[<<y, x>>] = before[<<y, k>>]
  /\ pc[<<y, x>>] = "store" => fromK[<<y, x>>] = before[<<k, x>>]
  /\ pc[<<y, x>>] = "done" => dist[<<y, x>>] = Smaller(before[<<y, x>>], Through(y, x))

PassInv ==
  k < N => /\ \A y \in Rows, x \in Nodes : ItemInv(y, x)
           /\ \A y \in Nodes \ Rows, x \in Nodes : dist[<<y, x>>] = before[<<y, x>>]

IInv == TypeOK /\ ZeroDiagonal /\ PassInv

-----------------------------------------------------------------------------
LEMMA Shapes ==
  /\ N \in Nat \ {0} /\ Rows \subseteq Nodes /\ Nodes \subseteq Nat
  /\ Graphs \subseteq [Cells -> Nat] /\ (\A g \in Graphs : \A n \in Nodes : g[<<n, n>>] = 0)
  /\ \A y, x \in Nodes : <<y, x>> \in Cells
  /\ \A y \in Rows, x \in Nodes : <<y, x>> \in Items
BY GraphAssumption DEF Nodes, Cells, Items

LEMMA InitIInv == Init => IInv
<1> SUFFICES ASSUME Init PROVE IInv
  OBVIOUS
<1>1. graph \in [Cells -> Nat] /\ 0 \in 0..N
  BY Shapes DEF Init
<1>2. TypeOK
  BY <1>1 DEF Init, TypeOK
<1>3. ZeroDiagonal
  BY Shapes DEF Init, ZeroDiagonal
<1>4. PassInv
  <2>1. \A y \in Rows, x \in Nodes : pc[<<y, x>>] = "start"
    BY Shapes DEF Init
  <2>2. QED
    BY <2>1 DEF Init, PassInv, ItemInv
<1>5. QED
  BY <1>2, <1>3, <1>4 DEF IInv

\* Row k and column k are as the pass found them.
LEMMA StableFromInv == IInv => RowAndColumnStable
<1> SUFFICES ASSUME IInv, k < N, NEW n \in Nodes
             PROVE  dist[<<k, n>>] = before[<<k, n>>] /\ dist[<<n, k>>] = before[<<n, k>>]
  BY DEF RowAndColumnStable
<1>1. k \in Nodes
  BY Shapes DEF IInv, TypeOK, Nodes
<1>2. before[<<k, k>>] = 0 /\ before[<<k, n>>] \in Nat /\ before[<<n, k>>] \in Nat
  BY <1>1, Shapes DEF IInv, TypeOK, ZeroDiagonal
<1>3. Smaller(before[<<k, n>>], Through(k, n)) = before[<<k, n>>]
  BY <1>2 DEF Smaller, Through
<1>4. Smaller(before[<<n, k>>], Through(n, k)) = before[<<n, k>>]
  BY <1>2 DEF Smaller, Through
<1>5. dist[<<k, n>>] = before[<<k, n>>]
  BY <1>1, <1>3 DEF IInv, PassInv, ItemInv
<1>6. dist[<<n, k>>] = before[<<n, k>>]
  BY <1>1, <1>4 DEF IInv, PassInv, ItemInv
<1>7. QED
  BY <1>5, <1>6

LEMMA LoadOldStep ==
  ASSUME IInv, NEW y \in Rows, NEW x \in Nodes, LoadOldAndColumn(y, x)
  PROVE  IInv'
<1>1. /\ k \in Nodes /\ k < N /\ y \in Nodes /\ <<y, x>> \in Items
      /\ dist[<<y, x>>] \in Nat /\ dist[<<y, k>>] \in Nat
  BY Shapes DEF IInv, TypeOK, LoadOldAndColumn, Nodes
<1>2. dist[<<y, k>>] = before[<<y, k>>]
  BY <1>1, StableFromInv DEF RowAndColumnStable
<1>3. TypeOK'
  BY <1>1 DEF IInv, TypeOK, LoadOldAndColumn, ColumnCell
<1>4. ZeroDiagonal'
  BY DEF IInv, ZeroDiagonal, LoadOldAndColumn
<1>5. PassInv'
  <2>1. ASSUME NEW v \in Rows, NEW u \in Nodes PROVE ItemInv(v, u)'
    <3>1. CASE v = y /\ u = x
      <4>1. /\ pc'[<<y, x>>] = "row" /\ old'[<<y, x>>] = dist[<<y, x>>] /\ toK'[<<y, x>>] = dist[<<y, k>>]
            /\ dist' = dist /\ before' = before /\ k' = k /\ pc[<<y, x>>] = "start"
        BY <1>1 DEF LoadOldAndColumn, ColumnCell, IInv, TypeOK
      <4>2. dist[<<y, x>>] = before[<<y, x>>]
        BY <1>1, <4>1 DEF IInv, PassInv, ItemInv
      <4>3. QED
        BY <3>1, <4>1, <4>2, <1>2 DEF ItemInv
    <3>2. CASE ~(v = y /\ u = x)
      <4>1. ItemInv(v, u) /\ <<v, u>> # <<y, x>> /\ <<v, u>> \in Items
        BY <1>1, <3>2, Shapes DEF IInv, PassInv
      <4>2. /\ pc'[<<v, u>>] = pc[<<v, u>>] /\ old'[<<v, u>>] = old[<<v, u>>] /\ toK'[<<v, u>>] = toK[<<v, u>>]
            /\ UNCHANGED <<dist, before, k, fromK>>
        BY <4>1 DEF LoadOldAndColumn, IInv, TypeOK
      <4>3. QED
        BY <4>1, <4>2 DEF ItemInv, Through
    <3>3. QED
      BY <3>1, <3>2
  <2>2. QED
    BY <1>1, <2>1 DEF IInv, PassInv, LoadOldAndColumn
<1>6. QED
  BY <1>3, <1>4, <1>5 DEF IInv

LEMMA LoadRowStep ==
  ASSUME IInv, NEW y \in Rows, NEW x \in Nodes, LoadRow(y, x)
  PROVE  IInv'
<1>1. /\ k \in Nodes /\ k < N /\ y \in Nodes /\ <<y, x>> \in Items
      /\ dist[<<k, x>>] \in Nat
  BY Shapes DEF IInv, TypeOK, LoadRow, Nodes
<1>2. dist[<<k, x>>] = before[<<k, x>>]
  BY <1>1, StableFromInv DEF RowAndColumnStable
<1>3. TypeOK'
  BY <1>1 DEF IInv, TypeOK, LoadRow
<1>4. ZeroDiagonal'
  BY DEF IInv, ZeroDiagonal, LoadRow
<1>5. PassInv'
  <2>1. ASSUME NEW v \in Rows, NEW u \in Nodes PROVE ItemInv(v, u)'
    <3>1. CASE v = y /\ u = x
      <4>1. /\ pc'[<<y, x>>] = "store" /\ fromK'[<<y, x>>] = dist[<<k, x>>] /\ pc[<<y, x>>] = "row"
            /\ UNCHANGED <<dist, before, k, old, toK>>
        BY <1>1 DEF LoadRow, IInv, TypeOK
      <4>2. ItemInv(y, x)
        BY <1>1 DEF IInv, PassInv
      <4>3. QED
        BY <3>1, <4>1, <4>2, <1>2 DEF ItemInv
    <3>2. CASE ~(v = y /\ u = x)
      <4>1. ItemInv(v, u) /\ <<v, u>> # <<y, x>> /\ <<v, u>> \in Items
        BY <1>1, <3>2, Shapes DEF IInv, PassInv
      <4>2. /\ pc'[<<v, u>>] = pc[<<v, u>>] /\ fromK'[<<v, u>>] = fromK[<<v, u>>]
            /\ UNCHANGED <<dist, before, k, old, toK>>
        BY <4>1 DEF LoadRow, IInv, TypeOK
      <4>3. QED
        BY <4>1, <4>2 DEF ItemInv, Through
    <3>3. QED
      BY <3>1, <3>2
  <2>2. QED
    BY <1>1, <2>1 DEF IInv, PassInv, LoadRow
<1>6. QED
  BY <1>3, <1>4, <1>5 DEF IInv

LEMMA StoreStep ==
  ASSUME IInv, NEW y \in Rows, NEW x \in Nodes, Store(y, x)
  PROVE  IInv'
<1> DEFINE temp == toK[<<y, x>>] + fromK[<<y, x>>]
<1>1. /\ k \in Nodes /\ k < N /\ y \in Nodes /\ <<y, x>> \in Items /\ <<y, x>> \in Cells
      /\ toK[<<y, x>>] \in Nat /\ fromK[<<y, x>>] \in Nat /\ old[<<y, x>>] \in Nat /\ temp \in Nat
  BY Shapes DEF IInv, TypeOK, Store, Nodes
<1>2. pc[<<y, x>>] = "store" /\ ItemInv(y, x)
  BY <1>1 DEF Store, IInv, PassInv
<1>3. temp = Through(y, x) /\ old[<<y, x>>] = before[<<y, x>>] /\ dist[<<y, x>>] = before[<<y, x>>]
  BY <1>2 DEF ItemInv, Through
<1>4. /\ pc' = [pc EXCEPT ![<<y, x>>] = "done"]
      /\ UNCHANGED <<graph, k, before, old, toK, fromK>>
      /\ \/ temp < old[<<y, x>>] /\ dist' = [dist EXCEPT ![<<y, x>>] = temp]
                             /\ path' = [path EXCEPT ![<<y, x>>] = k]
         \/ ~(temp < old[<<y, x>>]) /\ UNCHANGED <<dist, path>>
  BY DEF Store, Improves, regs
<1> HIDE DEF temp
<1>5. /\ dist'[<<y, x>>] = Smaller(before[<<y, x>>], Through(y, x))
      /\ \A c \in Cells : c # <<y, x>> => dist'[c] = dist[c]
      /\ dist' \in [Cells -> Nat]
  BY <1>1, <1>3, <1>4 DEF IInv, TypeOK, Smaller
<1>6. TypeOK'
  <2>1. path' \in [Cells -> Nodes \union {Unwritten}]
    BY <1>1, <1>4 DEF IInv, TypeOK
  <2>2. pc' \in [Items -> {"start", "row", "store", "done"}]
    BY <1>1, <1>4 DEF IInv, TypeOK
  <2>3. QED
    BY <1>4, <1>5, <2>1, <2>2 DEF IInv, TypeOK
<1>7. ZeroDiagonal'
  <2>1. ASSUME NEW n \in Nodes PROVE dist'[<<n, n>>] = 0 /\ before'[<<n, n>>] = 0
    <3>1. dist[<<n, n>>] = 0 /\ before[<<n, n>>] = 0 /\ before' = before
      BY <1>4 DEF IInv, ZeroDiagonal
    <3>2. CASE <<n, n>> = <<y, x>>
      <4>1. n = y /\ n = x
        BY <3>2
      <4>2. Smaller(0, Through(y, x)) = 0
        BY <1>1, <1>3 DEF Smaller
      <4>3. QED
        BY <1>5, <3>1, <4>1, <4>2
    <3>3. CASE <<n, n>> # <<y, x>>
      BY <1>5, <3>1, <3>3, Shapes
    <3>4. QED
      BY <3>2, <3>3
  <2>2. QED
    BY <2>1 DEF ZeroDiagonal
<1>8. PassInv'
  <2>1. ASSUME NEW v \in Rows, NEW u \in Nodes PROVE ItemInv(v, u)'
    <3>1. CASE v = y /\ u = x
      <4>1. pc'[<<y, x>>] = "done"
        BY <1>1, <1>4 DEF IInv, TypeOK
      <4>2. QED
        BY <3>1, <4>1, <1>4, <1>5 DEF ItemInv, Through
    <3>2. CASE ~(v = y /\ u = x)
      <4>1. ItemInv(v, u) /\ <<v, u>> # <<y, x>> /\ <<v, u>> \in Items /\ <<v, u>> \in Cells
        BY <1>1, <3>2, Shapes DEF IInv, PassInv
      <4>2. pc'[<<v, u>>] = pc[<<v, u>>] /\ dist'[<<v, u>>] = dist[<<v, u>>]
        BY <1>4, <1>5, <4>1 DEF IInv, TypeOK
      <4>3. QED
        BY <1>4, <4>1, <4>2 DEF ItemInv, Through
    <3>3. QED
      BY <3>1, <3>2
  <2>2. ASSUME NEW v \in Nodes \ Rows, NEW u \in Nodes PROVE dist'[<<v, u>>] = before'[<<v, u>>]
    <3>1. <<v, u>> # <<y, x>> /\ <<v, u>> \in Cells
      BY Shapes
    <3>2. QED
      BY <1>1, <1>4, <1>5, <3>1 DEF IInv, PassInv
  <2>3. QED
    BY <2>1, <2>2 DEF PassInv
<1>9. QED
  BY <1>6, <1>7, <1>8 DEF IInv

LEMMA NextPassStep == ASSUME IInv, NextPass PROVE IInv'
<1>1. k \in Nat /\ k < N /\ k' = k + 1 /\ k' \in 0..N
  BY Shapes DEF IInv, TypeOK, NextPass, LastPass
<1>2. TypeOK'
  BY <1>1 DEF IInv, TypeOK, NextPass, regs
<1>3. ZeroDiagonal'
  BY DEF IInv, ZeroDiagonal, NextPass
<1>4. PassInv'
  <2>1. \A y \in Rows, x \in Nodes : pc'[<<y, x>>] = "start"
    BY Shapes DEF NextPass
  <2>2. QED
    BY <2>1 DEF NextPass, PassInv, ItemInv
<1>5. QED
  BY <1>2, <1>3, <1>4 DEF IInv

LEMMA Invariance == IInv /\ [Next]_vars => IInv'
<1> SUFFICES ASSUME IInv, [Next]_vars PROVE IInv'
  OBVIOUS
<1>1. CASE UNCHANGED vars
  BY <1>1 DEF IInv, TypeOK, ZeroDiagonal, PassInv, ItemInv, Through, vars
<1>2. CASE Next
  BY <1>1, <1>2, LoadOldStep, LoadRowStep, StoreStep, NextPassStep DEF Next, Done
<1>3. QED
  BY <1>1, <1>2

-----------------------------------------------------------------------------
(* The variables keep their types.                                         *)
THEOREM TypeCorrect == Spec => []TypeOK
<1>1. IInv => TypeOK
  BY DEF IInv
<1>2. QED
  BY <1>1, InitIInv, Invariance, PTL DEF Spec

(* No schedule of the work-items lets one read a cell of row or column k   *)
(* that another has changed (floydWarshallPass).                           *)
THEOREM PivotStable == Spec => []RowAndColumnStable
  BY StableFromInv, InitIInv, Invariance, PTL DEF Spec

(* Every pass computes the formula in the kernel's comment, for all rows   *)
(* that are launched and for no other.                                     *)
THEOREM PassCorrect == Spec => []PassFormula
<1>1. IInv => PassFormula
  <2> SUFFICES ASSUME IInv, k < N, PassDone, NEW y \in Nodes, NEW x \in Nodes
               PROVE  dist[<<y, x>>] = IF y \in Rows
                                   THEN Smaller(before[<<y, x>>], before[<<y, k>>] + before[<<k, x>>])
                                   ELSE before[<<y, x>>]
    BY DEF PassFormula
  <2>1. CASE y \in Rows
    <3>1. pc[<<y, x>>] = "done" /\ ItemInv(y, x)
      BY <2>1, Shapes DEF PassDone, IInv, PassInv
    <3>2. QED
      BY <2>1, <3>1 DEF ItemInv, Through
  <2>2. CASE y \notin Rows
    BY <2>2 DEF IInv, PassInv
  <2>3. QED
    BY <2>1, <2>2
<1>2. QED
  BY <1>1, InitIInv, Invariance, PTL DEF Spec

-----------------------------------------------------------------------------
(* Shortest paths.  A store lowers one cell to the weight of a way through *)
(* k: what no edge undercuts is not undercut by that way either, and after *)
(* pass k the cells bear the triangle inequality for every node up to k.   *)

Sinks ==
  /\ \A c \in Cells : dist[c] <= before[c] /\ before[c] <= graph[c]
  /\ k = N => dist = before

KeepsPotentials ==
  \A p \in [Nodes -> Nat] :
    Potential(graph, p) => Potential(before, p) /\ Potential(dist, p)

PathsLead ==
  \A y, x \in Nodes :
    LET z == path[<<y, x>>] IN
      IF z = Unwritten THEN dist[<<y, x>>] = graph[<<y, x>>]
      ELSE dist[<<y, z>>] + dist[<<z, x>>] <= dist[<<y, x>>]

Closed ==
  \A z \in Nodes : z < k => \A y, x \in Nodes :
    before[<<y, x>>] <= before[<<y, z>>] + before[<<z, x>>]

WaysInv == IInv /\ Sinks /\ KeepsPotentials /\ PathsLead

LEMMA StoreEffect ==
  ASSUME IInv, NEW y \in Rows, NEW x \in Nodes, Store(y, x)
  PROVE  /\ k \in Nodes /\ y \in Nodes /\ k # N /\ UNCHANGED <<graph, k, before>>
         /\ \A c \in Cells : dist[c] \in Nat /\ before[c] \in Nat /\ dist'[c] \in Nat
         /\ dist[<<y, x>>] = before[<<y, x>>]
         /\ \A n \in Nodes : /\ dist[<<n, k>>] = before[<<n, k>>]
                             /\ dist[<<k, n>>] = before[<<k, n>>]
         /\ \A c \in Cells : c # <<y, x>> => dist'[c] = dist[c] /\ path'[c] = path[c]
         /\ \/ dist' = dist /\ path' = path
            \/ /\ dist'[<<y, x>>] = Through(y, x) /\ path'[<<y, x>>] = k
               /\ Through(y, x) < dist[<<y, x>>]
<1>1. /\ k \in Nodes /\ k < N /\ y \in Nodes /\ <<y, x>> \in Items /\ <<y, x>> \in Cells
      /\ toK[<<y, x>>] \in Nat /\ fromK[<<y, x>>] \in Nat
      /\ UNCHANGED <<graph, k, before>>
  BY Shapes DEF IInv, TypeOK, Store, Nodes
<1>2. pc[<<y, x>>] = "store" /\ ItemInv(y, x)
  BY <1>1 DEF Store, IInv, PassInv
<1>3. PICK temp \in Nat :
        /\ temp = toK[<<y, x>>] + fromK[<<y, x>>] /\ temp = Through(y, x)
        /\ old[<<y, x>>] = dist[<<y, x>>] /\ dist[<<y, x>>] = before[<<y, x>>]
  BY <1>1, <1>2 DEF ItemInv, Through
<1>4. \/ /\ temp < dist[<<y, x>>]
         /\ dist' = [dist EXCEPT ![<<y, x>>] = temp] /\ path' = [path EXCEPT ![<<y, x>>] = k]
      \/ UNCHANGED <<dist, path>>
  BY <1>3 DEF Store, Improves
<1>5. dist \in [Cells -> Nat] /\ before \in [Cells -> Nat]
      /\ path \in [Cells -> Nodes \union {Unwritten}]
  BY DEF IInv, TypeOK
<1>6. RowAndColumnStable /\ k # N
  BY <1>1, StableFromInv DEF Nodes
<1>7. \A n \in Nodes : dist[<<n, k>>] = before[<<n, k>>] /\ dist[<<k, n>>] = before[<<k, n>>]
  BY <1>1, <1>6 DEF RowAndColumnStable
<1>8. QED
  BY <1>1, <1>3, <1>4, <1>5, <1>6, <1>7

LEMMA InitWays == Init => WaysInv
<1> SUFFICES ASSUME Init PROVE WaysInv
  OBVIOUS
<1>1. IInv /\ dist = graph /\ before = graph
  BY InitIInv DEF Init
<1>2. \A c \in Cells : graph[c] \in Nat
  BY <1>1 DEF IInv, TypeOK
<1>3. Sinks /\ KeepsPotentials
  BY <1>1, <1>2 DEF Sinks, KeepsPotentials
<1>4. PathsLead
  BY <1>1, Shapes DEF Init, PathsLead
<1>5. QED
  BY <1>1, <1>3, <1>4 DEF WaysInv

LEMMA StoreWays ==
  ASSUME WaysInv, IInv', NEW y \in Rows, NEW x \in Nodes, Store(y, x)
  PROVE  WaysInv'
<1>0. IInv /\ Sinks /\ KeepsPotentials /\ PathsLead
  BY DEF WaysInv
<1>1. /\ k \in Nodes /\ y \in Nodes /\ k # N /\ UNCHANGED <<graph, k, before>>
      /\ \A c \in Cells : dist[c] \in Nat /\ before[c] \in Nat /\ dist'[c] \in Nat
      /\ dist[<<y, x>>] = before[<<y, x>>]
      /\ \A n \in Nodes : dist[<<n, k>>] = before[<<n, k>>] /\ dist[<<k, n>>] = before[<<k, n>>]
      /\ \A c \in Cells : c # <<y, x>> => dist'[c] = dist[c] /\ path'[c] = path[c]
      /\ \/ dist' = dist /\ path' = path
         \/ /\ dist'[<<y, x>>] = Through(y, x) /\ path'[<<y, x>>] = k
            /\ Through(y, x) < dist[<<y, x>>]
  BY <1>0, StoreEffect
<1>2. CASE dist' = dist /\ path' = path
  BY <1>0, <1>1, <1>2 DEF WaysInv, Sinks, KeepsPotentials, Potential, PathsLead
<1>3. CASE /\ dist'[<<y, x>>] = Through(y, x) /\ path'[<<y, x>>] = k
           /\ Through(y, x) < dist[<<y, x>>]
  <2>1. PICK a \in Nat, b \in Nat :
          /\ a = before[<<y, k>>] /\ b = before[<<k, x>>] /\ a + b = dist'[<<y, x>>]
          /\ a = dist[<<y, k>>] /\ b = dist[<<k, x>>] /\ a + b < dist[<<y, x>>]
    BY <1>1, <1>3, Shapes DEF Through
  <2>2. \A c \in Cells : dist'[c] <= dist[c]
    BY <1>1, <2>1
  <2>3. Sinks'
    <3>1. \A c \in Cells : dist[c] <= before[c] /\ before[c] <= graph[c]
      BY <1>0 DEF Sinks
    <3>2. \A c \in Cells : dist'[c] <= before[c]
      BY <1>1, <2>2, <3>1
    <3>3. QED
      BY <1>1, <3>1, <3>2 DEF Sinks
  <2>4. KeepsPotentials'
    <3>1. ASSUME NEW p \in [Nodes -> Nat], Potential(graph, p)
          PROVE  Potential(before, p) /\ Potential(dist, p)'
      <4>1. Potential(before, p) /\ Potential(dist, p)
        BY <1>0, <3>1 DEF KeepsPotentials
      <4>2. ASSUME NEW z \in Nodes, NEW u \in Nodes PROVE p[u] <= p[z] + dist'[<<z, u>>]
        <5>1. CASE z = y /\ u = x
          <6>1. p[k] <= p[y] + a /\ p[x] <= p[k] + b
            BY <1>1, <2>1, <4>1 DEF Potential
          <6>2. p[k] \in Nat /\ p[y] \in Nat /\ p[x] \in Nat
            BY <1>1
          <6>3. p[x] <= p[y] + (a + b)
            BY <6>1, <6>2
          <6>4. QED
            BY <2>1, <5>1, <6>3
        <5>2. CASE ~(z = y /\ u = x)
          <6>1. <<z, u>> # <<y, x>> /\ <<z, u>> \in Cells
            BY <5>2, Shapes
          <6>2. QED
            BY <1>1, <4>1, <6>1 DEF Potential
        <5>3. QED
          BY <5>1, <5>2
      <4>3. QED
        BY <4>1, <4>2 DEF Potential
    <3>2. QED
      BY <1>1, <3>1 DEF KeepsPotentials, Potential
  <2>5. PathsLead'
    <3> SUFFICES ASSUME NEW v \in Nodes, NEW u \in Nodes, NEW z, z = path'[<<v, u>>]
                 PROVE  IF z = Unwritten THEN dist'[<<v, u>>] = graph'[<<v, u>>]
                        ELSE dist'[<<v, z>>] + dist'[<<z, u>>] <= dist'[<<v, u>>]
      BY DEF PathsLead
    <3>1. CASE v = y /\ u = x
      <4>1. z = k /\ k # Unwritten
        BY <1>1, <1>3, <3>1, Shapes, GraphAssumption
      <4>2. dist'[<<y, k>>] <= a /\ dist'[<<k, x>>] <= b
        BY <1>1, <2>1, <2>2, Shapes
      <4>3. dist'[<<y, k>>] \in Nat /\ dist'[<<k, x>>] \in Nat
        BY <1>1, Shapes
      <4>4. dist'[<<y, k>>] + dist'[<<k, x>>] <= a + b
        BY <4>2, <4>3
      <4>5. QED
        BY <2>1, <3>1, <4>1, <4>4
    <3>2. CASE ~(v = y /\ u = x)
      <4>1. <<v, u>> # <<y, x>> /\ <<v, u>> \in Cells
        BY <3>2, Shapes
      <4>2. dist'[<<v, u>>] = dist[<<v, u>>] /\ z = path[<<v, u>>]
        BY <1>1, <4>1
      <4>3. CASE z = Unwritten
        <5>1. path[<<v, u>>] = Unwritten => dist[<<v, u>>] = graph[<<v, u>>]
          BY <1>0 DEF PathsLead
        <5>2. QED
          BY <1>1, <4>2, <4>3, <5>1
      <4>4. CASE z # Unwritten
        <5>1. z \in Nodes
          BY <1>0, <4>1, <4>2, <4>4 DEF IInv, TypeOK
        <5>2. <<v, z>> \in Cells /\ <<z, u>> \in Cells
          BY <5>1, Shapes
        <5>3. PICK d \in Nat, e \in Nat, f \in Nat, g \in Nat, h \in Nat :
                /\ d = dist[<<v, z>>] /\ e = dist[<<z, u>>] /\ f = dist[<<v, u>>]
                /\ g = dist'[<<v, z>>] /\ h = dist'[<<z, u>>]
          BY <1>1, <4>1, <5>2
        <5>4. d + e <= f
          BY <1>0, <4>2, <4>4, <5>3 DEF PathsLead
        <5>5. g <= d /\ h <= e
          BY <2>2, <5>2, <5>3
        <5>6. g + h <= f
          BY <5>3, <5>4, <5>5
        <5>7. QED
          BY <4>2, <4>4, <5>3, <5>6
      <4>5. QED
        BY <4>3, <4>4
    <3>3. QED
      BY <3>1, <3>2
  <2>6. QED
    BY <2>3, <2>4, <2>5 DEF WaysInv
<1>4. QED
  BY <1>1, <1>2, <1>3

LEMMA NextPassWays ==
  ASSUME WaysInv, IInv', NextPass
  PROVE  WaysInv'
<1>1. IInv /\ Sinks /\ KeepsPotentials /\ PathsLead
  BY DEF WaysInv
<1>2. before' = dist /\ UNCHANGED <<graph, dist, path>>
  BY DEF NextPass
<1>3. \A c \in Cells : dist[c] \in Nat /\ before[c] \in Nat /\ graph[c] \in Nat
  BY <1>1, Shapes DEF IInv, TypeOK
<1>4. Sinks'
  <2>1. \A c \in Cells : dist[c] <= before[c] /\ before[c] <= graph[c]
    BY <1>1 DEF Sinks
  <2>2. \A c \in Cells : dist[c] <= dist[c] /\ dist[c] <= graph[c]
    BY <1>3, <2>1
  <2>3. QED
    BY <1>2, <2>2 DEF Sinks
<1>5. KeepsPotentials'
  BY <1>1, <1>2 DEF KeepsPotentials, Potential
<1>6. PathsLead'
  BY <1>1, <1>2 DEF PathsLead
<1>7. QED
  BY <1>4, <1>5, <1>6 DEF WaysInv

LEMMA NextWays == WaysInv /\ [Next]_vars => WaysInv'
<1> SUFFICES ASSUME WaysInv, [Next]_vars PROVE WaysInv'
  OBVIOUS
<1>1. IInv'
  BY Invariance DEF WaysInv
<1>2. ASSUME UNCHANGED <<graph, dist, path, k, before>> PROVE WaysInv'
  BY <1>1, <1>2 DEF WaysInv, Sinks, KeepsPotentials, Potential, PathsLead
<1>3. QED
  BY <1>1, <1>2, StoreWays, NextPassWays DEF Next, Done, LoadOldAndColumn, LoadRow, vars

\* Where every row is launched, a pass closes the cells under ways through k.
LEMMA NextClosed ==
  ASSUME Rows = Nodes
  PROVE  IInv /\ Closed /\ [Next]_vars => Closed'
<1> SUFFICES ASSUME IInv, Closed, [Next]_vars PROVE Closed'
  OBVIOUS
<1>1. CASE UNCHANGED <<k, before>>
  BY <1>1 DEF Closed
<1>2. CASE NextPass
  <2>1. /\ k \in Nat /\ k < N /\ k' = k + 1 /\ before' = dist /\ PassDone
    BY <1>2, Shapes DEF IInv, TypeOK, NextPass, LastPass
  <2>2. k \in Nodes
    BY <2>1, Shapes DEF Nodes
  <2>3. ASSUME NEW y \in Nodes, NEW x \in Nodes
        PROVE  /\ before[<<y, x>>] \in Nat /\ dist[<<y, x>>] \in Nat
               /\ dist[<<y, x>>] = Smaller(before[<<y, x>>], Through(y, x))
    <3>1. pc[<<y, x>>] = "done" /\ ItemInv(y, x)
      BY <2>1, Shapes DEF PassDone, IInv, PassInv
    <3>2. QED
      BY <3>1, Shapes DEF ItemInv, IInv, TypeOK
  <2>4. RowAndColumnStable
    BY StableFromInv
  <2>5. ASSUME NEW z \in Nodes, z < k', NEW y \in Nodes, NEW x \in Nodes
        PROVE  dist[<<y, x>>] <= dist[<<y, z>>] + dist[<<z, x>>]
    <3>1. PICK yx \in Nat, yz \in Nat, zx \in Nat, yk \in Nat, kx \in Nat,
               kz \in Nat, zk \in Nat :
            /\ yx = before[<<y, x>>] /\ yz = before[<<y, z>>] /\ zx = before[<<z, x>>]
            /\ yk = before[<<y, k>>] /\ kx = before[<<k, x>>]
            /\ kz = before[<<k, z>>] /\ zk = before[<<z, k>>]
      BY <2>2, <2>3
    <3>2. PICK dyx \in Nat, dyz \in Nat, dzx \in Nat :
            /\ dyx = dist[<<y, x>>] /\ dyz = dist[<<y, z>>] /\ dzx = dist[<<z, x>>]
      BY <2>3
    <3>3. /\ dyx = Smaller(yx, yk + kx) /\ dyz = Smaller(yz, yk + kz)
          /\ dzx = Smaller(zx, zk + kx)
      BY <2>3, <3>1, <3>2 DEF Through
    <3>4. CASE z = k
      <4>1. dyz = yk /\ dzx = kx
        BY <2>1, <2>4, <3>1, <3>2, <3>4 DEF RowAndColumnStable
      <4>2. QED
        BY <3>2, <3>3, <4>1 DEF Smaller
    <3>5. CASE z # k
      <4>1. z < k
        BY <2>1, <2>5, <3>5, Shapes
      <4>2. yx <= yz + zx /\ kx <= kz + zx /\ yk <= yz + zk
        BY <2>2, <3>1, <4>1 DEF Closed
      <4>3. dyx <= dyz + dzx
        BY <3>3, <4>2 DEF Smaller
      <4>4. QED
        BY <3>2, <4>3
    <3>6. QED
      BY <3>4, <3>5
  <2>6. QED
    BY <2>1, <2>5 DEF Closed
<1>3. QED
  BY <1>1, <1>2 DEF Next, Done, LoadOldAndColumn, LoadRow, Store, vars

LEMMA WaysAreShortest == WaysInv /\ Closed => ShortestPaths
<1> SUFFICES ASSUME WaysInv, Closed, Finished PROVE ShortestPaths
  BY DEF ShortestPaths
<1>1. /\ IInv /\ Sinks /\ KeepsPotentials /\ PathsLead /\ k = N
  BY DEF WaysInv, Finished, LastPass
<1>2. \A c \in Cells : dist[c] \in Nat /\ graph[c] \in Nat /\ dist[c] <= graph[c]
  <2>1. dist \in [Cells -> Nat] /\ before \in [Cells -> Nat] /\ graph \in [Cells -> Nat]
    BY <1>1, Shapes DEF IInv, TypeOK
  <2>2. \A c \in Cells : dist[c] <= before[c] /\ before[c] <= graph[c]
    BY <1>1 DEF Sinks
  <2>3. QED
    BY <2>1, <2>2
<1>3. \A z, y, x \in Nodes : dist[<<y, x>>] <= dist[<<y, z>>] + dist[<<z, x>>]
  <2>1. dist = before /\ \A z \in Nodes : z < k
    BY <1>1, Shapes DEF Sinks, Nodes
  <2>2. QED
    BY <2>1 DEF Closed
<1>4. ASSUME NEW y \in Nodes
      PROVE  /\ dist[<<y, y>>] = 0 /\ Potential(graph, [x \in Nodes |-> dist[<<y, x>>]])
             /\ \A p \in [Nodes -> UNION {0..graph[c] : c \in Cells}] :
                  p[y] = 0 /\ Potential(graph, p) => \A x \in Nodes : p[x] <= dist[<<y, x>>]
  <2>1. dist[<<y, y>>] = 0
    BY <1>1 DEF IInv, ZeroDiagonal
  <2>2. ASSUME NEW z \in Nodes, NEW x \in Nodes
        PROVE  dist[<<y, x>>] <= dist[<<y, z>>] + graph[<<z, x>>]
    <3>1. PICK a \in Nat, b \in Nat, c \in Nat, d \in Nat :
            /\ a = dist[<<y, x>>] /\ b = dist[<<y, z>>] /\ c = dist[<<z, x>>]
            /\ d = graph[<<z, x>>] /\ c <= d
      BY <1>2, Shapes
    <3>2. a <= b + c
      BY <1>3, <3>1
    <3>3. QED
      BY <3>1, <3>2
  <2>3. ASSUME NEW p \in [Nodes -> UNION {0..graph[c] : c \in Cells}],
               p[y] = 0, Potential(graph, p), NEW x \in Nodes
        PROVE  p[x] <= dist[<<y, x>>]
    <3>1. \A n \in Nodes : p[n] \in Nat
      BY <1>2
    <3>2. p \in [Nodes -> Nat]
      BY <3>1
    <3>3. Potential(dist, p)
      BY <1>1, <2>3, <3>2 DEF KeepsPotentials
    <3>4. p[x] <= p[y] + dist[<<y, x>>]
      BY <3>3 DEF Potential
    <3>5. QED
      BY <1>2, <2>3, <3>4, Shapes
  <2>4. QED
    BY <2>1, <2>2, <2>3 DEF Potential
<1>5. ASSUME NEW y \in Nodes, NEW x \in Nodes, NEW z, z = path[<<y, x>>]
      PROVE  dist[<<y, x>>] = IF z = Unwritten THEN graph[<<y, x>>]
                              ELSE dist[<<y, z>>] + dist[<<z, x>>]
  <2>1. CASE z = Unwritten
    BY <1>1, <1>5, <2>1 DEF PathsLead
  <2>2. CASE z # Unwritten
    <3>1. z \in Nodes
      BY <1>1, <1>5, <2>2, Shapes DEF IInv, TypeOK
    <3>2. PICK a \in Nat, b \in Nat, c \in Nat :
            a = dist[<<y, x>>] /\ b = dist[<<y, z>>] /\ c = dist[<<z, x>>]
      BY <1>2, <3>1, Shapes
    <3>3. b + c <= a
      BY <1>1, <1>5, <2>2, <3>2 DEF PathsLead
    <3>4. a <= b + c
      BY <1>3, <3>1, <3>2
    <3>5. QED
      BY <2>2, <3>2, <3>3, <3>4
  <2>3. QED
    BY <2>1, <2>2
<1>6. QED
  BY <1>4, <1>5 DEF ShortestPaths

(* On a launch over both dimensions, for every graph: the weights left are *)
(* those of the shortest paths, and pathBuffer leads along them.           *)
THEOREM PathsAreShortest ==
  ASSUME Rows = Nodes
  PROVE  Spec => []ShortestPaths
<1>1. Init => WaysInv /\ Closed
  <2>1. Init => \A z \in Nodes : ~(z < k)
    BY GraphAssumption DEF Init, Nodes
  <2>0. Init => Closed
    BY <2>1 DEF Closed
  <2>2. QED
    BY <2>0, InitWays
<1>2. WaysInv /\ Closed /\ [Next]_vars => WaysInv' /\ Closed'
  <2>1. IInv /\ Closed /\ [Next]_vars => Closed'
    BY NextClosed
  <2>2. QED
    BY <2>1, NextWays DEF WaysInv
<1>3. QED
  BY <1>1, <1>2, WaysAreShortest, PTL DEF Spec
-------------------------------------------------------------------------------
(* The sequential reference, one loop inside the other.  What a loop       *)
(* leaves is found by induction over its rounds.                           *)

States == [d : [Cells -> Nat], p : [Cells -> Nodes]]

\* The way through kk that one pass of the reference compares a cell with.
CPUWay(s, kk, c) == s.d[<<c[1], kk>>] + s.d[<<kk, c[2]>>]

\* t is s after a pass over kk has dealt with the cells of R.
Reached(s, t, kk, R) ==
  /\ t \in States
  /\ \A c \in R : /\ t.d[c] = Smaller(s.d[c], CPUWay(s, kk, c))
                  /\ t.p[c] = IF CPUWay(s, kk, c) < s.d[c] THEN kk ELSE s.p[c]
  /\ \A c \in Cells \ R : t.d[c] = s.d[c] /\ t.p[c] = s.p[c]

\* Induction, for a set of numbers.
LEMMA Least ==
  ASSUME NEW S \in SUBSET Nat, S # {}
  PROVE  \E x \in S : \A y \in S : ~(y < x)
<1>1. IsWellFoundedOn(OpToRel(<, Nat), Nat)
  BY NatLessThanWellFounded
<1>2. PICK x \in S : \A y \in S : ~(<<y, x>> \in OpToRel(<, Nat))
  BY <1>1, WFMin
<1>3. QED
  BY <1>2 DEF OpToRel

LEMMA Induct ==
  ASSUME NEW S \in SUBSET Nat, 0 \in S, \A n \in S : n + 1 \in S
  PROVE  S = Nat
<1>1. SUFFICES ASSUME Nat \ S # {} PROVE FALSE
  OBVIOUS
<1>2. PICK x \in Nat \ S : \A y \in Nat \ S : ~(y < x)
  BY <1>1, Least
<1>3. x - 1 \in Nat \ S /\ x - 1 < x
  BY <1>2
<1>4. QED
  BY <1>2, <1>3

\* The same, for the rounds of a loop.
LEMMA EveryRound ==
  ASSUME NEW S \in SUBSET Nat, 0 \in S, \A n \in S : n < N => n + 1 \in S
  PROVE  \A n \in 0..N : n \in S
<1> DEFINE T == S \union {n \in Nat : n > N}
<1>1. T \in SUBSET Nat /\ 0 \in T
  OBVIOUS
<1>2. ASSUME NEW n \in T PROVE n + 1 \in T
  BY <1>2, GraphAssumption
<1>3. T = Nat
  <2> HIDE DEF T
  <2>1. QED
    BY <1>1, <1>2, Induct
<1>4. QED
  BY <1>3, GraphAssumption

\* f is what a loop leaves round by round, when a round is a step of g.
Rounds(f, g, S, s, m) ==
  /\ f \in [0..m -> S] /\ f[0] = s
  /\ \A n \in 0..(m - 1) : f[n + 1] = g[<<f[n], n>>]

LEMMA RoundsExist ==
  ASSUME NEW S, NEW g \in [S \X Nodes -> S], NEW s \in S
  PROVE  \E f : Rounds(f, g, S, s, N)
<1> DEFINE T == {m \in Nat : m <= N => \E f : Rounds(f, g, S, s, m)}
<1>1. 0 \in T
  <2> DEFINE f == [n \in 0..0 |-> s]
  <2>1. f \in [0..0 -> S] /\ f[0] = s /\ 0..(0 - 1) = {}
    OBVIOUS
  <2>2. Rounds(f, g, S, s, 0)
    BY <2>1 DEF Rounds
  <2>3. QED
    BY <2>2
<1>2. ASSUME NEW m \in T PROVE m + 1 \in T
  <2>1. SUFFICES ASSUME m + 1 <= N PROVE \E f : Rounds(f, g, S, s, m + 1)
    OBVIOUS
  <2>2. m \in Nat /\ m \in Nodes /\ m <= N
    BY <2>1, GraphAssumption DEF Nodes
  <2>3. PICK f : Rounds(f, g, S, s, m)
    BY <2>2
  <2>4. PICK e : e = g[<<f[m], m>>]
    OBVIOUS
  <2>5. e \in S
    BY <2>2, <2>3, <2>4 DEF Rounds
  <2> DEFINE h == [n \in 0..(m + 1) |-> IF n = m + 1 THEN e ELSE f[n]]
  <2>6. h \in [0..(m + 1) -> S] /\ h[0] = s
    BY <2>2, <2>3, <2>5 DEF Rounds
  <2>7. ASSUME NEW n \in 0..m PROVE h[n + 1] = g[<<h[n], n>>]
    <3>1. h[n] = f[n]
      BY <2>2
    <3>2. CASE n = m
      <4>1. h[n + 1] = e
        BY <2>2, <3>2
      <4>2. QED
        BY <2>4, <3>1, <3>2, <4>1
    <3>3. CASE n # m
      <4>1. n \in 0..(m - 1) /\ n + 1 \in 0..m
        BY <2>2, <3>3
      <4>2. f[n + 1] = g[<<f[n], n>>]
        BY <2>3, <4>1 DEF Rounds
      <4>3. h[n + 1] = f[n + 1]
        BY <2>2, <4>1
      <4>4. QED
        BY <3>1, <4>2, <4>3
    <3>4. QED
      BY <3>2, <3>3
  <2>8. Rounds(h, g, S, s, m + 1)
    <3> HIDE DEF h
    <3>1. (m + 1) - 1 = m
      BY <2>2
    <3>2. QED
      BY <2>6, <2>7, <3>1 DEF Rounds
  <2>9. QED
    BY <2>8
<1>3. N \in T
  <2> HIDE DEF T
  <2>1. T \in SUBSET Nat
    BY DEF T
  <2>2. QED
    BY <1>1, <1>2, <2>1, Induct, GraphAssumption
<1>4. QED
  BY <1>3, GraphAssumption

\* A loop of the reference whose round is a step of g.
LoopOf(f, g, s) == f = [n \in 0..N |-> IF n = 0 THEN s ELSE g[<<f[n - 1], n - 1>>]]

LEMMA RoundsAre ==
  ASSUME NEW S, NEW g \in [S \X Nodes -> S], NEW s \in S
  PROVE  \E f : Rounds(f, g, S, s, N) /\ LoopOf(f, g, s)
<1>1. PICK f : Rounds(f, g, S, s, N)
  BY RoundsExist
<1>2. ASSUME NEW n \in 0..N
      PROVE  f[n] = IF n = 0 THEN s ELSE g[<<f[n - 1], n - 1>>]
  <2>1. CASE n = 0
    BY <1>1, <2>1 DEF Rounds
  <2>2. CASE n # 0
    <3>1. n - 1 \in 0..(N - 1) /\ (n - 1) + 1 = n
      BY <2>2, GraphAssumption
    <3>2. f[(n - 1) + 1] = g[<<f[n - 1], n - 1>>]
      BY <1>1, <3>1 DEF Rounds
    <3>3. QED
      BY <2>2, <3>1, <3>2
  <2>3. QED
    BY <2>1, <2>2
<1>3. f = [n \in 0..N |-> IF n = 0 THEN s ELSE g[<<f[n - 1], n - 1>>]]
  BY <1>1, <1>2 DEF Rounds
<1>4. QED
  BY <1>1, <1>3 DEF LoopOf

\* The loops, by what they leave round by round.
RowRounds(f, s, kk, y) ==
  f = [n \in 0..N |-> IF n = 0 THEN s ELSE CPUStep(f[n - 1], kk, y, n - 1)]
PassRounds(f, s, kk) ==
  f = [n \in 0..N |-> IF n = 0 THEN s ELSE CPURow(f[n - 1], kk, n - 1)]
CPURounds(f, s) ==
  f = [n \in 0..N |-> IF n = 0 THEN s ELSE CPUPass(f[n - 1], n - 1)]

LEMMA CellsAre ==
  /\ \A c \in Cells : c[1] \in Nodes /\ c[2] \in Nodes /\ c = <<c[1], c[2]>>
  /\ \A y, x \in Nodes : <<y, x>> \in Cells /\ <<y, x>>[1] = y /\ <<y, x>>[2] = x
  /\ \A n \in Nodes : n \in Nat /\ n < N /\ ~(n < 0)
BY GraphAssumption DEF Cells, Nodes

\* One comparison of the reference.  The cells it reads in row and column kk
\* are as the pass found them, dealt with or not.
LEMMA StepReaches ==
  ASSUME NEW kk \in Nodes, NEW s \in States, s.d[<<kk, kk>>] = 0,
         NEW R \in SUBSET Cells, NEW t, Reached(s, t, kk, R),
         NEW y \in Nodes, NEW x \in Nodes, <<y, x>> \notin R
  PROVE  Reached(s, CPUStep(t, kk, y, x), kk, R \union {<<y, x>>})
<1>1. /\ <<y, x>> \in Cells /\ <<y, kk>> \in Cells /\ <<kk, x>> \in Cells /\ <<kk, kk>> \in Cells
      /\ <<y, x>>[1] = y /\ <<y, x>>[2] = x
  BY Shapes
<1>2. s.d \in [Cells -> Nat] /\ t.d \in [Cells -> Nat] /\ t.p \in [Cells -> Nodes]
  BY DEF Reached, States
<1>3. PICK a \in Nat, b \in Nat, e \in Nat :
        a = s.d[<<y, kk>>] /\ b = s.d[<<kk, x>>] /\ e = s.d[<<y, x>>]
  BY <1>1, <1>2
<1>4. CPUWay(s, kk, <<y, x>>) = a + b
  BY <1>3 DEF CPUWay
<1>5. t.d[<<y, kk>>] = a
  <2>1. CPUWay(s, kk, <<y, kk>>) = a
    BY <1>3 DEF CPUWay
  <2>2. QED
    BY <1>1, <1>3, <2>1 DEF Reached, Smaller
<1>6. t.d[<<kk, x>>] = b
  <2>1. CPUWay(s, kk, <<kk, x>>) = b
    BY <1>3 DEF CPUWay
  <2>2. QED
    BY <1>1, <1>3, <2>1 DEF Reached, Smaller
<1>7. t.d[<<y, x>>] = e /\ t.p[<<y, x>>] = s.p[<<y, x>>]
  BY <1>1, <1>3 DEF Reached
<1>8. PICK r : r = CPUStep(t, kk, y, x)
  OBVIOUS
<1>9. CASE a + b < e
  <2>1. r = [d |-> [t.d EXCEPT ![<<y, x>>] = a + b], p |-> [t.p EXCEPT ![<<y, x>>] = kk]]
    BY <1>5, <1>6, <1>7, <1>8, <1>9 DEF CPUStep
  <2>2. /\ r \in States /\ r.d[<<y, x>>] = a + b /\ r.p[<<y, x>>] = kk
        /\ \A c \in Cells : c # <<y, x>> => r.d[c] = t.d[c] /\ r.p[c] = t.p[c]
    BY <1>1, <1>2, <2>1 DEF States
  <2>3. Smaller(e, a + b) = a + b
    BY <1>9 DEF Smaller
  <2>4. ASSUME NEW c \in R \union {<<y, x>>}
        PROVE  /\ r.d[c] = Smaller(s.d[c], CPUWay(s, kk, c))
               /\ r.p[c] = IF CPUWay(s, kk, c) < s.d[c] THEN kk ELSE s.p[c]
    <3>1. CASE c = <<y, x>>
      BY <1>3, <1>4, <1>9, <2>2, <2>3, <3>1
    <3>2. CASE c # <<y, x>>
      BY <2>2, <3>2 DEF Reached
    <3>3. QED
      BY <3>1, <3>2
  <2>5. QED
    BY <1>8, <2>2, <2>4 DEF Reached
<1>10. CASE ~(a + b < e)
  <2>1. r = t
    BY <1>5, <1>6, <1>7, <1>8, <1>10 DEF CPUStep
  <2>2. Smaller(e, a + b) = e
    BY <1>10 DEF Smaller
  <2>3. QED
    BY <1>3, <1>4, <1>7, <1>8, <1>10, <2>1, <2>2 DEF Reached
<1>11. QED
  BY <1>9, <1>10

LEMMA StepType ==
  ASSUME NEW t \in States, NEW kk \in Nodes, NEW y \in Nodes, NEW x \in Nodes
  PROVE  CPUStep(t, kk, y, x) \in States
<1>1. t = [d |-> t.d, p |-> t.p] /\ t.d \in [Cells -> Nat] /\ t.p \in [Cells -> Nodes]
  BY DEF States
<1>2. PICK e : e = t.d[<<y, kk>>] + t.d[<<kk, x>>]
  OBVIOUS
<1>3. e \in Nat
  BY <1>1, <1>2, Shapes
<1>4. [d |-> [t.d EXCEPT ![<<y, x>>] = e], p |-> [t.p EXCEPT ![<<y, x>>] = kk]] \in States
  BY <1>1, <1>3 DEF States
<1>5. QED
  BY <1>2, <1>4 DEF CPUStep

LEMMA RowIs ==
  ASSUME NEW s \in States, NEW kk \in Nodes, NEW y \in Nodes
  PROVE  \E f : RowRounds(f, s, kk, y) /\ CPURow(s, kk, y) = f[N]
<1> DEFINE g == [a \in States \X Nodes |-> CPUStep(a[1], kk, y, a[2])]
<1>1. g \in [States \X Nodes -> States]
  BY StepType
<1>2. \A t \in States, n \in Nodes : g[<<t, n>>] = CPUStep(t, kk, y, n)
  OBVIOUS
<1> HIDE DEF g
<1>3. PICK f : Rounds(f, g, States, s, N) /\ LoopOf(f, g, s)
  BY <1>1, RoundsAre
<1>4. ASSUME NEW n \in 0..N, n # 0 PROVE g[<<f[n - 1], n - 1>>] = CPUStep(f[n - 1], kk, y, n - 1)
  <2>1. n - 1 \in Nodes /\ n - 1 \in 0..N
    BY <1>4, GraphAssumption DEF Nodes
  <2>2. f[n - 1] \in States
    BY <1>3, <2>1 DEF Rounds
  <2>3. QED
    BY <1>2, <2>1, <2>2
<1>5. RowRounds(f, s, kk, y)
  BY <1>3, <1>4 DEF RowRounds, LoopOf
<1>6. QED
  BY <1>5 DEF RowRounds, CPURow

\* What a loop over the cells of row y leaves.
LEMMA RowReaches ==
  ASSUME NEW kk \in Nodes, NEW s \in States, s.d[<<kk, kk>>] = 0,
         NEW R \in SUBSET Cells, NEW t, Reached(s, t, kk, R),
         NEW y \in Nodes, \A x \in Nodes : <<y, x>> \notin R
  PROVE  Reached(s, CPURow(t, kk, y), kk, R \union {c \in Cells : c[1] = y})
<1>1. t \in States
  BY DEF Reached
<1>2. PICK f : RowRounds(f, t, kk, y) /\ CPURow(t, kk, y) = f[N]
  BY <1>1, RowIs
<1> DEFINE Upto(n) == R \union {c \in Cells : c[1] = y /\ c[2] < n}
           S == {n \in Nat : n <= N => Reached(s, f[n], kk, Upto(n))}
<1>3. f[0] = t /\ \A n \in Nodes : f[n + 1] = CPUStep(f[n], kk, y, n)
  <2>1. f[0] = t
    BY <1>2, GraphAssumption DEF RowRounds
  <2>2. ASSUME NEW n \in Nodes PROVE f[n + 1] = CPUStep(f[n], kk, y, n)
    <3>1. n + 1 \in 0..N /\ n + 1 # 0 /\ (n + 1) - 1 = n
      BY GraphAssumption DEF Nodes
    <3>2. QED
      BY <1>2, <3>1 DEF RowRounds
  <2>3. QED
    BY <2>1, <2>2
<1>4. 0 \in S
  <2>1. Upto(0) = R
    BY CellsAre
  <2>2. QED
    BY <1>3, <2>1
<1>5. ASSUME NEW n \in S, n < N PROVE n + 1 \in S
  <2>1. n \in Nodes /\ n <= N /\ n \in Nat
    BY <1>5, GraphAssumption DEF Nodes
  <2>2. Upto(n) \in SUBSET Cells /\ <<y, n>> \notin Upto(n)
    BY <2>1, CellsAre
  <2>3. Upto(n + 1) = Upto(n) \union {<<y, n>>}
    <3>1. \A c \in Cells : c[2] < n + 1 <=> c[2] < n \/ c[2] = n
      BY <2>1, CellsAre
    <3>2. \A c \in Cells : c[1] = y /\ c[2] = n <=> c = <<y, n>>
      BY CellsAre
    <3>3. <<y, n>> \in Cells
      BY <2>1, CellsAre
    <3>4. QED
      BY <3>1, <3>2, <3>3
  <2>4. Reached(s, f[n], kk, Upto(n))
    BY <1>5, <2>1
  <2>5. Reached(s, CPUStep(f[n], kk, y, n), kk, Upto(n) \union {<<y, n>>})
    <3> HIDE DEF Upto, S
    <3>1. QED
      BY <2>1, <2>2, <2>4, StepReaches
  <2>6. Reached(s, f[n + 1], kk, Upto(n + 1))
    <3> HIDE DEF Upto, S
    <3>1. QED
      BY <1>3, <2>1, <2>3, <2>5
  <2>7. QED
    <3> HIDE DEF Upto
    <3>1. QED
      BY <2>1, <2>6
<1>6. N \in S
  <2>1. S \in SUBSET Nat
    OBVIOUS
  <2> HIDE DEF S
  <2>2. QED
    BY <1>4, <1>5, <2>1, EveryRound, GraphAssumption
<1>7. Upto(N) = R \union {c \in Cells : c[1] = y}
  BY CellsAre, GraphAssumption DEF Nodes
<1>8. Reached(s, f[N], kk, Upto(N))
  BY <1>6, GraphAssumption
<1>9. QED
  BY <1>2, <1>7, <1>8

LEMMA NothingReached ==
  ASSUME NEW s \in States, NEW kk PROVE Reached(s, s, kk, {})
BY DEF Reached

LEMMA RowType ==
  ASSUME NEW s \in States, NEW kk \in Nodes, NEW y \in Nodes
  PROVE  CPURow(s, kk, y) \in States
<1>1. PICK f : RowRounds(f, s, kk, y) /\ CPURow(s, kk, y) = f[N]
  BY RowIs
<1> DEFINE S == {n \in Nat : n <= N => f[n] \in States}
<1>2. 0 \in S
  BY <1>1, GraphAssumption DEF RowRounds
<1>3. ASSUME NEW n \in S, n < N PROVE n + 1 \in S
  <2>1. n \in Nodes /\ f[n] \in States
    BY <1>3, GraphAssumption DEF Nodes
  <2>2. n + 1 \in 0..N /\ n + 1 # 0 /\ (n + 1) - 1 = n
    BY <1>3, <2>1, GraphAssumption DEF Nodes
  <2>3. f[n + 1] = CPUStep(f[n], kk, y, n)
    BY <1>1, <2>2 DEF RowRounds
  <2>4. QED
    BY <2>1, <2>2, <2>3, StepType
<1>4. N \in S
  <2>1. S \in SUBSET Nat
    OBVIOUS
  <2> HIDE DEF S
  <2>2. QED
    BY <1>2, <1>3, <2>1, EveryRound, GraphAssumption
<1>5. QED
  BY <1>1, <1>4, GraphAssumption

LEMMA PassIs ==
  ASSUME NEW s \in States, NEW kk \in Nodes
  PROVE  \E f : PassRounds(f, s, kk) /\ CPUPass(s, kk) = f[N]
<1> DEFINE g == [a \in States \X Nodes |-> CPURow(a[1], kk, a[2])]
<1>1. g \in [States \X Nodes -> States]
  BY RowType
<1>2. \A t \in States, n \in Nodes : g[<<t, n>>] = CPURow(t, kk, n)
  OBVIOUS
<1> HIDE DEF g
<1>3. PICK f : Rounds(f, g, States, s, N) /\ LoopOf(f, g, s)
  BY <1>1, RoundsAre
<1>4. ASSUME NEW n \in 0..N, n # 0 PROVE g[<<f[n - 1], n - 1>>] = CPURow(f[n - 1], kk, n - 1)
  <2>1. n - 1 \in Nodes /\ n - 1 \in 0..N
    BY <1>4, GraphAssumption DEF Nodes
  <2>2. f[n - 1] \in States
    BY <1>3, <2>1 DEF Rounds
  <2>3. QED
    BY <1>2, <2>1, <2>2
<1>5. PassRounds(f, s, kk)
  BY <1>3, <1>4 DEF PassRounds, LoopOf
<1>6. QED
  BY <1>5 DEF PassRounds, CPUPass

\* What a pass of the reference leaves.
LEMMA PassReaches ==
  ASSUME NEW kk \in Nodes, NEW s \in States, s.d[<<kk, kk>>] = 0
  PROVE  Reached(s, CPUPass(s, kk), kk, Cells)
<1>1. PICK f : PassRounds(f, s, kk) /\ CPUPass(s, kk) = f[N]
  BY PassIs
<1> DEFINE Upto(n) == {c \in Cells : c[1] < n}
           S == {n \in Nat : n <= N => Reached(s, f[n], kk, Upto(n))}
<1>2. f[0] = s /\ \A n \in Nodes : f[n + 1] = CPURow(f[n], kk, n)
  <2>1. f[0] = s
    BY <1>1, GraphAssumption DEF PassRounds
  <2>2. ASSUME NEW n \in Nodes PROVE f[n + 1] = CPURow(f[n], kk, n)
    <3>1. n + 1 \in 0..N /\ n + 1 # 0 /\ (n + 1) - 1 = n
      BY GraphAssumption DEF Nodes
    <3>2. QED
      BY <1>1, <3>1 DEF PassRounds
  <2>3. QED
    BY <2>1, <2>2
<1>3. 0 \in S
  <2>1. Upto(0) = {}
    BY CellsAre
  <2>2. QED
    BY <1>2, <2>1, NothingReached
<1>4. ASSUME NEW n \in S, n < N PROVE n + 1 \in S
  <2>1. n \in Nodes /\ n <= N /\ n \in Nat
    BY <1>4, GraphAssumption DEF Nodes
  <2>2. Upto(n) \in SUBSET Cells /\ \A x \in Nodes : <<n, x>> \notin Upto(n)
    BY <2>1, CellsAre
  <2>3. Upto(n + 1) = Upto(n) \union {c \in Cells : c[1] = n}
    <3>1. \A c \in Cells : c[1] < n + 1 <=> c[1] < n \/ c[1] = n
      BY <2>1, CellsAre
    <3>2. QED
      BY <3>1
  <2>4. Reached(s, f[n], kk, Upto(n))
    BY <1>4, <2>1
  <2>5. Reached(s, CPURow(f[n], kk, n), kk, Upto(n) \union {c \in Cells : c[1] = n})
    <3> HIDE DEF Upto, S
    <3>1. QED
      BY <2>1, <2>2, <2>4, RowReaches
  <2>6. Reached(s, f[n + 1], kk, Upto(n + 1))
    <3> HIDE DEF Upto, S
    <3>1. QED
      BY <1>2, <2>1, <2>3, <2>5
  <2>7. QED
    <3> HIDE DEF Upto
    <3>1. QED
      BY <2>1, <2>6
<1>5. N \in S
  <2>1. S \in SUBSET Nat
    OBVIOUS
  <2> HIDE DEF S
  <2>2. QED
    BY <1>3, <1>4, <2>1, EveryRound, GraphAssumption
<1>6. Upto(N) = Cells
  BY CellsAre, GraphAssumption DEF Nodes
<1>7. Reached(s, f[N], kk, Upto(N))
  BY <1>5, GraphAssumption
<1>8. QED
  BY <1>1, <1>6, <1>7

LEMMA PassType ==
  ASSUME NEW s \in States, NEW kk \in Nodes PROVE CPUPass(s, kk) \in States
<1>1. PICK f : PassRounds(f, s, kk) /\ CPUPass(s, kk) = f[N]
  BY PassIs
<1> DEFINE S == {n \in Nat : n <= N => f[n] \in States}
<1>2. 0 \in S
  BY <1>1, GraphAssumption DEF PassRounds
<1>3. ASSUME NEW n \in S, n < N PROVE n + 1 \in S
  <2>1. n \in Nodes /\ f[n] \in States
    BY <1>3, GraphAssumption DEF Nodes
  <2>2. n + 1 \in 0..N /\ n + 1 # 0 /\ (n + 1) - 1 = n
    BY <1>3, <2>1, GraphAssumption DEF Nodes
  <2>3. f[n + 1] = CPURow(f[n], kk, n)
    BY <1>1, <2>2 DEF PassRounds
  <2>4. QED
    BY <2>1, <2>2, <2>3, RowType
<1>4. N \in S
  <2>1. S \in SUBSET Nat
    OBVIOUS
  <2> HIDE DEF S
  <2>2. QED
    BY <1>2, <1>3, <2>1, EveryRound, GraphAssumption
<1>5. QED
  BY <1>1, <1>4, GraphAssumption

\* The passes of the reference, one by one.
LEMMA PassesAre ==
  ASSUME NEW s, s = [d |-> graph, p |-> InitialPath], graph \in [Cells -> Nat]
  PROVE  /\ \A n \in 0..N : CPUPasses(graph)[n] \in States
         /\ CPUPasses(graph)[0] = s
         /\ \A n \in Nodes : CPUPasses(graph)[n + 1] = CPUPass(CPUPasses(graph)[n], n)
<1>0. s \in States
  <2>1. InitialPath \in [Cells -> Nodes]
    BY CellsAre DEF InitialPath
  <2>2. QED
    BY <2>1 DEF States
<1> DEFINE g == [a \in States \X Nodes |-> CPUPass(a[1], a[2])]
<1>1. g \in [States \X Nodes -> States]
  BY PassType
<1>2. \A t \in States, n \in Nodes : g[<<t, n>>] = CPUPass(t, n)
  OBVIOUS
<1> HIDE DEF g
<1>3. PICK f : Rounds(f, g, States, s, N) /\ LoopOf(f, g, s)
  BY <1>0, <1>1, RoundsAre
<1>4. ASSUME NEW n \in 0..N, n # 0 PROVE g[<<f[n - 1], n - 1>>] = CPUPass(f[n - 1], n - 1)
  <2>1. n - 1 \in Nodes /\ n - 1 \in 0..N
    BY <1>4, GraphAssumption DEF Nodes
  <2>2. f[n - 1] \in States
    BY <1>3, <2>1 DEF Rounds
  <2>3. QED
    BY <1>2, <2>1, <2>2
<1>5. CPURounds(f, s)
  BY <1>3, <1>4 DEF CPURounds, LoopOf
<1>6. PICK h : h = CPUPasses(graph) /\ CPURounds(h, s)
  <2>1. CPURounds(CPUPasses(graph), s)
    <3>1. f = [n \in 0..N |-> IF n = 0 THEN [d |-> graph, p |-> InitialPath]
                             ELSE CPUPass(f[n - 1], n - 1)]
      BY <1>5 DEF CPURounds
    <3>2. CPUPasses(graph) = [n \in 0..N |-> IF n = 0 THEN [d |-> graph, p |-> InitialPath]
                                ELSE CPUPass(CPUPasses(graph)[n - 1], n - 1)]
      BY <3>1, ZenonT(40) DEF CPUPasses
    <3>3. QED
      BY <3>2 DEF CPURounds
  <2>2. QED
    BY <2>1
<1>7. h[0] = s
  BY <1>6, GraphAssumption DEF CPURounds
<1>8. ASSUME NEW n \in Nodes PROVE h[n + 1] = CPUPass(h[n], n)
  <2>1. n + 1 \in 0..N /\ n + 1 # 0 /\ (n + 1) - 1 = n
    BY GraphAssumption DEF Nodes
  <2>2. QED
    BY <1>6, <2>1 DEF CPURounds
<1> DEFINE S == {n \in Nat : n <= N => h[n] \in States}
<1>9. 0 \in S
  BY <1>0, <1>7
<1>10. ASSUME NEW n \in S, n < N PROVE n + 1 \in S
  <2>1. n \in Nodes /\ h[n] \in States
    BY <1>10, GraphAssumption DEF Nodes
  <2>2. QED
    BY <1>8, <2>1, PassType
<1>11. ASSUME NEW n \in 0..N PROVE n \in S
  <2>1. S \in SUBSET Nat
    OBVIOUS
  <2> HIDE DEF S
  <2>2. QED
    BY <1>9, <1>10, <2>1, EveryRound
<1>12. QED
  BY <1>6, <1>7, <1>8, <1>11, GraphAssumption
-------------------------------------------------------------------------------
(* The kernel's passes follow those of the reference.  Before pass k the   *)
(* matrix is what k passes of the reference leave, and a work-item that is *)
(* done has done to its cell what the reference will do to it.             *)

Reference == CPUPasses(graph)[k]

\* What the pass makes of a cell of the reference's pathMatrix.
NextPath(s, c) == IF CPUWay(s, k, c) < s.d[c] THEN k ELSE s.p[c]

FollowsCPU ==
  /\ before = Reference.d
  /\ \A c \in Cells : path[c] # Unwritten =>
       path[c] = IF k < N /\ pc[c] = "done" THEN NextPath(Reference, c) ELSE Reference.p[c]

WrittenInv == \A c \in Cells : path[c] = Unwritten <=> dist[c] = graph[c]

LEMMA ReferenceType ==
  ASSUME IInv
  PROVE  /\ Reference \in States /\ CPUPasses(graph)[0] = [d |-> graph, p |-> InitialPath]
         /\ k \in Nodes => CPUPasses(graph)[k + 1] = CPUPass(Reference, k)
<1>1. graph \in [Cells -> Nat] /\ k \in 0..N
  BY Shapes DEF IInv, TypeOK
<1>2. QED
  BY <1>1, PassesAre DEF Reference

LEMMA InitFollows == Init => FollowsCPU /\ WrittenInv
<1> SUFFICES ASSUME Init PROVE FollowsCPU /\ WrittenInv
  OBVIOUS
<1>1. IInv /\ k = 0 /\ dist = graph /\ before = graph
  BY InitIInv DEF Init
<1>2. \A c \in Cells : path[c] = Unwritten
  BY DEF Init
<1>3. Reference = [d |-> graph, p |-> InitialPath]
  BY <1>1, ReferenceType DEF Reference
<1>4. QED
  BY <1>1, <1>2, <1>3 DEF FollowsCPU, WrittenInv

LEMMA StoreFollows ==
  ASSUME Rows = Nodes, IInv, IInv', Sinks, FollowsCPU, WrittenInv,
         NEW y \in Nodes, NEW x \in Nodes, Store(y, x)
  PROVE  FollowsCPU' /\ WrittenInv'
<1>1. /\ k \in Nodes /\ k # N /\ UNCHANGED <<graph, k, before>>
      /\ \A c \in Cells : dist[c] \in Nat /\ before[c] \in Nat /\ dist'[c] \in Nat
      /\ dist[<<y, x>>] = before[<<y, x>>]
      /\ \A c \in Cells : c # <<y, x>> => dist'[c] = dist[c] /\ path'[c] = path[c]
      /\ \/ dist' = dist /\ path' = path
         \/ /\ dist'[<<y, x>>] = Through(y, x) /\ path'[<<y, x>>] = k
            /\ Through(y, x) < dist[<<y, x>>]
  BY StoreEffect
<1>2. /\ <<y, x>> \in Cells /\ Items = Cells /\ k < N
      /\ pc[<<y, x>>] = "store" /\ pc'[<<y, x>>] = "done"
      /\ \A c \in Cells : c # <<y, x>> => pc'[c] = pc[c]
  <2>1. Items = Cells /\ <<y, x>> \in Cells
    BY Shapes DEF Items, Cells
  <2>2. QED
    BY <2>1 DEF Store, IInv, TypeOK
<1>3. PICK s \in States : s = Reference /\ s.d = before
  BY ReferenceType DEF FollowsCPU
<1>4. Reference' = s
  BY <1>1, <1>3 DEF Reference
<1>5. CPUWay(s, k, <<y, x>>) = Through(y, x)
  BY <1>3 DEF CPUWay, Through
<1>6. PICK w \in Nat, d \in Nat : w = Through(y, x) /\ d = dist[<<y, x>>]
  BY <1>1, CellsAre DEF Through
<1>7. dist'[<<y, x>>] = Smaller(d, w)
  <2>1. ItemInv(y, x)'
    BY <1>1, <1>2 DEF IInv, PassInv
  <2>2. dist'[<<y, x>>] = Smaller(before'[<<y, x>>], Through(y, x)')
    BY <1>2, <2>1 DEF ItemInv
  <2>3. Through(y, x)' = Through(y, x)
    BY <1>1 DEF Through
  <2>4. QED
    BY <1>1, <1>6, <2>2, <2>3
<1>8. \A c \in Cells : NextPath(s, c)' = NextPath(s, c)
  BY <1>1 DEF NextPath, CPUWay
<1>9. ASSUME NEW c \in Cells, path'[c] # Unwritten
      PROVE  path'[c] = IF pc'[c] = "done" THEN NextPath(s, c) ELSE s.p[c]
  <2>1. CASE c # <<y, x>>
    <3>1. path'[c] = path[c] /\ pc'[c] = pc[c]
      BY <1>1, <1>2, <2>1
    <3>2. path[c] = IF pc[c] = "done" THEN NextPath(s, c) ELSE s.p[c]
      BY <1>2, <1>3, <1>9, <3>1 DEF FollowsCPU
    <3>3. QED
      BY <3>1, <3>2
  <2>2. CASE c = <<y, x>> /\ w < d
    <3>1. dist'[c] # dist[c]
      BY <1>6, <1>7, <2>2 DEF Smaller
    <3>2. path'[c] = k
      BY <1>1, <2>2, <3>1
    <3>3. NextPath(s, c) = k
      BY <1>1, <1>3, <1>5, <1>6, <2>2 DEF NextPath
    <3>4. QED
      BY <1>2, <2>2, <3>2, <3>3
  <2>3. CASE c = <<y, x>> /\ ~(w < d)
    <3>1. path' = path
      BY <1>1, <1>6, <2>3
    <3>2. path[c] = s.p[c]
      BY <1>2, <1>3, <1>9, <2>3, <3>1 DEF FollowsCPU
    <3>3. NextPath(s, c) = s.p[c]
      BY <1>1, <1>3, <1>5, <1>6, <2>3 DEF NextPath
    <3>4. QED
      BY <1>2, <2>3, <3>1, <3>2, <3>3
  <2>4. QED
    BY <2>1, <2>2, <2>3
<1>10. FollowsCPU'
  <2>1. before' = s.d
    BY <1>1, <1>3
  <2>2. k' = k /\ k < N
    BY <1>1, <1>2
  <2>3. QED
    BY <1>4, <1>8, <1>9, <2>1, <2>2 DEF FollowsCPU
<1>11. WrittenInv'
  <2>1. CASE dist' = dist /\ path' = path
    BY <1>1, <2>1 DEF WrittenInv
  <2>2. CASE /\ dist'[<<y, x>>] = Through(y, x) /\ path'[<<y, x>>] = k
             /\ Through(y, x) < dist[<<y, x>>]
    <3>1. PICK e \in Nat : e = graph[<<y, x>>]
      BY <1>2, Shapes DEF IInv, TypeOK
    <3>2. d <= e
      BY <1>1, <1>2, <1>6, <3>1 DEF Sinks
    <3>3. w < e
      BY <1>6, <2>2, <3>2
    <3>4. dist'[<<y, x>>] # graph[<<y, x>>] /\ path'[<<y, x>>] # Unwritten
      BY <1>1, <1>6, <2>2, <3>1, <3>3, GraphAssumption DEF Nodes
    <3>5. QED
      BY <1>1, <3>4 DEF WrittenInv
  <2>3. QED
    BY <1>1, <2>1, <2>2
<1>12. QED
  BY <1>10, <1>11

LEMMA NextPassFollows ==
  ASSUME Rows = Nodes, IInv, FollowsCPU, WrittenInv, NextPass
  PROVE  FollowsCPU' /\ WrittenInv'
<1>1. /\ k \in Nodes /\ k < N /\ k' = k + 1 /\ before' = dist /\ UNCHANGED <<graph, dist, path>>
      /\ Items = Cells /\ (\A c \in Cells : pc[c] = "done")
      /\ \A c \in Cells : pc'[c] = "start"
  <2>1. Items = Cells
    BY DEF Items, Cells
  <2>2. QED
    BY <2>1, Shapes DEF NextPass, LastPass, PassDone, IInv, TypeOK, Nodes
<1>2. PICK s \in States : s = Reference /\ s.d = before
  BY ReferenceType DEF FollowsCPU
<1>3. PICK r : r = CPUPass(s, k) /\ Reached(s, r, k, Cells)
  <2>1. s.d[<<k, k>>] = 0
    BY <1>1, <1>2 DEF IInv, ZeroDiagonal
  <2>2. QED
    BY <1>1, <2>1, PassReaches
<1>4. Reference' = r
  <2>1. CPUPasses(graph)[k + 1] = r
    BY <1>1, <1>2, <1>3, ReferenceType
  <2>2. QED
    BY <1>1, <2>1 DEF Reference
<1>5. ASSUME NEW c \in Cells PROVE dist[c] = r.d[c] /\ NextPath(s, c) = r.p[c]
  <2>1. PICK y \in Nodes, x \in Nodes : c = <<y, x>> /\ c[1] = y /\ c[2] = x
    BY CellsAre
  <2>2. ItemInv(y, x)
    BY <1>1, <2>1 DEF IInv, PassInv
  <2>3. dist[<<y, x>>] = Smaller(before[<<y, x>>], Through(y, x))
    BY <1>1, <2>1, <2>2 DEF ItemInv
  <2>4. Through(y, x) = CPUWay(s, k, c)
    BY <1>2, <2>1 DEF Through, CPUWay
  <2>5. r.d[c] = Smaller(s.d[c], CPUWay(s, k, c)) /\ r.p[c] = NextPath(s, c)
    BY <1>3 DEF Reached, NextPath
  <2>6. QED
    BY <1>2, <2>1, <2>3, <2>4, <2>5
<1>6. dist = r.d
  <2>1. dist \in [Cells -> Nat] /\ r.d \in [Cells -> Nat]
    BY <1>3 DEF IInv, TypeOK, Reached, States
  <2>2. QED
    BY <1>5, <2>1
<1>7. \A c \in Cells : path[c] # Unwritten => path[c] = r.p[c]
  BY <1>1, <1>2, <1>5 DEF FollowsCPU
<1>8. FollowsCPU'
  BY <1>1, <1>4, <1>6, <1>7 DEF FollowsCPU
<1>9. WrittenInv'
  BY <1>1 DEF WrittenInv
<1>10. QED
  BY <1>8, <1>9

LEMMA NextFollows ==
  ASSUME Rows = Nodes
  PROVE  WaysInv /\ WaysInv' /\ FollowsCPU /\ WrittenInv /\ [Next]_vars => FollowsCPU' /\ WrittenInv'
<1> SUFFICES ASSUME WaysInv, WaysInv', FollowsCPU, WrittenInv, [Next]_vars
             PROVE  FollowsCPU' /\ WrittenInv'
  OBVIOUS
<1>1. IInv /\ Sinks /\ IInv'
  BY DEF WaysInv
<1>2. ASSUME UNCHANGED <<graph, dist, path, k, before>>,
             \A c \in Cells : pc'[c] = "done" <=> pc[c] = "done"
      PROVE  FollowsCPU' /\ WrittenInv'
  BY <1>2 DEF FollowsCPU, WrittenInv, Reference, NextPath, CPUWay
<1>3. ASSUME NEW y \in Nodes, NEW x \in Nodes, LoadOldAndColumn(y, x) \/ LoadRow(y, x)
      PROVE  FollowsCPU' /\ WrittenInv'
  <2>1. Items = Cells /\ <<y, x>> \in Items
    BY CellsAre DEF Items, Cells
  <2>2. pc \in [Cells -> {"start", "row", "store", "done"}]
    BY <1>1, <2>1 DEF IInv, TypeOK
  <2>3. \A c \in Cells : pc'[c] = "done" <=> pc[c] = "done"
    BY <1>3, <2>1, <2>2 DEF LoadOldAndColumn, LoadRow
  <2>4. QED
    BY <1>2, <1>3, <2>3 DEF LoadOldAndColumn, LoadRow
<1>4. ASSUME NEW y \in Nodes, NEW x \in Nodes, Store(y, x) PROVE FollowsCPU' /\ WrittenInv'
  BY <1>1, <1>4, StoreFollows
<1>5. CASE NextPass
  BY <1>1, <1>5, NextPassFollows
<1>6. CASE UNCHANGED vars
  BY <1>2, <1>6 DEF vars
<1>7. QED
  BY <1>3, <1>4, <1>5, <1>6 DEF Next, Done

(* On a launch over both dimensions, for every graph and interleaving, the *)
(* kernel leaves the matrices of floydWarshallCPU, but for the cells of    *)
(* pathBuffer that no pass improved.                                       *)
THEOREM AgreesWithCPU ==
  ASSUME Rows = Nodes
  PROVE  Spec => []MatchesCPU
<1>1. Init => WaysInv /\ FollowsCPU /\ WrittenInv
  BY InitWays, InitFollows
<1>2. WaysInv /\ FollowsCPU /\ WrittenInv /\ [Next]_vars
        => WaysInv' /\ FollowsCPU' /\ WrittenInv'
  BY NextWays, NextFollows
<1>3. WaysInv /\ FollowsCPU /\ WrittenInv => MatchesCPU
  <2> SUFFICES ASSUME WaysInv, FollowsCPU, WrittenInv, Finished PROVE MatchesCPU
    BY DEF MatchesCPU
  <2>1. k = N /\ dist = before /\ ~(k < N)
    BY GraphAssumption DEF WaysInv, Sinks, Finished, LastPass
  <2>2. Reference = CPU(graph)
    BY <2>1 DEF Reference, CPU
  <2>3. QED
    BY <2>1, <2>2 DEF FollowsCPU, WrittenInv, MatchesCPU
<1>4. QED
  BY <1>1, <1>2, <1>3, PTL DEF Spec
=============================================================================
