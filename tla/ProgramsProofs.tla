--------------------------- MODULE ProgramsProofs ---------------------------
(***************************************************************************)
(* Proofs about the programs.  Quicksort, for arrays of any size and any   *)
(* values: indices stay in bounds, the list is always a permutation of the *)
(* input, and elements that no open call has in common are in their order. *)
(* The matrix product, the N-body simulation, the Sobel filter and the     *)
(* Viterbi decoder, for inputs and groups of any size and any order of the *)
(* work-items: what a work-item takes from memory is what it should find   *)
(* there, and what the host reads back is the result it should compute.    *)
(***************************************************************************)
EXTENDS Programs, FiniteSetTheorems, SequenceTheorems, WellFoundedInduction, TLAPS

(* Quicksort.                                                              *)

Scanning == pc \in {"loop", "up", "down", "swap"}

QType ==
  /\ input \in [Indices -> Values] /\ list \in [Indices -> Values]
  /\ stack \in Seq(Int \X Int) /\ Len(stack) <= Size
  /\ pc \in {"call", "loop", "up", "down", "swap", "done"}
  /\ m \in Int /\ n \in Int /\ key \in Values /\ i \in 0..Size /\ j \in 0..(Size - 1)

\* The calls still to be made lie behind each other in the array.
CallsInv ==
  /\ \A d \in 1..Len(stack) :
       0 <= stack[d][1] /\ stack[d][2] + (Len(stack) - d) <= Size - 1
  /\ \A d, l \in 1..Len(stack) : d < l => stack[d][2] < stack[l][1]
  /\ pc = "done" => stack = <<>>

\* The current call lies before them; its scans have met nothing out of place.
ScanInv ==
  Scanning =>
    /\ 0 <= m /\ m < n /\ n + Len(stack) <= Size - 1
    /\ \A d \in 1..Len(stack) : n < stack[d][1]
    /\ i \in (m + 1)..(n + 1) /\ j \in m..n /\ list[m] = key
    /\ \A x \in m..(i - 1) : list[x] <= key
    /\ \A x \in (j + 1)..n : list[x] > key

\* The list is the input, rearranged by p.
Rearranges(p, l) ==
  /\ p \in [Indices -> Indices]
  /\ \A x, y \in Indices : p[x] = p[y] => x = y
  /\ \A y \in Indices : \E x \in Indices : p[x] = y
  /\ \A x \in Indices : l[x] = input[p[x]]
PermInv == \E p : Rearranges(p, list)

Within(x, y, a, b) == x \in a..b /\ y \in a..b
Common(x, y) ==
  \/ \E d \in 1..Len(stack) : Within(x, y, stack[d][1], stack[d][2])
  \/ Scanning /\ Within(x, y, m, n)

\* Two elements that no open call has in common are in their order.
ApartInv == \A x, y \in Indices : x < y /\ ~Common(x, y) => list[x] <= list[y]

QInv == QType /\ CallsInv /\ ScanInv /\ PermInv /\ ApartInv

LEMMA SizeIs ==
  /\ Size \in Nat /\ Size >= 1 /\ Values \subseteq Int /\ Indices = 0..(Size - 1)
  /\ \A x \in Indices : x \in Int /\ 0 <= x /\ x <= Size - 1
BY QuicksortAssumption DEF Indices

\* Elements before and behind a segment are in order with those in it.
Outside(l, a, b) ==
  \A x \in Indices, z \in Indices : z \in a..b =>
    (x < a => l[x] <= l[z]) /\ (x > b => l[z] <= l[x])

\* An exchange within a segment keeps the order with what is outside it.
LEMMA SwapWithin ==
  ASSUME NEW l \in [Indices -> Values], NEW a \in Int, NEW b \in Int, Outside(l, a, b),
         NEW x \in Indices, NEW y \in Indices, x \in a..b, y \in a..b,
         NEW r, r = swap(l, x, y)
  PROVE  Outside(r, a, b) /\ \A z \in Indices : z \notin a..b => r[z] = l[z]
<1>1. /\ r[x] = l[y] /\ r[y] = l[x]
      /\ \A z \in Indices : z # x /\ z # y => r[z] = l[z]
  BY DEF swap
<1>2. \A z \in Indices : z \notin a..b => r[z] = l[z]
  BY <1>1
<1>3. ASSUME NEW u \in Indices, NEW z \in Indices, z \in a..b, u < a \/ u > b
      PROVE  r[u] = l[u] /\ \E w \in Indices : w \in a..b /\ r[z] = l[w]
  <2>1. u \notin a..b
    BY <1>3, SizeIs
  <2>2. \E w \in Indices : w \in a..b /\ r[z] = l[w]
    BY <1>1, <1>3
  <2>3. QED
    BY <1>2, <2>1, <2>2
<1>4. Outside(r, a, b)
  <2> SUFFICES ASSUME NEW u \in Indices, NEW z \in Indices, z \in a..b
               PROVE  (u < a => r[u] <= r[z]) /\ (u > b => r[z] <= r[u])
    BY DEF Outside
  <2>1. ASSUME u < a \/ u > b PROVE (u < a => r[u] <= r[z]) /\ (u > b => r[z] <= r[u])
    <3>1. PICK w \in Indices : w \in a..b /\ r[z] = l[w] /\ r[u] = l[u]
      BY <1>3, <2>1
    <3>2. QED
      BY <3>1 DEF Outside
  <2>2. QED
    BY <2>1
<1>5. QED
  BY <1>2, <1>4

LEMMA SwapRearranges ==
  ASSUME PermInv, list \in [Indices -> Values], NEW x \in Indices, NEW y \in Indices,
         NEW r, r = swap(list, x, y)
  PROVE  \E p : Rearranges(p, r)
<1>1. PICK p : Rearranges(p, list)
  BY DEF PermInv
<1>2. PICK q : q = swap(p, x, y)
  OBVIOUS
<1>3. /\ q \in [Indices -> Indices] /\ q[x] = p[y] /\ q[y] = p[x]
      /\ \A z \in Indices : z # x /\ z # y => q[z] = p[z]
  BY <1>1, <1>2 DEF Rearranges, swap
<1>4. /\ r[x] = list[y] /\ r[y] = list[x]
      /\ \A z \in Indices : z # x /\ z # y => r[z] = list[z]
  BY DEF swap
<1>5. \A z \in Indices : r[z] = input[q[z]]
  BY <1>1, <1>3, <1>4 DEF Rearranges
<1>6. \A u, v \in Indices : q[u] = q[v] => u = v
  BY <1>1, <1>3 DEF Rearranges
<1>7. \A v \in Indices : \E u \in Indices : q[u] = v
  <2> SUFFICES ASSUME NEW v \in Indices PROVE \E u \in Indices : q[u] = v
    OBVIOUS
  <2>1. PICK u \in Indices : p[u] = v
    BY <1>1 DEF Rearranges
  <2>2. QED
    BY <2>1, <1>3
<1>8. QED
  BY <1>3, <1>5, <1>6, <1>7 DEF Rearranges

\* A segment of an open call is in order with its surroundings.
LEMMA OpenOutside ==
  ASSUME QInv, NEW a \in Int, NEW b \in Int,
         \/ \E d \in 1..Len(stack) : a = stack[d][1] /\ b = stack[d][2]
         \/ Scanning /\ a = m /\ b = n
  PROVE  Outside(list, a, b)
<1>1. /\ stack \in Seq(Int \X Int) /\ Len(stack) \in Nat
      /\ \A d \in 1..Len(stack) : stack[d][1] \in Int /\ stack[d][2] \in Int
      /\ m \in Int /\ n \in Int
  BY DEF QInv, QType
<1>2. \A x, z \in Indices : Common(x, z) /\ z \in a..b => x \in a..b
  <2> SUFFICES ASSUME NEW x \in Indices, NEW z \in Indices, Common(x, z), z \in a..b
               PROVE  x \in a..b
    OBVIOUS
  <2> USE SizeIs
  <2>1. CASE \E d \in 1..Len(stack) : a = stack[d][1] /\ b = stack[d][2]
    <3>1. PICK d \in 1..Len(stack) : a = stack[d][1] /\ b = stack[d][2]
      BY <2>1
    <3>2. ASSUME NEW l \in 1..Len(stack), Within(x, z, stack[l][1], stack[l][2])
          PROVE  l = d
      <4>1. d < l => b < stack[l][1]
        BY <3>1 DEF QInv, CallsInv
      <4>2. l < d => stack[l][2] < a
        BY <3>1 DEF QInv, CallsInv
      <4>3. ~(d < l) /\ ~(l < d)
        BY <4>1, <4>2, <3>2, <1>1, SMTT(30) DEF Within
      <4>4. QED
        BY <4>3, <1>1
    <3>3. ASSUME Scanning, Within(x, z, m, n) PROVE FALSE
      <4>1. n < a
        BY <3>1, <3>3 DEF QInv, ScanInv
      <4>2. QED
        BY <4>1, <3>3, <1>1 DEF Within
    <3>4. QED
      BY <3>1, <3>2, <3>3 DEF Common, Within
  <2>2. CASE Scanning /\ a = m /\ b = n
    <3>1. ASSUME NEW l \in 1..Len(stack), Within(x, z, stack[l][1], stack[l][2])
          PROVE  FALSE
      <4>1. b < stack[l][1]
        BY <2>2 DEF QInv, ScanInv
      <4>2. QED
        BY <4>1, <3>1, <1>1, SMTT(30) DEF Within
    <3>2. QED
      BY <2>2, <3>1 DEF Common, Within
  <2>3. QED
    BY <2>1, <2>2
<1>3. \A x, z \in Indices : Common(x, z) => Common(z, x)
  BY DEF Common, Within
<1>4. ASSUME NEW x \in Indices, NEW z \in Indices, z \in a..b
      PROVE  (x < a => list[x] <= list[z]) /\ (x > b => list[z] <= list[x])
  <2>1. x < a => x < z /\ x \notin a..b
    BY <1>4, SizeIs
  <2>2. x > b => z < x /\ x \notin a..b
    BY <1>4, SizeIs
  <2>3. x \notin a..b => ~Common(x, z) /\ ~Common(z, x)
    BY <1>2, <1>3, <1>4
  <2>4. QED
    BY <2>1, <2>2, <2>3 DEF QInv, ApartInv
<1>5. QED
  BY <1>4 DEF Outside

LEMMA QInit == Init => QInv
<1> SUFFICES ASSUME Init PROVE QInv
  OBVIOUS
<1> USE SizeIs
<1>1. /\ stack = <<<<0, Size - 1>>>> /\ Len(stack) = 1 /\ stack[1] = <<0, Size - 1>>
      /\ stack \in Seq(Int \X Int) /\ pc = "call" /\ list = input
      /\ input \in [Indices -> Values]
  BY DEF Init
<1>2. QType
  <2>1. key \in Values
    BY <1>1 DEF Init
  <2>2. QED
    BY <1>1, <2>1 DEF Init, QType
<1>3. CallsInv /\ ScanInv
  BY <1>1 DEF CallsInv, ScanInv, Scanning
<1>4. PermInv
  <2>1. Rearranges([x \in Indices |-> x], list)
    BY <1>1 DEF Rearranges
  <2>2. QED
    BY <2>1 DEF PermInv
<1>5. ApartInv
  <2>1. \A x, y \in Indices : Common(x, y)
    BY <1>1 DEF Common, Within
  <2>2. QED
    BY <2>1 DEF ApartInv
<1>6. QED
  BY <1>2, <1>3, <1>4, <1>5 DEF QInv

LEMMA QStutter == QInv /\ UNCHANGED vars => QInv'
<1> SUFFICES ASSUME QInv, UNCHANGED vars PROVE QInv'
  OBVIOUS
<1>1. QType' /\ CallsInv' /\ ScanInv'
  BY DEF QInv, vars, QType, CallsInv, ScanInv, Scanning
<1>2. PermInv'
  BY DEF QInv, vars, PermInv, Rearranges
<1>3. ApartInv'
  BY DEF QInv, vars, ApartInv, Common, Within, Scanning
<1>4. QED
  BY <1>1, <1>2, <1>3 DEF QInv

LEMMA ReturnStep == ASSUME QInv, Return PROVE QInv'
<1>1. QType' /\ CallsInv' /\ ScanInv'
  BY DEF Return, QInv, QType, CallsInv, ScanInv, Scanning
<1>2. PermInv'
  BY DEF Return, QInv, PermInv, Rearranges
<1>3. ApartInv'
  BY DEF Return, QInv, ApartInv, Common, Within, Scanning
<1>4. QED
  BY <1>1, <1>2, <1>3 DEF QInv

\* A step of a scan, which leaves list and stack alone.
LEMMA ScanStep ==
  ASSUME QInv, Up \/ Down \/ (Loop /\ i <= j) PROVE QInv'
<1> USE SizeIs
<1>1. /\ QType /\ CallsInv /\ ScanInv /\ PermInv /\ ApartInv /\ Scanning /\ Scanning'
      /\ list' = list /\ stack' = stack /\ input' = input /\ key' = key /\ m' = m /\ n' = n
      /\ pc' \in {"loop", "up", "down", "swap"} /\ i \in Int /\ j \in Int
  BY DEF QInv, QType, Up, Down, Loop, Scanning
<1>2. PermInv' /\ ApartInv' /\ CallsInv'
  BY <1>1, ZenonT(40) DEF PermInv, Rearranges, ApartInv, Common, Within, CallsInv
<1>3. /\ 0 <= m /\ m < n /\ n + Len(stack) <= Size - 1 /\ n <= Size - 1 /\ m \in Int /\ n \in Int
      /\ \A d \in 1..Len(stack) : n < stack[d][1]
      /\ i \in (m + 1)..(n + 1) /\ j \in m..n /\ list[m] = key
      /\ \A x \in m..(i - 1) : list[x] <= key
      /\ \A x \in (j + 1)..n : list[x] > key
  BY <1>1 DEF QType, ScanInv
<1>4. /\ i' \in (m + 1)..(n + 1) /\ j' \in m..n
      /\ \A x \in m..(i' - 1) : list[x] <= key
      /\ \A x \in (j' + 1)..n : list[x] > key
  <2>1. CASE i' = i /\ j' = j
    BY <2>1, <1>3
  <2>2. CASE i <= n /\ list[i] <= key /\ i' = i + 1 /\ j' = j
    <3>1. \A x \in m..i : x \in m..(i - 1) \/ x = i
      BY <1>3
    <3>2. QED
      BY <2>2, <3>1, <1>3
  <2>3. CASE j >= m /\ list[j] > key /\ j' = j - 1 /\ i' = i
    <3>1. j # m
      BY <2>3, <1>1, <1>3 DEF QType
    <3>2. \A x \in j..n : x \in (j + 1)..n \/ x = j
      BY <1>3
    <3>3. QED
      BY <2>3, <3>1, <3>2, <1>3
  <2>4. QED
    BY <2>1, <2>2, <2>3 DEF Up, Down, Loop
<1>5. QType'
  BY <1>1, <1>3, <1>4 DEF QType, Indices
<1>6. ScanInv'
  BY <1>1, <1>3, <1>4 DEF ScanInv
<1>7. QED
  BY <1>2, <1>5, <1>6 DEF QInv

\* An exchange within the current call keeps what is not in it apart.
LEMMA SwapStep == ASSUME QInv, Swap PROVE QInv'
<1> USE SizeIs
<1>1. /\ QType /\ CallsInv /\ ScanInv /\ PermInv /\ ApartInv /\ Scanning /\ Scanning'
      /\ stack' = stack /\ input' = input /\ key' = key /\ m' = m /\ n' = n
      /\ i' = i /\ j' = j /\ pc' = "loop" /\ i \in Int /\ j \in Int
      /\ list' = IF i < j THEN swap(list, i, j) ELSE list
  BY DEF QInv, QType, Swap, Scanning
<1>2. /\ 0 <= m /\ m < n /\ n + Len(stack) <= Size - 1 /\ n <= Size - 1 /\ m \in Int /\ n \in Int
      /\ \A d \in 1..Len(stack) : n < stack[d][1]
      /\ i \in (m + 1)..(n + 1) /\ j \in m..n /\ list[m] = key
      /\ \A x \in m..(i - 1) : list[x] <= key
      /\ \A x \in (j + 1)..n : list[x] > key
  <2>1. Len(stack) \in Nat /\ m \in Int /\ n \in Int
    BY <1>1 DEF QType
  <2>2. QED
    BY <1>1, <2>1 DEF ScanInv
<1>3. CASE ~(i < j)
  <2>1. list' = list
    BY <1>1, <1>3
  <2>2. QType' /\ CallsInv' /\ ScanInv'
    BY <1>1, <1>2, <2>1 DEF QType, CallsInv, ScanInv, Indices
  <2>3. PermInv' /\ ApartInv'
    <3>1. PermInv'
      <4>1. PICK p : Rearranges(p, list)
        BY <1>1 DEF PermInv
      <4>2. Rearranges(p, list)'
        BY <1>1, <2>1, <4>1 DEF Rearranges, Indices
      <4>3. QED
        BY <4>2 DEF PermInv
    <3>2. ApartInv'
      BY <1>1, <2>1 DEF ApartInv, Common, Within
    <3>3. QED
      BY <3>1, <3>2
  <2>4. QED
    BY <2>2, <2>3 DEF QInv
<1>4. CASE i < j
  <2>1. i \in Indices /\ j \in Indices /\ i \in m..n /\ j \in m..n
    BY <1>2, <1>4
  <2>2. list' = swap(list, i, j) /\ list \in [Indices -> Values]
    BY <1>1, <1>4 DEF QType
  <2>3. /\ list' \in [Indices -> Values]
        /\ \A z \in Indices : z # i /\ z # j => list'[z] = list[z]
    BY <2>1, <2>2 DEF swap
  <2>4. QType' /\ CallsInv'
    BY <1>1, <2>3 DEF QType, CallsInv, Indices
  <2>5. ScanInv'
    <3>1. m \in Indices /\ m # i /\ m # j
      BY <1>2, <1>4
    <3>2. \A x \in m..(i - 1) : x \in Indices /\ x # i /\ x # j
      BY <1>2, <1>4
    <3>3. \A x \in (j + 1)..n : x \in Indices /\ x # i /\ x # j
      BY <1>2, <1>4
    <3>4. QED
      BY <1>1, <1>2, <2>3, <3>1, <3>2, <3>3 DEF ScanInv
  <2>6. PermInv'
    <3>1. PICK p : Rearranges(p, list')
      BY <1>1, <2>1, <2>2, SwapRearranges
    <3>2. Rearranges(p, list)'
      BY <3>1, <1>1 DEF Rearranges, Indices
    <3>3. QED
      BY <3>2 DEF PermInv
  <2>7. ApartInv'
    <3>1. Outside(list, m, n)
      BY <1>1, <1>2, OpenOutside
    <3>2. Outside(list', m, n) /\ \A z \in Indices : z \notin m..n => list'[z] = list[z]
      BY <1>2, <2>1, <2>2, <3>1, SwapWithin
    <3>3. ASSUME NEW x \in Indices, NEW y \in Indices, x < y, ~Common(x, y)'
          PROVE  list'[x] <= list'[y]
      <4>1. ~Common(x, y) /\ ~Within(x, y, m, n)
        BY <3>3, <1>1 DEF Common, Within
      <4>2. CASE x \notin m..n /\ y \notin m..n
        BY <4>1, <4>2, <3>2, <3>3, <1>1 DEF ApartInv
      <4>3. CASE x \in m..n /\ y \notin m..n
        <5>1. y > n
          BY <4>3, <3>3, <1>2
        <5>2. QED
          BY <4>3, <5>1, <3>2 DEF Outside
      <4>4. CASE x \notin m..n /\ y \in m..n
        <5>1. x < m
          BY <4>4, <3>3, <1>2
        <5>2. QED
          BY <4>4, <5>1, <3>2 DEF Outside
      <4>5. QED
        BY <4>1, <4>2, <4>3, <4>4 DEF Within
    <3>4. QED
      BY <3>3 DEF ApartInv, Indices
  <2>8. QED
    BY <2>4, <2>5, <2>6, <2>7 DEF QInv
<1>5. QED
  BY <1>3, <1>4

LEMMA StackHead ==
  ASSUME QInv, stack # <<>>
  PROVE  /\ Len(stack) \in Nat /\ Len(stack) >= 1 /\ 1 \in 1..Len(stack) /\ Head(stack) = stack[1]
         /\ stack[1][1] \in Int /\ stack[1][2] \in Int
         /\ Tail(stack) \in Seq(Int \X Int) /\ Len(Tail(stack)) = Len(stack) - 1
         /\ \A d \in 1..Len(Tail(stack)) :
              d + 1 \in 1..Len(stack) /\ Tail(stack)[d] = stack[d + 1]
         /\ \A d \in 1..Len(stack) : d = 1 \/ d - 1 \in 1..Len(Tail(stack))
<1>1. stack \in Seq(Int \X Int) /\ Len(stack) \in Nat /\ Len(stack) >= 1
  BY DEF QInv, QType
<1>2. Head(stack) = stack[1] /\ stack[1] \in Int \X Int
  BY <1>1
<1>3. Tail(stack) \in Seq(Int \X Int) /\ Len(Tail(stack)) = Len(stack) - 1
      /\ \A d \in 1..Len(Tail(stack)) : Tail(stack)[d] = stack[d + 1]
  BY <1>1, HeadTailProperties
<1>4. QED
  BY <1>1, <1>2, <1>3

LEMMA CallStep == ASSUME QInv, Call PROVE QInv'
<1> USE SizeIs
<1>1. /\ QType /\ CallsInv /\ ScanInv /\ PermInv /\ ApartInv /\ pc = "call" /\ stack # <<>>
      /\ stack' = Tail(stack) /\ input' = input
  BY DEF QInv, Call
<1>2. PICK a \in Int, b \in Int, s \in Nat :
        a = stack[1][1] /\ b = stack[1][2] /\ s = Len(stack)
  BY <1>1, StackHead
<1>3. /\ s >= 1 /\ Head(stack) = stack[1] /\ stack' \in Seq(Int \X Int) /\ Len(stack') = s - 1
      /\ \A d \in 1..(s - 1) : d + 1 \in 1..s /\ stack'[d] = stack[d + 1]
      /\ \A d \in 1..s : d = 1 \/ (d - 1 \in 1..(s - 1) /\ stack'[d - 1] = stack[d])
  BY <1>1, <1>2, StackHead
<1>4. 0 <= a /\ b + (s - 1) <= Size - 1 /\ b <= Size - 1 /\ s <= Size
      /\ \A d \in 1..(s - 1) : b < stack'[d][1]
  <2>1. 1 \in 1..s /\ \A d \in 1..(s - 1) : 1 < d + 1
    BY <1>3
  <2>2. QED
    BY <1>1, <1>2, <1>3, <2>1 DEF CallsInv, QType
<1>5. CallsInv' \/ pc' = "done"
  <2>1. \A d \in 1..(s - 1) :
          0 <= stack'[d][1] /\ stack'[d][2] + ((s - 1) - d) <= Size - 1
    <3> SUFFICES ASSUME NEW d \in 1..(s - 1)
                 PROVE  0 <= stack'[d][1] /\ stack'[d][2] + ((s - 1) - d) <= Size - 1
      OBVIOUS
    <3>1. d + 1 \in 1..s /\ stack'[d] = stack[d + 1]
      BY <1>3
    <3>2. 0 <= stack[d + 1][1] /\ stack[d + 1][2] + (s - (d + 1)) <= Size - 1
      BY <3>1, <1>1, <1>2 DEF CallsInv
    <3>3. s - (d + 1) = (s - 1) - d
      OBVIOUS
    <3>4. QED
      BY <3>1, <3>2, <3>3
  <2>2. \A d, l \in 1..(s - 1) : d < l => stack'[d][2] < stack'[l][1]
    <3> SUFFICES ASSUME NEW d \in 1..(s - 1), NEW l \in 1..(s - 1), d < l
                 PROVE  stack'[d][2] < stack'[l][1]
      OBVIOUS
    <3>1. d + 1 \in 1..s /\ stack'[d] = stack[d + 1]
      BY <1>3
    <3>2. l + 1 \in 1..s /\ stack'[l] = stack[l + 1]
      BY <1>3
    <3>3. d + 1 < l + 1
      OBVIOUS
    <3>4. QED
      BY <3>1, <3>2, <3>3, <1>1, <1>2 DEF CallsInv
  <2>3. QED
    BY <2>1, <2>2, <1>3, <1>4 DEF CallsInv
<1>6. CASE ~(a < b)
  <2>1. pc' = pc /\ list' = list /\ m' = m /\ n' = n /\ key' = key /\ i' = i /\ j' = j
    BY <1>1, <1>2, <1>3, <1>6 DEF Call
  <2>2. QType' /\ CallsInv' /\ ScanInv'
    BY <1>1, <1>3, <1>4, <1>5, <2>1 DEF QType, ScanInv, Scanning, Indices
  <2>3. PermInv'
    BY <1>1, <2>1 DEF PermInv, Rearranges, Indices
  <2>4. ApartInv'
    <3> SUFFICES ASSUME NEW x \in Indices, NEW y \in Indices, x < y, Common(x, y)
                 PROVE  Common(x, y)'
      BY <1>1, <2>1 DEF ApartInv, Indices
    <3>1. PICK d \in 1..s : Within(x, y, stack[d][1], stack[d][2])
      BY <1>1, <1>2 DEF Common, Scanning
    <3>2. d # 1
      BY <3>1, <1>2, <1>6 DEF Within
    <3>3. QED
      BY <3>1, <3>2, <1>3 DEF Common, Within
  <2>5. QED
    BY <2>2, <2>3, <2>4 DEF QInv
<1>7. CASE a < b
  <2>1. PICK c \in Int : c = choose_pivot(a, b)
    BY DEF choose_pivot
  <2>2. c \in a..b /\ a \in a..b /\ a \in Indices /\ c \in Indices /\ b \in Indices
    <3>1. a <= c /\ c <= b
      BY <2>1, <1>7 DEF choose_pivot
    <3>2. QED
      BY <3>1, <1>4, <1>7
  <2>3. /\ pc' = "loop" /\ m' = a /\ n' = b /\ list' = swap(list, a, c) /\ key' = list'[a]
        /\ i' = a + 1 /\ j' = b
    BY <1>1, <1>2, <1>3, <1>7, <2>1 DEF Call
  <2>4. list \in [Indices -> Values] /\ list' \in [Indices -> Values]
    BY <1>1, <2>2, <2>3 DEF QType, swap
  <2>5. QType' /\ CallsInv'
    <3>1. key' \in Values /\ i' \in 0..Size /\ j' \in 0..(Size - 1)
      BY <2>2, <2>3, <2>4, <1>4, <1>7
    <3>2. input' \in [Indices' -> Values] /\ Indices' = Indices
      BY <1>1 DEF QType, Indices
    <3>3. Len(stack') <= Size
      BY <1>3, <1>4
    <3>4. QType'
      BY <1>3, <2>3, <2>4, <3>1, <3>2, <3>3 DEF QType
    <3>5. QED
      BY <3>4, <1>5, <2>3
  <2>6. ScanInv'
    <3>1. \A x \in a..a : x = a
      OBVIOUS
    <3>2. \A x \in (b + 1)..b : FALSE
      OBVIOUS
    <3>3. b + Len(stack') <= Size - 1
      BY <1>3, <1>4
    <3>4. key' \in Int /\ (a + 1) - 1 = a
      BY <2>4, <2>2, <2>3
    <3>5. /\ i' \in (m' + 1)..(n' + 1) /\ j' \in m'..n' /\ list'[m'] = key'
          /\ 0 <= m' /\ m' < n' /\ n' + Len(stack') <= Size - 1
      BY <1>4, <1>7, <2>3, <3>3
    <3>6. \A x \in m'..(i' - 1) : list'[x] <= key'
      <4>1. list'[a] <= key'
        BY <2>3, <3>4
      <4>2. m' = a /\ i' - 1 = a
        BY <2>3
      <4>3. QED
        BY <4>1, <4>2, <3>1
    <3>7. \A x \in (j' + 1)..n' : list'[x] > key'
      BY <2>3, <3>2
    <3>8. \A d \in 1..Len(stack') : n' < stack'[d][1]
      BY <1>3, <1>4, <2>3
    <3>9. QED
      BY <3>5, <3>6, <3>7, <3>8 DEF ScanInv
  <2>7. PermInv'
    <3>1. PICK p : Rearranges(p, list')
      BY <1>1, <2>2, <2>3, <2>4, SwapRearranges
    <3>2. Rearranges(p, list)'
      BY <3>1, <1>1 DEF Rearranges, Indices
    <3>3. QED
      BY <3>2 DEF PermInv
  <2>8. ApartInv'
    <3>1. Outside(list, a, b)
      <4>1. 1 \in 1..Len(stack)
        BY <1>2, <1>3
      <4>2. QED
        BY <4>1, <1>2, OpenOutside
    <3>2. Outside(list', a, b) /\ \A z \in Indices : z \notin a..b => list'[z] = list[z]
      BY <2>2, <2>3, <2>4, <3>1, SwapWithin
    <3>3. ASSUME NEW x \in Indices, NEW y \in Indices, x < y, ~Common(x, y)'
          PROVE  list'[x] <= list'[y]
      <4>1. ~Within(x, y, a, b)
        BY <3>3, <2>3 DEF Common, Within, Scanning
      <4>2. ~Common(x, y)
        <5>1. SUFFICES ASSUME NEW d \in 1..s, Within(x, y, stack[d][1], stack[d][2])
                       PROVE  FALSE
          BY <1>1, <1>2 DEF Common, Scanning
        <5>2. d # 1
          BY <5>1, <4>1, <1>2
        <5>3. QED
          BY <5>1, <5>2, <3>3, <1>3 DEF Common, Within
      <4>3. CASE x \notin a..b /\ y \notin a..b
        BY <4>2, <4>3, <3>2, <3>3, <1>1 DEF ApartInv
      <4>4. CASE x \in a..b /\ y \notin a..b
        <5>1. y > b
          BY <4>4, <3>3
        <5>2. QED
          BY <4>4, <5>1, <3>2 DEF Outside
      <4>5. CASE x \notin a..b /\ y \in a..b
        <5>1. x < a
          BY <4>5, <3>3
        <5>2. QED
          BY <4>5, <5>1, <3>2 DEF Outside
      <4>6. QED
        BY <4>1, <4>3, <4>4, <4>5 DEF Within
    <3>4. QED
      BY <3>3 DEF ApartInv, Indices
  <2>9. QED
    BY <2>5, <2>6, <2>7, <2>8 DEF QInv
<1>8. QED
  BY <1>6, <1>7

LEMMA TwoInFront ==
  ASSUME NEW S, NEW s \in Seq(S), NEW a \in S, NEW b \in S, NEW t, t = <<a, b>> \o s
  PROVE  /\ t \in Seq(S) /\ Len(t) = Len(s) + 2 /\ t[1] = a /\ t[2] = b
         /\ \A d \in 3..Len(t) : d - 2 \in 1..Len(s) /\ t[d] = s[d - 2]
         /\ \A d \in 1..Len(s) : d + 2 \in 3..Len(t) /\ t[d + 2] = s[d]
<1>1. <<a, b>> \in Seq(S) /\ Len(<<a, b>>) = 2 /\ Len(s) \in Nat
  OBVIOUS
<1>2. /\ t \in Seq(S) /\ Len(t) = Len(s) + 2
      /\ \A d \in 1..Len(t) : t[d] = IF d <= 2 THEN <<a, b>>[d] ELSE s[d - 2]
  BY <1>1, ConcatProperties
<1>3. t[1] = a /\ t[2] = b
  BY <1>1, <1>2
<1>4. \A d \in 3..Len(t) : d - 2 \in 1..Len(s) /\ t[d] = s[d - 2]
  BY <1>1, <1>2
<1>5. \A d \in 1..Len(s) : d + 2 \in 3..Len(t) /\ t[d + 2] = s[d]
  <2> SUFFICES ASSUME NEW d \in 1..Len(s) PROVE d + 2 \in 3..Len(t) /\ t[d + 2] = s[d]
    OBVIOUS
  <2>1. d + 2 \in 3..Len(t) /\ (d + 2) - 2 = d
    BY <1>1, <1>2
  <2>2. QED
    BY <2>1, <1>4
<1>6. QED
  BY <1>2, <1>3, <1>4, <1>5

\* The pivot goes to its place, between what is not above and what is above it.
LEMMA LoopEnds == ASSUME QInv, Loop, i > j PROVE QInv'
<1> USE SizeIs
<1>1. /\ QType /\ CallsInv /\ ScanInv /\ PermInv /\ ApartInv /\ Scanning /\ pc' = "call"
      /\ list' = swap(list, m, j) /\ stack' = <<<<m, j - 1>>, <<j + 1, n>>>> \o stack
      /\ input' = input /\ m' = m /\ n' = n /\ key' = key /\ i' = i /\ j' = j
      /\ i \in Int /\ j \in Int
  <2>1. /\ pc' = "call" /\ list' = swap(list, m, j)
        /\ stack' = <<<<m, j - 1>>, <<j + 1, n>>>> \o stack
        /\ input' = input /\ m' = m /\ n' = n /\ key' = key /\ i' = i /\ j' = j /\ Scanning
        /\ i \in Int /\ j \in Int
    <3>1. i \in Int /\ j \in Int /\ ~(i <= j)
      BY DEF QInv, QType
    <3>2. QED
      BY <3>1 DEF Loop, Scanning
  <2>2. QED
    BY <2>1 DEF QInv
<1>2. PICK s \in Nat : s = Len(stack)
  BY <1>1 DEF QType
<1>3. /\ 0 <= m /\ m < n /\ n + s <= Size - 1 /\ n <= Size - 1 /\ m \in Int /\ n \in Int
      /\ \A d \in 1..s : n < stack[d][1]
      /\ j \in m..n /\ list[m] = key
      /\ \A x \in m..j : list[x] <= key
      /\ \A x \in (j + 1)..n : list[x] > key
  <2>1. m \in Int /\ n \in Int
    BY <1>1 DEF QType
  <2>2. /\ 0 <= m /\ m < n /\ n + s <= Size - 1
        /\ \A d \in 1..s : n < stack[d][1]
        /\ j \in m..n /\ list[m] = key
        /\ \A x \in m..(i - 1) : list[x] <= key
        /\ \A x \in (j + 1)..n : list[x] > key
    BY <1>1, <1>2 DEF ScanInv
  <2>3. \A x \in m..j : x \in m..(i - 1)
    BY <1>1, <2>1
  <2>4. QED
    BY <2>1, <2>2, <2>3, <1>2
<1>4. /\ stack' \in Seq(Int \X Int) /\ Len(stack') = s + 2
      /\ stack'[1] = <<m, j - 1>> /\ stack'[2] = <<j + 1, n>>
      /\ \A d \in 3..(s + 2) : d - 2 \in 1..s /\ stack'[d] = stack[d - 2]
      /\ \A d \in 1..s : d + 2 \in 3..(s + 2) /\ stack'[d + 2] = stack[d]
  <2>1. stack \in Seq(Int \X Int) /\ <<m, j - 1>> \in Int \X Int /\ <<j + 1, n>> \in Int \X Int
    BY <1>1, <1>3 DEF QType
  <2>2. QED
    BY <2>1, <1>1, <1>2, TwoInFront
<1>5. m \in Indices /\ j \in Indices /\ m \in m..n /\ j \in m..n /\ list \in [Indices -> Values]
  BY <1>1, <1>3 DEF QType
<1>6. /\ list' \in [Indices -> Values] /\ list'[m] = list[j] /\ list'[j] = key
      /\ \A z \in Indices : z # m /\ z # j => list'[z] = list[z]
  BY <1>1, <1>3, <1>5 DEF swap
<1>7. QType'
  BY <1>1, <1>2, <1>3, <1>4, <1>6, SMTT(30) DEF QType, Indices
<1>8. CallsInv'
  <2>1. ASSUME NEW d \in 1..(s + 2)
        PROVE  0 <= stack'[d][1] /\ stack'[d][2] + ((s + 2) - d) <= Size - 1
    <3>1. CASE d = 1
      BY <3>1, <1>3, <1>4
    <3>2. CASE d = 2
      BY <3>2, <1>3, <1>4
    <3>3. CASE d \in 3..(s + 2)
      <4>1. d - 2 \in 1..s /\ stack'[d] = stack[d - 2]
        BY <3>3, <1>4
      <4>2. 0 <= stack[d - 2][1] /\ stack[d - 2][2] + (s - (d - 2)) <= Size - 1
        BY <4>1, <1>1, <1>2 DEF CallsInv
      <4>3. s - (d - 2) = (s + 2) - d
        OBVIOUS
      <4>4. QED
        BY <4>1, <4>2, <4>3
    <3>4. QED
      BY <3>1, <3>2, <3>3
  <2>2. ASSUME NEW d \in 1..(s + 2), NEW l \in 1..(s + 2), d < l
        PROVE  stack'[d][2] < stack'[l][1]
    <3>1. CASE l = 2
      BY <2>2, <3>1, <1>3, <1>4
    <3>2. CASE l \in 3..(s + 2)
      <4>1. l - 2 \in 1..s /\ stack'[l] = stack[l - 2] /\ n < stack[l - 2][1]
        BY <3>2, <1>3, <1>4
      <4>2. stack[l - 2] \in Int \X Int
        BY <4>1, <1>1, <1>2, SMTT(30) DEF QType
      <4>3. CASE d = 1
        <5>1. stack'[d][2] = j - 1
          BY <4>3, <1>4
        <5>2. QED
          BY <5>1, <4>1, <4>2, <1>3
      <4>4. CASE d = 2
        <5>1. stack'[d][2] = n
          BY <4>4, <1>4
        <5>2. QED
          BY <5>1, <4>1, <4>2, <1>3
      <4>5. CASE d \in 3..(s + 2)
        <5>1. d - 2 \in 1..s /\ stack'[d] = stack[d - 2]
          BY <4>5, <1>4
        <5>2. d - 2 < l - 2
          BY <2>2
        <5>3. QED
          BY <4>1, <5>1, <5>2, <1>1, <1>2 DEF CallsInv
      <4>6. QED
        BY <4>3, <4>4, <4>5
    <3>3. QED
      BY <2>2, <3>1, <3>2
  <2>3. QED
    BY <2>1, <2>2, <1>1, <1>4 DEF CallsInv
<1>9. ScanInv'
  BY <1>1 DEF ScanInv, Scanning
<1>10. PermInv'
  <2>1. PICK p : Rearranges(p, list')
    BY <1>1, <1>5, SwapRearranges
  <2>2. Rearranges(p, list)'
    BY <2>1, <1>1 DEF Rearranges, Indices
  <2>3. QED
    BY <2>2 DEF PermInv
<1>11. ApartInv'
  <2>1. Outside(list, m, n)
    BY <1>1, <1>3, OpenOutside
  <2>2. Outside(list', m, n) /\ \A z \in Indices : z \notin m..n => list'[z] = list[z]
    <3>1. list' = swap(list, m, j)
      BY <1>1
    <3>2. m \in Int /\ n \in Int
      BY <1>3
    <3>3. QED
      BY <3>1, <3>2, <1>5, <2>1, SwapWithin
  <2>3. \A x \in m..j : list'[x] <= key
    <3> SUFFICES ASSUME NEW x \in m..j PROVE list'[x] <= key
      OBVIOUS
    <3>1. x \in Indices /\ list[x] <= key /\ list[j] <= key /\ key <= key
      BY <1>1, <1>3, <1>5 DEF QType
    <3>2. QED
      BY <3>1, <1>3, <1>6
  <2>4. \A x \in (j + 1)..n : list'[x] > key
    <3> SUFFICES ASSUME NEW x \in (j + 1)..n PROVE list'[x] > key
      OBVIOUS
    <3>1. x \in Indices /\ x # m /\ x # j
      BY <1>3
    <3>2. QED
      BY <3>1, <1>3, <1>6
  <2>5. ASSUME NEW x \in Indices, NEW y \in Indices, x < y, ~Common(x, y)'
        PROVE  list'[x] <= list'[y]
    <3>1. ~Within(x, y, m, j - 1) /\ ~Within(x, y, j + 1, n)
      <4>1. 1 \in 1..(s + 2) /\ 2 \in 1..(s + 2)
        OBVIOUS
      <4>2. \A d \in 1..(s + 2) : ~Within(x, y, stack'[d][1], stack'[d][2])
        BY <2>5, <1>4 DEF Common, Within
      <4>3. stack'[1][1] = m /\ stack'[1][2] = j - 1 /\ stack'[2][1] = j + 1 /\ stack'[2][2] = n
        BY <1>4
      <4>4. QED
        BY <4>1, <4>2, <4>3
    <3>2. list'[x] \in Int /\ list'[y] \in Int /\ key \in Int
      BY <1>1, <1>6 DEF QType
    <3>3. CASE x \in m..n /\ y \in m..n
      <4>1. x <= j /\ j <= y
        BY <3>1, <3>3, <2>5, <1>3 DEF Within
      <4>2. CASE y = j
        <5>1. x \in m..j
          BY <3>3, <4>1, <1>3
        <5>2. QED
          BY <5>1, <4>2, <2>3, <1>6
      <4>3. CASE y # j
        <5>1. x \in m..j /\ y \in (j + 1)..n
          BY <3>3, <4>1, <4>3, <1>3
        <5>2. list'[x] <= key /\ list'[y] > key
          BY <5>1, <2>3, <2>4
        <5>3. QED
          BY <5>2, <3>2
      <4>4. QED
        BY <4>2, <4>3
    <3>4. CASE x \notin m..n /\ y \notin m..n
      <4>1. ~Common(x, y)
        <5>1. SUFFICES ASSUME NEW d \in 1..s, Within(x, y, stack[d][1], stack[d][2])
                       PROVE  FALSE
          BY <3>4, <1>2 DEF Common, Within
        <5>2. d + 2 \in 1..(s + 2) /\ stack'[d + 2] = stack[d]
          BY <1>4
        <5>3. QED
          BY <5>1, <5>2, <2>5, <1>4 DEF Common, Within
      <4>2. QED
        BY <3>4, <4>1, <2>2, <2>5, <1>1 DEF ApartInv
    <3>5. CASE x \in m..n /\ y \notin m..n
      <4>1. y > n
        BY <3>5, <2>5, <1>3
      <4>2. QED
        BY <3>5, <4>1, <2>2 DEF Outside
    <3>6. CASE x \notin m..n /\ y \in m..n
      <4>1. x < m
        BY <3>6, <2>5, <1>3
      <4>2. QED
        BY <3>6, <4>1, <2>2 DEF Outside
    <3>7. QED
      BY <3>3, <3>4, <3>5, <3>6
  <2>6. QED
    BY <2>5 DEF ApartInv, Indices
<1>12. QED
  BY <1>7, <1>8, <1>9, <1>10, <1>11 DEF QInv

LEMMA QNext == QInv /\ [Next]_vars => QInv'
<1> SUFFICES ASSUME QInv, [Next]_vars PROVE QInv'
  OBVIOUS
<1>1. CASE Call
  BY <1>1, CallStep
<1>2. CASE Return
  BY <1>2, ReturnStep
<1>3. CASE Loop
  <2>1. i <= j \/ i > j
    BY DEF QInv, QType
  <2>2. QED
    BY <1>3, <2>1, ScanStep, LoopEnds
<1>4. CASE Up \/ Down
  BY <1>4, ScanStep
<1>5. CASE Swap
  BY <1>5, SwapStep
<1>6. CASE UNCHANGED vars
  BY <1>6, QStutter
<1>7. QED
  BY <1>1, <1>2, <1>3, <1>4, <1>5, <1>6 DEF Next

LEMMA QInvariance == Spec => []QInv
BY QInit, QNext, PTL DEF Spec

\* quicksort() reads no element outside the array, and its calls are never
\* nested deeper than the array is long.
THEOREM TypeCorrect == Spec => []TypeOK
<1>1. QInv => TypeOK
  BY DEF QInv, QType, TypeOK
<1>2. QED
  BY <1>1, QInvariance, PTL
-------------------------------------------------------------------------------
LEMMA SegmentSize ==
  \A x \in Int : 0 <= x =>
    /\ IsFiniteSet(0..(x - 1)) /\ Cardinality(0..(x - 1)) = x
    /\ IsFiniteSet(0..x) /\ Cardinality(0..x) = x + 1
<1> SUFFICES ASSUME NEW x \in Int, 0 <= x
             PROVE  /\ IsFiniteSet(0..(x - 1)) /\ Cardinality(0..(x - 1)) = x
                    /\ IsFiniteSet(0..x) /\ Cardinality(0..x) = x + 1
  OBVIOUS
<1>1. IsFiniteSet(0..x) /\ Cardinality(0..x) = IF 0 > x THEN 0 ELSE x - 0 + 1
  BY FS_Interval
<1>2. x - 1 \in Int /\ IsFiniteSet(0..(x - 1))
  BY FS_Interval
<1>3. Cardinality(0..(x - 1)) = IF 0 > x - 1 THEN 0 ELSE (x - 1) - 0 + 1
  BY <1>2, FS_Interval
<1>4. QED
  BY <1>1, <1>2, <1>3

\* As many elements of the list as of the input are of a set of values.
LEMMA SameCount ==
  ASSUME PermInv, NEW V
  PROVE  LET A == {x \in Indices : list[x] \in V}
             B == {x \in Indices : input[x] \in V}
         IN  Cardinality(A) = Cardinality(B) /\ IsFiniteSet(B)
<1> DEFINE A == {x \in Indices : list[x] \in V}
           B == {x \in Indices : input[x] \in V}
<1>1. IsFiniteSet(Indices)
  BY SizeIs, FS_Interval
<1>2. IsFiniteSet(A) /\ IsFiniteSet(B)
  BY <1>1, FS_Subset
<1>3. PICK p : Rearranges(p, list)
  BY DEF PermInv
<1>4. PICK f : f = [x \in A |-> p[x]]
  OBVIOUS
<1>5. f \in [A -> B]
  BY <1>3, <1>4 DEF Rearranges
<1>6. \A x, y \in A : f[x] = f[y] => x = y
  BY <1>3, <1>4 DEF Rearranges
<1>7. \A y \in B : \E x \in A : f[x] = y
  BY <1>3, <1>4 DEF Rearranges
<1>8. ExistsBijection(A, B)
  BY <1>5, <1>6, <1>7
  DEF ExistsBijection, Bijection, Injection, Surjection, IsInjective
<1>9. QED
  BY <1>2, <1>8, FS_Bijection

\* On every input: what is neither in the current call nor in one still to be
\* made is where a sorted array has it, and the scans leave nothing behind
\* them on the wrong side.
THEOREM PartsKept == Spec => []PartsKeepTheirSides
<1>1. QInv => PartsSplit
  BY DEF QInv, ScanInv, Scanning, PartsSplit
<1>2. ASSUME QInv PROVE PlacedForGood
  <2>1. \A x, y \in Indices :
          Common(x, y) => x \in Segments \cup Current /\ y \in Segments \cup Current
    <3>1. \A d \in 1..Len(stack) : stack[d] \in ToSet(stack)
      BY <1>2 DEF QInv, QType, ToSet
    <3>2. \A d \in 1..Len(stack) : \A x \in stack[d][1]..stack[d][2] : x \in Segments
      BY <3>1 DEF Segments
    <3>3. Scanning => \A x \in m..n : x \in Current
      BY DEF Scanning, Current
    <3>4. QED
      BY <3>2, <3>3 DEF Common, Within
  <2>2. ASSUME NEW x \in Indices, x \notin Segments \cup Current
        PROVE  /\ Cardinality({y \in Indices : input[y] < list[x]}) <= x
               /\ x < Cardinality({y \in Indices : input[y] <= list[x]})
    <3>1. x \in Int /\ 0 <= x /\ x <= Size - 1 /\ list[x] \in Int /\ PermInv
          /\ \A y \in Indices : y \in Int /\ list[y] \in Int /\ input[y] \in Int
      BY <1>2, <2>2, SizeIs DEF QInv, QType
    <3>2. /\ \A y \in Indices : y < x => list[y] <= list[x]
          /\ \A y \in Indices : x < y => list[x] <= list[y]
      BY <1>2, <2>1, <2>2 DEF QInv, ApartInv
    <3>3. Cardinality({y \in Indices : input[y] < list[x]}) <= x
      <4> DEFINE V == {v \in Int : v < list[x]}
                 L == {y \in Indices : list[y] \in V}
                 I == {y \in Indices : input[y] \in V}
      <4>1. Cardinality(L) = Cardinality(I)
        BY <3>1, SameCount
      <4>2. L \subseteq 0..(x - 1)
        <5> SUFFICES ASSUME NEW y \in Indices, list[y] < list[x] PROVE y \in 0..(x - 1)
          OBVIOUS
        <5>1. ~(x < y) /\ y # x
          BY <3>1, <3>2
        <5>2. QED
          BY <5>1, <3>1, SizeIs
      <4>3. Cardinality(L) <= x
        <5>1. IsFiniteSet(0..(x - 1)) /\ Cardinality(0..(x - 1)) = x
          BY <3>1, SegmentSize
        <5>2. QED
          BY <5>1, <4>2, FS_Subset
      <4>4. {y \in Indices : input[y] < list[x]} = I
        BY <3>1
      <4> HIDE DEF L, I, V
      <4>5. QED
        BY <4>1, <4>3, <4>4
    <3>4. x < Cardinality({y \in Indices : input[y] <= list[x]})
      <4> DEFINE V == {v \in Int : v <= list[x]}
                 L == {y \in Indices : list[y] \in V}
                 I == {y \in Indices : input[y] \in V}
      <4>1. Cardinality(L) = Cardinality(I)
        BY <3>1, SameCount
      <4>2. 0..x \subseteq L
        <5> SUFFICES ASSUME NEW y \in 0..x
                     PROVE  y \in Indices /\ list[y] \in Int /\ list[y] <= list[x]
          OBVIOUS
        <5>1. y \in Indices /\ (y < x \/ y = x)
          BY <3>1, SizeIs
        <5>2. QED
          BY <5>1, <3>1, <3>2
      <4>3. IsFiniteSet(L)
        <5>1. IsFiniteSet(Indices) /\ L \subseteq Indices
          BY SizeIs, FS_Interval
        <5>2. QED
          BY <5>1, FS_Subset
      <4>4. x + 1 <= Cardinality(L) /\ Cardinality(L) \in Nat
        <5>1. Cardinality(0..x) = x + 1
          BY <3>1, SegmentSize
        <5>2. Cardinality(0..x) <= Cardinality(L)
          BY <4>2, <4>3, FS_Subset
        <5>3. QED
          BY <5>1, <5>2, <4>3, FS_CardinalityType
      <4>5. {y \in Indices : input[y] <= list[x]} = I
        BY <3>1
      <4> HIDE DEF L, I, V
      <4>6. QED
        BY <4>1, <4>4, <4>5, <3>1
    <3>5. QED
      BY <3>3, <3>4
  <2>3. QED
    BY <2>2 DEF PlacedForGood
<1>3. QED
  BY <1>1, <1>2, QInvariance, PTL DEF PartsKeepTheirSides

LEMMA InvSorts == QInv => Sorted
<1> SUFFICES ASSUME QInv, pc = "done"
             PROVE  /\ \A x, y \in Indices : x < y => list[x] <= list[y]
                    /\ \A v \in Values : Count(list, v) = Count(input, v)
  BY DEF Sorted
<1>1. stack = <<>> /\ Len(stack) = 0
  BY DEF QInv, CallsInv
<1>2. \A x, y : ~Common(x, y)
  BY <1>1 DEF Common, Scanning
<1>3. ASSUME NEW v \in Values PROVE Count(list, v) = Count(input, v)
  <2>1. /\ {x \in Indices : list[x] = v} = {x \in Indices : list[x] \in {v}}
        /\ {x \in Indices : input[x] = v} = {x \in Indices : input[x] \in {v}}
    OBVIOUS
  <2>2. QED
    BY <2>1, SameCount DEF QInv, Count
<1>4. QED
  BY <1>2, <1>3 DEF QInv, ApartInv

\* quicksort() leaves a sorted permutation of every input.
THEOREM Sorts == Spec => []Sorted
  BY QInvariance, InvSorts, PTL

-------------------------------------------------------------------------------
(* Products and remainders.                                                *)

\* A number is one multiple of w, and a rest below w.
LEMMA OneQuotient ==
  ASSUME NEW w \in Nat, NEW x \in Nat, NEW y \in Nat, NEW r \in 0..(w - 1), NEW s \in 0..(w - 1),
         x * w + r = y * w + s
  PROVE  x = y /\ r = s
<1>1. ASSUME NEW u \in Nat, NEW v \in Nat, u < v PROVE u * w + w <= v * w
  <2>1. PICK d \in Nat : v = u + 1 + d
    BY <1>1
  <2>2. v * w = u * w + w + d * w /\ d * w >= 0
    BY <2>1
  <2>3. QED
    BY <2>2
<1>2. ~(x < y)
  BY <1>1
<1>3. ~(y < x)
  BY <1>1
<1>4. QED
  BY <1>2, <1>3

LEMMA Quotient ==
  ASSUME NEW w \in Nat, NEW x \in Nat, NEW r \in 0..(w - 1)
  PROVE  (x * w + r) \div w = x /\ (x * w + r) % w = r
<1>1. x * w + r \in Nat /\ w > 0
  OBVIOUS
<1> PICK z \in Nat : z = x * w + r
  BY <1>1
<1>2. z = (z \div w) * w + (z % w) /\ z \div w \in Nat /\ z % w \in 0..(w - 1)
  BY <1>1
<1>3. QED
  BY <1>2, OneQuotient

(* The matrix product.                                                     *)

MulPcs == {"a", "b", "loaded", "add", "added", "store", "done"}
MulPhase(p) == IF p \in {"a", "b", "loaded"} THEN 1 ELSE IF p \in {"add", "added"} THEN 2 ELSE 3

\* A work-item's row and column of C, and its place in C.
RowOf(w) == w[1][2] * BLOCK_SIZE + w[2][2]
ColOf(w) == w[1][1] * BLOCK_SIZE + w[2][1]
PlaceOf(w) == RowOf(w) * WB + ColOf(w)

\* s is the beginning of the sum for a row and a column.
IsSum(s, r, c, len) ==
  /\ Len(s) = len
  /\ \A x \in 1..len : s[x] = <<r * WA + x - 1, (x - 1) * WB + c>>

MulTypes ==
  /\ As \in [Mul!Groups -> [Mul!Locals -> Int]] /\ Bs \in [Mul!Groups -> [Mul!Locals -> Int]]
  /\ tile \in [Mul!Items -> Nat] /\ mulPc \in [Mul!Items -> MulPcs] /\ k \in [Mul!Items -> Nat]
  /\ Csub \in [Mul!Items -> Seq(Int \X Int)]
  /\ C \in [0..(WB * HA - 1) -> Seq(Int \X Int)]

\* The work-items of a group use the same tile, between the same barriers.
Together ==
  \A g \in Mul!Groups, t, u \in Mul!Locals :
    /\ tile[<<g, t>>] = tile[<<g, u>>]
    /\ MulPhase(mulPc[<<g, t>>]) = MulPhase(mulPc[<<g, u>>])

HasA(w, a, tl) == a = WA * BLOCK_SIZE * w[1][2] + tl * BLOCK_SIZE + WA * w[2][2] + w[2][1]
HasB(w, b, tl) == b = BLOCK_SIZE * w[1][1] + tl * BLOCK_SIZE * WB + WB * w[2][2] + w[2][1]

\* What a work-item at p has done, with tl tiles behind it and kk products of
\* this one: its elements of the tiles, its sum, its element of C.
ItemDone(w, p, tl, kk, a, b, s, c) ==
  /\ p \in {"a", "b", "loaded", "add", "added"} => (tl + 1) * BLOCK_SIZE <= WA
  /\ p \in {"store", "done"} => tl * BLOCK_SIZE = WA
  /\ p = "add" => kk < BLOCK_SIZE
  /\ p = "added" => kk = BLOCK_SIZE
  /\ p \in {"b", "loaded", "add", "added"} => HasA(w, a, tl)
  /\ p \in {"loaded", "add", "added"} => HasB(w, b, tl)
  /\ IsSum(s, RowOf(w), ColOf(w), tl * BLOCK_SIZE + (IF p \in {"add", "added"} THEN kk ELSE 0))
  /\ p = "done" => c = s

DoneAt(w) ==
  ItemDone(w, mulPc[w], tile[w], k[w], As[w[1]][w[2]], Bs[w[1]][w[2]], Csub[w], C[PlaceOf(w)])

MulInv == MulTypes /\ Together /\ \A w \in Mul!Items : DoneAt(w)

LEMMA MulSizes ==
  /\ BLOCK_SIZE \in Nat \ {0} /\ WA \in Nat \ {0} /\ HA \in Nat \ {0} /\ WB \in Nat \ {0}
  /\ WA \div BLOCK_SIZE \in Nat \ {0} /\ (WA \div BLOCK_SIZE) * BLOCK_SIZE = WA
  /\ HA \div BLOCK_SIZE \in Nat \ {0} /\ (HA \div BLOCK_SIZE) * BLOCK_SIZE = HA
  /\ WB \div BLOCK_SIZE \in Nat \ {0} /\ (WB \div BLOCK_SIZE) * BLOCK_SIZE = WB
<1>1. BLOCK_SIZE \in Nat \ {0}
  BY ProgramsAssumption DEF Mul!MatrixAssumption
<1>2. ASSUME NEW x, NEW y \in 1..x, x = y * BLOCK_SIZE
      PROVE  x \in Nat \ {0} /\ x \div BLOCK_SIZE = y
  <2>1. y \in Nat \ {0} /\ 0 \in 0..(BLOCK_SIZE - 1)
    BY <1>1, <1>2
  <2>2. x = y * BLOCK_SIZE + 0 /\ x \in Nat \ {0}
    BY <1>1, <1>2, <2>1
  <2>3. QED
    BY <1>1, <2>1, <2>2, Quotient
<1>3. \A x \in {WA, HA, WB} : \E y \in 1..x : x = y * BLOCK_SIZE
  BY ProgramsAssumption DEF Mul!MatrixAssumption
<1>4. ASSUME NEW x \in {WA, HA, WB}
      PROVE  x \in Nat \ {0} /\ x \div BLOCK_SIZE \in Nat \ {0}
             /\ (x \div BLOCK_SIZE) * BLOCK_SIZE = x
  <2>1. PICK y \in 1..x : x = y * BLOCK_SIZE
    BY <1>3
  <2>2. x \in Nat \ {0} /\ x \div BLOCK_SIZE = y
    BY <1>2, <2>1
  <2>3. QED
    BY <2>1, <2>2
<1>5. QED
  BY <1>1, <1>4

\* A work-item, its sides and its place.
LEMMA MulItem ==
  ASSUME NEW w \in Mul!Items
  PROVE  /\ w[1] \in Mul!Groups /\ w[2] \in Mul!Locals /\ w = <<w[1], w[2]>>
         /\ w[1][1] \in Nat /\ w[1][2] \in Nat
         /\ w[2][1] \in 0..(BLOCK_SIZE - 1) /\ w[2][2] \in 0..(BLOCK_SIZE - 1)
         /\ RowOf(w) \in 0..(HA - 1) /\ ColOf(w) \in 0..(WB - 1)
         /\ PlaceOf(w) \in 0..(WB * HA - 1)
         /\ PlaceOf(w) \div WB = RowOf(w) /\ PlaceOf(w) % WB = ColOf(w)
<1>1. /\ w[1] \in Mul!Groups /\ w[2] \in Mul!Locals /\ w = <<w[1], w[2]>>
      /\ w[1][1] \in 0..((WB \div BLOCK_SIZE) - 1) /\ w[1][2] \in 0..((HA \div BLOCK_SIZE) - 1)
      /\ w[2][1] \in 0..(BLOCK_SIZE - 1) /\ w[2][2] \in 0..(BLOCK_SIZE - 1)
  BY DEF Mul!Items, Mul!Groups, Mul!Locals, Mul!Side
<1>2. ASSUME NEW z \in Nat, NEW q \in Nat, q * BLOCK_SIZE = z, NEW x \in 0..(q - 1),
             NEW y \in 0..(BLOCK_SIZE - 1)
      PROVE  x * BLOCK_SIZE + y \in 0..(z - 1)
  <2>1. PICK d \in Nat : q = x + 1 + d
    BY <1>2
  <2>2. z = x * BLOCK_SIZE + BLOCK_SIZE + d * BLOCK_SIZE /\ d * BLOCK_SIZE \in Nat
        /\ x * BLOCK_SIZE \in Nat
    BY <2>1, <1>2, MulSizes
  <2>3. QED
    BY <2>2, MulSizes
<1>3. RowOf(w) \in 0..(HA - 1) /\ ColOf(w) \in 0..(WB - 1)
  BY <1>1, <1>2, MulSizes DEF RowOf, ColOf
<1>4. PICK r, c : r = RowOf(w) /\ c = ColOf(w)
  OBVIOUS
<1>5. r \in 0..(HA - 1) /\ c \in 0..(WB - 1)
  BY <1>3, <1>4
<1>6. r * WB + c \in 0..(WB * HA - 1)
  <2>1. PICK d \in Nat : HA = r + 1 + d
    BY <1>5, MulSizes
  <2>2. WB * HA = r * WB + WB + d * WB /\ d * WB \in Nat /\ r * WB \in Nat
    BY <2>1, <1>5, MulSizes
  <2>3. QED
    BY <2>2, <1>5, MulSizes
<1>7. (r * WB + c) \div WB = r /\ (r * WB + c) % WB = c
  BY <1>5, Quotient, MulSizes
<1>8. QED
  BY <1>1, <1>3, <1>4, <1>6, <1>7 DEF PlaceOf

\* Two work-items have two places.
LEMMA MulOnePlace ==
  ASSUME NEW v \in Mul!Items, NEW w \in Mul!Items, PlaceOf(v) = PlaceOf(w)
  PROVE  v = w
<1>1. RowOf(v) = RowOf(w) /\ ColOf(v) = ColOf(w)
  BY MulItem
<1>2. ASSUME NEW d \in {1, 2} PROVE v[1][d] \in Nat /\ w[1][d] \in Nat
             /\ v[2][d] \in 0..(BLOCK_SIZE - 1) /\ w[2][d] \in 0..(BLOCK_SIZE - 1)
  BY MulItem
<1>3. ASSUME NEW d \in {1, 2},
             v[1][d] * BLOCK_SIZE + v[2][d] = w[1][d] * BLOCK_SIZE + w[2][d]
      PROVE  v[1][d] = w[1][d] /\ v[2][d] = w[2][d]
  <2>1. PICK x, y, q, z : x = v[1][d] /\ y = w[1][d] /\ q = v[2][d] /\ z = w[2][d]
    OBVIOUS
  <2>2. x \in Nat /\ y \in Nat /\ q \in 0..(BLOCK_SIZE - 1) /\ z \in 0..(BLOCK_SIZE - 1)
        /\ x * BLOCK_SIZE + q = y * BLOCK_SIZE + z
    BY <1>2, <1>3, <2>1
  <2>3. x = y /\ q = z
    BY <2>2, OneQuotient, MulSizes
  <2>4. QED
    BY <2>1, <2>3
<1>4. v[1] = w[1] /\ v[2] = w[2]
  BY <1>1, <1>3 DEF Mul!Items, Mul!Groups, Mul!Locals, RowOf, ColOf
<1>5. QED
  BY <1>4, MulItem

LEMMA MulKeeps ==
  ASSUME MulInv, NEW w \in Mul!Items, mulPc'[w] = mulPc[w], tile'[w] = tile[w], k'[w] = k[w],
         As'[w[1]][w[2]] = As[w[1]][w[2]], Bs'[w[1]][w[2]] = Bs[w[1]][w[2]],
         Csub'[w] = Csub[w], C'[PlaceOf(w)] = C[PlaceOf(w)]
  PROVE  DoneAt(w)'
<1>1. DoneAt(w)
  BY DEF MulInv
<1>2. QED
  BY <1>1 DEF DoneAt

LEMMA MulFirst == Mul!Init => MulInv
<1> SUFFICES ASSUME Mul!Init PROVE MulInv
  OBVIOUS
<1>1. MulTypes
  <2>1. As \in [Mul!Groups -> [Mul!Locals -> Int]] /\ Bs \in [Mul!Groups -> [Mul!Locals -> Int]]
    BY DEF Mul!Init, Mul!Empty
  <2>2. /\ tile \in [Mul!Items -> Nat] /\ mulPc \in [Mul!Items -> MulPcs]
        /\ k \in [Mul!Items -> Nat]
    BY DEF Mul!Init, MulPcs
  <2>3. /\ Csub \in [Mul!Items -> Seq(Int \X Int)]
        /\ C \in [0..(WB * HA - 1) -> Seq(Int \X Int)]
    BY DEF Mul!Init
  <2>4. QED
    BY <2>1, <2>2, <2>3 DEF MulTypes
<1>2. Together
  <2> SUFFICES ASSUME NEW g \in Mul!Groups, NEW t \in Mul!Locals, NEW u \in Mul!Locals
               PROVE  /\ tile[<<g, t>>] = tile[<<g, u>>]
                      /\ MulPhase(mulPc[<<g, t>>]) = MulPhase(mulPc[<<g, u>>])
    BY DEF Together
  <2>1. <<g, t>> \in Mul!Items /\ <<g, u>> \in Mul!Items
    BY DEF Mul!Items
  <2>2. QED
    BY <2>1 DEF Mul!Init
<1>3. ASSUME NEW w \in Mul!Items PROVE DoneAt(w)
  <2>1. mulPc[w] = "a" /\ tile[w] = 0 /\ Csub[w] = <<>>
    BY DEF Mul!Init
  <2>2. (0 + 1) * BLOCK_SIZE <= WA
    <3>1. PICK d \in Nat : WA \div BLOCK_SIZE = d + 1
      BY MulSizes
    <3>2. WA = d * BLOCK_SIZE + BLOCK_SIZE /\ d * BLOCK_SIZE \in Nat
      BY <3>1, MulSizes
    <3>3. QED
      BY <3>2, MulSizes
  <2>3. 0 * BLOCK_SIZE + 0 = 0
    BY MulSizes
  <2>4. QED
    BY <2>1, <2>2, <2>3 DEF DoneAt, ItemDone, IsSum
<1>4. QED
  BY <1>1, <1>2, <1>3 DEF MulInv

LEMMA MulLoadA ==
  ASSUME MulInv, NEW v \in Mul!Items, Mul!LoadA(v)
  PROVE  MulInv'
<1>1. /\ mulPc[v] = "a" /\ mulPc' = [mulPc EXCEPT ![v] = "b"]
      /\ As' = [As EXCEPT ![v[1]][v[2]] = Mul!ABase(v) + WA * v[2][2] + v[2][1]]
      /\ UNCHANGED <<Bs, tile, k, Csub, C>>
  BY DEF Mul!LoadA, Mul!At
<1>2. /\ As \in [Mul!Groups -> [Mul!Locals -> Int]] /\ mulPc \in [Mul!Items -> MulPcs]
      /\ tile \in [Mul!Items -> Nat]
  BY DEF MulInv, MulTypes
<1>3. /\ v[1] \in Mul!Groups /\ v[2] \in Mul!Locals /\ v = <<v[1], v[2]>>
      /\ v[1][2] \in Nat /\ v[2][1] \in Nat /\ v[2][2] \in Nat
  BY MulItem, MulSizes
<1>4. HasA(v, As'[v[1]][v[2]], tile[v])
  BY <1>1, <1>2, <1>3 DEF HasA, Mul!ABase
<1>5. As'[v[1]][v[2]] \in Int
  <2> PICK t : t = tile[v]
    OBVIOUS
  <2>1. t \in Nat /\ BLOCK_SIZE \in Nat /\ WA \in Nat
    BY <1>2, MulSizes
  <2>2. WA * BLOCK_SIZE * v[1][2] + t * BLOCK_SIZE + WA * v[2][2] + v[2][1] \in Int
    BY <2>1, <1>3
  <2>3. QED
    BY <2>2, <1>1, <1>2, <1>3 DEF Mul!ABase
<1>6. MulTypes'
  <2>1. As' \in [Mul!Groups -> [Mul!Locals -> Int]]
    BY <1>1, <1>2, <1>3, <1>5
  <2>2. mulPc' \in [Mul!Items -> MulPcs]
    BY <1>1, <1>2 DEF MulPcs
  <2>3. QED
    BY <2>1, <2>2, <1>1 DEF MulInv, MulTypes
<1>7. Together'
  <2>1. \A w \in Mul!Items : MulPhase(mulPc'[w]) = MulPhase(mulPc[w])
    BY <1>1, <1>2 DEF MulPhase
  <2>2. \A g \in Mul!Groups, t \in Mul!Locals : <<g, t>> \in Mul!Items
    BY DEF Mul!Items
  <2>3. QED
    BY <2>1, <2>2, <1>1 DEF MulInv, Together
<1>8. ASSUME NEW w \in Mul!Items PROVE DoneAt(w)'
  <2>1. CASE w = v
    <3>1. mulPc'[w] = "b" /\ HasA(w, As'[w[1]][w[2]], tile[w])
      BY <2>1, <1>1, <1>2, <1>4
    <3>2. DoneAt(w) /\ mulPc[w] = "a"
      BY <2>1, <1>1 DEF MulInv
    <3>3. QED
      BY <3>1, <3>2, <1>1 DEF DoneAt, ItemDone
  <2>2. CASE w # v
    <3>1. w[1] # v[1] \/ w[2] # v[2]
      BY <2>2, MulItem
    <3>2. w[1] \in Mul!Groups /\ w[2] \in Mul!Locals
      BY MulItem
    <3>3. As'[w[1]][w[2]] = As[w[1]][w[2]]
      BY <3>1, <3>2, <1>1, <1>2, <1>3
    <3>4. mulPc'[w] = mulPc[w]
      BY <2>2, <1>1, <1>2
    <3>5. QED
      BY <3>3, <3>4, <1>1, MulKeeps
  <2>3. QED
    BY <2>1, <2>2
<1>9. QED
  BY <1>6, <1>7, <1>8 DEF MulInv

LEMMA MulLoadB ==
  ASSUME MulInv, NEW v \in Mul!Items, Mul!LoadB(v)
  PROVE  MulInv'
<1>1. /\ mulPc[v] = "b" /\ mulPc' = [mulPc EXCEPT ![v] = "loaded"]
      /\ Bs' = [Bs EXCEPT ![v[1]][v[2]] = Mul!BBase(v) + WB * v[2][2] + v[2][1]]
      /\ UNCHANGED <<As, tile, k, Csub, C>>
  BY DEF Mul!LoadB, Mul!At
<1>2. /\ Bs \in [Mul!Groups -> [Mul!Locals -> Int]] /\ mulPc \in [Mul!Items -> MulPcs]
      /\ tile \in [Mul!Items -> Nat]
  BY DEF MulInv, MulTypes
<1>3. /\ v[1] \in Mul!Groups /\ v[2] \in Mul!Locals /\ v = <<v[1], v[2]>>
      /\ v[1][1] \in Nat /\ v[2][1] \in Nat /\ v[2][2] \in Nat
  BY MulItem, MulSizes
<1>4. HasB(v, Bs'[v[1]][v[2]], tile[v])
  BY <1>1, <1>2, <1>3 DEF HasB, Mul!BBase
<1>5. Bs'[v[1]][v[2]] \in Int
  <2> PICK t : t = tile[v]
    OBVIOUS
  <2>1. t \in Nat /\ BLOCK_SIZE \in Nat /\ WB \in Nat
    BY <1>2, MulSizes
  <2>2. BLOCK_SIZE * v[1][1] + t * BLOCK_SIZE * WB + WB * v[2][2] + v[2][1] \in Int
    BY <2>1, <1>3
  <2>3. QED
    BY <2>2, <1>1, <1>2, <1>3 DEF Mul!BBase
<1>6. MulTypes'
  <2>1. Bs' \in [Mul!Groups -> [Mul!Locals -> Int]]
    BY <1>1, <1>2, <1>3, <1>5
  <2>2. mulPc' \in [Mul!Items -> MulPcs]
    BY <1>1, <1>2 DEF MulPcs
  <2>3. QED
    BY <2>1, <2>2, <1>1 DEF MulInv, MulTypes
<1>7. Together'
  <2>1. \A w \in Mul!Items : MulPhase(mulPc'[w]) = MulPhase(mulPc[w])
    BY <1>1, <1>2 DEF MulPhase
  <2>2. \A g \in Mul!Groups, t \in Mul!Locals : <<g, t>> \in Mul!Items
    BY DEF Mul!Items
  <2>3. QED
    BY <2>1, <2>2, <1>1 DEF MulInv, Together
<1>8. ASSUME NEW w \in Mul!Items PROVE DoneAt(w)'
  <2>1. CASE w = v
    <3>1. mulPc'[w] = "loaded" /\ HasB(w, Bs'[w[1]][w[2]], tile[w])
      BY <2>1, <1>1, <1>2, <1>4
    <3>2. DoneAt(w) /\ mulPc[w] = "b"
      BY <2>1, <1>1 DEF MulInv
    <3>3. QED
      BY <3>1, <3>2, <1>1 DEF DoneAt, ItemDone
  <2>2. CASE w # v
    <3>1. w[1] # v[1] \/ w[2] # v[2]
      BY <2>2, MulItem
    <3>2. w[1] \in Mul!Groups /\ w[2] \in Mul!Locals
      BY MulItem
    <3>3. Bs'[w[1]][w[2]] = Bs[w[1]][w[2]]
      BY <3>1, <3>2, <1>1, <1>2, <1>3
    <3>4. mulPc'[w] = mulPc[w]
      BY <2>2, <1>1, <1>2
    <3>5. QED
      BY <3>3, <3>4, <1>1, MulKeeps
  <2>3. QED
    BY <2>1, <2>2
<1>9. QED
  BY <1>6, <1>7, <1>8 DEF MulInv

LEMMA MulBarrier ==
  ASSUME MulInv, NEW g \in Mul!Groups, NEW from, NEW to, Mul!Barrier(g, from, to),
         to \in MulPcs
  PROVE  /\ mulPc' \in [Mul!Items -> MulPcs] /\ k' \in [Mul!Items -> Nat]
         /\ \A w \in Mul!Items :
              IF w[1] = g THEN mulPc[w] = from /\ mulPc'[w] = to /\ k'[w] = 0
              ELSE mulPc'[w] = mulPc[w] /\ k'[w] = k[w]
<1>1. mulPc \in [Mul!Items -> MulPcs] /\ k \in [Mul!Items -> Nat]
  BY DEF MulInv, MulTypes
<1>2. ASSUME NEW w \in Mul!Items, w[1] = g PROVE mulPc[w] = from
  BY <1>2, MulItem DEF Mul!Barrier
<1>3. /\ mulPc' = [i_1 \in Mul!Items |-> IF i_1[1] = g THEN to ELSE mulPc[i_1]]
      /\ k' = [i_1 \in Mul!Items |-> IF i_1[1] = g THEN 0 ELSE k[i_1]]
  BY DEF Mul!Barrier
<1>4. QED
  BY <1>1, <1>2, <1>3

LEMMA MulLoaded ==
  ASSUME MulInv, NEW g \in Mul!Groups, Mul!Loaded(g)
  PROVE  MulInv'
<1>1. Mul!Barrier(g, "loaded", "add") /\ UNCHANGED <<As, Bs, tile, Csub, C>>
  BY DEF Mul!Loaded
<1>2. /\ mulPc' \in [Mul!Items -> MulPcs] /\ k' \in [Mul!Items -> Nat]
      /\ \A w \in Mul!Items :
           IF w[1] = g THEN mulPc[w] = "loaded" /\ mulPc'[w] = "add" /\ k'[w] = 0
           ELSE mulPc'[w] = mulPc[w] /\ k'[w] = k[w]
  BY <1>1, MulBarrier DEF MulPcs
<1>3. MulTypes'
  BY <1>1, <1>2 DEF MulInv, MulTypes
<1>4. Together'
  <2> SUFFICES ASSUME NEW h \in Mul!Groups, NEW t \in Mul!Locals, NEW u \in Mul!Locals
               PROVE  /\ tile'[<<h, t>>] = tile'[<<h, u>>]
                      /\ MulPhase(mulPc'[<<h, t>>]) = MulPhase(mulPc'[<<h, u>>])
    BY DEF Together
  <2>1. <<h, t>> \in Mul!Items /\ <<h, u>> \in Mul!Items
    BY DEF Mul!Items
  <2>2. tile[<<h, t>>] = tile[<<h, u>>]
        /\ MulPhase(mulPc[<<h, t>>]) = MulPhase(mulPc[<<h, u>>])
    BY DEF MulInv, Together
  <2>3. QED
    BY <2>1, <2>2, <1>1, <1>2
<1>5. ASSUME NEW w \in Mul!Items PROVE DoneAt(w)'
  <2>1. CASE w[1] = g
    <3>1. DoneAt(w) /\ mulPc[w] = "loaded" /\ mulPc'[w] = "add" /\ k'[w] = 0
      BY <2>1, <1>2 DEF MulInv
    <3>2. 0 < BLOCK_SIZE
      BY MulSizes
    <3>3. QED
      BY <3>1, <3>2, <1>1 DEF DoneAt, ItemDone
  <2>2. CASE w[1] # g
    BY <2>2, <1>1, <1>2, MulKeeps
  <2>3. QED
    BY <2>1, <2>2
<1>6. QED
  BY <1>3, <1>4, <1>5 DEF MulInv

LEMMA MulAdded ==
  ASSUME MulInv, NEW g \in Mul!Groups, Mul!Added(g)
  PROVE  MulInv'
<1>1. PICK t \in Mul!Locals : t = CHOOSE t_1 \in Mul!Locals : TRUE
  <2>1. <<0, 0>> \in Mul!Locals
    BY MulSizes DEF Mul!Locals, Mul!Side
  <2>2. QED
    BY <2>1
<1>2. PICK to : to = IF (tile[<<g, t>>] + 1) * BLOCK_SIZE < WA THEN "a" ELSE "store"
  OBVIOUS
<1>3. /\ Mul!Barrier(g, "added", to) /\ UNCHANGED <<As, Bs, Csub, C>>
      /\ tile' = [w \in Mul!Items |-> IF w[1] = g THEN tile[w] + 1 ELSE tile[w]]
  BY <1>1, <1>2 DEF Mul!Added
<1>4. /\ mulPc' \in [Mul!Items -> MulPcs] /\ k' \in [Mul!Items -> Nat]
      /\ \A w \in Mul!Items :
           IF w[1] = g THEN mulPc[w] = "added" /\ mulPc'[w] = to /\ k'[w] = 0
           ELSE mulPc'[w] = mulPc[w] /\ k'[w] = k[w]
  BY <1>2, <1>3, MulBarrier DEF MulPcs
<1>5. tile \in [Mul!Items -> Nat]
  BY DEF MulInv, MulTypes
<1>6. MulTypes'
  <2>1. tile' \in [Mul!Items -> Nat]
    BY <1>3, <1>5
  <2>2. QED
    BY <2>1, <1>3, <1>4 DEF MulInv, MulTypes
<1>7. Together'
  <2> SUFFICES ASSUME NEW h \in Mul!Groups, NEW x \in Mul!Locals, NEW u \in Mul!Locals
               PROVE  /\ tile'[<<h, x>>] = tile'[<<h, u>>]
                      /\ MulPhase(mulPc'[<<h, x>>]) = MulPhase(mulPc'[<<h, u>>])
    BY DEF Together
  <2>1. <<h, x>> \in Mul!Items /\ <<h, u>> \in Mul!Items
    BY DEF Mul!Items
  <2>2. tile[<<h, x>>] = tile[<<h, u>>]
        /\ MulPhase(mulPc[<<h, x>>]) = MulPhase(mulPc[<<h, u>>])
    BY DEF MulInv, Together
  <2>3. tile'[<<h, x>>] = tile'[<<h, u>>]
    BY <2>1, <2>2, <1>3
  <2>4. MulPhase(mulPc'[<<h, x>>]) = MulPhase(mulPc'[<<h, u>>])
    BY <2>1, <2>2, <1>4
  <2>5. QED
    BY <2>3, <2>4
<1>8. ASSUME NEW w \in Mul!Items PROVE DoneAt(w)'
  <2>1. CASE w[1] = g
    <3>1. DoneAt(w) /\ mulPc[w] = "added" /\ mulPc'[w] = to /\ tile'[w] = tile[w] + 1
      BY <2>1, <1>3, <1>4 DEF MulInv
    <3>2. tile[w] = tile[<<g, t>>]
      BY <2>1, MulItem DEF MulInv, Together
    <3>3. PICK x \in Nat : x = tile[w]
      BY <1>5
    <3>4. (x + 1) * BLOCK_SIZE <= WA
          /\ IsSum(Csub[w], RowOf(w), ColOf(w), x * BLOCK_SIZE + BLOCK_SIZE)
      BY <3>1, <3>3 DEF DoneAt, ItemDone
    <3>5. (x + 1) * BLOCK_SIZE + 0 = x * BLOCK_SIZE + BLOCK_SIZE
          /\ (x + 1) * BLOCK_SIZE = x * BLOCK_SIZE + BLOCK_SIZE
      BY MulSizes
    <3>6. CASE (x + 1) * BLOCK_SIZE < WA
      <4>1. to = "a"
        BY <3>6, <3>2, <3>3, <1>2
      <4>2. ((x + 1) + 1) * BLOCK_SIZE <= WA
        <5>1. PICK q \in Nat : q * BLOCK_SIZE = WA
          BY MulSizes
        <5>2. x + 1 < q
          <6>1. CASE q <= x + 1
            <7>1. PICK d \in Nat : x + 1 = q + d
              BY <6>1
            <7>2. (x + 1) * BLOCK_SIZE = q * BLOCK_SIZE + d * BLOCK_SIZE
                  /\ d * BLOCK_SIZE \in Nat /\ q * BLOCK_SIZE \in Nat
              BY <7>1, MulSizes
            <7>3. QED
              BY <7>2, <5>1, <3>6
          <6>2. QED
            BY <6>1
        <5>3. PICK d \in Nat : q = ((x + 1) + 1) + d
          BY <5>2
        <5>4. q * BLOCK_SIZE = ((x + 1) + 1) * BLOCK_SIZE + d * BLOCK_SIZE
              /\ d * BLOCK_SIZE \in Nat /\ ((x + 1) + 1) * BLOCK_SIZE \in Nat
          BY <5>3, MulSizes
        <5>5. QED
          BY <5>1, <5>4
      <4>3. QED
        BY <4>1, <4>2, <3>1, <3>3, <3>4, <3>5, <1>3 DEF DoneAt, ItemDone
    <3>7. CASE ~((x + 1) * BLOCK_SIZE < WA)
      <4>1. to = "store"
        BY <3>7, <3>2, <3>3, <1>2
      <4>2. (x + 1) * BLOCK_SIZE = WA
        BY <3>4, <3>7, <3>5, MulSizes
      <4>3. QED
        BY <4>1, <4>2, <3>1, <3>3, <3>4, <3>5, <1>3 DEF DoneAt, ItemDone
    <3>8. QED
      BY <3>6, <3>7
  <2>2. CASE w[1] # g
    <3>1. tile'[w] = tile[w]
      BY <2>2, <1>3
    <3>2. QED
      BY <2>2, <3>1, <1>3, <1>4, MulKeeps
  <2>3. QED
    BY <2>1, <2>2
<1>9. QED
  BY <1>6, <1>7, <1>8 DEF MulInv

\* A sum with one product more.
LEMMA MulOneMore ==
  ASSUME NEW s \in Seq(Int \X Int), NEW r \in Nat, NEW c \in Nat, NEW len \in Nat,
         IsSum(s, r, c, len), NEW e, e = <<r * WA + len, len * WB + c>>
  PROVE  IsSum(Append(s, e), r, c, len + 1) /\ Append(s, e) \in Seq(Int \X Int)
<1>1. e \in Int \X Int
  BY MulSizes
<1>2. Len(s) = len
  BY DEF IsSum
<1>3. /\ Append(s, e) \in Seq(Int \X Int) /\ Len(Append(s, e)) = len + 1
      /\ \A x \in 1..len : Append(s, e)[x] = s[x]
      /\ Append(s, e)[len + 1] = e
  BY <1>1, <1>2, AppendProperties
<1>4. ASSUME NEW x \in 1..(len + 1)
      PROVE  Append(s, e)[x] = <<r * WA + x - 1, (x - 1) * WB + c>>
  <2>1. CASE x = len + 1
    <3>1. r * WA + x - 1 = r * WA + len /\ x - 1 = len
      BY <2>1, MulSizes
    <3>2. QED
      BY <2>1, <3>1, <1>3
  <2>2. CASE x # len + 1
    <3>1. x \in 1..len
      BY <2>2
    <3>2. QED
      BY <3>1, <1>3 DEF IsSum
  <2>3. QED
    BY <2>1, <2>2
<1>5. QED
  BY <1>3, <1>4 DEF IsSum

LEMMA MulAdd ==
  ASSUME MulInv, NEW v \in Mul!Items, Mul!Add(v)
  PROVE  MulInv'
<1> DEFINE e == <<As[v[1]][<<k[v], v[2][2]>>], Bs[v[1]][<<v[2][1], k[v]>>]>>
<1>1. PICK to : to = IF k[v] + 1 = BLOCK_SIZE THEN "added" ELSE "add"
  OBVIOUS
<1>2. /\ mulPc[v] = "add" /\ mulPc' = [mulPc EXCEPT ![v] = to]
      /\ k' = [k EXCEPT ![v] = k[v] + 1] /\ Csub' = [Csub EXCEPT ![v] = Append(Csub[v], e)]
      /\ UNCHANGED <<As, Bs, tile, C>>
  BY <1>1 DEF Mul!Add, Mul!At
<1>3. /\ mulPc \in [Mul!Items -> MulPcs]
      /\ tile \in [Mul!Items -> Nat] /\ k \in [Mul!Items -> Nat]
      /\ Csub \in [Mul!Items -> Seq(Int \X Int)]
  BY DEF MulInv, MulTypes
<1>4. /\ v[1] \in Mul!Groups /\ v[2] \in Mul!Locals /\ v = <<v[1], v[2]>>
      /\ v[1][1] \in Nat /\ v[1][2] \in Nat
      /\ v[2][1] \in 0..(BLOCK_SIZE - 1) /\ v[2][2] \in 0..(BLOCK_SIZE - 1)
      /\ RowOf(v) \in Nat /\ ColOf(v) \in Nat
  BY MulItem, MulSizes
<1>5. PICK x \in Nat, kk \in Nat : x = tile[v] /\ kk = k[v]
  BY <1>3
<1>6. DoneAt(v)
  BY DEF MulInv
<1>7. /\ kk < BLOCK_SIZE /\ (x + 1) * BLOCK_SIZE <= WA
      /\ IsSum(Csub[v], RowOf(v), ColOf(v), x * BLOCK_SIZE + kk)
  BY <1>2, <1>5, <1>6 DEF DoneAt, ItemDone
<1>8. ASSUME NEW u \in Mul!Locals
      PROVE  /\ HasA(<<v[1], u>>, As[v[1]][u], x) /\ HasB(<<v[1], u>>, Bs[v[1]][u], x)
  <2>1. <<v[1], u>> \in Mul!Items
    BY <1>4 DEF Mul!Items
  <2>2. tile[<<v[1], u>>] = x /\ MulPhase(mulPc[<<v[1], u>>]) = MulPhase("add")
    BY <1>2, <1>4, <1>5 DEF MulInv, Together
  <2>3. mulPc[<<v[1], u>>] \in {"add", "added"}
    BY <2>1, <2>2, <1>3 DEF MulPhase, MulPcs
  <2>4. DoneAt(<<v[1], u>>)
    BY <2>1 DEF MulInv
  <2>5. QED
    BY <2>2, <2>3, <2>4 DEF DoneAt, ItemDone
<1>9. <<kk, v[2][2]>> \in Mul!Locals /\ <<v[2][1], kk>> \in Mul!Locals
  BY <1>4, <1>7, MulSizes DEF Mul!Locals, Mul!Side
<1>10. e = <<RowOf(v) * WA + (x * BLOCK_SIZE + kk), (x * BLOCK_SIZE + kk) * WB + ColOf(v)>>
  <2>1. PICK gx, gy, tx, ty : gx = v[1][1] /\ gy = v[1][2] /\ tx = v[2][1] /\ ty = v[2][2]
    OBVIOUS
  <2>2. gx \in Nat /\ gy \in Nat /\ tx \in Nat /\ ty \in Nat
    BY <2>1, <1>4, MulSizes
  <2>3. HasA(<<v[1], <<kk, ty>>>>, e[1], x) /\ HasB(<<v[1], <<tx, kk>>>>, e[2], x)
    BY <2>1, <1>5, <1>8, <1>9
  <2>4. /\ e[1] = WA * BLOCK_SIZE * gy + x * BLOCK_SIZE + WA * ty + kk
        /\ e[2] = BLOCK_SIZE * gx + x * BLOCK_SIZE * WB + WB * kk + tx
    BY <2>1, <2>3 DEF HasA, HasB
  <2>5. WA * BLOCK_SIZE * gy + x * BLOCK_SIZE + WA * ty + kk
        = (gy * BLOCK_SIZE + ty) * WA + (x * BLOCK_SIZE + kk)
    BY <2>2, MulSizes
  <2>6. BLOCK_SIZE * gx + x * BLOCK_SIZE * WB + WB * kk + tx
        = (x * BLOCK_SIZE + kk) * WB + (gx * BLOCK_SIZE + tx)
    BY <2>2, MulSizes
  <2>7. RowOf(v) = gy * BLOCK_SIZE + ty /\ ColOf(v) = gx * BLOCK_SIZE + tx
    BY <2>1 DEF RowOf, ColOf
  <2>8. e = <<e[1], e[2]>>
    OBVIOUS
  <2>9. QED
    BY <2>4, <2>5, <2>6, <2>7, <2>8
<1> HIDE DEF e
<1>11. /\ IsSum(Append(Csub[v], e), RowOf(v), ColOf(v), (x * BLOCK_SIZE + kk) + 1)
       /\ Append(Csub[v], e) \in Seq(Int \X Int)
  <2>1. x * BLOCK_SIZE + kk \in Nat
    BY MulSizes
  <2>2. Csub[v] \in Seq(Int \X Int)
    BY <1>3
  <2>3. QED
    BY <2>1, <2>2, <1>4, <1>7, <1>10, MulOneMore
<1>12. MulTypes'
  <2>1. mulPc' \in [Mul!Items -> MulPcs]
    BY <1>1, <1>2, <1>3 DEF MulPcs
  <2>2. k' \in [Mul!Items -> Nat]
    BY <1>2, <1>3
  <2>3. Csub' \in [Mul!Items -> Seq(Int \X Int)]
    BY <1>2, <1>3, <1>11
  <2>4. QED
    BY <2>1, <2>2, <2>3, <1>2 DEF MulInv, MulTypes
<1>13. Together'
  <2>1. \A w \in Mul!Items : MulPhase(mulPc'[w]) = MulPhase(mulPc[w])
    BY <1>1, <1>2, <1>3 DEF MulPhase
  <2>2. \A g \in Mul!Groups, t \in Mul!Locals : <<g, t>> \in Mul!Items
    BY DEF Mul!Items
  <2>3. QED
    BY <2>1, <2>2, <1>2 DEF MulInv, Together
<1>14. ASSUME NEW w \in Mul!Items PROVE DoneAt(w)'
  <2>1. CASE w = v
    <3>1. /\ mulPc'[v] = to /\ k'[v] = kk + 1 /\ Csub'[v] = Append(Csub[v], e)
      BY <1>2, <1>3, <1>5
    <3>2. kk + 1 <= BLOCK_SIZE /\ (to = "added" => kk + 1 = BLOCK_SIZE)
          /\ (to = "add" => kk + 1 < BLOCK_SIZE) /\ to \in {"add", "added"}
      BY <1>1, <1>5, <1>7, MulSizes
    <3>3. x * BLOCK_SIZE + (kk + 1) = (x * BLOCK_SIZE + kk) + 1
      BY MulSizes
    <3>4. QED
      BY <2>1, <3>1, <3>2, <3>3, <1>2, <1>5, <1>6, <1>11 DEF DoneAt, ItemDone
  <2>2. CASE w # v
    BY <2>2, <1>2, <1>3, MulKeeps
  <2>3. QED
    BY <2>1, <2>2
<1>15. QED
  BY <1>12, <1>13, <1>14 DEF MulInv

LEMMA MulStore ==
  ASSUME MulInv, NEW v \in Mul!Items, Mul!Store(v)
  PROVE  MulInv'
<1>1. PlaceOf(v) = Mul!GlobalId(v, 2) * WB + Mul!GlobalId(v, 1)
  BY DEF PlaceOf, RowOf, ColOf, Mul!GlobalId
<1>2. /\ mulPc[v] = "store" /\ mulPc' = [mulPc EXCEPT ![v] = "done"]
      /\ C' = [C EXCEPT ![PlaceOf(v)] = Csub[v]] /\ UNCHANGED <<As, Bs, tile, k, Csub>>
  BY <1>1 DEF Mul!Store, Mul!At
<1>3. /\ mulPc \in [Mul!Items -> MulPcs] /\ Csub \in [Mul!Items -> Seq(Int \X Int)]
      /\ C \in [0..(WB * HA - 1) -> Seq(Int \X Int)]
  BY DEF MulInv, MulTypes
<1>4. MulTypes'
  <2>1. mulPc' \in [Mul!Items -> MulPcs]
    BY <1>2, <1>3 DEF MulPcs
  <2>2. C' \in [0..(WB * HA - 1) -> Seq(Int \X Int)]
    BY <1>2, <1>3
  <2>3. QED
    BY <2>1, <2>2, <1>2 DEF MulInv, MulTypes
<1>5. Together'
  <2>1. \A w \in Mul!Items : MulPhase(mulPc'[w]) = MulPhase(mulPc[w])
    BY <1>2, <1>3 DEF MulPhase
  <2>2. \A g \in Mul!Groups, t \in Mul!Locals : <<g, t>> \in Mul!Items
    BY DEF Mul!Items
  <2>3. QED
    BY <2>1, <2>2, <1>2 DEF MulInv, Together
<1>6. ASSUME NEW w \in Mul!Items PROVE DoneAt(w)'
  <2>1. PlaceOf(w) \in 0..(WB * HA - 1)
    BY MulItem
  <2>2. CASE w = v
    <3>1. mulPc'[v] = "done" /\ C'[PlaceOf(v)] = Csub[v]
      BY <2>1, <2>2, <1>2, <1>3
    <3>2. DoneAt(v)
      BY DEF MulInv
    <3>3. QED
      BY <2>2, <3>1, <3>2, <1>2 DEF DoneAt, ItemDone
  <2>3. CASE w # v
    <3>1. C'[PlaceOf(w)] = C[PlaceOf(w)]
      BY <2>1, <2>3, <1>2, <1>3, MulOnePlace
    <3>2. QED
      BY <2>3, <3>1, <1>2, <1>3, MulKeeps
  <2>4. QED
    BY <2>2, <2>3
<1>7. QED
  BY <1>4, <1>5, <1>6 DEF MulInv

LEMMA MulStep == MulInv /\ [Mul!Next]_product => MulInv'
<1> SUFFICES ASSUME MulInv, [Mul!Next]_product PROVE MulInv'
  OBVIOUS
<1>1. CASE UNCHANGED product
  BY <1>1 DEF product, MulInv, MulTypes, Together, DoneAt
<1>2. CASE \E w \in Mul!Items : Mul!LoadA(w) \/ Mul!LoadB(w) \/ Mul!Add(w) \/ Mul!Store(w)
  BY <1>2, MulLoadA, MulLoadB, MulAdd, MulStore
<1>3. CASE \E g \in Mul!Groups : Mul!Loaded(g) \/ Mul!Added(g)
  BY <1>3, MulLoaded, MulAdded
<1>4. QED
  BY <1>1, <1>2, <1>3 DEF Mul!Next

\* A work-item's sum is no longer than a row of A.
LEMMA MulSumBounded ==
  ASSUME MulInv, NEW w \in Mul!Items
  PROVE  \E len \in 0..WA :
           /\ IsSum(Csub[w], RowOf(w), ColOf(w), len)
           /\ mulPc[w] \in {"store", "done"} => len = WA
<1>1. DoneAt(w)
  BY DEF MulInv
<1>2. PICK x \in Nat, kk \in Nat : x = tile[w] /\ kk = k[w]
  BY DEF MulInv, MulTypes
<1>3. PICK len : len = x * BLOCK_SIZE + (IF mulPc[w] \in {"add", "added"} THEN kk ELSE 0)
  OBVIOUS
<1>4. IsSum(Csub[w], RowOf(w), ColOf(w), len)
  BY <1>1, <1>2, <1>3 DEF DoneAt, ItemDone
<1>5. mulPc[w] \in MulPcs
  BY DEF MulInv, MulTypes
<1>6. x * BLOCK_SIZE \in Nat /\ (x + 1) * BLOCK_SIZE = x * BLOCK_SIZE + BLOCK_SIZE
  BY MulSizes
<1>7. CASE mulPc[w] \in {"store", "done"}
  <2>1. len = WA
    BY <1>1, <1>2, <1>3, <1>6, <1>7 DEF DoneAt, ItemDone
  <2>2. QED
    BY <2>1, <1>4, MulSizes
<1>8. CASE mulPc[w] \notin {"store", "done"}
  <2>1. x * BLOCK_SIZE + BLOCK_SIZE <= WA
    BY <1>1, <1>2, <1>5, <1>6, <1>8 DEF DoneAt, ItemDone, MulPcs
  <2>2. mulPc[w] \in {"add", "added"} => kk <= BLOCK_SIZE
    BY <1>1, <1>2, MulSizes DEF DoneAt, ItemDone
  <2>3. len \in 0..WA
    BY <2>1, <2>2, <1>3, <1>6, MulSizes
  <2>4. QED
    BY <2>3, <1>4, <1>8
<1>9. QED
  BY <1>7, <1>8

LEMMA MulReference ==
  ASSUME MulInv, NEW w \in Mul!Items
  PROVE  /\ PlaceOf(w) = Mul!GlobalId(w, 2) * WB + Mul!GlobalId(w, 1)
         /\ Mul!computeGold[PlaceOf(w)]
              = [x \in 1..WA |-> <<RowOf(w) * WA + x - 1, (x - 1) * WB + ColOf(w)>>]
<1>1. PlaceOf(w) = Mul!GlobalId(w, 2) * WB + Mul!GlobalId(w, 1)
  BY DEF PlaceOf, RowOf, ColOf, Mul!GlobalId
<1>2. PICK p : p = PlaceOf(w)
  OBVIOUS
<1>3. p \in DOMAIN C /\ p \div WB = RowOf(w) /\ p % WB = ColOf(w)
  BY <1>2, MulItem DEF MulInv, MulTypes
<1>4. Mul!computeGold[p]
        = [x \in 1..WA |-> <<(p \div WB) * WA + x - 1, (x - 1) * WB + (p % WB)>>]
  BY <1>3 DEF Mul!computeGold
<1>5. QED
  BY <1>1, <1>2, <1>3, <1>4

LEMMA MulShared ==
  ASSUME MulInv
  PROVE  Mul!TypeOK /\ Mul!SumsFollowReference
<1>1. ASSUME NEW w \in Mul!Items
      PROVE  mulPc[w] \in MulPcs /\ tile[w] \in 0..(WA \div BLOCK_SIZE)
  <2>1. DoneAt(w) /\ mulPc[w] \in MulPcs
    BY DEF MulInv, MulTypes
  <2>2. PICK x \in Nat : x = tile[w]
    BY DEF MulInv, MulTypes
  <2>3. x * BLOCK_SIZE <= WA
    <3>1. (x + 1) * BLOCK_SIZE = x * BLOCK_SIZE + BLOCK_SIZE /\ x * BLOCK_SIZE \in Nat
      BY MulSizes
    <3>2. QED
      BY <2>1, <2>2, <3>1, MulSizes DEF DoneAt, ItemDone, MulPcs
  <2>4. PICK q \in Nat : q = WA \div BLOCK_SIZE /\ q * BLOCK_SIZE = WA
    BY MulSizes
  <2>5. x <= q
    <3>1. CASE q < x
      <4>1. PICK d \in Nat : x = q + 1 + d
        BY <3>1
      <4>2. x * BLOCK_SIZE = q * BLOCK_SIZE + BLOCK_SIZE + d * BLOCK_SIZE
            /\ d * BLOCK_SIZE \in Nat /\ q * BLOCK_SIZE \in Nat
        BY <4>1, MulSizes
      <4>3. QED
        BY <4>2, <2>3, <2>4, MulSizes
    <3>2. QED
      BY <3>1
  <2>6. QED
    BY <2>1, <2>2, <2>4, <2>5
<1>2. ASSUME NEW v \in Mul!Items, NEW w \in Mul!Items, v[1] = w[1] PROVE tile[v] = tile[w]
  BY <1>2, MulItem DEF MulInv, Together
<1>3. ASSUME NEW w \in Mul!Items
      PROVE  Mul!IsPrefix(Csub[w], Mul!computeGold[Mul!GlobalId(w, 2) * WB + Mul!GlobalId(w, 1)])
  <2>1. PICK len \in 0..WA : IsSum(Csub[w], RowOf(w), ColOf(w), len)
    BY MulSumBounded
  <2>2. PICK s, gold : s = Csub[w] /\ gold = Mul!computeGold[PlaceOf(w)]
    OBVIOUS
  <2>3. s \in Seq(Int \X Int) /\ Len(s) = len
        /\ \A x \in 1..len : s[x] = <<RowOf(w) * WA + x - 1, (x - 1) * WB + ColOf(w)>>
    BY <2>1, <2>2 DEF IsSum, MulInv, MulTypes
  <2>4. gold = [x \in 1..WA |-> <<RowOf(w) * WA + x - 1, (x - 1) * WB + ColOf(w)>>]
    BY <2>2, MulReference
  <2>5. WA \in Nat /\ RowOf(w) \in Nat /\ ColOf(w) \in Nat /\ WB \in Nat
    BY MulItem, MulSizes
  <2>6. \A x \in 1..WA : <<RowOf(w) * WA + x - 1, (x - 1) * WB + ColOf(w)>> \in Int \X Int
    BY <2>5
  <2>7. gold \in Seq(Int \X Int) /\ Len(gold) = WA
    <3>1. gold \in [1..WA -> Int \X Int]
      BY <2>4, <2>6
    <3>2. QED
      BY <3>1, <2>5
  <2>8. SubSeq(s, 1, len) = SubSeq(gold, 1, len)
    BY <2>1, <2>3, <2>4, <2>5, <2>7
  <2>9. Mul!IsPrefix(s, gold)
    BY <2>1, <2>3, <2>7, <2>8 DEF Mul!IsPrefix
  <2>10. QED
    BY <2>2, <2>9, MulReference
<1>4. QED
  BY <1>1, <1>2, <1>3 DEF Mul!TypeOK, Mul!SumsFollowReference, MulPcs

LEMMA MulComplete == MulInv => Mul!MatchesReference
<1> SUFFICES ASSUME MulInv, \A w \in Mul!Items : mulPc[w] = "done"
             PROVE  C = Mul!computeGold
  BY DEF Mul!MatchesReference
<1>1. DOMAIN C = 0..(WB * HA - 1) /\ C = [p \in DOMAIN C |-> C[p]]
  BY DEF MulInv, MulTypes
<1>2. ASSUME NEW p \in 0..(WB * HA - 1) PROVE C[p] = Mul!computeGold[p]
  <2>1. PICK r \in Nat, c \in 0..(WB - 1) : p = r * WB + c
    <3>1. p = (p \div WB) * WB + (p % WB) /\ p \div WB \in Nat /\ p % WB \in 0..(WB - 1)
      BY MulSizes
    <3>2. QED
      BY <3>1
  <2>2. r < HA
    <3>1. CASE HA <= r
      <4>1. PICK d \in Nat : r = HA + d
        BY <3>1, MulSizes
      <4>2. r * WB = HA * WB + d * WB /\ d * WB \in Nat /\ HA * WB = WB * HA
        BY <4>1, MulSizes
      <4>3. QED
        BY <4>2, <2>1, MulSizes
    <3>2. QED
      BY <3>1, MulSizes
  <2>3. ASSUME NEW x \in Nat, NEW z \in Nat, x < z, NEW q \in Nat, q * BLOCK_SIZE = z
        PROVE  \E y \in 0..(q - 1), t \in 0..(BLOCK_SIZE - 1) : x = y * BLOCK_SIZE + t
    <3>1. x = (x \div BLOCK_SIZE) * BLOCK_SIZE + (x % BLOCK_SIZE) /\ x \div BLOCK_SIZE \in Nat
          /\ x % BLOCK_SIZE \in 0..(BLOCK_SIZE - 1)
      BY MulSizes
    <3>2. PICK y \in Nat, t \in 0..(BLOCK_SIZE - 1) : x = y * BLOCK_SIZE + t
      BY <3>1
    <3>3. y < q
      <4>1. CASE q <= y
        <5>1. PICK d \in Nat : y = q + d
          BY <4>1
        <5>2. y * BLOCK_SIZE = q * BLOCK_SIZE + d * BLOCK_SIZE /\ d * BLOCK_SIZE \in Nat
          BY <5>1, MulSizes
        <5>3. QED
          BY <5>2, <3>2, <2>3, MulSizes
      <4>2. QED
        BY <4>1
    <3>4. QED
      BY <3>2, <3>3
  <2>4. PICK gy \in 0..((HA \div BLOCK_SIZE) - 1), ty \in 0..(BLOCK_SIZE - 1) :
          r = gy * BLOCK_SIZE + ty
    <3>1. PICK q \in Nat : q = HA \div BLOCK_SIZE /\ q * BLOCK_SIZE = HA
      BY MulSizes
    <3>2. HA \in Nat
      BY MulSizes
    <3>3. \E y \in 0..(q - 1), t \in 0..(BLOCK_SIZE - 1) : r = y * BLOCK_SIZE + t
      BY <2>2, <2>3, <3>1, <3>2
    <3>4. QED
      BY <3>1, <3>3
  <2>5. PICK gx \in 0..((WB \div BLOCK_SIZE) - 1), tx \in 0..(BLOCK_SIZE - 1) :
          c = gx * BLOCK_SIZE + tx
    <3>1. c \in Nat /\ c < WB
      BY MulSizes
    <3>2. PICK q \in Nat : q = WB \div BLOCK_SIZE /\ q * BLOCK_SIZE = WB
      BY MulSizes
    <3>3. WB \in Nat
      BY MulSizes
    <3>4. \E y \in 0..(q - 1), t \in 0..(BLOCK_SIZE - 1) : c = y * BLOCK_SIZE + t
      BY <2>3, <3>1, <3>2, <3>3
    <3>5. QED
      BY <3>2, <3>4
  <2>6. PICK w : w = <<<<gx, gy>>, <<tx, ty>>>>
    OBVIOUS
  <2>7. w \in Mul!Items
    BY <2>6 DEF Mul!Items, Mul!Groups, Mul!Locals, Mul!Side
  <2>8. RowOf(w) = r /\ ColOf(w) = c /\ PlaceOf(w) = p
    BY <2>1, <2>4, <2>5, <2>6 DEF RowOf, ColOf, PlaceOf
  <2>9. mulPc[w] = "done" /\ DoneAt(w)
    BY <2>7 DEF MulInv
  <2>10. C[p] = Csub[w]
    BY <2>8, <2>9 DEF DoneAt, ItemDone
  <2>11. IsSum(Csub[w], r, c, WA)
    BY <2>7, <2>8, <2>9, MulSumBounded
  <2>12. Csub[w] \in Seq(Int \X Int)
    BY <2>7 DEF MulInv, MulTypes
  <2>13. PICK s : s = Csub[w]
    OBVIOUS
  <2>14. s = [x \in 1..WA |-> <<r * WA + x - 1, (x - 1) * WB + c>>]
    <3>1. s \in Seq(Int \X Int) /\ Len(s) = WA
          /\ \A x \in 1..WA : s[x] = <<r * WA + x - 1, (x - 1) * WB + c>>
      BY <2>11, <2>12, <2>13 DEF IsSum
    <3>2. s = [x \in 1..Len(s) |-> s[x]]
      BY <3>1
    <3>3. QED
      BY <3>1, <3>2
  <2>15. QED
    BY <2>7, <2>8, <2>10, <2>13, <2>14, MulReference
<1>3. Mul!computeGold = [p \in DOMAIN C |-> Mul!computeGold[p]]
  BY DEF Mul!computeGold
<1>4. QED
  BY <1>1, <1>2, <1>3
-------------------------------------------------------------------------------
(* The bodies.                                                             *)

Buffers    == {"d_in_pos", "d_in_vel", "d_out_pos", "d_out_vel"}
BodyPcs    == {"idle", "load", "loaded", "add", "added", "store", "done"}
BodyPhase(p) == IF p \in {"load", "loaded"} THEN 1 ELSE IF p \in {"add", "added"} THEN 2 ELSE 3
BodyStates == [step : Int, vel : Int, acc : SUBSET (Nbody!Bodies \X Int)]

ArgsIn  == [pos |-> "d_in_pos", vel |-> "d_in_vel",
            newPosition |-> "d_out_pos", newVelocity |-> "d_out_vel"]
ArgsOut == [pos |-> "d_out_pos", vel |-> "d_out_vel",
            newPosition |-> "d_in_pos", newVelocity |-> "d_in_vel"]

BodyTypes ==
  /\ host \in {"launch", "finish", "exchange", "read", "done"}
  /\ iterations \in Nat /\ launch \in Nat /\ exchange \in BOOLEAN
  /\ mem \in [Buffers -> [Nbody!Bodies -> BodyStates]]
  /\ localPos \in [Nbody!Groups -> [Nbody!Locals -> Int]]
  /\ bodyPc \in [Nbody!Items -> BodyPcs] /\ bodyTile \in [Nbody!Items -> Nat]
  /\ body \in [Nbody!Items -> 0..localSize]
  /\ acc \in [Nbody!Items -> SUBSET (Nbody!Bodies \X Int)]

\* The work-items of a group use the same tile, between the same barriers.
BodyTogether ==
  \A g \in Nbody!Groups, t, u \in Nbody!Locals :
    /\ bodyTile[<<g, t>>] = bodyTile[<<g, u>>]
    /\ BodyPhase(bodyPc[<<g, t>>]) = BodyPhase(bodyPc[<<g, u>>])

\* The system after x steps, and a step before.
Now(x)    == Nbody!All(Nbody!After(x))
Before(x) == Nbody!All(IF x = 0 THEN Nbody!Unset ELSE Nbody!After(x - 1))

\* What the buffers hold when h is next, with x launches behind it.
BuffersHold(h, x, p, v, np, nv) ==
  /\ h \in {"launch", "finish", "exchange", "read", "done"} => p = Now(x) /\ v = Now(x)
  /\ h \in {"launch", "read", "done"} => np = Before(x) /\ nv = Before(x)
  /\ h = "exchange" => np = Now(x + 1) /\ nv = Now(x + 1)

HostInv ==
  /\ args = IF exchange THEN ArgsIn ELSE ArgsOut
  /\ exchange <=> launch % 2 = 0
  /\ host \in {"launch", "finish", "exchange"} => launch < iterations
  /\ host \in {"read", "done"} => launch = iterations
  /\ iterations >= 1
  /\ BuffersHold(host, launch, mem[args.pos], mem[args.vel],
                 mem[args.newPosition], mem[args.newVelocity])
  /\ host = "done" => result = [pos |-> mem["d_out_pos"], vel |-> mem["d_out_vel"]]

\* What a work-item at p of launch x has done, with tl tiles behind it and jj
\* bodies of this one: its position in the tile, its sum, its own body.
BodyDone(x, p, tl, jj, own, sum, np, nv) ==
  /\ p # "idle"
  /\ p \in {"load", "loaded", "add", "added"} => (tl + 1) * localSize <= numBodies
  /\ p \in {"store", "done"} => tl * localSize = numBodies
  /\ p = "add" => jj < localSize
  /\ p = "added" => jj = localSize
  /\ p \in {"loaded", "add", "added"} => own = x
  /\ sum = (0..(tl * localSize + (IF p \in {"add", "added"} THEN jj ELSE 0) - 1)) \X {x}
  /\ p = "done" => np = Nbody!After(x + 1) /\ nv = Nbody!After(x + 1)

BodyAt(w) ==
  /\ bodyTile[w] * localSize <= numBodies
  /\ host # "finish" => bodyPc[w] \in {"idle", "done"}
  /\ host = "finish" =>
       BodyDone(launch, bodyPc[w], bodyTile[w], body[w], localPos[w[1]][w[2]], acc[w],
                mem[args.newPosition][Nbody!gid(w)], mem[args.newVelocity][Nbody!gid(w)])

BodyInv == BodyTypes /\ BodyTogether /\ HostInv /\ \A w \in Nbody!Items : BodyAt(w)

LEMMA BodySizes ==
  /\ localSize \in Nat \ {0} /\ numBodies \in Nat \ {0} /\ MaxIterations \in Nat
  /\ numBodies \div localSize \in Nat \ {0}
  /\ (numBodies \div localSize) * localSize = numBodies
<1>1. PICK q \in 1..numBodies : numBodies = q * localSize
  BY ProgramsAssumption DEF Nbody!BodiesAssumption
<1>2. localSize \in Nat \ {0} /\ MaxIterations \in Nat
  BY ProgramsAssumption DEF Nbody!BodiesAssumption
<1>3. q \in Nat \ {0} /\ 0 \in 0..(localSize - 1)
  BY <1>1, <1>2
<1>4. numBodies = q * localSize + 0 /\ numBodies \in Nat \ {0}
  BY <1>1, <1>2, <1>3
<1>5. numBodies \div localSize = q
  BY <1>2, <1>3, <1>4, Quotient
<1>6. QED
  BY <1>1, <1>2, <1>3, <1>4, <1>5

LEMMA BodyItem ==
  ASSUME NEW w \in Nbody!Items
  PROVE  /\ w[1] \in Nbody!Groups /\ w[2] \in Nbody!Locals /\ w = <<w[1], w[2]>>
         /\ w[1] \in Nat /\ w[2] \in 0..(localSize - 1)
         /\ Nbody!gid(w) \in Nbody!Bodies /\ Nbody!gid(w) = w[1] * localSize + w[2]
<1>1. /\ w[1] \in Nbody!Groups /\ w[2] \in Nbody!Locals /\ w = <<w[1], w[2]>>
      /\ w[1] \in 0..((numBodies \div localSize) - 1) /\ w[2] \in 0..(localSize - 1)
  BY DEF Nbody!Items, Nbody!Groups, Nbody!Locals
<1>2. PICK q, x, y : q = numBodies \div localSize /\ x = w[1] /\ y = w[2]
  OBVIOUS
<1>3. q \in Nat /\ q * localSize = numBodies /\ x \in 0..(q - 1) /\ y \in 0..(localSize - 1)
  BY <1>1, <1>2, BodySizes
<1>4. PICK d \in Nat : q = x + 1 + d
  BY <1>3
<1>5. numBodies = x * localSize + localSize + d * localSize /\ d * localSize \in Nat
      /\ x * localSize \in Nat
  BY <1>3, <1>4, BodySizes
<1>6. x * localSize + y \in 0..(numBodies - 1)
  BY <1>3, <1>5, BodySizes
<1>7. QED
  BY <1>1, <1>2, <1>6, BodySizes DEF Nbody!gid, Nbody!Bodies

LEMMA BodyOnePlace ==
  ASSUME NEW v \in Nbody!Items, NEW w \in Nbody!Items, Nbody!gid(v) = Nbody!gid(w)
  PROVE  v = w
<1>1. PICK x, y, q, z : x = v[1] /\ y = w[1] /\ q = v[2] /\ z = w[2]
  OBVIOUS
<1>2. x \in Nat /\ y \in Nat /\ q \in 0..(localSize - 1) /\ z \in 0..(localSize - 1)
      /\ x * localSize + q = y * localSize + z
  BY <1>1, BodyItem
<1>3. x = y /\ q = z
  BY <1>2, OneQuotient, BodySizes
<1>4. QED
  BY <1>1, <1>3, BodyItem

\* Every body is a work-item's.
LEMMA BodyOfItem ==
  ASSUME NEW b \in Nbody!Bodies
  PROVE  \E w \in Nbody!Items : Nbody!gid(w) = b
<1>1. b \in Nat /\ b < numBodies
  BY BodySizes DEF Nbody!Bodies
<1>2. b = (b \div localSize) * localSize + (b % localSize) /\ b \div localSize \in Nat
      /\ b % localSize \in 0..(localSize - 1)
  BY <1>1, BodySizes
<1>3. PICK x \in Nat, y \in 0..(localSize - 1) : b = x * localSize + y
  BY <1>2
<1>4. PICK q \in Nat : q = numBodies \div localSize /\ q * localSize = numBodies
  BY BodySizes
<1>5. x < q
  <2>1. CASE q <= x
    <3>1. PICK d \in Nat : x = q + d
      BY <2>1
    <3>2. x * localSize = q * localSize + d * localSize /\ d * localSize \in Nat
      BY <3>1, BodySizes
    <3>3. QED
      BY <3>2, <1>1, <1>3, <1>4, BodySizes
  <2>2. QED
    BY <2>1
<1>6. <<x, y>> \in Nbody!Items
  BY <1>4, <1>5 DEF Nbody!Items, Nbody!Groups, Nbody!Locals
<1>7. QED
  BY <1>3, <1>6 DEF Nbody!gid

\* The next state of a body, and of the system.
LEMMA BodyAfter ==
  ASSUME NEW x \in Nat
  PROVE  /\ Nbody!After(x) \in BodyStates /\ Nbody!After(x).step = x
         /\ Nbody!Moved(Nbody!After(x), Nbody!After(x), Nbody!Bodies \X {x}) = Nbody!After(x + 1)
<1>1. CASE x = 0
  <2>1. Nbody!After(x) = [step |-> 0, vel |-> 0, acc |-> {}]
    BY <1>1 DEF Nbody!After, Nbody!Start
  <2>2. Nbody!After(x + 1) = [step |-> 1, vel |-> 0, acc |-> Nbody!Bodies \X {0}]
    BY <1>1 DEF Nbody!After
  <2>3. QED
    BY <1>1, <2>1, <2>2 DEF Nbody!Moved, BodyStates
<1>2. CASE x # 0
  <2>1. Nbody!After(x) = [step |-> x, vel |-> x - 1, acc |-> Nbody!Bodies \X {x - 1}]
    BY <1>2 DEF Nbody!After
  <2>2. Nbody!After(x + 1) = [step |-> x + 1, vel |-> x, acc |-> Nbody!Bodies \X {x}]
    <3>1. (x + 1) - 1 = x /\ x + 1 # 0
      OBVIOUS
    <3>2. QED
      BY <3>1 DEF Nbody!After
  <2>3. Nbody!Bodies \X {x - 1} \in SUBSET (Nbody!Bodies \X Int)
    OBVIOUS
  <2>4. QED
    BY <2>1, <2>2, <2>3 DEF Nbody!Moved, BodyStates
<1>3. QED
  BY <1>1, <1>2

LEMMA BodyKeeps ==
  ASSUME BodyInv, host = "finish", UNCHANGED Nbody!hosts, NEW w \in Nbody!Items,
         bodyPc'[w] = bodyPc[w], bodyTile'[w] = bodyTile[w], body'[w] = body[w],
         localPos'[w[1]][w[2]] = localPos[w[1]][w[2]], acc'[w] = acc[w],
         mem'[args.newPosition][Nbody!gid(w)] = mem[args.newPosition][Nbody!gid(w)],
         mem'[args.newVelocity][Nbody!gid(w)] = mem[args.newVelocity][Nbody!gid(w)]
  PROVE  BodyAt(w)'
<1>1. BodyAt(w)
  BY DEF BodyInv
<1>2. host' = host /\ launch' = launch /\ args' = args
  BY DEF Nbody!hosts
<1>3. QED
  BY <1>1, <1>2 DEF BodyAt, Nbody!gid

LEMMA BodyFirst == Nbody!Init => BodyInv
<1> SUFFICES ASSUME Nbody!Init PROVE BodyInv
  OBVIOUS
<1>1. /\ host = "launch" /\ iterations \in 1..MaxIterations /\ launch = 0 /\ exchange = TRUE
      /\ args = ArgsIn
      /\ mem = [d_in_pos |-> Nbody!All(Nbody!Start), d_in_vel |-> Nbody!All(Nbody!Start),
                d_out_pos |-> Nbody!All(Nbody!Unset), d_out_vel |-> Nbody!All(Nbody!Unset)]
      /\ bodyPc = [w \in Nbody!Items |-> "idle"] /\ bodyTile = [w \in Nbody!Items |-> 0]
      /\ body = bodyTile /\ acc = [w \in Nbody!Items |-> {}]
      /\ localPos = [g \in Nbody!Groups |-> [t \in Nbody!Locals |-> -1]]
  BY DEF Nbody!Init, ArgsIn
<1>2. Nbody!Start \in BodyStates /\ Nbody!Unset \in BodyStates
  BY DEF Nbody!Start, Nbody!Unset, BodyStates
<1>3. mem \in [Buffers -> [Nbody!Bodies -> BodyStates]]
  <2>1. /\ Nbody!All(Nbody!Start) \in [Nbody!Bodies -> BodyStates]
        /\ Nbody!All(Nbody!Unset) \in [Nbody!Bodies -> BodyStates]
    BY <1>2 DEF Nbody!All
  <2>2. QED
    BY <1>1, <2>1 DEF Buffers
<1>4. BodyTypes
  BY <1>1, <1>3, BodySizes DEF BodyTypes, BodyPcs
<1>5. BodyTogether
  BY <1>1 DEF BodyTogether, Nbody!Items
<1>6. HostInv
  <2>1. Nbody!All(Nbody!Start) = Now(0) /\ Nbody!All(Nbody!Unset) = Before(0)
    BY DEF Now, Before, Nbody!After
  <2>2. BuffersHold(host, launch, mem[args.pos], mem[args.vel],
                    mem[args.newPosition], mem[args.newVelocity])
    BY <1>1, <2>1 DEF BuffersHold, ArgsIn
  <2>3. 0 % 2 = 0
    OBVIOUS
  <2>4. QED
    BY <1>1, <2>2, <2>3, BodySizes DEF HostInv
<1>7. ASSUME NEW w \in Nbody!Items PROVE BodyAt(w)
  <2>1. 0 * localSize <= numBodies
    BY BodySizes
  <2>2. QED
    BY <1>1, <2>1 DEF BodyAt
<1>8. QED
  BY <1>4, <1>5, <1>6, <1>7 DEF BodyInv

\* The buffers that are read and those that are written.
LEMMA BodyArgs ==
  ASSUME BodyInv
  PROVE  /\ args.pos \in Buffers /\ args.vel \in Buffers
         /\ args.newPosition \in Buffers /\ args.newVelocity \in Buffers
         /\ args.pos # args.newPosition /\ args.pos # args.newVelocity
         /\ args.vel # args.newPosition /\ args.vel # args.newVelocity
         /\ args.newPosition # args.newVelocity
<1>1. args = ArgsIn \/ args = ArgsOut
  BY DEF BodyInv, HostInv
<1>2. QED
  BY <1>1 DEF ArgsIn, ArgsOut, Buffers

LEMMA HostKeeps ==
  ASSUME BodyInv, host = "finish", UNCHANGED Nbody!hosts, mem'[args.pos] = mem[args.pos],
         mem'[args.vel] = mem[args.vel]
  PROVE  HostInv'
<1>1. /\ host' = host /\ launch' = launch /\ args' = args /\ iterations' = iterations
      /\ exchange' = exchange
  BY DEF Nbody!hosts
<1>2. HostInv
  BY DEF BodyInv
<1>3. BuffersHold(host', launch', mem'[args'.pos], mem'[args'.vel],
                  mem'[args'.newPosition], mem'[args'.newVelocity])
  BY <1>1, <1>2 DEF HostInv, BuffersHold
<1>4. /\ args = IF exchange THEN ArgsIn ELSE ArgsOut
      /\ exchange <=> launch % 2 = 0
  BY <1>2 DEF HostInv
<1>5. /\ args' = IF exchange' THEN ArgsIn ELSE ArgsOut
      /\ exchange' <=> launch' % 2 = 0
  BY <1>1, <1>4, Zenon DEF ArgsIn, ArgsOut
<1>6. /\ host' \in {"launch", "finish", "exchange"} => launch' < iterations'
      /\ host' \in {"read", "done"} => launch' = iterations'
      /\ iterations' >= 1
      /\ host' = "done" => result' = [pos |-> mem'["d_out_pos"], vel |-> mem'["d_out_vel"]]
  BY <1>1, <1>2 DEF HostInv
<1>7. QED
  BY <1>3, <1>5, <1>6 DEF HostInv

\* A work-item only moves in a launch.
LEMMA BodyRuns ==
  ASSUME BodyInv, NEW w \in Nbody!Items, bodyPc[w] \notin {"idle", "done"}
  PROVE  /\ host = "finish"
         /\ BodyDone(launch, bodyPc[w], bodyTile[w], body[w], localPos[w[1]][w[2]], acc[w],
                     mem[args.newPosition][Nbody!gid(w)], mem[args.newVelocity][Nbody!gid(w)])
<1>1. BodyAt(w)
  BY DEF BodyInv
<1>2. QED
  BY <1>1 DEF BodyAt

LEMMA BodySamePhase ==
  ASSUME BodyInv, UNCHANGED bodyTile, NEW v \in Nbody!Items, NEW to,
         bodyPc' = [bodyPc EXCEPT ![v] = to], BodyPhase(to) = BodyPhase(bodyPc[v])
  PROVE  BodyTogether'
<1>1. \A w \in Nbody!Items : BodyPhase(bodyPc'[w]) = BodyPhase(bodyPc[w])
  BY DEF BodyInv, BodyTypes
<1>2. \A g \in Nbody!Groups, t \in Nbody!Locals : <<g, t>> \in Nbody!Items
  BY DEF Nbody!Items
<1>3. ASSUME NEW g \in Nbody!Groups, NEW t \in Nbody!Locals, NEW u \in Nbody!Locals
      PROVE  /\ bodyTile'[<<g, t>>] = bodyTile'[<<g, u>>]
             /\ BodyPhase(bodyPc'[<<g, t>>]) = BodyPhase(bodyPc'[<<g, u>>])
  <2>1. /\ bodyTile[<<g, t>>] = bodyTile[<<g, u>>]
        /\ BodyPhase(bodyPc[<<g, t>>]) = BodyPhase(bodyPc[<<g, u>>])
    BY DEF BodyInv, BodyTogether
  <2>2. /\ BodyPhase(bodyPc'[<<g, t>>]) = BodyPhase(bodyPc[<<g, t>>])
        /\ BodyPhase(bodyPc'[<<g, u>>]) = BodyPhase(bodyPc[<<g, u>>])
    BY <1>1, <1>2
  <2>3. QED
    BY <2>1, <2>2
<1>4. QED
  <2>1. \A p : BodyPhase(p)' = BodyPhase(p)
    BY DEF BodyPhase
  <2>2. QED
    BY <1>3, <2>1 DEF BodyTogether, BodyPhase

LEMMA BodyLoad ==
  ASSUME BodyInv, NEW v \in Nbody!Items, Nbody!Load(v)
  PROVE  BodyInv'
<1>1. /\ bodyPc[v] = "load" /\ bodyPc' = [bodyPc EXCEPT ![v] = "loaded"]
      /\ localPos' = [localPos EXCEPT ![v[1]][v[2]] =
                        mem[args.pos][bodyTile[v] * localSize + v[2]].step]
      /\ UNCHANGED Nbody!hosts /\ UNCHANGED <<mem, bodyTile, body, acc>>
  BY DEF Nbody!Load, Nbody!At
<1>2. /\ localPos \in [Nbody!Groups -> [Nbody!Locals -> Int]]
      /\ bodyPc \in [Nbody!Items -> BodyPcs] /\ bodyTile \in [Nbody!Items -> Nat]
      /\ launch \in Nat
  BY DEF BodyInv, BodyTypes
<1>3. /\ v[1] \in Nbody!Groups /\ v[2] \in Nbody!Locals /\ v[2] \in 0..(localSize - 1)
  BY BodyItem
<1>4. /\ host = "finish"
      /\ BodyDone(launch, "load", bodyTile[v], body[v], localPos[v[1]][v[2]], acc[v],
                  mem[args.newPosition][Nbody!gid(v)], mem[args.newVelocity][Nbody!gid(v)])
  BY <1>1, BodyRuns
<1>5. mem[args.pos] = Now(launch)
  BY <1>4 DEF BodyInv, HostInv, BuffersHold
<1>6. bodyTile[v] * localSize + v[2] \in Nbody!Bodies
  <2>1. PICK x \in Nat, y \in 0..(localSize - 1) : x = bodyTile[v] /\ y = v[2]
    BY <1>2, <1>3
  <2>2. (x + 1) * localSize <= numBodies
    BY <2>1, <1>4 DEF BodyDone
  <2>3. (x + 1) * localSize = x * localSize + localSize /\ x * localSize \in Nat
    BY BodySizes
  <2>4. QED
    BY <2>1, <2>2, <2>3, BodySizes DEF Nbody!Bodies
<1>7. mem[args.pos][bodyTile[v] * localSize + v[2]].step = launch
  BY <1>2, <1>5, <1>6, BodyAfter DEF Now, Nbody!All
<1>8. localPos'[v[1]][v[2]] = launch /\ localPos' \in [Nbody!Groups -> [Nbody!Locals -> Int]]
  BY <1>1, <1>2, <1>3, <1>7
<1>9. BodyTypes'
  <2>1. bodyPc' \in [Nbody!Items -> BodyPcs]
    BY <1>1, <1>2 DEF BodyPcs
  <2>2. UNCHANGED <<host, iterations, launch, exchange>>
    BY <1>1 DEF Nbody!hosts
  <2>3. QED
    BY <2>1, <2>2, <1>1, <1>8 DEF BodyInv, BodyTypes
<1>10. BodyTogether'
  <2>1. BodyPhase("loaded") = BodyPhase(bodyPc[v])
    BY <1>1 DEF BodyPhase
  <2>2. QED
    BY <2>1, <1>1, BodySamePhase
<1>11. HostInv'
  BY <1>1, <1>4, HostKeeps
<1>12. ASSUME NEW w \in Nbody!Items PROVE BodyAt(w)'
  <2>1. CASE w = v
    <3>1. BodyAt(v)
      BY DEF BodyInv
    <3>2. bodyPc'[v] = "loaded" /\ host' = "finish" /\ launch' = launch /\ args' = args
      BY <1>1, <1>2, <1>4 DEF Nbody!hosts
    <3>3. QED
      BY <2>1, <3>1, <3>2, <1>1, <1>4, <1>8 DEF BodyAt, BodyDone, Nbody!gid
  <2>2. CASE w # v
    <3>1. w[1] \in Nbody!Groups /\ w[2] \in Nbody!Locals /\ (w[1] # v[1] \/ w[2] # v[2])
      BY <2>2, BodyItem
    <3>2. localPos'[w[1]][w[2]] = localPos[w[1]][w[2]]
      BY <3>1, <1>1, <1>2, <1>3
    <3>3. bodyPc'[w] = bodyPc[w]
      BY <2>2, <1>1, <1>2
    <3>4. QED
      BY <3>2, <3>3, <1>1, <1>4, BodyKeeps
  <2>3. QED
    BY <2>1, <2>2
<1>13. QED
  BY <1>9, <1>10, <1>11, <1>12 DEF BodyInv

LEMMA BodyAdd ==
  ASSUME BodyInv, NEW v \in Nbody!Items, Nbody!Add(v)
  PROVE  BodyInv'
<1>1. PICK to : to = IF body[v] + 1 = localSize THEN "added" ELSE "add"
  OBVIOUS
<1> DEFINE e == <<bodyTile[v] * localSize + body[v], localPos[v[1]][body[v]]>>
<1>2. /\ bodyPc[v] = "add" /\ bodyPc' = [bodyPc EXCEPT ![v] = to]
      /\ acc' = [acc EXCEPT ![v] = acc[v] \cup {e}]
      /\ body' = [body EXCEPT ![v] = body[v] + 1]
      /\ UNCHANGED Nbody!hosts /\ UNCHANGED <<mem, localPos, bodyTile>>
  BY <1>1 DEF Nbody!Add, Nbody!At
<1>3. /\ bodyPc \in [Nbody!Items -> BodyPcs] /\ bodyTile \in [Nbody!Items -> Nat]
      /\ body \in [Nbody!Items -> 0..localSize]
      /\ acc \in [Nbody!Items -> SUBSET (Nbody!Bodies \X Int)] /\ launch \in Nat
  BY DEF BodyInv, BodyTypes
<1>4. /\ v[1] \in Nbody!Groups /\ v[2] \in Nbody!Locals /\ v = <<v[1], v[2]>>
  BY BodyItem
<1>5. PICK x \in Nat, y \in Nat : x = bodyTile[v] /\ y = body[v]
  BY <1>3, BodySizes
<1>6. /\ host = "finish"
      /\ BodyDone(launch, "add", x, y, localPos[v[1]][v[2]], acc[v],
                  mem[args.newPosition][Nbody!gid(v)], mem[args.newVelocity][Nbody!gid(v)])
  BY <1>2, <1>5, BodyRuns
<1>7. /\ y < localSize /\ (x + 1) * localSize <= numBodies
      /\ acc[v] = (0..(x * localSize + y - 1)) \X {launch}
  BY <1>6 DEF BodyDone
<1>8. localPos[v[1]][y] = launch
  <2>1. y \in Nbody!Locals
    BY <1>7, BodySizes DEF Nbody!Locals
  <2>2. <<v[1], y>> \in Nbody!Items
    BY <2>1, <1>4 DEF Nbody!Items
  <2>3. BodyPhase(bodyPc[<<v[1], y>>]) = BodyPhase("add")
    BY <2>1, <1>2, <1>4 DEF BodyInv, BodyTogether
  <2>4. bodyPc[<<v[1], y>>] \in {"add", "added"}
    BY <2>2, <2>3, <1>3 DEF BodyPhase, BodyPcs
  <2>5. PICK w \in Nbody!Items : w = <<v[1], y>>
    BY <2>2
  <2>6. BodyDone(launch, bodyPc[w], bodyTile[w], body[w], localPos[w[1]][w[2]], acc[w],
                 mem[args.newPosition][Nbody!gid(w)], mem[args.newVelocity][Nbody!gid(w)])
    BY <2>4, <2>5, BodyRuns
  <2>7. localPos[w[1]][w[2]] = launch
    BY <2>4, <2>5, <2>6 DEF BodyDone
  <2>8. QED
    BY <2>5, <2>7
<1>9. e = <<x * localSize + y, launch>>
  BY <1>5, <1>8
<1> HIDE DEF e
<1>10. PICK z \in Nat : z = x * localSize + y
  BY BodySizes
<1>11. (x + 1) * localSize = x * localSize + localSize /\ z < numBodies
       /\ x * localSize + (y + 1) = z + 1
  BY <1>7, <1>10, BodySizes
<1>12. acc[v] \cup {e} = (0..z) \X {launch}
  <2>1. acc[v] = (0..(z - 1)) \X {launch} /\ e = <<z, launch>>
    <3>1. x * localSize + y - 1 = z - 1
      BY <1>10, BodySizes
    <3>2. QED
      BY <3>1, <1>7, <1>9, <1>10
  <2>2. 0..z = (0..(z - 1)) \cup {z}
    OBVIOUS
  <2>3. QED
    BY <2>1, <2>2
<1>13. acc[v] \cup {e} \in SUBSET (Nbody!Bodies \X Int)
  <2>1. 0..z \subseteq Nbody!Bodies
    BY <1>11, BodySizes DEF Nbody!Bodies
  <2>2. QED
    BY <2>1, <1>3, <1>12
<1>14. BodyTypes'
  <2>1. bodyPc' \in [Nbody!Items -> BodyPcs]
    BY <1>1, <1>2, <1>3 DEF BodyPcs
  <2>2. body' \in [Nbody!Items -> 0..localSize]
    <3>1. y + 1 \in 0..localSize
      BY <1>7, BodySizes
    <3>2. QED
      BY <3>1, <1>2, <1>3, <1>5
  <2>3. acc' \in [Nbody!Items -> SUBSET (Nbody!Bodies \X Int)]
    BY <1>2, <1>3, <1>13
  <2>4. UNCHANGED <<host, iterations, launch, exchange>>
    BY <1>2 DEF Nbody!hosts
  <2>5. QED
    BY <2>1, <2>2, <2>3, <2>4, <1>2 DEF BodyInv, BodyTypes
<1>15. BodyTogether'
  <2>1. BodyPhase(to) = BodyPhase(bodyPc[v])
    BY <1>1, <1>2 DEF BodyPhase
  <2>2. QED
    BY <2>1, <1>2, BodySamePhase
<1>16. HostInv'
  BY <1>2, <1>6, HostKeeps
<1>17. ASSUME NEW w \in Nbody!Items PROVE BodyAt(w)'
  <2>1. CASE w = v
    <3>1. BodyAt(v)
      BY DEF BodyInv
    <3>2. /\ bodyPc'[v] = to /\ body'[v] = y + 1 /\ acc'[v] = (0..z) \X {launch}
          /\ host' = "finish" /\ launch' = launch /\ args' = args
      BY <1>2, <1>3, <1>5, <1>6, <1>12 DEF Nbody!hosts
    <3>3. to \in {"add", "added"} /\ (to = "added" => y + 1 = localSize)
          /\ (to = "add" => y + 1 < localSize)
      BY <1>1, <1>5, <1>7, BodySizes
    <3>4. x * localSize + (y + 1) - 1 = z
      BY <1>11, BodySizes
    <3>5. BodyDone(launch, to, x, y + 1, localPos[v[1]][v[2]], (0..z) \X {launch},
                   mem[args.newPosition][Nbody!gid(v)], mem[args.newVelocity][Nbody!gid(v)])
      BY <3>3, <3>4, <1>6 DEF BodyDone
    <3>6. QED
      BY <2>1, <3>1, <3>2, <3>5, <1>2, <1>5 DEF BodyAt, Nbody!gid
  <2>2. CASE w # v
    <3>1. bodyPc'[w] = bodyPc[w] /\ body'[w] = body[w] /\ acc'[w] = acc[w]
      BY <2>2, <1>2, <1>3
    <3>2. QED
      BY <3>1, <1>2, <1>6, BodyKeeps
  <2>3. QED
    BY <2>1, <2>2
<1>18. QED
  BY <1>14, <1>15, <1>16, <1>17 DEF BodyInv

LEMMA BodyBarrier ==
  ASSUME BodyInv, NEW g \in Nbody!Groups, NEW from, NEW to, Nbody!Barrier(g, from, to),
         to \in BodyPcs
  PROVE  /\ bodyPc' \in [Nbody!Items -> BodyPcs]
         /\ \A w \in Nbody!Items :
              IF w[1] = g THEN bodyPc[w] = from /\ bodyPc'[w] = to ELSE bodyPc'[w] = bodyPc[w]
         /\ \E w \in Nbody!Items : w[1] = g /\ w = <<g, 0>>
<1>1. bodyPc \in [Nbody!Items -> BodyPcs]
  BY DEF BodyInv, BodyTypes
<1>2. ASSUME NEW w \in Nbody!Items, w[1] = g PROVE bodyPc[w] = from
  BY <1>2, BodyItem DEF Nbody!Barrier
<1>3. bodyPc' = [w \in Nbody!Items |-> IF w[1] = g THEN to ELSE bodyPc[w]]
  BY DEF Nbody!Barrier
<1>4. <<g, 0>> \in Nbody!Items
  BY BodySizes DEF Nbody!Items, Nbody!Locals
<1>5. QED
  BY <1>1, <1>2, <1>3, <1>4

LEMMA BodyLoaded ==
  ASSUME BodyInv, NEW g \in Nbody!Groups, Nbody!Loaded(g)
  PROVE  BodyInv'
<1>1. /\ Nbody!Barrier(g, "loaded", "add") /\ UNCHANGED Nbody!hosts
      /\ body' = [w \in Nbody!Items |-> IF w[1] = g THEN 0 ELSE body[w]]
      /\ UNCHANGED <<mem, localPos, bodyTile, acc>>
  BY DEF Nbody!Loaded
<1>2. /\ bodyPc' \in [Nbody!Items -> BodyPcs]
      /\ \A w \in Nbody!Items :
           IF w[1] = g THEN bodyPc[w] = "loaded" /\ bodyPc'[w] = "add" ELSE bodyPc'[w] = bodyPc[w]
      /\ \E w \in Nbody!Items : w[1] = g /\ w = <<g, 0>>
  BY <1>1, BodyBarrier DEF BodyPcs
<1>3. host = "finish"
  BY <1>2, BodyRuns
<1>4. body \in [Nbody!Items -> 0..localSize]
  BY DEF BodyInv, BodyTypes
<1>5. BodyTypes'
  <2>1. body' \in [Nbody!Items -> 0..localSize]
    BY <1>1, <1>4, BodySizes
  <2>2. UNCHANGED <<host, iterations, launch, exchange>>
    BY <1>1 DEF Nbody!hosts
  <2>3. QED
    BY <2>1, <2>2, <1>1, <1>2 DEF BodyInv, BodyTypes
<1>6. BodyTogether'
  <2> SUFFICES ASSUME NEW h \in Nbody!Groups, NEW t \in Nbody!Locals, NEW u \in Nbody!Locals
               PROVE  /\ bodyTile'[<<h, t>>] = bodyTile'[<<h, u>>]
                      /\ BodyPhase(bodyPc'[<<h, t>>]) = BodyPhase(bodyPc'[<<h, u>>])
    BY DEF BodyTogether
  <2>1. <<h, t>> \in Nbody!Items /\ <<h, u>> \in Nbody!Items
    BY DEF Nbody!Items
  <2>2. bodyTile[<<h, t>>] = bodyTile[<<h, u>>]
        /\ BodyPhase(bodyPc[<<h, t>>]) = BodyPhase(bodyPc[<<h, u>>])
    BY DEF BodyInv, BodyTogether
  <2>3. QED
    BY <2>1, <2>2, <1>1, <1>2
<1>7. HostInv'
  BY <1>1, <1>3, HostKeeps
<1>8. ASSUME NEW w \in Nbody!Items PROVE BodyAt(w)'
  <2>1. CASE w[1] = g
    <3>1. BodyAt(w) /\ bodyPc[w] = "loaded" /\ bodyPc'[w] = "add" /\ body'[w] = 0
      BY <2>1, <1>1, <1>2 DEF BodyInv
    <3>2. 0 < localSize
      BY BodySizes
    <3>3. host' = host /\ launch' = launch /\ args' = args
      BY <1>1 DEF Nbody!hosts
    <3>4. QED
      BY <3>1, <3>2, <3>3, <1>1, <1>3 DEF BodyAt, BodyDone, Nbody!gid
  <2>2. CASE w[1] # g
    <3>1. body'[w] = body[w] /\ bodyPc'[w] = bodyPc[w]
      BY <2>2, <1>1, <1>2
    <3>2. QED
      BY <3>1, <1>1, <1>3, BodyKeeps
  <2>3. QED
    BY <2>1, <2>2
<1>9. QED
  BY <1>5, <1>6, <1>7, <1>8 DEF BodyInv

LEMMA BodyAdded ==
  ASSUME BodyInv, NEW g \in Nbody!Groups, Nbody!Added(g)
  PROVE  BodyInv'
<1>1. PICK to : to = IF (bodyTile[<<g, 0>>] + 1) * localSize < numBodies THEN "load" ELSE "store"
  OBVIOUS
<1>2. /\ Nbody!Barrier(g, "added", to) /\ UNCHANGED Nbody!hosts
      /\ bodyTile' = [w \in Nbody!Items |-> IF w[1] = g THEN bodyTile[w] + 1 ELSE bodyTile[w]]
      /\ UNCHANGED <<mem, localPos, body, acc>>
  BY <1>1 DEF Nbody!Added
<1>3. /\ bodyPc' \in [Nbody!Items -> BodyPcs]
      /\ \A w \in Nbody!Items :
           IF w[1] = g THEN bodyPc[w] = "added" /\ bodyPc'[w] = to ELSE bodyPc'[w] = bodyPc[w]
      /\ \E w \in Nbody!Items : w[1] = g /\ w = <<g, 0>>
  BY <1>1, <1>2, BodyBarrier DEF BodyPcs
<1>4. host = "finish"
  BY <1>3, BodyRuns
<1>5. bodyTile \in [Nbody!Items -> Nat]
  BY DEF BodyInv, BodyTypes
<1>6. BodyTypes'
  <2>1. bodyTile' \in [Nbody!Items -> Nat]
    BY <1>2, <1>5
  <2>2. UNCHANGED <<host, iterations, launch, exchange>>
    BY <1>2 DEF Nbody!hosts
  <2>3. QED
    BY <2>1, <2>2, <1>2, <1>3 DEF BodyInv, BodyTypes
<1>7. BodyTogether'
  <2> SUFFICES ASSUME NEW h \in Nbody!Groups, NEW t \in Nbody!Locals, NEW u \in Nbody!Locals
               PROVE  /\ bodyTile'[<<h, t>>] = bodyTile'[<<h, u>>]
                      /\ BodyPhase(bodyPc'[<<h, t>>]) = BodyPhase(bodyPc'[<<h, u>>])
    BY DEF BodyTogether
  <2>1. <<h, t>> \in Nbody!Items /\ <<h, u>> \in Nbody!Items
    BY DEF Nbody!Items
  <2>2. bodyTile[<<h, t>>] = bodyTile[<<h, u>>]
        /\ BodyPhase(bodyPc[<<h, t>>]) = BodyPhase(bodyPc[<<h, u>>])
    BY DEF BodyInv, BodyTogether
  <2>3. bodyTile'[<<h, t>>] = bodyTile'[<<h, u>>]
    BY <2>1, <2>2, <1>2
  <2>4. BodyPhase(bodyPc'[<<h, t>>]) = BodyPhase(bodyPc'[<<h, u>>])
    BY <2>1, <2>2, <1>3
  <2>5. QED
    BY <2>3, <2>4
<1>8. HostInv'
  BY <1>2, <1>4, HostKeeps
<1>9. ASSUME NEW w \in Nbody!Items PROVE BodyAt(w)'
  <2>1. CASE w[1] = g
    <3>1. /\ BodyAt(w) /\ bodyPc[w] = "added" /\ bodyPc'[w] = to
          /\ bodyTile'[w] = bodyTile[w] + 1
      BY <2>1, <1>2, <1>3 DEF BodyInv
    <3>2. bodyTile[w] = bodyTile[<<g, 0>>]
      <4>1. 0 \in Nbody!Locals
        BY BodySizes DEF Nbody!Locals
      <4>2. QED
        BY <2>1, <4>1, BodyItem DEF BodyInv, BodyTogether
    <3>3. PICK x \in Nat, y \in Nat : x = bodyTile[w] /\ y = body[w]
      BY <1>5, BodySizes DEF BodyInv, BodyTypes
    <3>4. BodyDone(launch, "added", x, y, localPos[w[1]][w[2]], acc[w],
                   mem[args.newPosition][Nbody!gid(w)], mem[args.newVelocity][Nbody!gid(w)])
      BY <3>1, <3>3, <1>4 DEF BodyAt
    <3>5. (x + 1) * localSize <= numBodies /\ y = localSize
          /\ acc[w] = (0..(x * localSize + localSize - 1)) \X {launch}
      BY <3>4 DEF BodyDone
    <3>6. (x + 1) * localSize = x * localSize + localSize
          /\ (x + 1) * localSize + 0 - 1 = x * localSize + localSize - 1
      BY BodySizes
    <3>7. to = "load" => ((x + 1) + 1) * localSize <= numBodies
      <4>1. SUFFICES ASSUME (x + 1) * localSize < numBodies
                     PROVE  ((x + 1) + 1) * localSize <= numBodies
        BY <1>1, <3>2, <3>3
      <4>2. PICK q \in Nat : q * localSize = numBodies
        BY BodySizes
      <4>3. x + 1 < q
        <5>1. CASE q <= x + 1
          <6>1. PICK d \in Nat : x + 1 = q + d
            BY <5>1
          <6>2. (x + 1) * localSize = q * localSize + d * localSize /\ d * localSize \in Nat
                /\ q * localSize \in Nat
            BY <6>1, BodySizes
          <6>3. QED
            BY <6>2, <4>1, <4>2
        <5>2. QED
          BY <5>1
      <4>4. PICK d \in Nat : q = ((x + 1) + 1) + d
        BY <4>3
      <4>5. q * localSize = ((x + 1) + 1) * localSize + d * localSize
            /\ d * localSize \in Nat /\ ((x + 1) + 1) * localSize \in Nat
        BY <4>4, BodySizes
      <4>6. QED
        BY <4>2, <4>5
    <3>8. to = "store" => (x + 1) * localSize = numBodies
      BY <1>1, <3>2, <3>3, <3>5, <3>6, BodySizes
    <3>9. to \in {"load", "store"}
      BY <1>1
    <3>10. BodyDone(launch, to, x + 1, y, localPos[w[1]][w[2]], acc[w],
                    mem[args.newPosition][Nbody!gid(w)], mem[args.newVelocity][Nbody!gid(w)])
      BY <3>5, <3>6, <3>7, <3>8, <3>9 DEF BodyDone
    <3>11. host' = host /\ launch' = launch /\ args' = args
      BY <1>2 DEF Nbody!hosts
    <3>12. QED
      BY <3>1, <3>3, <3>5, <3>10, <3>11, <1>2, <1>4 DEF BodyAt, Nbody!gid
  <2>2. CASE w[1] # g
    <3>1. bodyTile'[w] = bodyTile[w] /\ bodyPc'[w] = bodyPc[w]
      BY <2>2, <1>2, <1>3
    <3>2. QED
      BY <3>1, <1>2, <1>4, BodyKeeps
  <2>3. QED
    BY <2>1, <2>2
<1>10. QED
  BY <1>6, <1>7, <1>8, <1>9 DEF BodyInv

LEMMA BodyStore ==
  ASSUME BodyInv, NEW v \in Nbody!Items, Nbody!Store(v)
  PROVE  BodyInv'
<1>1. PICK b : b = Nbody!gid(v)
  OBVIOUS
<1> DEFINE p == Nbody!Moved(mem[args.pos][b], mem[args.vel][b], acc[v])
           q == Nbody!Moved(mem[args.vel][b], mem[args.vel][b], acc[v])
<1>2. /\ bodyPc[v] = "store" /\ bodyPc' = [bodyPc EXCEPT ![v] = "done"]
      /\ mem' = [mem EXCEPT ![args.newPosition][b] = p, ![args.newVelocity][b] = q]
      /\ UNCHANGED Nbody!hosts /\ UNCHANGED <<localPos, bodyTile, body, acc>>
  BY <1>1 DEF Nbody!Store, Nbody!At
<1>3. /\ bodyPc \in [Nbody!Items -> BodyPcs] /\ bodyTile \in [Nbody!Items -> Nat]
      /\ mem \in [Buffers -> [Nbody!Bodies -> BodyStates]] /\ launch \in Nat
  BY DEF BodyInv, BodyTypes
<1>4. b \in Nbody!Bodies
  BY <1>1, BodyItem
<1>5. /\ host = "finish"
      /\ BodyDone(launch, "store", bodyTile[v], body[v], localPos[v[1]][v[2]], acc[v],
                  mem[args.newPosition][b], mem[args.newVelocity][b])
  BY <1>1, <1>2, BodyRuns
<1>6. acc[v] = Nbody!Bodies \X {launch}
  <2>1. PICK x \in Nat : x = bodyTile[v]
    BY <1>3
  <2>2. x * localSize = numBodies /\ acc[v] = (0..(x * localSize + 0 - 1)) \X {launch}
    BY <2>1, <1>5 DEF BodyDone
  <2>3. x * localSize + 0 - 1 = numBodies - 1
    BY <2>2, BodySizes
  <2>4. QED
    BY <2>2, <2>3 DEF Nbody!Bodies
<1>7. p = Nbody!After(launch + 1) /\ q = Nbody!After(launch + 1)
  <2>1. mem[args.pos] = Now(launch) /\ mem[args.vel] = Now(launch)
    BY <1>5 DEF BodyInv, HostInv, BuffersHold
  <2>2. mem[args.pos][b] = Nbody!After(launch) /\ mem[args.vel][b] = Nbody!After(launch)
    BY <2>1, <1>4 DEF Now, Nbody!All
  <2>3. QED
    BY <2>2, <1>3, <1>6, BodyAfter
<1>8. Nbody!After(launch + 1) \in BodyStates
  <2>1. launch + 1 \in Nat
    BY <1>3
  <2>2. QED
    BY <2>1, BodyAfter
<1> HIDE DEF p, q
<1>9. /\ mem' \in [Buffers -> [Nbody!Bodies -> BodyStates]]
      /\ mem'[args.pos] = mem[args.pos] /\ mem'[args.vel] = mem[args.vel]
      /\ mem'[args.newPosition] = [mem[args.newPosition] EXCEPT ![b] = p]
      /\ mem'[args.newVelocity] = [mem[args.newVelocity] EXCEPT ![b] = q]
  <2>1. PICK P, V, NP, NV : P = args.pos /\ V = args.vel /\ NP = args.newPosition
                            /\ NV = args.newVelocity
    OBVIOUS
  <2>2. /\ P \in Buffers /\ V \in Buffers /\ NP \in Buffers /\ NV \in Buffers
        /\ P # NP /\ P # NV /\ V # NP /\ V # NV /\ NP # NV
    BY <2>1, BodyArgs
  <2>3. mem' = [mem EXCEPT ![NP][b] = p, ![NV][b] = q]
    BY <1>2, <2>1
  <2>4. /\ mem'[P] = mem[P] /\ mem'[V] = mem[V]
        /\ mem'[NP] = [mem[NP] EXCEPT ![b] = p] /\ mem'[NV] = [mem[NV] EXCEPT ![b] = q]
    BY <2>2, <2>3, <1>3
  <2>5. mem' \in [Buffers -> [Nbody!Bodies -> BodyStates]]
    <3>1. p \in BodyStates /\ q \in BodyStates
      BY <1>7, <1>8
    <3>2. QED
      BY <2>2, <2>3, <3>1, <1>3, <1>4
  <2>6. QED
    BY <2>1, <2>4, <2>5
<1>10. BodyTypes'
  <2>1. bodyPc' \in [Nbody!Items -> BodyPcs]
    BY <1>2, <1>3 DEF BodyPcs
  <2>2. UNCHANGED <<host, iterations, launch, exchange>>
    BY <1>2 DEF Nbody!hosts
  <2>3. QED
    BY <2>1, <2>2, <1>2, <1>9 DEF BodyInv, BodyTypes
<1>11. BodyTogether'
  <2>1. BodyPhase("done") = BodyPhase(bodyPc[v])
    BY <1>2 DEF BodyPhase
  <2>2. QED
    BY <2>1, <1>2, BodySamePhase
<1>12. HostInv'
  BY <1>2, <1>5, <1>9, HostKeeps
<1>13. ASSUME NEW w \in Nbody!Items PROVE BodyAt(w)'
  <2>1. PICK c \in Nbody!Bodies : c = Nbody!gid(w)
    BY BodyItem
  <2>2. args.newPosition \in Buffers /\ args.newVelocity \in Buffers
    BY BodyArgs
  <2>3. CASE w = v
    <3>1. BodyAt(v)
      BY DEF BodyInv
    <3>2. /\ bodyPc'[v] = "done" /\ host' = "finish" /\ launch' = launch /\ args' = args
      BY <1>2, <1>3, <1>5 DEF Nbody!hosts
    <3>3. /\ mem'[args.newPosition][b] = Nbody!After(launch + 1)
          /\ mem'[args.newVelocity][b] = Nbody!After(launch + 1)
      BY <2>2, <1>3, <1>4, <1>7, <1>9
    <3>4. BodyDone(launch, "done", bodyTile[v], body[v], localPos[v[1]][v[2]], acc[v],
                   mem'[args.newPosition][b], mem'[args.newVelocity][b])
      BY <3>3, <1>5 DEF BodyDone
    <3>5. QED
      BY <2>3, <3>1, <3>2, <3>4, <1>1, <1>2 DEF BodyAt, Nbody!gid
  <2>4. CASE w # v
    <3>1. bodyPc'[w] = bodyPc[w]
      BY <2>4, <1>2, <1>3
    <3>2. c # b
      BY <2>1, <2>4, <1>1, BodyOnePlace
    <3>3. /\ mem'[args.newPosition][c] = mem[args.newPosition][c]
          /\ mem'[args.newVelocity][c] = mem[args.newVelocity][c]
      BY <2>2, <3>2, <1>3, <1>4, <1>9
    <3>4. QED
      BY <2>1, <3>1, <3>3, <1>2, <1>5, BodyKeeps
  <2>5. QED
    BY <2>3, <2>4
<1>14. QED
  BY <1>10, <1>11, <1>12, <1>13 DEF BodyInv

LEMMA BodyLaunch == ASSUME BodyInv, Nbody!Launch PROVE BodyInv'
<1>1. /\ host = "launch" /\ host' = "finish"
      /\ bodyPc' = [w \in Nbody!Items |-> "load"] /\ bodyTile' = [w \in Nbody!Items |-> 0]
      /\ acc' = [w \in Nbody!Items |-> {}]
      /\ UNCHANGED <<iterations, launch, exchange, args, result, mem, localPos, body>>
  BY DEF Nbody!Launch
<1>2. BodyTypes'
  BY <1>1 DEF BodyInv, BodyTypes, BodyPcs
<1>3. BodyTogether'
  BY <1>1 DEF BodyTogether, Nbody!Items
<1>4. HostInv'
  <2>1. HostInv
    BY DEF BodyInv
  <2>2. BuffersHold("launch", launch, mem[args.pos], mem[args.vel],
                    mem[args.newPosition], mem[args.newVelocity])
    BY <2>1, <1>1 DEF HostInv
  <2>3. BuffersHold("finish", launch, mem[args.pos], mem[args.vel],
                    mem[args.newPosition], mem[args.newVelocity])
    BY <2>2 DEF BuffersHold
  <2>4. args = (IF exchange THEN ArgsIn ELSE ArgsOut) /\ (exchange <=> launch % 2 = 0)
    BY <2>1 DEF HostInv
  <2>5. (args = IF exchange THEN ArgsIn ELSE ArgsOut)' /\ (exchange <=> launch % 2 = 0)'
    BY <2>4, <1>1, Zenon DEF ArgsIn, ArgsOut
  <2>6. launch < iterations /\ iterations >= 1
    BY <2>1, <1>1 DEF HostInv
  <2>7. QED
    BY <2>3, <2>5, <2>6, <1>1 DEF HostInv
<1>5. ASSUME NEW w \in Nbody!Items PROVE BodyAt(w)'
  <2>1. 0 * localSize <= numBodies /\ (0 + 1) * localSize <= numBodies
    <3>1. PICK q \in Nat \ {0} : q * localSize = numBodies
      BY BodySizes
    <3>2. PICK d \in Nat : q = d + 1
      BY <3>1
    <3>3. numBodies = d * localSize + localSize /\ d * localSize \in Nat
      BY <3>1, <3>2, BodySizes
    <3>4. QED
      BY <3>3, BodySizes
  <2>2. (0..(0 * localSize + 0 - 1)) \X {launch} = {}
    <3>1. 0..(0 * localSize + 0 - 1) = {}
      BY BodySizes
    <3>2. QED
      BY <3>1
  <2>3. bodyPc'[w] = "load" /\ bodyTile'[w] = 0 /\ acc'[w] = {}
    BY <1>1
  <2>4. QED
    BY <2>1, <2>2, <2>3, <1>1 DEF BodyAt, BodyDone
<1>6. QED
  BY <1>2, <1>3, <1>4, <1>5 DEF BodyInv

LEMMA BodyFinish == ASSUME BodyInv, Nbody!clFinish PROVE BodyInv'
<1>1. /\ host = "finish" /\ host' = "exchange" /\ \A w \in Nbody!Items : bodyPc[w] = "done"
      /\ UNCHANGED <<iterations, launch, exchange, args, result, mem>>
      /\ UNCHANGED <<localPos, bodyPc, bodyTile, body, acc>>
  BY DEF Nbody!clFinish, Nbody!items
<1>2. BodyTypes' /\ BodyTogether'
  BY <1>1 DEF BodyInv, BodyTypes, BodyTogether
<1>3. /\ mem \in [Buffers -> [Nbody!Bodies -> BodyStates]] /\ launch \in Nat
  BY DEF BodyInv, BodyTypes
<1>4. mem[args.newPosition] = Now(launch + 1) /\ mem[args.newVelocity] = Now(launch + 1)
  <2>1. args.newPosition \in Buffers /\ args.newVelocity \in Buffers
    BY BodyArgs
  <2>2. ASSUME NEW b \in Nbody!Bodies
        PROVE  /\ mem[args.newPosition][b] = Nbody!After(launch + 1)
               /\ mem[args.newVelocity][b] = Nbody!After(launch + 1)
    <3>1. PICK w \in Nbody!Items : Nbody!gid(w) = b
      BY BodyOfItem
    <3>2. QED
      BY <3>1, <1>1 DEF BodyInv, BodyAt, BodyDone
  <2>3. QED
    BY <2>1, <2>2, <1>3 DEF Now, Nbody!All
<1>5. HostInv'
  <2>1. HostInv
    BY DEF BodyInv
  <2>2. BuffersHold("finish", launch, mem[args.pos], mem[args.vel],
                    mem[args.newPosition], mem[args.newVelocity])
    BY <2>1, <1>1 DEF HostInv
  <2>3. BuffersHold("exchange", launch, mem[args.pos], mem[args.vel],
                    mem[args.newPosition], mem[args.newVelocity])
    BY <2>2, <1>4 DEF BuffersHold
  <2>4. args = (IF exchange THEN ArgsIn ELSE ArgsOut) /\ (exchange <=> launch % 2 = 0)
    BY <2>1 DEF HostInv
  <2>5. (args = IF exchange THEN ArgsIn ELSE ArgsOut)' /\ (exchange <=> launch % 2 = 0)'
    BY <2>4, <1>1, Zenon DEF ArgsIn, ArgsOut
  <2>6. launch < iterations /\ iterations >= 1
    BY <2>1, <1>1 DEF HostInv
  <2>7. QED
    BY <2>3, <2>5, <2>6, <1>1 DEF HostInv
<1>6. ASSUME NEW w \in Nbody!Items PROVE BodyAt(w)'
  BY <1>1 DEF BodyInv, BodyAt
<1>7. QED
  BY <1>2, <1>5, <1>6 DEF BodyInv

\* Setting the four arguments.
LEMMA SetArgs ==
  /\ [ArgsIn EXCEPT !.pos = "d_out_pos", !.vel = "d_out_vel",
                    !.newPosition = "d_in_pos", !.newVelocity = "d_in_vel"] = ArgsOut
  /\ [ArgsOut EXCEPT !.pos = "d_in_pos", !.vel = "d_in_vel",
                     !.newPosition = "d_out_pos", !.newVelocity = "d_out_vel"] = ArgsIn
<1> DEFINE Names == {"pos", "vel", "newPosition", "newVelocity"}
<1>1. \A r \in {ArgsIn, ArgsOut} : DOMAIN r = Names /\ r = [x \in Names |-> r[x]]
  BY DEF ArgsIn, ArgsOut
<1>2. ASSUME NEW r \in {ArgsIn, ArgsOut}, NEW a, NEW b, NEW c, NEW d
      PROVE  [r EXCEPT !.pos = a, !.vel = b, !.newPosition = c, !.newVelocity = d]
               = [x \in Names |-> IF x = "pos" THEN a ELSE IF x = "vel" THEN b
                                  ELSE IF x = "newPosition" THEN c ELSE d]
  BY <1>1
<1>3. ASSUME NEW x \in Names
      PROVE  /\ ArgsOut[x] = IF x = "pos" THEN "d_out_pos" ELSE IF x = "vel" THEN "d_out_vel"
                             ELSE IF x = "newPosition" THEN "d_in_pos" ELSE "d_in_vel"
             /\ ArgsIn[x] = IF x = "pos" THEN "d_in_pos" ELSE IF x = "vel" THEN "d_in_vel"
                            ELSE IF x = "newPosition" THEN "d_out_pos" ELSE "d_out_vel"
  BY DEF ArgsIn, ArgsOut
<1>4. QED
  BY <1>1, <1>2, <1>3

LEMMA BodyExchange == ASSUME BodyInv, Nbody!Exchange PROVE BodyInv'
<1>1. /\ host = "exchange" /\ launch' = launch + 1 /\ exchange' = ~exchange
      /\ args' = IF exchange
                 THEN [args EXCEPT !.pos = "d_out_pos", !.vel = "d_out_vel",
                                   !.newPosition = "d_in_pos", !.newVelocity = "d_in_vel"]
                 ELSE [args EXCEPT !.pos = "d_in_pos", !.vel = "d_in_vel",
                                   !.newPosition = "d_out_pos", !.newVelocity = "d_out_vel"]
      /\ host' = IF launch' < iterations THEN "launch" ELSE "read"
      /\ UNCHANGED <<iterations, result, mem>>
      /\ UNCHANGED <<localPos, bodyPc, bodyTile, body, acc>>
  BY DEF Nbody!Exchange, Nbody!items
<1>2. HostInv /\ exchange \in BOOLEAN /\ iterations \in Nat
  BY DEF BodyInv, BodyTypes
<1>3. PICK x \in Nat : x = launch
  BY DEF BodyInv, BodyTypes
<1>4. /\ args = IF exchange THEN ArgsIn ELSE ArgsOut
      /\ args' = IF exchange THEN ArgsOut ELSE ArgsIn
  <2>1. args = IF exchange THEN ArgsIn ELSE ArgsOut
    BY <1>2 DEF HostInv
  <2>2. CASE exchange
    BY <2>1, <2>2, <1>1, SetArgs
  <2>3. CASE ~exchange
    BY <2>1, <2>3, <1>1, SetArgs
  <2>4. QED
    BY <2>1, <2>2, <2>3
<1>5. /\ args'.pos = args.newPosition /\ args'.vel = args.newVelocity
      /\ args'.newPosition = args.pos /\ args'.newVelocity = args.vel
  BY <1>4, <1>2 DEF ArgsIn, ArgsOut
<1>6. /\ mem[args.pos] = Now(x) /\ mem[args.vel] = Now(x)
      /\ mem[args.newPosition] = Now(x + 1) /\ mem[args.newVelocity] = Now(x + 1)
      /\ x < iterations /\ iterations >= 1
  BY <1>1, <1>2, <1>3 DEF HostInv, BuffersHold
<1>7. Before(x + 1) = Now(x)
  <2>1. (x + 1) - 1 = x /\ x + 1 # 0
    OBVIOUS
  <2>2. QED
    BY <2>1 DEF Before, Now
<1>8. \A h : BuffersHold(h, x + 1, mem'[args'.pos], mem'[args'.vel],
                         mem'[args'.newPosition], mem'[args'.newVelocity])
             \/ h = "exchange"
  BY <1>1, <1>5, <1>6, <1>7 DEF BuffersHold
<1>9. host' \in {"launch", "read"} /\ (host' = "launch" => x + 1 < iterations)
      /\ (host' = "read" => x + 1 = iterations)
  BY <1>1, <1>2, <1>3, <1>6
<1>10. HostInv'
  <2>1. BuffersHold(host', launch', mem'[args'.pos], mem'[args'.vel],
                    mem'[args'.newPosition], mem'[args'.newVelocity])
    BY <1>1, <1>3, <1>8, <1>9
  <2>2. args' = IF exchange' THEN ArgsIn ELSE ArgsOut
    BY <1>1, <1>2, <1>4, Zenon
  <2>3. exchange' <=> launch' % 2 = 0
    <3>1. exchange <=> x % 2 = 0
      BY <1>2, <1>3 DEF HostInv
    <3>2. (x + 1) % 2 = 0 <=> ~(x % 2 = 0)
      OBVIOUS
    <3>3. launch' % 2 = (x + 1) % 2
      BY <1>1, <1>3
    <3>4. QED
      BY <3>1, <3>2, <3>3, <1>1, <1>2, Zenon
  <2>4. QED
    BY <2>1, <2>2, <2>3, <1>1, <1>3, <1>6, <1>9 DEF HostInv
<1>11. BodyTypes'
  <2>1. exchange' \in BOOLEAN /\ launch' \in Nat
    BY <1>1, <1>2, <1>3
  <2>2. QED
    BY <2>1, <1>1, <1>9 DEF BodyInv, BodyTypes
<1>12. BodyTogether' /\ \A w \in Nbody!Items : BodyAt(w)'
  <2>1. BodyTogether'
    BY <1>1 DEF BodyInv, BodyTogether
  <2>2. ASSUME NEW w \in Nbody!Items PROVE BodyAt(w)'
    BY <1>1, <1>9 DEF BodyInv, BodyAt
  <2>3. QED
    BY <2>1, <2>2
<1>13. QED
  BY <1>10, <1>11, <1>12 DEF BodyInv

LEMMA BodyReadBack == ASSUME BodyInv, Nbody!ReadBack PROVE BodyInv'
<1>1. /\ host = "read" /\ host' = "done"
      /\ result' = [pos |-> mem["d_out_pos"], vel |-> mem["d_out_vel"]]
      /\ UNCHANGED <<iterations, launch, exchange, args, mem>>
      /\ UNCHANGED <<localPos, bodyPc, bodyTile, body, acc>>
  BY DEF Nbody!ReadBack, Nbody!items
<1>2. BodyTypes' /\ BodyTogether'
  BY <1>1 DEF BodyInv, BodyTypes, BodyTogether
<1>3. HostInv'
  <2>1. HostInv
    BY DEF BodyInv
  <2>2. BuffersHold("read", launch, mem[args.pos], mem[args.vel],
                    mem[args.newPosition], mem[args.newVelocity])
    BY <2>1, <1>1 DEF HostInv
  <2>3. BuffersHold("done", launch, mem[args.pos], mem[args.vel],
                    mem[args.newPosition], mem[args.newVelocity])
    BY <2>2 DEF BuffersHold
  <2>4. args = (IF exchange THEN ArgsIn ELSE ArgsOut) /\ (exchange <=> launch % 2 = 0)
    BY <2>1 DEF HostInv
  <2>5. (args = IF exchange THEN ArgsIn ELSE ArgsOut)' /\ (exchange <=> launch % 2 = 0)'
    BY <2>4, <1>1, Zenon DEF ArgsIn, ArgsOut
  <2>6. launch = iterations /\ iterations >= 1
    BY <2>1, <1>1 DEF HostInv
  <2>7. QED
    BY <2>3, <2>5, <2>6, <1>1 DEF HostInv
<1>4. ASSUME NEW w \in Nbody!Items PROVE BodyAt(w)'
  BY <1>1 DEF BodyInv, BodyAt
<1>5. QED
  BY <1>2, <1>3, <1>4 DEF BodyInv

LEMMA BodyStep == BodyInv /\ [Nbody!Next]_bodies => BodyInv'
<1> SUFFICES ASSUME BodyInv, [Nbody!Next]_bodies PROVE BodyInv'
  OBVIOUS
<1>1. CASE UNCHANGED bodies
  <2>1. BodyTypes' /\ BodyTogether'
    BY <1>1 DEF bodies, BodyInv, BodyTypes, BodyTogether
  <2>2. HostInv'
    BY <1>1, Zenon DEF bodies, BodyInv, HostInv, BuffersHold, ArgsIn, ArgsOut
  <2>3. ASSUME NEW w \in Nbody!Items PROVE BodyAt(w)'
    BY <1>1 DEF bodies, BodyInv, BodyAt, Nbody!gid
  <2>4. QED
    BY <2>1, <2>2, <2>3 DEF BodyInv
<1>2. CASE \E w \in Nbody!Items : Nbody!Load(w) \/ Nbody!Add(w) \/ Nbody!Store(w)
  BY <1>2, BodyLoad, BodyAdd, BodyStore
<1>3. CASE \E g \in Nbody!Groups : Nbody!Loaded(g) \/ Nbody!Added(g)
  BY <1>3, BodyLoaded, BodyAdded
<1>4. CASE Nbody!Launch \/ Nbody!clFinish \/ Nbody!Exchange \/ Nbody!ReadBack
  BY <1>4, BodyLaunch, BodyFinish, BodyExchange, BodyReadBack
<1>5. QED
  BY <1>1, <1>2, <1>3, <1>4 DEF Nbody!Next

LEMMA FourArgs ==
  ASSUME BodyInv
  PROVE  Nbody!Cardinality({args[x] : x \in DOMAIN args}) = 4
<1>1. DOMAIN args = {"pos", "vel", "newPosition", "newVelocity"}
  BY DEF BodyInv, HostInv, ArgsIn, ArgsOut
<1>2. {args[x] : x \in DOMAIN args} = Buffers
  <2>1. args = ArgsIn \/ args = ArgsOut
    BY DEF BodyInv, HostInv
  <2>2. QED
    BY <1>1, <2>1 DEF ArgsIn, ArgsOut, Buffers
<1>3. Cardinality({"d_in_pos"}) = 1 /\ IsFiniteSet({"d_in_pos"})
  BY FS_Singleton
<1>4. Cardinality({"d_in_pos", "d_in_vel"}) = 2 /\ IsFiniteSet({"d_in_pos", "d_in_vel"})
  <2>1. {"d_in_pos", "d_in_vel"} = {"d_in_pos"} \cup {"d_in_vel"}
    OBVIOUS
  <2>2. QED
    BY <2>1, <1>3, FS_AddElement
<1>5. /\ Cardinality({"d_in_pos", "d_in_vel", "d_out_pos"}) = 3
      /\ IsFiniteSet({"d_in_pos", "d_in_vel", "d_out_pos"})
  <2>1. {"d_in_pos", "d_in_vel", "d_out_pos"} = {"d_in_pos", "d_in_vel"} \cup {"d_out_pos"}
    OBVIOUS
  <2>2. QED
    BY <2>1, <1>4, FS_AddElement
<1>6. Cardinality(Buffers) = 4
  <2>1. Buffers = {"d_in_pos", "d_in_vel", "d_out_pos"} \cup {"d_out_vel"}
    BY DEF Buffers
  <2>2. QED
    BY <2>1, <1>5, FS_AddElement
<1>7. Nbody!Cardinality(Buffers) = Cardinality(Buffers)
  BY DEF Nbody!Cardinality, Cardinality
<1>8. QED
  BY <1>2, <1>6, <1>7

LEMMA BodyShared == BodyInv => Nbody!TypeOK /\ Nbody!AddsOneStep
<1> SUFFICES ASSUME BodyInv PROVE Nbody!TypeOK /\ Nbody!AddsOneStep
  OBVIOUS
<1>1. ASSUME NEW w \in Nbody!Items
      PROVE  /\ bodyPc[w] \in BodyPcs /\ bodyTile[w] \in 0..(numBodies \div localSize)
             /\ body[w] \in 0..localSize
  <2>1. /\ bodyPc[w] \in BodyPcs /\ bodyTile[w] \in Nat /\ body[w] \in 0..localSize
        /\ bodyTile[w] * localSize <= numBodies
    BY DEF BodyInv, BodyTypes, BodyAt
  <2>2. PICK x \in Nat, q \in Nat : x = bodyTile[w] /\ q = numBodies \div localSize
                                    /\ q * localSize = numBodies
    BY <2>1, BodySizes
  <2>3. x <= q
    <3>1. CASE q < x
      <4>1. PICK d \in Nat : x = q + 1 + d
        BY <3>1
      <4>2. x * localSize = q * localSize + localSize + d * localSize
            /\ d * localSize \in Nat /\ q * localSize \in Nat
        BY <4>1, BodySizes
      <4>3. QED
        BY <4>2, <2>1, <2>2, BodySizes
    <3>2. QED
      BY <3>1
  <2>4. QED
    BY <2>1, <2>2, <2>3
<1>2. host \in {"launch", "finish", "exchange", "read", "done"} /\ launch \in 0..iterations
  BY DEF BodyInv, BodyTypes, HostInv
<1>3. Nbody!TypeOK
  BY <1>1, <1>2, FourArgs DEF Nbody!TypeOK, BodyPcs
<1>4. ASSUME NEW w \in Nbody!Items, host = "finish"
      PROVE  acc[w] \subseteq Nbody!Bodies \X {launch}
  <2>1. acc[w] \in SUBSET (Nbody!Bodies \X Int)
    BY DEF BodyInv, BodyTypes
  <2>2. \E y : acc[w] = (0..y) \X {launch}
    BY <1>4 DEF BodyInv, BodyAt, BodyDone
  <2>3. QED
    BY <2>1, <2>2
<1>5. QED
  BY <1>3, <1>4 DEF Nbody!AddsOneStep

LEMMA BodyFollows == BodyInv => Nbody!LaunchReadsLastStep
BY DEF BodyInv, HostInv, BuffersHold, Now, Before, Nbody!LaunchReadsLastStep

LEMMA BodyResult == BodyInv => Nbody!EvenLosesLastStep
<1> SUFFICES ASSUME BodyInv, host = "done" PROVE Nbody!EvenLosesLastStep
  BY DEF Nbody!EvenLosesLastStep
<1>1. PICK x \in Nat : x = launch
  BY DEF BodyInv, BodyTypes
<1>2. /\ mem[args.pos] = Now(x) /\ mem[args.vel] = Now(x)
      /\ mem[args.newPosition] = Before(x) /\ mem[args.newVelocity] = Before(x)
      /\ x = iterations /\ x >= 1
      /\ result = [pos |-> mem["d_out_pos"], vel |-> mem["d_out_vel"]]
  BY <1>1 DEF BodyInv, HostInv, BuffersHold
<1>3. args = (IF exchange THEN ArgsIn ELSE ArgsOut) /\ (exchange <=> x % 2 = 0)
  BY <1>1 DEF BodyInv, HostInv
<1>4. x % 2 = 0 \/ x % 2 = 1
  OBVIOUS
<1>5. CASE x % 2 = 1
  <2>1. args = ArgsOut
    BY <1>3, <1>5
  <2>2. QED
    BY <2>1, <1>2, <1>5 DEF ArgsOut, Now, Nbody!EvenLosesLastStep
<1>6. CASE x % 2 = 0
  <2>1. args = ArgsIn
    BY <1>3, <1>6
  <2>2. Before(x) = Now(x - 1)
    BY <1>2 DEF Before, Now
  <2>3. QED
    BY <2>1, <2>2, <1>2, <1>6 DEF ArgsIn, Now, Nbody!EvenLosesLastStep
<1>7. QED
  BY <1>4, <1>5, <1>6
-------------------------------------------------------------------------------
(* The Sobel filter.                                                       *)

SobelPcs == {"load", "barrier", "read", "done"}

\* The cell in row y and column x is one v stores.
HasCell(v, x, y) ==
  /\ y = v[2] \/ (v[2] < 2 /\ y = v[2] + LY)
  /\ x = v[1] + 1 \/ (v[1] = LX - 1 /\ x = 0) \/ (v[1] = 0 /\ x = LX + 1)

\* The column and the row of the image a cell stands for, and what it is to hold:
\* the product that is wrong for the left rim is part of it.
GroupX == group[1] * LX
GroupY == group[2] * LY
CellX(x) == GroupX + x - 1
CellY(y) == GroupY + y - 1
ReadAt(x, y) == IF x = 0 /\ y < LY THEN group[1] * (LX - 1) ELSE CellX(x)
CellValue(x, y) ==
  Sobel!Pixel(Sobel!Inside(CellX(x), CellY(y)), CellY(y) * Sobel!GlobalSize0 + ReadAt(x, y))

\* The pixel a work-item has written, and the cells around it.
Writes(v)  == Sobel!PosX(v) < width /\ Sobel!PosY(v) < height
Written(v) == sobelPc[v] = "done" /\ Writes(v)
Place(v)   == Sobel!PosY(v) * Sobel!GlobalSize0 + Sobel!PosX(v)
Columns == <<0, 1, 2, 0, 2, 0, 1, 2>>
Rows    == <<0, 0, 0, 1, 1, 2, 2, 2>>
Around(v) == [d \in 1..8 |-> CellValue(v[1] + Columns[d], v[2] + Rows[d])]

\* The group begins inside the image and ends inside the launch.
SobelShape ==
  /\ width \in Nat \ {0} /\ height \in Nat \ {0}
  /\ group[1] \in Nat /\ group[2] \in Nat /\ Sobel!GlobalSize0 \in Nat
  /\ GroupX < width /\ GroupX + LX <= Sobel!GlobalSize0

\* Before the barrier a work-item that has loaded has filled its cells; behind
\* it there is none that has not, and those that are done have written what the
\* cells around them hold.
SobelInv ==
  /\ SobelShape
  /\ sobelPc \in [Sobel!Items -> SobelPcs] /\ uc4LocalData \in [Sobel!Cells -> Int]
  /\ \/ \A v \in Sobel!Items : sobelPc[v] \in {"load", "barrier"}
     \/ \A v \in Sobel!Items : sobelPc[v] \in {"read", "done"}
  /\ \A v \in Sobel!Items : sobelPc[v] # "load" =>
       \A x \in 0..(LX + 1), y \in 0..(LY + 1) :
         HasCell(v, x, y) => uc4LocalData[y * Sobel!Pitch + x] = CellValue(x, y)
  /\ \A p \in DOMAIN uiDest : \E v \in Sobel!Items : Written(v) /\ p = Place(v)
  /\ \A v \in Sobel!Items : Written(v) =>
       Place(v) \in DOMAIN uiDest /\ uiDest[Place(v)] = Around(v)

LEMMA SobelSizes ==
  /\ LX \in Nat /\ LX > 1 /\ LY \in Nat /\ LY > 1 /\ Sobel!Pitch \in Nat /\ Sobel!Pitch = LX + 2
  /\ Sobel!Pitch > 3
  /\ Images \subseteq (Nat \ {0}) \X (Nat \ {0})
BY ProgramsAssumption DEF Sobel!SobelAssumption, Sobel!Pitch

LEMMA SobelItem ==
  ASSUME NEW v \in Sobel!Items
  PROVE  v[1] \in 0..(LX - 1) /\ v[2] \in 0..(LY - 1) /\ v = <<v[1], v[2]>>
BY DEF Sobel!Items

\* The cell in a row and a column.
LEMMA SobelCell ==
  ASSUME NEW x \in 0..(LX + 1), NEW y \in 0..(LY + 1)
  PROVE  y * Sobel!Pitch + x \in Sobel!Cells
<1>1. PICK P \in Nat : P = Sobel!Pitch /\ P = LX + 2
  BY SobelSizes
<1>2. PICK d \in Nat : LY + 1 = y + d
  BY SobelSizes
<1>3. P * (LY + 2) = y * P + P + d * P /\ d * P \in Nat /\ y * P \in Nat
  <2>1. LY + 2 = y + 1 + d
    BY <1>2, SobelSizes
  <2>2. P * (y + 1 + d) = y * P + P + d * P
    BY <1>1, <1>2
  <2>3. QED
    BY <2>1, <2>2, <1>1
<1>4. PICK a \in Nat, b \in Nat, w \in Int :
        a = y * P /\ b = d * P /\ w = P * (LY + 2) /\ w = a + P + b
  BY <1>3, <1>1
<1>5. a + x \in 0..(w - 1)
  BY <1>1, <1>4, SobelSizes
<1>6. QED
  BY <1>1, <1>4, <1>5 DEF Sobel!Cells

LEMMA HasQuotient ==
  ASSUME NEW w \in Nat \ {0}, NEW z \in Nat
  PROVE  \E x \in Nat, r \in 0..(w - 1) : z = x * w + r
<1>1. w \in Nat /\ w > 0
  OBVIOUS
<1> PICK v \in Nat : v = w /\ v > 0
  BY <1>1
<1>2. z = (z \div v) * v + (z % v) /\ z \div v \in Nat /\ z % v \in 0..(v - 1)
  OBVIOUS
<1>3. QED
  BY <1>2

LEMMA SobelCellIs ==
  ASSUME NEW c \in Sobel!Cells
  PROVE  \E x \in 0..(LX + 1), y \in 0..(LY + 1) : c = y * Sobel!Pitch + x
<1>1. PICK P \in Nat : P = Sobel!Pitch /\ P = LX + 2 /\ P > 0
  BY SobelSizes
<1>2. c \in Nat /\ c < P * (LY + 2)
  <2>1. PICK w \in Int : w = P * (LY + 2)
    BY <1>1, SobelSizes
  <2>2. c \in 0..(w - 1)
    BY <1>1, <2>1 DEF Sobel!Cells
  <2>3. QED
    BY <2>1, <2>2
<1>3. P \in Nat \ {0}
  BY <1>1
<1>4. PICK y \in Nat, x \in 0..(P - 1) : c = y * P + x
  BY <1>2, <1>3, HasQuotient
<1>5. y < LY + 2
  <2>1. CASE LY + 2 <= y
    <3>1. PICK d \in Nat : y = LY + 2 + d
      BY <2>1, SobelSizes
    <3>2. y * P = P * (LY + 2) + d * P /\ d * P \in Nat
      BY <3>1, <1>1, SobelSizes
    <3>3. PICK a \in Int, b \in Nat, e \in Int : a = P * (LY + 2) /\ b = d * P /\ e = y * P
      BY <3>2, <1>1, SobelSizes
    <3>4. e = a + b /\ c = e + x /\ c < a
      BY <3>2, <3>3, <1>2, <1>4
    <3>5. QED
      BY <3>3, <3>4, <1>2, <1>4
  <2>2. QED
    BY <2>1, SobelSizes
<1>6. QED
  BY <1>1, <1>4, <1>5, SobelSizes

\* Every cell has one work-item.
LEMMA SobelOwner ==
  ASSUME NEW x \in 0..(LX + 1), NEW y \in 0..(LY + 1)
  PROVE  \E v \in Sobel!Items : \A w \in Sobel!Items : HasCell(w, x, y) <=> w = v
<1>1. PICK vx \in 0..(LX - 1) :
        /\ x = vx + 1 \/ (vx = LX - 1 /\ x = 0) \/ (vx = 0 /\ x = LX + 1)
        /\ \A wx \in 0..(LX - 1) :
             x = wx + 1 \/ (wx = LX - 1 /\ x = 0) \/ (wx = 0 /\ x = LX + 1) => wx = vx
  <2>1. CASE x = 0
    <3>1. LX - 1 \in 0..(LX - 1)
      BY SobelSizes
    <3>2. QED
      BY <2>1, <3>1, SobelSizes
  <2>2. CASE x = LX + 1
    <3>1. 0 \in 0..(LX - 1)
      BY SobelSizes
    <3>2. QED
      BY <2>2, <3>1, SobelSizes
  <2>3. CASE x \in 1..LX
    <3>1. x - 1 \in 0..(LX - 1)
      BY <2>3, SobelSizes
    <3>2. QED
      BY <2>3, <3>1, SobelSizes
  <2>4. QED
    BY <2>1, <2>2, <2>3, SobelSizes
<1>2. PICK vy \in 0..(LY - 1) :
        /\ y = vy \/ (vy < 2 /\ y = vy + LY)
        /\ \A wy \in 0..(LY - 1) : y = wy \/ (wy < 2 /\ y = wy + LY) => wy = vy
  <2>1. CASE y < LY
    <3>1. y \in 0..(LY - 1) /\ LY \in Nat
      BY <2>1, SobelSizes
    <3>2. ASSUME NEW wy \in 0..(LY - 1), y = wy \/ (wy < 2 /\ y = wy + LY) PROVE wy = y
      BY <2>1, <3>1, <3>2
    <3>3. QED
      BY <3>1, <3>2
  <2>2. CASE y >= LY
    <3>1. y - LY \in 0..(LY - 1) /\ y - LY < 2 /\ y = (y - LY) + LY
      BY <2>2, SobelSizes
    <3>2. QED
      BY <2>2, <3>1, SobelSizes
  <2>3. QED
    BY <2>1, <2>2, SobelSizes
<1>3. PICK v : v = <<vx, vy>>
  OBVIOUS
<1>4. v \in Sobel!Items /\ v[1] = vx /\ v[2] = vy
  BY <1>3 DEF Sobel!Items
<1>5. ASSUME NEW w \in Sobel!Items PROVE HasCell(w, x, y) <=> w = v
  <2>1. w[1] \in 0..(LX - 1) /\ w[2] \in 0..(LY - 1) /\ w = <<w[1], w[2]>>
    BY SobelItem
  <2>2. HasCell(w, x, y) => w[1] = vx /\ w[2] = vy
    BY <2>1, <1>1, <1>2 DEF HasCell
  <2>3. HasCell(v, x, y)
    BY <1>1, <1>2, <1>4 DEF HasCell
  <2>4. QED
    BY <2>1, <2>2, <2>3, <1>3
<1>6. QED
  BY <1>4, <1>5

\* The cells a work-item stores.
LEMMA SobelStoresAll ==
  ASSUME NEW v \in Sobel!Items, NEW x, NEW y, HasCell(v, x, y)
  PROVE  \E s \in Sobel!Stores(v) : s[1] = y * Sobel!Pitch + x
<1>1. PICK P \in Nat, vx \in Nat, vy \in Nat :
        P = Sobel!Pitch /\ P = LX + 2 /\ vx = v[1] /\ vy = v[2]
  BY SobelItem, SobelSizes
<1>2. /\ vy * P + vx + 1 = vy * P + (vx + 1)
      /\ (vy + LY) * P + vx + 1 = (vy + LY) * P + (vx + 1)
      /\ vy * P = vy * P + 0 /\ (vy + LY) * P = (vy + LY) * P + 0
      /\ (vy + 1) * P - 1 = vy * P + (LX + 1)
      /\ (vy + LY + 1) * P - 1 = (vy + LY) * P + (LX + 1)
  BY <1>1, SobelSizes
<1>3. CASE y = vy
  <2>1. CASE x = vx + 1
    <3>1. \E s \in Sobel!Main(v) : s[1] = vy * P + vx + 1
      BY <1>1 DEF Sobel!Main
    <3>2. QED
      BY <3>1, <2>1, <1>1, <1>2, <1>3 DEF Sobel!Stores
  <2>2. CASE vx = LX - 1 /\ x = 0
    <3>1. \E s \in Sobel!Left(v) : s[1] = vy * P
      BY <2>2, <1>1 DEF Sobel!Left
    <3>2. QED
      BY <3>1, <2>2, <1>1, <1>2, <1>3 DEF Sobel!Stores
  <2>3. CASE vx = 0 /\ x = LX + 1
    <3>1. \E s \in Sobel!Right(v) : s[1] = (vy + 1) * P - 1
      BY <2>3, <1>1 DEF Sobel!Right
    <3>2. QED
      BY <3>1, <2>3, <1>1, <1>2, <1>3 DEF Sobel!Stores
  <2>4. QED
    BY <2>1, <2>2, <2>3, <1>1 DEF HasCell
<1>4. CASE vy < 2 /\ y = vy + LY
  <2>1. ~(v[2] >= 2)
    BY <1>1, <1>4
  <2>2. CASE x = vx + 1
    <3>1. \E s \in Sobel!NextBlock(v) : s[1] = (vy + LY) * P + vx + 1
      BY <1>1, <2>1 DEF Sobel!NextBlock
    <3>2. QED
      BY <3>1, <2>2, <1>1, <1>2, <1>4 DEF Sobel!Stores
  <2>3. CASE vx = LX - 1 /\ x = 0
    <3>1. \E s \in Sobel!LeftNext(v) : s[1] = (vy + LY) * P
      BY <2>3, <1>1, <2>1 DEF Sobel!LeftNext
    <3>2. QED
      BY <3>1, <2>3, <1>1, <1>2, <1>4 DEF Sobel!Stores
  <2>4. CASE vx = 0 /\ x = LX + 1
    <3>1. \E s \in Sobel!RightNext(v) : s[1] = (vy + LY + 1) * P - 1
      BY <2>4, <1>1, <2>1 DEF Sobel!RightNext
    <3>2. QED
      BY <3>1, <2>4, <1>1, <1>2, <1>4 DEF Sobel!Stores
  <2>5. QED
    BY <2>2, <2>3, <2>4, <1>1 DEF HasCell
<1>5. QED
  BY <1>1, <1>3, <1>4 DEF HasCell

\* The numbers of a launch.
LEMMA SobelNumbers ==
  ASSUME SobelShape
  PROVE  /\ width \in Nat /\ width > 0 /\ height \in Nat /\ height > 0
         /\ Sobel!GlobalSize0 \in Nat /\ group[1] \in Nat
         /\ GroupX \in Nat /\ GroupY \in Nat
         /\ GroupX < width /\ GroupX + LX <= Sobel!GlobalSize0
         /\ group[1] = 0 => GroupX = 0
         /\ group[1] = 1 => GroupX = LX
         /\ group[1] > 0 => GroupX >= LX /\ GroupX - group[1] >= 0
         /\ group[1] * (LX - 1) = GroupX - group[1] /\ (group[1] + 1) * LX = GroupX + LX
<1>1. PICK l \in Nat, h \in Nat : l = LX /\ l > 1 /\ h = LY
  BY SobelSizes
<1>2. PICK g \in Nat, e \in Nat : g = group[1] /\ e = group[2]
  BY DEF SobelShape
<1>3. g * l \in Nat /\ e * h \in Nat /\ g * (l - 1) = g * l - g /\ (g + 1) * l = g * l + l
  BY <1>1, <1>2
<1>4. GroupX = g * l /\ GroupY = e * h
  BY <1>1, <1>2 DEF GroupX, GroupY
<1>5. PICK a \in Nat : a = g * l
  BY <1>3
<1>6. (g = 0 => a = 0) /\ (g = 1 => a = l)
  BY <1>1, <1>2, <1>5
<1>7. ASSUME g > 0 PROVE a >= l /\ a - g >= 0
  <2>1. PICK d \in Nat, z \in Nat : g = d + 1 /\ l = z + 1
    BY <1>1, <1>7
  <2>2. a = d * l + l /\ d * l \in Nat /\ a = g * z + g /\ g * z \in Nat
    BY <1>1, <1>2, <1>5, <2>1
  <2>3. QED
    BY <1>1, <1>2, <1>5, <2>2
<1>8. group[1] * (LX - 1) = a - g /\ (group[1] + 1) * LX = a + l
  BY <1>1, <1>2, <1>3, <1>5
<1>9. GroupX = a /\ GroupX \in Nat /\ GroupY \in Nat
  BY <1>3, <1>4, <1>5
<1>10. QED
  BY <1>1, <1>2, <1>6, <1>7, <1>8, <1>9 DEF SobelShape

\* And no others, each with what it is to hold.
LEMMA SobelStoresOnly ==
  ASSUME SobelShape, NEW v \in Sobel!Items, NEW s \in Sobel!Stores(v)
  PROVE  \E x \in 0..(LX + 1), y \in 0..(LY + 1) :
           HasCell(v, x, y) /\ s[1] = y * Sobel!Pitch + x /\ s[2] = CellValue(x, y)
<1>1. PICK P \in Nat, vx \in Nat, vy \in Nat :
        /\ P = Sobel!Pitch /\ P = LX + 2 /\ vx = v[1] /\ vy = v[2] /\ vx < LX /\ vy < LY
  BY SobelItem, SobelSizes
<1>2. /\ vy * P + vx + 1 = vy * P + (vx + 1)
      /\ (vy + LY) * P + vx + 1 = (vy + LY) * P + (vx + 1)
      /\ vy * P = vy * P + 0 /\ (vy + LY) * P = (vy + LY) * P + 0
      /\ (vy + 1) * P - 1 = vy * P + (LX + 1)
      /\ (vy + LY + 1) * P - 1 = (vy + LY) * P + (LX + 1)
  BY <1>1, SobelSizes
<1>3. /\ vx + 1 \in 0..(LX + 1) /\ 0 \in 0..(LX + 1) /\ LX + 1 \in 0..(LX + 1)
      /\ vy \in 0..(LY + 1)
      /\ vy < 2 => vy + LY \in 0..(LY + 1)
  BY <1>1, SobelSizes
<1>4. ~(v[2] >= 2) => vy < 2
  BY <1>1
<1>5. /\ HasCell(v, vx + 1, vy)
      /\ vx = LX - 1 => HasCell(v, 0, vy)
      /\ vx = 0 => HasCell(v, LX + 1, vy)
      /\ vy < 2 => HasCell(v, vx + 1, vy + LY)
      /\ vy < 2 /\ vx = LX - 1 => HasCell(v, 0, vy + LY)
      /\ vy < 2 /\ vx = 0 => HasCell(v, LX + 1, vy + LY)
  BY <1>1, SobelSizes DEF HasCell
<1>6. PICK l \in Nat, h \in Nat : l = LX /\ l > 1 /\ h = LY /\ h > 1
  BY SobelSizes
<1>7. PICK w \in Nat, t \in Nat, g \in Nat : w = width /\ t = height /\ g = group[1]
  BY SobelNumbers
<1>8. PICK a \in Nat, b \in Nat, G \in Nat : a = GroupX /\ b = GroupY /\ G = Sobel!GlobalSize0
  BY SobelNumbers
<1>9. /\ l = LX /\ l > 1 /\ h = LY /\ h > 1 /\ w = width /\ t = height /\ g = group[1]
      /\ G = Sobel!GlobalSize0 /\ a = group[1] * LX /\ b = group[2] * LY
      /\ a = GroupX /\ b = GroupY
      /\ a < w /\ a + l <= G /\ (g = 0 => a = 0) /\ (g > 0 => a >= l /\ a - g >= 0)
      /\ group[1] * (LX - 1) = a - g /\ (group[1] + 1) * LX = a + l
  BY <1>6, <1>7, <1>8, SobelNumbers DEF GroupX, GroupY
<1>10. /\ Sobel!PosX(v) = a + vx /\ Sobel!PosY(v) = b + vy /\ Sobel!YPrime(v) = b + vy - 1
       /\ CellX(vx + 1) = a + vx /\ CellX(0) = a - 1 /\ CellX(LX + 1) = a + l
       /\ CellY(vy) = b + vy - 1 /\ CellY(vy + LY) = b + vy - 1 + h
  <2>1. Sobel!PosX(v) = a + vx /\ Sobel!PosY(v) = b + vy
    BY <1>1, <1>9 DEF Sobel!PosX, Sobel!PosY
  <2>2. Sobel!YPrime(v) = b + vy - 1
    BY <2>1 DEF Sobel!YPrime
  <2>3. CellX(vx + 1) = a + vx /\ CellX(0) = a - 1 /\ CellX(LX + 1) = a + l
    BY <1>9 DEF CellX
  <2>4. CellY(vy) = b + vy - 1 /\ CellY(vy + LY) = b + vy - 1 + h
    BY <1>9 DEF CellY
  <2>5. QED
    BY <2>1, <2>2, <2>3, <2>4
<1>11. /\ ReadAt(vx + 1, vy) = a + vx /\ ReadAt(vx + 1, vy + LY) = a + vx
       /\ ReadAt(0, vy) = group[1] * (LX - 1) /\ ReadAt(0, vy + LY) = a - 1
       /\ ReadAt(LX + 1, vy) = a + l /\ ReadAt(LX + 1, vy + LY) = a + l
  BY <1>1, <1>9, <1>10 DEF ReadAt
<1>12. /\ Sobel!Above(v) <=> b + vy - 1 >= 0 /\ b + vy - 1 < t
       /\ Sobel!Below(v) <=> b + vy - 1 + h < t
  BY <1>1, <1>9, <1>10 DEF Sobel!Above, Sobel!Below
<1>13. CASE s \in Sobel!Main(v)
  <2>1. /\ HasCell(v, vx + 1, vy) /\ s[1] = vy * P + (vx + 1)
        /\ s[2] = Sobel!Pixel(Sobel!Above(v) /\ Sobel!PosX(v) < width,
                              (b + vy - 1) * Sobel!GlobalSize0 + (a + vx))
    BY <1>1, <1>2, <1>5, <1>9, <1>10, <1>13 DEF Sobel!Main
  <2>2. Sobel!Above(v) /\ Sobel!PosX(v) < width <=> Sobel!Inside(a + vx, b + vy - 1)
    BY <1>9, <1>10, <1>12 DEF Sobel!Inside
  <2>3. s[2] = CellValue(vx + 1, vy)
    BY <2>1, <2>2, <1>10, <1>11 DEF CellValue, Sobel!Pixel
  <2>4. QED
    BY <1>1, <1>3, <2>1, <2>3
<1>14. CASE s \in Sobel!NextBlock(v)
  <2>1. ~(v[2] >= 2)
    BY <1>14 DEF Sobel!NextBlock
  <2>2. /\ s[1] = (vy + LY) * P + vx + 1
        /\ s[2] = Sobel!Pixel(Sobel!Below(v) /\ Sobel!PosX(v) < width,
                              (b + vy - 1 + h) * Sobel!GlobalSize0 + (a + vx))
    BY <1>1, <1>9, <1>10, <1>14, <2>1 DEF Sobel!NextBlock
  <2>3. Sobel!Below(v) /\ Sobel!PosX(v) < width <=> Sobel!Inside(a + vx, b + vy - 1 + h)
    <3>1. a + vx >= 0 /\ b + vy - 1 + h >= 0
      BY <1>9
    <3>2. Sobel!Inside(a + vx, b + vy - 1 + h) <=> a + vx < w /\ b + vy - 1 + h < t
      BY <1>9, <3>1 DEF Sobel!Inside
    <3>3. QED
      BY <1>9, <1>10, <1>12, <3>2
  <2>4. s[2] = CellValue(vx + 1, vy + LY)
    BY <2>2, <2>3, <1>10, <1>11 DEF CellValue, Sobel!Pixel
  <2>5. vy < 2 /\ HasCell(v, vx + 1, vy + LY) /\ s[1] = (vy + LY) * P + (vx + 1)
    BY <1>2, <1>4, <1>5, <2>1, <2>2
  <2>6. QED
    BY <1>1, <1>3, <2>4, <2>5
<1>15. CASE s \in Sobel!Left(v)
  <2>1. /\ vx = LX - 1 /\ s[1] = vy * P
        /\ s[2] = Sobel!Pixel(Sobel!Above(v) /\ group[1] > 0,
                              (b + vy - 1) * Sobel!GlobalSize0 + group[1] * (LX - 1))
    BY <1>1, <1>10, <1>15 DEF Sobel!Left
  <2>2. Sobel!Above(v) /\ group[1] > 0 <=> Sobel!Inside(a - 1, b + vy - 1)
    BY <1>9, <1>12 DEF Sobel!Inside
  <2>3. s[2] = CellValue(0, vy)
    BY <2>1, <2>2, <1>10, <1>11 DEF CellValue, Sobel!Pixel
  <2>4. HasCell(v, 0, vy) /\ s[1] = vy * P + 0
    BY <1>2, <1>5, <2>1
  <2>5. QED
    BY <1>1, <1>3, <2>3, <2>4
<1>16. CASE s \in Sobel!LeftNext(v)
  <2>1. ~(v[2] >= 2) /\ v[1] = LX - 1
    BY <1>16 DEF Sobel!LeftNext
  <2>2. /\ vx = LX - 1 /\ s[1] = (vy + LY) * P
        /\ s[2] = Sobel!Pixel(Sobel!Below(v) /\ group[1] > 0,
                              (b + vy - 1 + h) * Sobel!GlobalSize0 + a - 1)
    BY <1>1, <1>9, <1>10, <1>16, <2>1 DEF Sobel!LeftNext
  <2>3. Sobel!Below(v) /\ group[1] > 0 <=> Sobel!Inside(a - 1, b + vy - 1 + h)
    BY <1>9, <1>12 DEF Sobel!Inside
  <2>4. (b + vy - 1 + h) * Sobel!GlobalSize0 + a - 1 = (b + vy - 1 + h) * Sobel!GlobalSize0 + (a - 1)
    <3>1. PICK c \in Int : c = (b + vy - 1 + h) * Sobel!GlobalSize0
      BY <1>9
    <3>2. QED
      BY <3>1
  <2>5. s[2] = CellValue(0, vy + LY)
    BY <2>2, <2>3, <2>4, <1>10, <1>11 DEF CellValue, Sobel!Pixel
  <2>6. vy < 2 /\ HasCell(v, 0, vy + LY) /\ s[1] = (vy + LY) * P + 0
    BY <1>2, <1>4, <1>5, <2>1, <2>2
  <2>7. QED
    BY <1>1, <1>3, <2>5, <2>6
<1>17. CASE s \in Sobel!Right(v)
  <2>1. /\ vx = 0 /\ s[1] = (vy + 1) * P - 1
        /\ s[2] = Sobel!Pixel(Sobel!Above(v) /\ a + l < w,
                              (b + vy - 1) * Sobel!GlobalSize0 + (a + l))
    BY <1>1, <1>9, <1>10, <1>17 DEF Sobel!Right
  <2>2. Sobel!Above(v) /\ a + l < w <=> Sobel!Inside(a + l, b + vy - 1)
    BY <1>9, <1>12 DEF Sobel!Inside
  <2>3. s[2] = CellValue(LX + 1, vy)
    BY <2>1, <2>2, <1>10, <1>11 DEF CellValue, Sobel!Pixel
  <2>4. HasCell(v, LX + 1, vy) /\ s[1] = vy * P + (LX + 1)
    BY <1>2, <1>5, <2>1
  <2>5. QED
    BY <1>1, <1>3, <2>3, <2>4
<1>18. CASE s \in Sobel!RightNext(v)
  <2>1. ~(v[2] >= 2) /\ v[1] = 0
    BY <1>18 DEF Sobel!RightNext
  <2>2. /\ vx = 0 /\ s[1] = (vy + LY + 1) * P - 1
        /\ s[2] = Sobel!Pixel(Sobel!Below(v) /\ a + l < w,
                              (b + vy - 1 + h) * Sobel!GlobalSize0 + (a + l))
    BY <1>1, <1>9, <1>10, <1>18, <2>1 DEF Sobel!RightNext
  <2>3. Sobel!Below(v) /\ a + l < w <=> Sobel!Inside(a + l, b + vy - 1 + h)
    BY <1>9, <1>12 DEF Sobel!Inside
  <2>4. s[2] = CellValue(LX + 1, vy + LY)
    BY <2>2, <2>3, <1>10, <1>11 DEF CellValue, Sobel!Pixel
  <2>5. vy < 2 /\ HasCell(v, LX + 1, vy + LY) /\ s[1] = (vy + LY) * P + (LX + 1)
    BY <1>2, <1>4, <1>5, <2>1, <2>2
  <2>6. QED
    BY <1>1, <1>3, <2>4, <2>5
<1>19. QED
  BY <1>13, <1>14, <1>15, <1>16, <1>17, <1>18 DEF Sobel!Stores

LEMMA SobelOneCell ==
  ASSUME NEW x \in 0..(LX + 1), NEW y \in 0..(LY + 1), NEW a \in 0..(LX + 1), NEW b \in 0..(LY + 1),
         y * Sobel!Pitch + x = b * Sobel!Pitch + a
  PROVE  a = x /\ b = y
<1>1. PICK P \in Nat : P = Sobel!Pitch /\ P = LX + 2
  BY SobelSizes
<1>2. /\ a \in 0..(P - 1) /\ x \in 0..(P - 1) /\ b \in Nat /\ y \in Nat
      /\ b * P + a = y * P + x
  BY <1>1, SobelSizes
<1>3. QED
  BY <1>2, OneQuotient

\* No two places of the rim share a cell, so each cell has one work-item.
LEMMA SobelOnce == SobelShape => Sobel!EachCellHasOneItem
<1> SUFFICES ASSUME SobelShape PROVE Sobel!EachCellHasOneItem
  OBVIOUS
<1>1. SUFFICES ASSUME NEW c \in Sobel!Cells
               PROVE  \E v \in Sobel!Items : \A w \in Sobel!Items :
                        (\E s \in Sobel!Stores(w) : s[1] = c) <=> w = v
  BY DEF Sobel!EachCellHasOneItem
<1>2. PICK x \in 0..(LX + 1), y \in 0..(LY + 1) : c = y * Sobel!Pitch + x
  BY SobelCellIs
<1>3. PICK v \in Sobel!Items : \A w \in Sobel!Items : HasCell(w, x, y) <=> w = v
  BY SobelOwner
<1>4. ASSUME NEW w \in Sobel!Items
      PROVE  (\E s \in Sobel!Stores(w) : s[1] = c) <=> HasCell(w, x, y)
  <2>1. ASSUME NEW s \in Sobel!Stores(w), s[1] = c PROVE HasCell(w, x, y)
    <3>1. PICK a \in 0..(LX + 1), b \in 0..(LY + 1) :
            HasCell(w, a, b) /\ s[1] = b * Sobel!Pitch + a
      BY SobelStoresOnly
    <3>2. a = x /\ b = y
      BY <1>2, <2>1, <3>1, SobelOneCell
    <3>3. QED
      BY <3>1, <3>2
  <2>2. HasCell(w, x, y) => \E s \in Sobel!Stores(w) : s[1] = c
    BY <1>2, SobelStoresAll
  <2>3. QED
    BY <2>1, <2>2
<1>5. QED
  BY <1>3, <1>4

\* A pixel inside the image is taken from its row, at its column or, where the
\* product is wrong, before.
LEMMA SobelInside ==
  ASSUME SobelShape, NEW x \in 0..(LX + 1), NEW y \in 0..(LY + 1),
         Sobel!Inside(CellX(x), CellY(y))
  PROVE  /\ CellX(x) \in Nat /\ CellX(x) < width /\ CellY(y) \in Nat /\ CellY(y) < height
         /\ ReadAt(x, y) \in Nat /\ ReadAt(x, y) <= CellX(x)
<1>1. PICK l \in Nat, h \in Nat : l = LX /\ l > 1 /\ h = LY /\ h > 1
  BY SobelSizes
<1>2. PICK w \in Nat, t \in Nat, g \in Nat : w = width /\ t = height /\ g = group[1]
  BY SobelNumbers
<1>3. PICK a \in Nat, b \in Nat, G \in Nat : a = GroupX /\ b = GroupY /\ G = Sobel!GlobalSize0
  BY SobelNumbers
<1>4. /\ l = LX /\ l > 1 /\ h = LY /\ h > 1 /\ w = width /\ t = height /\ g = group[1]
      /\ G = Sobel!GlobalSize0 /\ a = group[1] * LX /\ b = group[2] * LY
      /\ a = GroupX /\ b = GroupY
      /\ a < w /\ a + l <= G /\ (g = 0 => a = 0) /\ (g > 0 => a >= l /\ a - g >= 0)
      /\ group[1] * (LX - 1) = a - g /\ (group[1] + 1) * LX = a + l
  BY <1>1, <1>2, <1>3, SobelNumbers DEF GroupX, GroupY
<1>5. CellX(x) = a + x - 1 /\ CellY(y) = b + y - 1
  BY <1>4 DEF CellX, CellY
<1>6. a + x - 1 >= 0 /\ a + x - 1 < w /\ b + y - 1 >= 0 /\ b + y - 1 < t
  BY <1>4, <1>5 DEF Sobel!Inside
<1>7. CASE x = 0 /\ y < LY
  <2>1. ReadAt(x, y) = a - g
    BY <1>4, <1>7 DEF ReadAt
  <2>2. g > 0
    BY <1>4, <1>6, <1>7
  <2>3. QED
    BY <1>4, <1>5, <1>6, <1>7, <2>1, <2>2
<1>8. CASE ~(x = 0 /\ y < LY)
  <2>1. ReadAt(x, y) = CellX(x)
    BY <1>8 DEF ReadAt
  <2>2. QED
    BY <1>4, <1>5, <1>6, <2>1
<1>9. QED
  BY <1>7, <1>8

LEMMA SobelValue ==
  ASSUME SobelShape, NEW x \in 0..(LX + 1), NEW y \in 0..(LY + 1)
  PROVE  CellValue(x, y) \in Int /\ CellValue(x, y) # Sobel!Unset
<1>1. CASE Sobel!Inside(CellX(x), CellY(y))
  <2>1. PICK c \in Nat, e \in Nat, G \in Nat :
          c = CellY(y) /\ e = ReadAt(x, y) /\ G = Sobel!GlobalSize0
    BY <1>1, SobelInside DEF SobelShape
  <2>2. c * G + e \in Nat
    BY <2>1
  <2>3. CellValue(x, y) = c * G + e
    BY <1>1, <2>1 DEF CellValue, Sobel!Pixel
  <2>4. QED
    BY <2>2, <2>3 DEF Sobel!Unset
<1>2. CASE ~Sobel!Inside(CellX(x), CellY(y))
  BY <1>2 DEF CellValue, Sobel!Pixel, Sobel!Zero, Sobel!Unset
<1>3. QED
  BY <1>1, <1>2

\* f is memory after stores into it.
IsStored(f, memory, stores, D, V) ==
  /\ f \in [D -> V]
  /\ \A c \in D : \/ \E s \in stores : s[1] = c /\ f[c] = s[2]
                  \/ (\A s \in stores : s[1] # c) /\ f[c] = memory[c]

AreStores(stores, D, V) == \A s \in stores : s[1] \in D /\ s[2] \in V

LEMMA StoredIs ==
  ASSUME NEW memory, NEW stores, NEW D, NEW V, memory \in [D -> V], AreStores(stores, D, V)
  PROVE  IsStored(Sobel!Stored(memory, stores), memory, stores, D, V)
<1>1. DOMAIN memory \cup {s[1] : s \in stores} = D
  BY DEF AreStores
<1>2. PICK f : f = Sobel!Stored(memory, stores)
  OBVIOUS
<1>3. f = [c \in D |-> IF \E s \in stores : s[1] = c
                       THEN (CHOOSE s \in stores : s[1] = c)[2] ELSE memory[c]]
  BY <1>1, <1>2 DEF Sobel!Stored
<1>4. ASSUME NEW c \in D
      PROVE  /\ f[c] \in V
             /\ \/ \E s \in stores : s[1] = c /\ f[c] = s[2]
                \/ (\A s \in stores : s[1] # c) /\ f[c] = memory[c]
  <2>1. CASE \E s \in stores : s[1] = c
    <3>1. PICK s : s = CHOOSE r \in stores : r[1] = c
      OBVIOUS
    <3>2. s \in stores /\ s[1] = c
      BY <2>1, <3>1
    <3>3. f[c] = s[2]
      BY <1>3, <2>1, <3>1
    <3>4. QED
      BY <3>2, <3>3 DEF AreStores
  <2>2. CASE ~(\E s \in stores : s[1] = c)
    <3>1. f[c] = memory[c]
      BY <1>3, <2>2
    <3>2. QED
      BY <2>2, <3>1
  <2>3. QED
    BY <2>1, <2>2
<1>5. f \in [D -> V]
  BY <1>3, <1>4
<1>6. QED
  BY <1>2, <1>4, <1>5 DEF IsStored

LEMMA SobelStoreIs ==
  ASSUME SobelShape, NEW v \in Sobel!Items, NEW s \in Sobel!Stores(v)
  PROVE  s[1] \in Sobel!Cells /\ s[2] \in Int
BY SobelStoresOnly, SobelCell, SobelValue

\* Nothing of this changes while the group runs.
LEMMA SobelSame ==
  width' = width /\ height' = height /\ group' = group =>
    /\ SobelShape => SobelShape'
    /\ \A x, y : CellValue(x, y)' = CellValue(x, y)
    /\ \A v : (Writes(v)' <=> Writes(v)) /\ Place(v)' = Place(v) /\ Around(v)' = Around(v)
<1> SUFFICES ASSUME width' = width, height' = height, group' = group
             PROVE  /\ SobelShape => SobelShape'
                    /\ \A x, y : CellValue(x, y)' = CellValue(x, y)
                    /\ \A v : /\ Writes(v)' <=> Writes(v)
                              /\ Place(v)' = Place(v) /\ Around(v)' = Around(v)
  OBVIOUS
<1>1. Sobel!GlobalSize0' = Sobel!GlobalSize0
  BY DEF Sobel!GlobalSize0
<1>2. SobelShape => SobelShape'
  BY <1>1 DEF SobelShape, GroupX
<1>3. \A x, y : CellValue(x, y)' = CellValue(x, y)
  BY <1>1 DEF CellValue, CellX, CellY, GroupX, GroupY, ReadAt, Sobel!Inside, Sobel!Pixel
<1>4. \A v : (Writes(v)' <=> Writes(v)) /\ Place(v)' = Place(v)
  BY <1>1 DEF Writes, Place, Sobel!PosX, Sobel!PosY
<1>5. \A v : Around(v)' = Around(v)
  BY <1>3 DEF Around
<1>6. QED
  BY <1>2, <1>3, <1>4, <1>5

LEMMA SobelFirst == ASSUME Sobel!Init PROVE SobelInv
<1>1. PICK image \in Images : width = image[1] /\ height = image[2]
  BY DEF Sobel!Init
<1>2. PICK w \in Nat, l \in Nat, z \in Nat :
        w = width /\ w > 0 /\ height \in Nat \ {0} /\ l = LX /\ l > 1 /\ z = w + l - 1
  BY <1>1, SobelSizes
<1>3. PICK q \in Nat, r \in 0..(l - 1) : z = q * l + r
  <2>1. l \in Nat \ {0}
    BY <1>2
  <2>2. QED
    BY <2>1, HasQuotient
<1>4. z \div l = q
  BY <1>3, Quotient
<1>5. Sobel!GlobalSize0 = q * l
  BY <1>2, <1>4 DEF Sobel!GlobalSize0, Sobel!shrRoundUp
<1>6. Sobel!GlobalSize0 \div LX = q
  <2>1. 0 \in 0..(l - 1) /\ q * l + 0 = q * l
    BY <1>2, <1>3
  <2>2. (q * l + 0) \div l = q
    BY <2>1, <1>2, <1>3, Quotient
  <2>3. QED
    BY <1>2, <1>5, <2>1, <2>2
<1>7. PICK g \in Nat : g = group[1] /\ g \in 0..(q - 1) /\ group[2] \in Nat
  <2>1. PICK b : group \in (0..(q - 1)) \X (0..b)
    BY <1>6 DEF Sobel!Init
  <2>2. QED
    BY <2>1
<1>8. PICK d \in Nat : q = g + 1 + d
  <2>1. q - (g + 1) \in Nat /\ q = g + 1 + (q - (g + 1))
    BY <1>3, <1>7
  <2>2. QED
    BY <2>1
<1>9. q * l = g * l + l + d * l /\ d * l \in Nat /\ g * l \in Nat /\ q * l \in Nat
  BY <1>2, <1>3, <1>7, <1>8
<1>10. SobelShape
  <2>1. PICK Q \in Nat, e \in Nat, f \in Nat : Q = q * l /\ e = g * l /\ f = d * l /\ Q = e + l + f
    BY <1>9
  <2>2. e < w /\ e + l <= Q
    BY <1>2, <1>3, <2>1
  <2>3. QED
    BY <1>2, <1>5, <1>7, <2>1, <2>2 DEF SobelShape, GroupX
<1>11. sobelPc = [v \in Sobel!Items |-> "load"] /\ sobelPc \in [Sobel!Items -> SobelPcs]
  BY DEF Sobel!Init, SobelPcs
<1>12. uc4LocalData \in [Sobel!Cells -> Int]
  BY DEF Sobel!Init, Sobel!Unset
<1>13. DOMAIN uiDest = {}
  BY DEF Sobel!Init
<1>14. QED
  BY <1>10, <1>11, <1>12, <1>13 DEF SobelInv, Written

LEMMA SobelLoad == ASSUME SobelInv, NEW v \in Sobel!Items, Sobel!Load(v) PROVE SobelInv'
<1>1. /\ sobelPc[v] = "load" /\ sobelPc' = [sobelPc EXCEPT ![v] = "barrier"]
      /\ uc4LocalData' = Sobel!Stored(uc4LocalData, Sobel!Stores(v))
      /\ width' = width /\ height' = height /\ group' = group /\ uiDest' = uiDest
  BY DEF Sobel!Load
<1>2. SobelShape /\ \A s \in Sobel!Stores(v) : s[1] \in Sobel!Cells /\ s[2] \in Int
  BY SobelStoreIs DEF SobelInv
<1>3. /\ uc4LocalData' \in [Sobel!Cells -> Int]
      /\ \A c \in Sobel!Cells :
           \/ \E s \in Sobel!Stores(v) : s[1] = c /\ uc4LocalData'[c] = s[2]
           \/ /\ \A s \in Sobel!Stores(v) : s[1] # c
              /\ uc4LocalData'[c] = uc4LocalData[c]
  <2>1. PICK stores, memory, D, V :
          stores = Sobel!Stores(v) /\ memory = uc4LocalData /\ D = Sobel!Cells /\ V = Int
    OBVIOUS
  <2>2. memory \in [D -> V]
    BY <2>1 DEF SobelInv
  <2>3. AreStores(stores, D, V)
    BY <1>2, <2>1 DEF AreStores
  <2>4. IsStored(Sobel!Stored(memory, stores), memory, stores, D, V)
    BY <2>2, <2>3, StoredIs
  <2>5. uc4LocalData' = Sobel!Stored(memory, stores)
    BY <1>1, <2>1
  <2>6. IsStored(uc4LocalData', uc4LocalData, Sobel!Stores(v), Sobel!Cells, Int)
    BY <2>1, <2>4, <2>5
  <2>7. QED
    BY <2>6 DEF IsStored
<1>4. SobelShape' /\ \A x, y : CellValue(x, y)' = CellValue(x, y)
  BY <1>1, <1>2, SobelSame
<1>5. \A w : (Writes(w)' <=> Writes(w)) /\ Place(w)' = Place(w) /\ Around(w)' = Around(w)
  BY <1>1, SobelSame
<1>6. ASSUME NEW w \in Sobel!Items, sobelPc'[w] # "load",
             NEW x \in 0..(LX + 1), NEW y \in 0..(LY + 1), HasCell(w, x, y)
      PROVE  uc4LocalData'[y * Sobel!Pitch + x] = CellValue(x, y)
  <2>1. PICK c \in Sobel!Cells : c = y * Sobel!Pitch + x
    BY SobelCell
  <2>2. CASE \E s \in Sobel!Stores(v) : s[1] = c /\ uc4LocalData'[c] = s[2]
    <3>1. PICK s \in Sobel!Stores(v) : s[1] = c /\ uc4LocalData'[c] = s[2]
      BY <2>2
    <3>2. PICK a \in 0..(LX + 1), b \in 0..(LY + 1) :
            s[1] = b * Sobel!Pitch + a /\ s[2] = CellValue(a, b)
      BY <1>2, SobelStoresOnly
    <3>3. a = x /\ b = y
      BY <2>1, <3>1, <3>2, SobelOneCell
    <3>4. QED
      BY <2>1, <3>1, <3>2, <3>3
  <2>3. CASE (\A s \in Sobel!Stores(v) : s[1] # c) /\ uc4LocalData'[c] = uc4LocalData[c]
    <3>1. w # v
      BY <1>6, <2>1, <2>3, SobelStoresAll
    <3>2. sobelPc[w] # "load"
      BY <1>1, <1>6, <3>1 DEF SobelInv
    <3>3. QED
      BY <1>6, <2>1, <2>3, <3>2 DEF SobelInv
  <2>4. QED
    BY <1>3, <2>1, <2>2, <2>3
<1>7. \A w \in Sobel!Items : sobelPc'[w] \in {"load", "barrier"}
  <2>1. \A w \in Sobel!Items : sobelPc[w] \in {"load", "barrier"}
    BY <1>1 DEF SobelInv
  <2>2. QED
    BY <1>1, <2>1 DEF SobelInv
<1>8. sobelPc' \in [Sobel!Items -> SobelPcs]
  BY <1>1 DEF SobelInv, SobelPcs
<1>9. \A w \in Sobel!Items : Written(w)' <=> Written(w)
  BY <1>1, <1>5 DEF SobelInv, Written
<1>10. \A p \in DOMAIN uiDest' : \E w \in Sobel!Items : Written(w)' /\ p = Place(w)'
  BY <1>1, <1>5, <1>9 DEF SobelInv
<1>11. \A w \in Sobel!Items : Written(w)' =>
         Place(w)' \in DOMAIN uiDest' /\ uiDest'[Place(w)'] = Around(w)'
  BY <1>1, <1>5, <1>9 DEF SobelInv
<1>12. QED
  BY <1>3, <1>4, <1>6, <1>7, <1>8, <1>10, <1>11 DEF SobelInv, HasCell

LEMMA SobelBarrier == ASSUME SobelInv, Sobel!Barrier PROVE SobelInv'
<1>1. /\ \A w \in Sobel!Items : sobelPc[w] = "barrier"
      /\ sobelPc' = [w \in Sobel!Items |-> "read"]
      /\ width' = width /\ height' = height /\ group' = group
      /\ uc4LocalData' = uc4LocalData /\ uiDest' = uiDest
  BY DEF Sobel!Barrier
<1>2. SobelShape' /\ \A x, y : CellValue(x, y)' = CellValue(x, y)
  BY <1>1, SobelSame DEF SobelInv
<1>3. sobelPc' \in [Sobel!Items -> SobelPcs] /\ \A w \in Sobel!Items : sobelPc'[w] = "read"
  BY <1>1 DEF SobelPcs
<1>4. \A w \in Sobel!Items : ~Written(w) /\ ~Written(w)'
  BY <1>1, <1>3 DEF Written
<1>5. \A w \in Sobel!Items, x \in 0..(LX + 1), y \in 0..(LY + 1) :
        HasCell(w, x, y) => uc4LocalData'[y * Sobel!Pitch + x] = CellValue(x, y)'
  BY <1>1, <1>2 DEF SobelInv
<1>6. \A w, x, y : HasCell(w, x, y)' <=> HasCell(w, x, y)
  BY DEF HasCell
<1>7. QED
  BY <1>1, <1>2, <1>3, <1>4, <1>5, <1>6 DEF SobelInv

\* Behind the barrier every cell holds what it is to hold.
LEMMA SobelAllFilled ==
  ASSUME SobelInv, NEW v \in Sobel!Items, sobelPc[v] = "read",
         NEW x \in 0..(LX + 1), NEW y \in 0..(LY + 1)
  PROVE  uc4LocalData[y * Sobel!Pitch + x] = CellValue(x, y)
<1>1. PICK w \in Sobel!Items : HasCell(w, x, y)
  BY SobelOwner
<1>2. sobelPc[w] # "load"
  BY DEF SobelInv
<1>3. QED
  BY <1>1, <1>2 DEF SobelInv

LEMMA SobelDirections ==
  ASSUME NEW d \in 1..8
  PROVE  Columns[d] \in 0..2 /\ Rows[d] \in 0..2
<1>1. d \in {1, 2, 3, 4, 5, 6, 7, 8}
  OBVIOUS
<1>2. QED
  BY <1>1 DEF Columns, Rows

LEMMA SobelNeighbours ==
  ASSUME SobelInv, NEW v \in Sobel!Items, sobelPc[v] = "read"
  PROVE  Sobel!Neighbours(v) = Around(v)
<1>1. PICK P \in Nat, x \in Nat, y \in Nat, p \in Nat :
        /\ P = Sobel!Pitch /\ P = LX + 2 /\ x = v[1] /\ y = v[2] /\ x < LX /\ y < LY
        /\ p = y * P
  <2>1. PICK P \in Nat, x \in Nat, y \in Nat :
        /\ P = Sobel!Pitch /\ P = LX + 2 /\ x = v[1] /\ y = v[2] /\ x < LX /\ y < LY
    BY SobelItem, SobelSizes
  <2>2. y * P \in Nat
    BY <2>1
  <2>3. QED
    BY <2>1, <2>2
<1>2. PICK offs : offs = <<0, 1, 2, P, P + 2, 2 * P, 2 * P + 1, 2 * P + 2>>
  OBVIOUS
<1>3. Sobel!Neighbours(v) = [d \in 1..8 |-> uc4LocalData[p + x + offs[d]]]
  BY <1>1, <1>2 DEF Sobel!Neighbours
<1>4. ASSUME NEW d \in 1..8
      PROVE  uc4LocalData[p + x + offs[d]] = CellValue(x + Columns[d], y + Rows[d])
  <2>1. PICK a \in 0..2, b \in 0..2 : a = Columns[d] /\ b = Rows[d]
    BY SobelDirections
  <2>2. offs[d] = b * P + a
    <3>1. d \in {1, 2, 3, 4, 5, 6, 7, 8}
      OBVIOUS
    <3>2. b * P = IF b = 0 THEN 0 ELSE IF b = 1 THEN P ELSE 2 * P
      BY <1>1
    <3>3. /\ offs[1] = 0 /\ offs[2] = 1 /\ offs[3] = 2 /\ offs[4] = P /\ offs[5] = P + 2
          /\ offs[6] = 2 * P /\ offs[7] = 2 * P + 1 /\ offs[8] = 2 * P + 2
      BY <1>2
    <3>4. /\ d = 1 => a = 0 /\ b = 0
          /\ d = 2 => a = 1 /\ b = 0
          /\ d = 3 => a = 2 /\ b = 0
          /\ d = 4 => a = 0 /\ b = 1
          /\ d = 5 => a = 2 /\ b = 1
          /\ d = 6 => a = 0 /\ b = 2
          /\ d = 7 => a = 1 /\ b = 2
          /\ d = 8 => a = 2 /\ b = 2
      BY <2>1 DEF Columns, Rows
    <3>5. QED
      BY <1>1, <3>1, <3>2, <3>3, <3>4
  <2>3. x + a \in 0..(LX + 1) /\ y + b \in 0..(LY + 1)
    BY <1>1, SobelSizes
  <2>4. (y + b) * P + (x + a) = p + x + (b * P + a)
    <3>1. PICK z \in Nat : z = b * P
      BY <1>1
    <3>2. (y + b) * P = p + z
      BY <1>1, <3>1
    <3>3. QED
      BY <1>1, <3>1, <3>2
  <2>5. uc4LocalData[(y + b) * P + (x + a)] = CellValue(x + a, y + b)
    BY <1>1, <2>3, SobelAllFilled
  <2>6. QED
    BY <2>1, <2>2, <2>4, <2>5
<1>5. QED
  BY <1>1, <1>3, <1>4 DEF Around

\* A pixel has one work-item.
LEMMA SobelPlaces ==
  ASSUME SobelShape, NEW v \in Sobel!Items
  PROVE  /\ Sobel!PosX(v) \in Nat /\ Sobel!PosY(v) \in Nat /\ Place(v) \in Nat
         /\ Sobel!PosX(v) < Sobel!GlobalSize0
         /\ \A w \in Sobel!Items : Place(w) = Place(v) => w = v
<1>1. PICK l \in Nat, h \in Nat : l = LX /\ l > 1 /\ h = LY /\ h > 1
  BY SobelSizes
<1>2. PICK w \in Nat, t \in Nat, g \in Nat : w = width /\ t = height /\ g = group[1]
  BY SobelNumbers
<1>3. PICK a \in Nat, b \in Nat, G \in Nat : a = GroupX /\ b = GroupY /\ G = Sobel!GlobalSize0
  BY SobelNumbers
<1>4. /\ l = LX /\ l > 1 /\ h = LY /\ h > 1 /\ w = width /\ t = height /\ g = group[1]
      /\ G = Sobel!GlobalSize0 /\ a = group[1] * LX /\ b = group[2] * LY
      /\ a = GroupX /\ b = GroupY
      /\ a < w /\ a + l <= G /\ (g = 0 => a = 0) /\ (g > 0 => a >= l /\ a - g >= 0)
      /\ group[1] * (LX - 1) = a - g /\ (group[1] + 1) * LX = a + l
  BY <1>1, <1>2, <1>3, SobelNumbers DEF GroupX, GroupY
<1>5. \A u \in Sobel!Items :
        /\ Sobel!PosX(u) = a + u[1] /\ Sobel!PosY(u) = b + u[2]
        /\ Sobel!PosX(u) \in 0..(G - 1) /\ Sobel!PosY(u) \in Nat
  <2>1. SUFFICES ASSUME NEW u \in Sobel!Items
                 PROVE  /\ Sobel!PosX(u) = a + u[1] /\ Sobel!PosY(u) = b + u[2]
                        /\ Sobel!PosX(u) \in 0..(G - 1) /\ Sobel!PosY(u) \in Nat
    OBVIOUS
  <2>2. PICK x \in 0..(l - 1), y \in Nat : x = u[1] /\ y = u[2]
    BY <1>4, SobelItem
  <2>3. Sobel!PosX(u) = a + x /\ Sobel!PosY(u) = b + y
    BY <1>4, <2>2 DEF Sobel!PosX, Sobel!PosY
  <2>4. a + x \in 0..(G - 1) /\ b + y \in Nat
    BY <1>4, <2>2
  <2>5. QED
    BY <2>2, <2>3, <2>4
<1>6. \A u \in Sobel!Items : Place(u) = Sobel!PosY(u) * G + Sobel!PosX(u)
  BY <1>4 DEF Place
<1>7. Place(v) \in Nat
  <2>1. PICK c \in Nat, e \in Nat : c = Sobel!PosY(v) /\ e = Sobel!PosX(v)
    BY <1>5
  <2>2. c * G + e \in Nat
    BY <1>4, <2>1
  <2>3. QED
    BY <1>6, <2>1, <2>2
<1>8. ASSUME NEW u \in Sobel!Items, Place(u) = Place(v) PROVE u = v
  <2>1. PICK c \in Nat, e \in 0..(G - 1) : c = Sobel!PosY(u) /\ e = Sobel!PosX(u)
    BY <1>5
  <2>2. PICK f \in Nat, z \in 0..(G - 1) : f = Sobel!PosY(v) /\ z = Sobel!PosX(v)
    BY <1>5
  <2>3. c * G + e = f * G + z
    BY <1>6, <1>8, <2>1, <2>2
  <2>4. c = f /\ e = z
    BY <2>3, OneQuotient
  <2>5. /\ u[1] \in Nat /\ u[2] \in Nat /\ v[1] \in Nat /\ v[2] \in Nat
        /\ u = <<u[1], u[2]>> /\ v = <<v[1], v[2]>>
    BY SobelItem
  <2>6. a + u[1] = a + v[1] /\ b + u[2] = b + v[2]
    BY <1>5, <2>1, <2>2, <2>4
  <2>7. u[1] = v[1] /\ u[2] = v[2]
    BY <2>5, <2>6
  <2>8. QED
    BY <2>5, <2>7
<1>9. Sobel!PosX(v) \in Nat /\ Sobel!PosY(v) \in Nat /\ Sobel!PosX(v) < Sobel!GlobalSize0
  BY <1>4, <1>5
<1>10. QED
  BY <1>7, <1>8, <1>9

LEMMA SobelRead == ASSUME SobelInv, NEW v \in Sobel!Items, Sobel!Read(v) PROVE SobelInv'
<1>1. /\ sobelPc[v] = "read" /\ sobelPc' = [sobelPc EXCEPT ![v] = "done"]
      /\ width' = width /\ height' = height /\ group' = group /\ uc4LocalData' = uc4LocalData
  BY DEF Sobel!Read
<1>2. SobelShape /\ SobelShape' /\ \A x, y : CellValue(x, y)' = CellValue(x, y)
  BY <1>1, SobelSame DEF SobelInv
<1>3. \A w : (Writes(w)' <=> Writes(w)) /\ Place(w)' = Place(w) /\ Around(w)' = Around(w)
  BY <1>1, SobelSame
<1>4. \A w \in Sobel!Items : sobelPc[w] \in {"read", "done"} /\ sobelPc'[w] \in {"read", "done"}
  <2>1. \A w \in Sobel!Items : sobelPc[w] \in {"read", "done"}
    BY <1>1 DEF SobelInv
  <2>2. QED
    BY <1>1, <2>1 DEF SobelInv
<1>5. \A w \in Sobel!Items, x \in 0..(LX + 1), y \in 0..(LY + 1) :
        HasCell(w, x, y) => uc4LocalData'[y * Sobel!Pitch + x] = CellValue(x, y)'
  BY <1>1, <1>2, <1>4 DEF SobelInv
<1>6. sobelPc' \in [Sobel!Items -> SobelPcs]
  BY <1>1 DEF SobelInv, SobelPcs
<1>7. ASSUME NEW w \in Sobel!Items PROVE Written(w)' <=> Written(w) \/ (w = v /\ Writes(v))
  <2>1. sobelPc'[w] = IF w = v THEN "done" ELSE sobelPc[w]
    BY <1>1 DEF SobelInv
  <2>2. QED
    BY <1>1, <1>3, <2>1 DEF Written
<1>8. ~Written(v)
  BY <1>1 DEF Written
<1>9. /\ \A p \in DOMAIN uiDest' : \E w \in Sobel!Items : Written(w)' /\ p = Place(w)
      /\ \A w \in Sobel!Items : Written(w)' =>
           Place(w) \in DOMAIN uiDest' /\ uiDest'[Place(w)] = Around(w)
  <2>1. CASE ~Writes(v)
    <3>1. uiDest' = uiDest
      BY <2>1 DEF Sobel!Read, Writes
    <3>2. QED
      BY <1>7, <2>1, <3>1 DEF SobelInv
  <2>2. CASE Writes(v)
    <3>1. PICK p, x : p = Place(v) /\ x = Around(v)
      OBVIOUS
    <3>2. uiDest' = Sobel!Stored(uiDest, {<<p, x>>})
      BY <1>1, <2>2, <3>1, SobelNeighbours DEF Sobel!Read, Writes, Place
    <3>3. PICK D : D = DOMAIN uiDest \cup {p}
      OBVIOUS
    <3>4. uiDest' = [c \in D |-> IF \E s \in {<<p, x>>} : s[1] = c
                       THEN (CHOOSE s \in {<<p, x>>} : s[1] = c)[2] ELSE uiDest[c]]
      BY <3>2, <3>3 DEF Sobel!Stored
    <3>5. uiDest'[p] = x /\ p \in D
      <4>1. (CHOOSE s \in {<<p, x>>} : s[1] = p) = <<p, x>>
        OBVIOUS
      <4>2. QED
        BY <3>3, <3>4, <4>1
    <3>6. \A c \in D : c # p => uiDest'[c] = uiDest[c] /\ c \in DOMAIN uiDest
      BY <3>3, <3>4
    <3>7. DOMAIN uiDest' = D
      BY <3>4
    <3>8. ASSUME NEW c \in D PROVE \E w \in Sobel!Items : Written(w)' /\ c = Place(w)
      BY <1>7, <2>2, <3>1, <3>6 DEF SobelInv
    <3>9. ASSUME NEW w \in Sobel!Items, Written(w)'
          PROVE  Place(w) \in D /\ uiDest'[Place(w)] = Around(w)
      <4>1. CASE w = v
        BY <3>1, <3>5, <4>1
      <4>2. CASE w # v
        <5>1. Written(w) /\ Place(w) # p
          BY <1>2, <1>7, <3>1, <3>9, <4>2, SobelPlaces
        <5>2. Place(w) \in D /\ uiDest[Place(w)] = Around(w)
          BY <3>3, <5>1 DEF SobelInv
        <5>3. QED
          BY <3>6, <5>1, <5>2
      <4>3. QED
        BY <4>1, <4>2
    <3>10. QED
      BY <3>7, <3>8, <3>9
  <2>3. QED
    BY <2>1, <2>2
<1>10. \A w, x, y : HasCell(w, x, y)' <=> HasCell(w, x, y)
  BY DEF HasCell
<1>11. QED
  BY <1>1, <1>2, <1>3, <1>4, <1>5, <1>6, <1>9, <1>10 DEF SobelInv

LEMMA SobelKeeps == SobelInv /\ [Sobel!Next]_sobel => SobelInv'
<1> SUFFICES ASSUME SobelInv, [Sobel!Next]_sobel PROVE SobelInv'
  OBVIOUS
<1>1. CASE UNCHANGED sobel
  <2>1. /\ width' = width /\ height' = height /\ group' = group /\ uiDest' = uiDest
        /\ uc4LocalData' = uc4LocalData /\ sobelPc' = sobelPc
    BY <1>1 DEF sobel
  <2>2. SobelShape' /\ \A x, y : CellValue(x, y)' = CellValue(x, y)
    BY <2>1, SobelSame DEF SobelInv
  <2>3. \A w : (Writes(w)' <=> Writes(w)) /\ Place(w)' = Place(w) /\ Around(w)' = Around(w)
    BY <2>1, SobelSame
  <2>4. \A w : Written(w)' <=> Written(w)
    BY <2>1, <2>3 DEF Written
  <2>5. \A w, x, y : HasCell(w, x, y)' <=> HasCell(w, x, y)
    BY DEF HasCell
  <2>6. QED
    BY <2>1, <2>2, <2>3, <2>4, <2>5 DEF SobelInv
<1>2. CASE Sobel!Barrier
  BY <1>2, SobelBarrier
<1>3. CASE \E v \in Sobel!Items : Sobel!Load(v)
  BY <1>3, SobelLoad
<1>4. CASE \E v \in Sobel!Items : Sobel!Read(v)
  BY <1>4, SobelRead
<1>5. QED
  BY <1>1, <1>2, <1>3, <1>4 DEF Sobel!Next

\* What is around a work-item is in its group's local memory.
LEMMA SobelAround ==
  ASSUME NEW v \in Sobel!Items, NEW d \in 1..8
  PROVE  v[1] + Columns[d] \in 0..(LX + 1) /\ v[2] + Rows[d] \in 0..(LY + 1)
BY SobelItem, SobelSizes, SobelDirections

LEMMA SobelShared ==
  ASSUME SobelInv
  PROVE  Sobel!TypeOK /\ Sobel!EachCellHasOneItem /\ Sobel!NothingReadTooEarly
<1>1. SobelShape
  BY DEF SobelInv
<1>2. ASSUME NEW p \in DOMAIN uiDest
      PROVE  /\ p \in Nat /\ uiDest[p] \in [1..8 -> Int]
             /\ \A d \in 1..8 : uiDest[p][d] # Sobel!Unset
  <2>1. PICK v \in Sobel!Items : Written(v) /\ p = Place(v)
    BY DEF SobelInv
  <2>2. uiDest[p] = Around(v)
    BY <2>1 DEF SobelInv
  <2>3. \A d \in 1..8 : /\ CellValue(v[1] + Columns[d], v[2] + Rows[d]) \in Int
                        /\ CellValue(v[1] + Columns[d], v[2] + Rows[d]) # Sobel!Unset
    BY <1>1, SobelAround, SobelValue
  <2>4. QED
    BY <1>1, <2>1, <2>2, <2>3, SobelPlaces DEF Around
<1>3. Sobel!TypeOK
  BY <1>2 DEF SobelInv, Sobel!TypeOK, SobelPcs
<1>4. Sobel!NothingReadTooEarly
  BY <1>2 DEF Sobel!NothingReadTooEarly
<1>5. QED
  BY <1>1, <1>3, <1>4, SobelOnce

(* Images whose rows are whole groups.                                     *)

LEMMA SobelRows ==
  ASSUME SobelShape, Sobel!WholeGroups
  PROVE  Sobel!GlobalSize0 = width
<1>1. PICK w \in Nat, l \in Nat, z \in Nat : w = width /\ l = LX /\ l > 1 /\ z = w + l - 1
  BY SobelNumbers, SobelSizes
<1>2. l \in Nat \ {0} /\ l - 1 \in 0..(l - 1) /\ 0 \in 0..(l - 1)
  BY <1>1
<1>3. PICK q \in Nat, r \in 0..(l - 1) : w = q * l + r
  BY <1>2, HasQuotient
<1>4. w % l = r
  BY <1>3, Quotient
<1>5. r = 0
  BY <1>1, <1>4 DEF Sobel!WholeGroups
<1>6. w = q * l
  BY <1>1, <1>3, <1>5
<1>7. z = q * l + (l - 1)
  <2>1. PICK Q \in Nat : Q = q * l
    BY <1>6
  <2>2. QED
    BY <1>1, <1>6, <2>1
<1>8. z \div l = q
  BY <1>2, <1>7, Quotient
<1>9. QED
  BY <1>1, <1>6, <1>8 DEF Sobel!GlobalSize0, Sobel!shrRoundUp

\* A row and a column of the image make an index of it.
LEMMA InTheImage ==
  ASSUME NEW w \in Nat, NEW t \in Nat, NEW x \in Nat, NEW y \in Nat, x < w, y < t
  PROVE  y * w + x \in 0..(w * t - 1)
<1>1. PICK d \in Nat : t = y + 1 + d
  <2>1. t - (y + 1) \in Nat /\ t = y + 1 + (t - (y + 1))
    OBVIOUS
  <2>2. QED
    BY <2>1
<1>2. w * t = y * w + w + d * w /\ d * w \in Nat /\ y * w \in Nat
  BY <1>1
<1>3. PICK a \in Nat, b \in Nat, e \in Int : a = y * w /\ b = d * w /\ e = w * t /\ e = a + w + b
  BY <1>2
<1>4. a + x \in 0..(e - 1)
  BY <1>3
<1>5. QED
  BY <1>3, <1>4

LEMMA SobelStays == SobelInv => Sobel!StaysInTheImage
<1> SUFFICES ASSUME SobelInv, Sobel!WholeGroups
             PROVE  /\ \A v \in Sobel!Items : \A s \in Sobel!Stores(v) :
                         s[2] \in Sobel!Zero..(width * height - 1)
                    /\ DOMAIN uiDest \subseteq 0..(width * height - 1)
  BY DEF Sobel!StaysInTheImage
<1>1. SobelShape /\ Sobel!GlobalSize0 = width
  BY SobelRows DEF SobelInv
<1>2. PICK w \in Nat, t \in Nat, e \in Int :
        w = width /\ t = height /\ w > 0 /\ t > 0 /\ e = w * t
  BY <1>1, SobelNumbers
<1>3. e > 0
  BY <1>2
<1>4. ASSUME NEW v \in Sobel!Items, NEW s \in Sobel!Stores(v)
      PROVE  s[2] \in Sobel!Zero..(width * height - 1)
  <2>1. PICK x \in 0..(LX + 1), y \in 0..(LY + 1) : s[2] = CellValue(x, y)
    BY <1>1, SobelStoresOnly
  <2>2. CASE Sobel!Inside(CellX(x), CellY(y))
    <3>1. PICK c \in Nat, f \in Nat : c = CellY(y) /\ f = ReadAt(x, y) /\ c < t /\ f < w
      <4>1. /\ CellX(x) \in Nat /\ CellX(x) < width /\ CellY(y) \in Nat /\ CellY(y) < height
            /\ ReadAt(x, y) \in Nat /\ ReadAt(x, y) <= CellX(x)
        BY <1>1, <2>2, SobelInside
      <4>2. QED
        BY <1>2, <4>1
    <3>2. c * w + f \in 0..(w * t - 1)
      BY <3>1, InTheImage
    <3>3. s[2] = c * w + f
      BY <1>1, <1>2, <2>1, <2>2, <3>1 DEF CellValue, Sobel!Pixel
    <3>4. s[2] \in 0..(e - 1)
      BY <1>2, <3>2, <3>3
    <3>5. QED
      BY <1>2, <3>4 DEF Sobel!Zero
  <2>3. CASE ~Sobel!Inside(CellX(x), CellY(y))
    BY <1>2, <1>3, <2>1, <2>3 DEF CellValue, Sobel!Pixel, Sobel!Zero
  <2>4. QED
    BY <2>2, <2>3
<1>5. ASSUME NEW p \in DOMAIN uiDest PROVE p \in 0..(width * height - 1)
  <2>1. PICK v \in Sobel!Items : Written(v) /\ p = Place(v)
    BY DEF SobelInv
  <2>2. PICK x \in Nat, y \in Nat : x = Sobel!PosX(v) /\ y = Sobel!PosY(v) /\ x < w /\ y < t
    BY <1>1, <1>2, <2>1, SobelPlaces DEF Written, Writes
  <2>3. y * w + x \in 0..(w * t - 1)
    BY <2>2, InTheImage
  <2>4. QED
    BY <1>1, <1>2, <2>1, <2>2, <2>3 DEF Place
<1>6. QED
  BY <1>4, <1>5

\* The cells around a work-item's pixel are those of the host, but for those
\* the wrong product misplaces.
LEMMA SobelHostPixel ==
  ASSUME SobelShape, Sobel!GlobalSize0 = width, NEW v \in Sobel!Items, NEW d \in 1..8,
         d \notin Sobel!Misread(v)
  PROVE  CellValue(v[1] + Columns[d], v[2] + Rows[d])
           = Sobel!HostRow(Sobel!PosX(v), Sobel!PosY(v) + (Rows[d] - 1))[Columns[d] - 1]
<1>1. PICK vx \in Nat, vy \in Nat, dx \in 0..2, dy \in 0..2 :
        vx = v[1] /\ vy = v[2] /\ dx = Columns[d] /\ dy = Rows[d]
  BY SobelItem, SobelDirections
<1>2. PICK X \in Int, Y \in Int : X = Sobel!PosX(v) + (dx - 1) /\ Y = Sobel!PosY(v) + (dy - 1)
  BY <1>1, SobelPlaces
<1>3. CellX(vx + dx) = X /\ CellY(vy + dy) = Y
  <2>1. PICK a \in Nat, b \in Nat : a = GroupX /\ b = GroupY
    BY SobelNumbers
  <2>2. Sobel!PosX(v) = a + vx /\ Sobel!PosY(v) = b + vy
    BY <1>1, <2>1 DEF Sobel!PosX, Sobel!PosY, GroupX, GroupY
  <2>3. CellX(vx + dx) = a + (vx + dx) - 1 /\ CellY(vy + dy) = b + (vy + dy) - 1
    BY <2>1 DEF CellX, CellY
  <2>4. QED
    BY <1>1, <1>2, <2>2, <2>3
<1>4. ASSUME Sobel!Inside(X, Y) PROVE ReadAt(vx + dx, vy + dy) = X
  <2>1. CASE vx + dx = 0 /\ vy + dy < LY
    <3>1. v[1] = 0 /\ dx = 0
      BY <1>1, <2>1
    <3>2. d \in {1, 4, 6} /\ <<0, 0, 0, 1, 1, 2, 2, 2>>[d] = dy
      BY <1>1, <3>1 DEF Columns, Rows
    <3>3. group[1] < 2
      <4>1. CASE ~(group[1] < 2)
        <5>1. d \in Sobel!Misread(v)
          BY <1>1, <2>1, <3>1, <3>2, <4>1 DEF Sobel!Misread
        <5>2. QED
          BY <5>1
      <4>2. QED
        BY <4>1
    <3>4. X = GroupX - 1
      BY <1>1, <1>3, <2>1, SobelNumbers DEF CellX
    <3>5. X >= 0
      BY <1>4 DEF Sobel!Inside
    <3>6. group[1] = 1
      BY <3>3, <3>4, <3>5, SobelNumbers
    <3>7. ReadAt(vx + dx, vy + dy) = GroupX - group[1]
      BY <2>1, SobelNumbers DEF ReadAt
    <3>8. QED
      BY <3>4, <3>6, <3>7
  <2>2. CASE ~(vx + dx = 0 /\ vy + dy < LY)
    BY <1>3, <2>2 DEF ReadAt
  <2>3. QED
    BY <2>1, <2>2
<1>5. CellValue(vx + dx, vy + dy) = Sobel!Pixel(Sobel!Inside(X, Y), Y * width + X)
  BY <1>3, <1>4 DEF CellValue, Sobel!Pixel
<1>6. Sobel!HostRow(Sobel!PosX(v), Y)[dx - 1] = Sobel!Pixel(Sobel!Inside(X, Y), Y * width + X)
  <2>1. PICK x \in Nat, e \in Int, f \in Int :
          x = Sobel!PosX(v) /\ e = dx - 1 /\ e \in -1..1 /\ f = Y * width
    BY <1>1, SobelPlaces, SobelNumbers
  <2>2. Sobel!HostRow(x, Y)[e] = Sobel!Pixel(Sobel!Inside(x + e, Y), Y * width + x + e)
    BY <2>1 DEF Sobel!HostRow
  <2>3. x + e = X /\ Y * width + x + e = Y * width + X
    BY <1>2, <2>1
  <2>4. QED
    BY <2>1, <2>2, <2>3
<1>7. QED
  BY <1>1, <1>2, <1>5, <1>6

LEMMA SobelAgrees == SobelInv => Sobel!AgreesButLeftRim
<1> SUFFICES ASSUME SobelInv, Sobel!WholeGroups, NEW v \in Sobel!Items, sobelPc[v] = "done",
                    Sobel!Inside(Sobel!PosX(v), Sobel!PosY(v)), NEW d \in (1..8) \ Sobel!Misread(v)
             PROVE  uiDest[Sobel!PosY(v) * width + Sobel!PosX(v)][d]
                      = Sobel!SobelFilterHost(Sobel!PosX(v), Sobel!PosY(v))[d]
  BY DEF Sobel!AgreesButLeftRim
<1>1. SobelShape /\ Sobel!GlobalSize0 = width
  BY SobelRows DEF SobelInv
<1>2. uiDest[Place(v)] = Around(v)
  BY DEF SobelInv, Written, Writes, Sobel!Inside
<1>3. uiDest[Sobel!PosY(v) * width + Sobel!PosX(v)] = Around(v)
  BY <1>1, <1>2 DEF Place
<1>4. Around(v)[d] = Sobel!HostRow(Sobel!PosX(v), Sobel!PosY(v) + (Rows[d] - 1))[Columns[d] - 1]
  BY <1>1, SobelHostPixel DEF Around
<1>5. PICK r : r = [dy \in -1..1 |-> Sobel!HostRow(Sobel!PosX(v), Sobel!PosY(v) + dy)]
  OBVIOUS
<1>6. Sobel!SobelFilterHost(Sobel!PosX(v), Sobel!PosY(v))
        = <<r[-1][-1], r[-1][0], r[-1][1], r[0][-1], r[0][1], r[1][-1], r[1][0], r[1][1]>>
  BY <1>5 DEF Sobel!SobelFilterHost
<1>7. Sobel!SobelFilterHost(Sobel!PosX(v), Sobel!PosY(v))[d] = r[Rows[d] - 1][Columns[d] - 1]
  <2>1. d \in {1, 2, 3, 4, 5, 6, 7, 8}
    OBVIOUS
  <2>2. /\ 0 - 1 = -1 /\ 1 - 1 = 0 /\ 2 - 1 = 1
    OBVIOUS
  <2>3. QED
    BY <1>6, <2>1, <2>2 DEF Columns, Rows
<1>8. Rows[d] - 1 \in -1..1
  BY SobelDirections
<1>9. QED
  BY <1>3, <1>4, <1>5, <1>7, <1>8
-------------------------------------------------------------------------------
LEMMA Least ==
  ASSUME NEW S \in SUBSET Nat, S # {}
  PROVE  \E x \in S : \A y \in S : ~(y < x)
<1>1. IsWellFoundedOn(OpToRel(<, Nat), Nat)
  BY NatLessThanWellFounded
<1>2. PICK x \in S : \A y \in S : ~(<<y, x>> \in OpToRel(<, Nat))
  BY <1>1, WFMin
<1>3. QED
  BY <1>2 DEF OpToRel

\* Induction, for a set of numbers.
LEMMA Induct ==
  ASSUME NEW S \in SUBSET Nat, 0 \in S, \A u \in S : u + 1 \in S
  PROVE  S = Nat
<1>1. SUFFICES ASSUME Nat \ S # {} PROVE FALSE
  OBVIOUS
<1>2. PICK x \in Nat \ S : \A y \in Nat \ S : ~(y < x)
  BY <1>1, Least
<1>3. x - 1 \in Nat \ S /\ x - 1 < x
  BY <1>2
<1>4. QED
  BY <1>2, <1>3

\* f begins with a and goes on by g.
Unrolled(f, g, a, u) ==
  f = [q \in 1..u |-> IF q = 1 THEN a ELSE g[<<q, f[q - 1]>>]]

LEMMA UnrolledExists ==
  ASSUME NEW u \in Nat, NEW S, NEW a \in S, NEW g \in [(1..u) \X S -> S]
  PROVE  \E f \in [1..u -> S] : Unrolled(f, g, a, u)
<1> DEFINE Good == {w \in Nat : w <= u => \E f \in [1..w -> S] : Unrolled(f, g, a, w)}
<1>1. 0 \in Good
  <2>1. 1..0 = {}
    OBVIOUS
  <2> DEFINE f == [q \in 1..0 |-> a]
  <2>2. f \in [1..0 -> S]
    BY <2>1
  <2>3. f = [q \in 1..0 |-> IF q = 1 THEN a ELSE g[<<q, f[q - 1]>>]]
    BY <2>1
  <2>4. QED
    <3> HIDE DEF f
    <3> QED
      BY <2>2, <2>3 DEF Unrolled
<1>2. ASSUME NEW w \in Good PROVE w + 1 \in Good
  <2>1. SUFFICES ASSUME w + 1 <= u
                 PROVE  \E f \in [1..(w + 1) -> S] : Unrolled(f, g, a, w + 1)
    OBVIOUS
  <2>2. w \in Nat
    OBVIOUS
  <2>3. PICK f \in [1..w -> S] : Unrolled(f, g, a, w)
    BY <2>1, <2>2
  <2>4. PICK e : e = IF w + 1 = 1 THEN a ELSE g[<<w + 1, f[w]>>]
    OBVIOUS
  <2>5. e \in S
    <3>1. CASE w = 0
      BY <2>4, <3>1
    <3>2. CASE w # 0
      <4>1. f[w] \in S /\ w + 1 \in 1..u
        BY <2>1, <2>2, <3>2
      <4>2. <<w + 1, f[w]>> \in (1..u) \X S /\ w + 1 # 1
        BY <2>2, <3>2, <4>1
      <4>3. QED
        BY <2>4, <4>2
    <3>3. QED
      BY <3>1, <3>2
  <2> DEFINE h == [q \in 1..(w + 1) |-> IF q = w + 1 THEN e ELSE f[q]]
  <2>6. h \in [1..(w + 1) -> S]
    BY <2>2, <2>5
  <2>7. ASSUME NEW q \in 1..(w + 1) PROVE h[q] = IF q = 1 THEN a ELSE g[<<q, h[q - 1]>>]
    <3>1. CASE q = w + 1
      <4>1. q # 1 => h[q - 1] = f[w] /\ q - 1 = w
        BY <2>2, <3>1
      <4>2. h[q] = e
        BY <3>1
      <4>3. QED
        BY <2>4, <3>1, <4>1, <4>2
    <3>2. CASE q # w + 1
      <4>1. q \in 1..w /\ h[q] = f[q] /\ (q # 1 => h[q - 1] = f[q - 1])
        BY <2>2, <3>2
      <4>2. f[q] = IF q = 1 THEN a ELSE g[<<q, f[q - 1]>>]
        BY <2>3, <4>1 DEF Unrolled
      <4>3. QED
        BY <4>1, <4>2
    <3>3. QED
      BY <3>1, <3>2
  <2>8. h = [q \in 1..(w + 1) |-> IF q = 1 THEN a ELSE g[<<q, h[q - 1]>>]]
    <3> HIDE DEF h
    <3>1. h = [q \in 1..(w + 1) |-> h[q]]
      BY <2>6
    <3>2. QED
      BY <2>7, <3>1
  <2>9. QED
    <3> HIDE DEF h
    <3> QED
      BY <2>6, <2>8 DEF Unrolled
<1>3. Good = Nat
  <2> HIDE DEF Good
  <2>1. Good \in SUBSET Nat
    BY DEF Good
  <2>2. QED
    BY <1>1, <1>2, <2>1, Induct
<1>4. QED
  BY <1>3

(* The Viterbi decoder.                                                    *)

LEMMA HmmParameters ==
  /\ nState \in Nat \ {0} /\ nObs \in Nat \ {0, 1} /\ nEmit \in Nat \ {0}
  /\ JUNK \notin Nat /\ MaxQueue \in Nat \ {0}
BY ProgramsAssumption DEF Hmm!ViterbiAssumption

LEMMA HmmModel ==
  ASSUME NEW a \in Models
  PROVE  /\ a.init \in [Hmm!States -> Nat]
         /\ \A s \in Hmm!States, b \in Hmm!States : a.trans[<<s, b>>] \in Nat
         /\ \A s \in Hmm!States, t \in Nat : a.emit[<<Hmm!obs(t), s>>] \in Nat
<1>1. /\ a.init \in [Hmm!States -> Nat \ {0}]
      /\ a.trans \in [Hmm!States \X Hmm!States -> Nat]
      /\ a.emit \in [(0..(nEmit - 1)) \X Hmm!States -> Nat]
  BY ProgramsAssumption DEF Hmm!ViterbiAssumption
<1>2. \A t \in Nat : Hmm!obs(t) \in 0..(nEmit - 1)
  BY HmmParameters DEF Hmm!obs
<1>3. QED
  BY <1>1, <1>2

\* Some state has the greatest value, and one of those comes first.
LEMMA HmmGreatest ==
  ASSUME NEW f \in [Hmm!States -> Nat]
  PROVE  \E b \in Hmm!States : \A c \in Hmm!States : f[b] >= f[c]
<1> DEFINE Good == {w \in Nat : w < nState =>
                      \E b \in 0..w : \A c \in 0..w : f[b] >= f[c]}
<1>1. \A s \in 0..(nState - 1) : f[s] \in Nat
  BY DEF Hmm!States
<1>2. 0 \in Good
  BY <1>1, HmmParameters
<1>3. ASSUME NEW w \in Good PROVE w + 1 \in Good
  <2>1. w \in Nat
    OBVIOUS
  <2>2. SUFFICES ASSUME w + 1 < nState
                 PROVE  \E b \in 0..(w + 1) : \A c \in 0..(w + 1) : f[b] >= f[c]
    BY <2>1
  <2>3. PICK b \in 0..w : \A c \in 0..w : f[b] >= f[c]
    BY <2>1, <2>2, HmmParameters
  <2>4. \A c \in 0..(w + 1) : f[c] \in Nat /\ (c \in 0..w \/ c = w + 1)
    BY <1>1, <2>1, <2>2, HmmParameters
  <2>5. CASE f[b] >= f[w + 1]
    <3>1. b \in 0..(w + 1)
      BY <2>1
    <3>2. QED
      BY <2>3, <2>4, <2>5, <3>1
  <2>6. CASE ~(f[b] >= f[w + 1])
    <3>1. w + 1 \in 0..(w + 1) /\ b \in 0..(w + 1)
      BY <2>1
    <3>2. \A c \in 0..(w + 1) : f[w + 1] >= f[c]
      BY <2>3, <2>4, <2>6, <3>1
    <3>3. QED
      BY <3>1, <3>2
  <2>7. QED
    BY <2>5, <2>6
<1>4. Good = Nat
  <2> HIDE DEF Good
  <2>1. Good \in SUBSET Nat
    BY DEF Good
  <2>2. QED
    BY <1>2, <1>3, <2>1, Induct
<1>5. PICK w \in Nat : w = nState - 1 /\ w < nState
  BY HmmParameters
<1>6. w \in Good
  <2> HIDE DEF Good
  <2> QED
    BY <1>4
<1>7. QED
  BY <1>5, <1>6 DEF Hmm!States

LEMMA HmmFirst ==
  ASSUME NEW S \in SUBSET Nat, S # {}
  PROVE  Hmm!Min(S) \in S
<1>1. PICK x \in S : \A y \in S : ~(y < x)
  BY Least
<1>2. \A y \in S : x =< y
  BY <1>1
<1>3. QED
  BY <1>2 DEF Hmm!Min

LEMMA HmmFirstBest ==
  ASSUME NEW f \in [Hmm!States -> Nat]
  PROVE  /\ Hmm!FirstBest(f) \in Hmm!States
         /\ \A c \in Hmm!States : f[Hmm!FirstBest(f)] >= f[c]
<1>1. PICK S : S = {b \in Hmm!States : \A c \in Hmm!States : f[b] >= f[c]}
  OBVIOUS
<1>2. S \in SUBSET Nat
  BY <1>1 DEF Hmm!States
<1>3. S # {}
  BY <1>1, HmmGreatest
<1>4. Hmm!Min(S) \in S
  BY <1>2, <1>3, HmmFirst
<1>5. QED
  BY <1>1, <1>4 DEF Hmm!FirstBest

(* The columns of the reference.                                           *)

SumsOf(a, p) == [s \in Hmm!States |-> [b \in Hmm!States |-> p[b] + a.trans[<<s, b>>]]]
ColumnAfter(a, t, p) ==
  [prob |-> [s \in Hmm!States |->
               SumsOf(a, p)[s][Hmm!FirstBest(SumsOf(a, p)[s])] + a.emit[<<Hmm!obs(t), s>>]],
   from |-> [s \in Hmm!States |-> Hmm!FirstBest(SumsOf(a, p)[s])]]
AColumn == [prob : [Hmm!States -> Nat], from : {<<>>} \cup [Hmm!States -> Hmm!States]]
AreColumns(a, x) ==
  x = [t \in Hmm!Times |-> IF t = 0 THEN [prob |-> a.init, from |-> <<>>]
                           ELSE ColumnAfter(a, t, x[t - 1].prob)]

LEMMA SumsAre ==
  ASSUME NEW a \in Models, NEW p \in [Hmm!States -> Nat], NEW s \in Hmm!States
  PROVE  SumsOf(a, p)[s] \in [Hmm!States -> Nat]
BY HmmModel DEF SumsOf

LEMMA ColumnAfterIs ==
  ASSUME NEW a \in Models, NEW t \in Nat, NEW p \in [Hmm!States -> Nat]
  PROVE  ColumnAfter(a, t, p) \in AColumn
<1>1. ASSUME NEW s \in Hmm!States
      PROVE  /\ Hmm!FirstBest(SumsOf(a, p)[s]) \in Hmm!States
             /\ SumsOf(a, p)[s][Hmm!FirstBest(SumsOf(a, p)[s])]
                  + a.emit[<<Hmm!obs(t), s>>] \in Nat
  <2>1. PICK f \in [Hmm!States -> Nat] : f = SumsOf(a, p)[s]
    BY SumsAre
  <2>2. Hmm!FirstBest(f) \in Hmm!States
    BY HmmFirstBest
  <2>3. f[Hmm!FirstBest(f)] \in Nat /\ a.emit[<<Hmm!obs(t), s>>] \in Nat
    BY <2>2, HmmModel
  <2>4. QED
    BY <2>1, <2>2, <2>3
<1>2. QED
  BY <1>1 DEF ColumnAfter, AColumn

LEMMA ColumnsExist == ASSUME NEW a \in Models PROVE \E x : AreColumns(a, x)
<1>1. PICK u \in Nat : u = nObs /\ u > 1
  BY HmmParameters
<1>2. PICK begin : begin = [prob |-> a.init, from |-> <<>>]
  OBVIOUS
<1>3. begin \in AColumn
  BY <1>2, HmmModel DEF AColumn
<1>4. PICK g : g = [y \in (1..u) \X AColumn |-> ColumnAfter(a, y[1] - 1, y[2].prob)]
  OBVIOUS
<1>5. g \in [(1..u) \X AColumn -> AColumn]
  <2>1. ASSUME NEW y \in (1..u) \X AColumn
        PROVE  ColumnAfter(a, y[1] - 1, y[2].prob) \in AColumn
    <3>1. y[1] - 1 \in Nat
      BY <1>1
    <3>2. y[2].prob \in [Hmm!States -> Nat]
      BY DEF AColumn
    <3>3. QED
      BY <3>1, <3>2, ColumnAfterIs
  <2>2. QED
    BY <1>4, <2>1
<1>6. PICK f \in [1..u -> AColumn] : Unrolled(f, g, begin, u)
  BY <1>3, <1>5, UnrolledExists
<1>7. PICK x : x = [t \in Hmm!Times |-> f[t + 1]]
  OBVIOUS
<1>8. ASSUME NEW t \in Hmm!Times
      PROVE  f[t + 1] = IF t = 0 THEN begin ELSE ColumnAfter(a, t, x[t - 1].prob)
  <2>1. t \in Nat /\ t + 1 \in 1..u
    BY <1>1 DEF Hmm!Times
  <2>2. f[t + 1] = IF t + 1 = 1 THEN begin ELSE g[<<t + 1, f[(t + 1) - 1]>>]
    BY <1>6, <2>1 DEF Unrolled
  <2>3. CASE t = 0
    BY <2>2, <2>3
  <2>4. CASE t # 0
    <3>1. (t + 1) - 1 = t /\ t \in 1..u /\ t - 1 \in Hmm!Times /\ (t - 1) + 1 = t
      BY <1>1, <2>1, <2>4 DEF Hmm!Times
    <3>2. f[t] \in AColumn /\ x[t - 1] = f[t]
      BY <1>7, <3>1
    <3>3. PICK y : y = <<t + 1, f[t]>>
      OBVIOUS
    <3>4. y \in (1..u) \X AColumn /\ y[1] = t + 1 /\ y[2] = f[t]
      BY <2>1, <3>2, <3>3
    <3>5. g[y] = ColumnAfter(a, (t + 1) - 1, f[t].prob)
      BY <1>4, <3>4
    <3>6. f[t + 1] = g[y]
      BY <2>1, <2>2, <2>4, <3>1, <3>3
    <3>7. QED
      BY <2>4, <3>1, <3>2, <3>5, <3>6
  <2>5. QED
    BY <2>3, <2>4
<1>9. x = [t \in Hmm!Times |-> IF t = 0 THEN begin ELSE ColumnAfter(a, t, x[t - 1].prob)]
  BY <1>7, <1>8
<1>10. QED
  BY <1>2, <1>9 DEF AreColumns

LEMMA ColumnIs == ASSUME NEW a \in Models PROVE AreColumns(a, Hmm!Column(a))
<1> DEFINE col == CHOOSE x : x =
      [t \in Hmm!Times |->
        IF t = 0 THEN [prob |-> a.init, from |-> <<>>]
        ELSE LET sum == [s \in Hmm!States |->
                          [b \in Hmm!States |-> x[t - 1].prob[b] + a.trans[<<s, b>>]]]
             IN  [prob |-> [s \in Hmm!States |->
                              sum[s][Hmm!FirstBest(sum[s])] + a.emit[<<Hmm!obs(t), s>>]],
                  from |-> [s \in Hmm!States |-> Hmm!FirstBest(sum[s])]]]
<1>1. Hmm!Column(a) = col
  BY DEF Hmm!Column
<1>2. col = CHOOSE x : AreColumns(a, x)
  BY DEF AreColumns, ColumnAfter, SumsOf
<1> HIDE DEF col
<1>3. AreColumns(a, col)
  BY <1>2, ColumnsExist
<1>4. QED
  BY <1>1, <1>3

Trellis(c) == Hmm!Column(model)[c].prob

LEMMA TrellisIs ==
  ASSUME NEW a \in Models, NEW t \in Hmm!Times
  PROVE  /\ Hmm!Column(a)[t].prob \in [Hmm!States -> Nat]
         /\ Hmm!Column(a)[0].prob = a.init
         /\ t > 0 => /\ t - 1 \in Hmm!Times
                     /\ Hmm!Column(a)[t] = ColumnAfter(a, t, Hmm!Column(a)[t - 1].prob)
<1>1. PICK x : x = Hmm!Column(a)
  OBVIOUS
<1>2. x = [d \in Hmm!Times |-> IF d = 0 THEN [prob |-> a.init, from |-> <<>>]
                               ELSE ColumnAfter(a, d, x[d - 1].prob)]
  BY <1>1, ColumnIs DEF AreColumns
<1>3. 0 \in Hmm!Times /\ \A d \in Hmm!Times : d \in Nat /\ (d > 0 => d - 1 \in Hmm!Times)
  BY HmmParameters DEF Hmm!Times
<1>4. \A d \in Hmm!Times : x[d] = IF d = 0 THEN [prob |-> a.init, from |-> <<>>]
                                  ELSE ColumnAfter(a, d, x[d - 1].prob)
  BY <1>2
<1>5. x[0].prob = a.init
  BY <1>3, <1>4
<1> DEFINE Good == {d \in Nat : d \in Hmm!Times => x[d].prob \in [Hmm!States -> Nat]}
<1>6. 0 \in Good
  BY <1>5, HmmModel
<1>7. ASSUME NEW d \in Good PROVE d + 1 \in Good
  <2>1. d \in Nat /\ (d \in Hmm!Times => x[d].prob \in [Hmm!States -> Nat])
    OBVIOUS
  <2>2. SUFFICES ASSUME d + 1 \in Hmm!Times PROVE x[d + 1].prob \in [Hmm!States -> Nat]
    BY <2>1
  <2>3. d \in Hmm!Times /\ d + 1 # 0 /\ (d + 1) - 1 = d /\ d + 1 \in Nat
    BY <1>3, <2>1, <2>2
  <2>4. x[d + 1] = ColumnAfter(a, d + 1, x[d].prob)
    BY <1>4, <2>2, <2>3
  <2>5. x[d].prob \in [Hmm!States -> Nat]
    BY <2>1, <2>3
  <2>6. ColumnAfter(a, d + 1, x[d].prob) \in AColumn
    BY <2>3, <2>5, ColumnAfterIs
  <2>7. QED
    BY <2>4, <2>6 DEF AColumn
<1>8. Good = Nat
  <2> HIDE DEF Good
  <2>1. Good \in SUBSET Nat
    BY DEF Good
  <2>2. QED
    BY <1>6, <1>7, <2>1, Induct
<1>9. x[t].prob \in [Hmm!States -> Nat]
  BY <1>3, <1>8
<1>10. QED
  BY <1>1, <1>3, <1>4, <1>5, <1>9

\* Greatest sums are one number, whichever state they come from.
LEMMA GreatestSum ==
  ASSUME NEW f \in [Hmm!States -> Nat], NEW b \in Hmm!States,
         \A c \in Hmm!States : f[b] >= f[c]
  PROVE  f[b] = f[Hmm!FirstBest(f)]
<1>1. PICK d \in Hmm!States : d = Hmm!FirstBest(f) /\ \A c \in Hmm!States : f[d] >= f[c]
  BY HmmFirstBest
<1>2. f[d] >= f[b] /\ f[b] >= f[d] /\ f[b] \in Nat /\ f[d] \in Nat
  BY <1>1
<1>3. QED
  BY <1>1, <1>2

(* The commands in the order the host gives them.                          *)

StepAt(t) == [op |-> "step", t |-> t, obs |-> Hmm!obs(t)]
HmmCommands == {StepAt(t) : t \in 1..(nObs - 1)} \cup {[op |-> "copy"], [op |-> "path"]}

IsCommand(x, e) ==
  \/ \E t \in 1..(nObs - 1) : e = 2 * t - 1 /\ x = StepAt(t)
  \/ \E t \in 1..(nObs - 1) : e = 2 * t /\ x = [op |-> "copy"]
  \/ e = 2 * nObs - 1 /\ x = [op |-> "path"]

Given == IF obs <= nObs THEN 2 * (obs - 1) ELSE 2 * nObs - 1

\* b is a state that a greatest sum for s, at the step after t, comes from.
BestBefore(a, t, s, b) ==
  LET sums == SumsOf(a, Hmm!Column(a)[t].prob) IN
  b \in Hmm!States /\ \A c \in Hmm!States : sums[s][b] >= sums[s][c]

Traced(c) ==
  \A t \in 0..(c - 1) :
    /\ path[t] \in [Hmm!States -> Hmm!States]
    /\ \A s \in Hmm!States : BestBefore(model, t, s, path[t][s])

\* v ends in a state of greatest weight, and comes there over greatest sums.
Follows(a, v) ==
  /\ v \in [Hmm!Times -> Hmm!States]
  /\ v[nObs - 1] = Hmm!FirstBest(Hmm!Column(a)[nObs - 1].prob)
  /\ \A t \in 0..(nObs - 2) : BestBefore(a, t, v[t + 1], v[t])

Decoded == Follows(model, vPath) /\ vProb = Trellis(nObs - 1)[vPath[nObs - 1]]

\* What the buffers hold after e commands.
Computed(e) ==
  \/ \E c \in Hmm!Times :
       e = 2 * c /\ old = Trellis(c) /\ (c = 0 \/ new = Trellis(c)) /\ Traced(c)
  \/ \E c \in Hmm!Times :
       /\ c + 1 \in Hmm!Times /\ e = 2 * c + 1
       /\ old = Trellis(c) /\ new = Trellis(c + 1) /\ Traced(c + 1)
  \/ e = 2 * nObs - 1 /\ Decoded

HmmTypes ==
  /\ model \in Models /\ obs \in 1..(nObs + 1)
  /\ old \in [Hmm!States -> Nat] /\ new \in [Hmm!States -> Nat \cup {JUNK}]
  /\ path \in [0..(nObs - 2) -> [Hmm!States -> Hmm!States \cup {JUNK}]]
  /\ vPath \in [Hmm!Times -> Hmm!States \cup {JUNK}] /\ vProb \in Nat \cup {JUNK}
  /\ steps \in Seq(HmmCommands) /\ Len(steps) <= MaxQueue

InOrder ==
  /\ Len(steps) <= Given
  /\ \A q \in 1..Len(steps) : IsCommand(steps[q], Given - Len(steps) + q)

\* What was read back is what the last command left.
IsRead == decoded # <<>> => decoded = vPath /\ obs > nObs /\ steps = <<>>

ViterbiInv == HmmTypes /\ InOrder /\ Computed(Given - Len(steps)) /\ IsRead

LEMMA HmmFirstState == ASSUME Hmm!Init PROVE ViterbiInv
<1>1. /\ model \in Models /\ old = model.init /\ obs = 1 /\ steps = <<>>
      /\ new = [s \in Hmm!States |-> JUNK]
      /\ path = [t \in 0..(nObs - 2) |-> [s \in Hmm!States |-> JUNK]]
      /\ vProb = JUNK /\ vPath = [t \in Hmm!Times |-> JUNK]
  BY DEF Hmm!Init
<1>2. Given = 0 /\ Len(steps) = 0 /\ steps \in Seq(HmmCommands)
  BY <1>1, HmmParameters DEF Given
<1>3. HmmTypes
  BY <1>1, <1>2, HmmModel, HmmParameters DEF HmmTypes
<1>4. 0 \in Hmm!Times
  BY HmmParameters DEF Hmm!Times
<1>5. old = Trellis(0)
  BY <1>1, <1>4, TrellisIs DEF Trellis
<1>6. Computed(0)
  BY <1>4, <1>5 DEF Computed, Traced
<1>7. IsRead
  BY DEF Hmm!Init, IsRead
<1>8. QED
  BY <1>2, <1>3, <1>6, <1>7 DEF ViterbiInv, InOrder

LEMMA HmmNumbers ==
  ASSUME ViterbiInv
  PROVE  \E u \in Nat, e \in Nat, x \in Nat :
           /\ u = nObs /\ u > 1 /\ e = Given /\ x = Len(steps) /\ x <= e /\ DOMAIN steps = 1..x
           /\ obs \in Nat /\ obs >= 1 /\ obs <= u + 1 /\ e <= 2 * u - 1
<1>1. PICK u \in Nat : u = nObs /\ u > 1
  BY HmmParameters
<1>2. Given \in Nat /\ Given <= 2 * u - 1 /\ obs \in Nat /\ obs >= 1 /\ obs <= u + 1
  BY <1>1 DEF ViterbiInv, HmmTypes, Given
<1>3. Len(steps) \in Nat /\ DOMAIN steps = 1..Len(steps)
  BY LenProperties DEF ViterbiInv, HmmTypes
<1>4. QED
  BY <1>1, <1>2, <1>3 DEF ViterbiInv, InOrder

LEMMA HmmEnqueues == ASSUME ViterbiInv, Hmm!EnqueueStep PROVE ViterbiInv'
<1>1. PICK u \in Nat, e \in Nat, x \in Nat :
        /\ u = nObs /\ u > 1 /\ e = Given /\ x = Len(steps) /\ x <= e /\ DOMAIN steps = 1..x
        /\ obs \in Nat /\ obs >= 1 /\ obs <= u + 1 /\ e <= 2 * u - 1
  BY HmmNumbers
<1>2. /\ obs < u /\ x + 2 <= MaxQueue /\ obs' = obs + 1
      /\ steps' = steps \o <<StepAt(obs), [op |-> "copy"]>>
      /\ UNCHANGED <<model, old, new, path, vProb, vPath>>
  BY <1>1 DEF Hmm!EnqueueStep, Hmm!Commands, StepAt
<1>3. StepAt(obs) \in HmmCommands /\ [op |-> "copy"] \in HmmCommands
  BY <1>1, <1>2 DEF HmmCommands
<1>4. PICK more : more = <<StepAt(obs), [op |-> "copy"]>>
  OBVIOUS
<1>5. more \in Seq(HmmCommands) /\ Len(more) = 2
  BY <1>3, <1>4
<1>6. more[1] = StepAt(obs) /\ more[2] = [op |-> "copy"]
  BY <1>4
<1>7. steps \in Seq(HmmCommands)
  BY DEF ViterbiInv, HmmTypes
<1>8. /\ steps' \in Seq(HmmCommands) /\ Len(steps') = x + 2
      /\ \A q \in 1..(x + 2) : steps'[q] = IF q <= x THEN steps[q] ELSE more[q - x]
  BY <1>1, <1>2, <1>4, <1>5, <1>7, ConcatProperties
<1>9. Given' = e + 2 /\ e = 2 * (obs - 1)
  BY <1>1, <1>2 DEF Given
<1>10. HmmTypes'
  BY <1>1, <1>2, <1>8 DEF ViterbiInv, HmmTypes
<1>11. ASSUME NEW q \in 1..(x + 2) PROVE IsCommand(steps'[q], (e + 2) - (x + 2) + q)
  <2>1. PICK y \in Nat : y = q /\ (e + 2) - (x + 2) + q = e - x + y
    BY <1>1
  <2>2. CASE q <= x
    <3>1. q \in 1..x /\ steps'[q] = steps[q]
      BY <1>1, <1>8, <2>2
    <3>2. IsCommand(steps[q], e - x + q)
      BY <1>1, <3>1 DEF ViterbiInv, InOrder
    <3>3. QED
      BY <2>1, <3>1, <3>2
  <2>3. CASE q = x + 1
    <3>1. steps'[q] = more[1]
      <4>1. ~(q <= x) /\ q - x = 1
        BY <1>1, <2>3
      <4>2. steps'[q] = more[q - x]
        BY <1>8, <4>1
      <4>3. QED
        BY <4>1, <4>2
    <3>2. (e + 2) - (x + 2) + q = 2 * obs - 1 /\ obs \in 1..(nObs - 1)
      BY <1>1, <1>2, <1>9, <2>3
    <3>3. QED
      BY <1>6, <3>1, <3>2 DEF IsCommand
  <2>4. CASE q = x + 2
    <3>1. steps'[q] = more[2]
      <4>1. ~(q <= x) /\ q - x = 2
        BY <1>1, <2>4
      <4>2. steps'[q] = more[q - x]
        BY <1>8, <4>1
      <4>3. QED
        BY <4>1, <4>2
    <3>2. (e + 2) - (x + 2) + q = 2 * obs /\ obs \in 1..(nObs - 1)
      BY <1>1, <1>2, <1>9, <2>4
    <3>3. QED
      BY <1>6, <3>1, <3>2 DEF IsCommand
  <2>5. QED
    BY <1>1, <2>2, <2>3, <2>4
<1>12. InOrder'
  <2>1. \A c, y : IsCommand(c, y)' <=> IsCommand(c, y)
    BY DEF IsCommand
  <2>2. Len(steps') <= Given'
    BY <1>1, <1>8, <1>9
  <2>3. QED
    BY <1>8, <1>9, <1>11, <2>2 DEF InOrder, IsCommand
<1>13. Computed(e - x)
  BY <1>1 DEF ViterbiInv
<1>14. (Given - Len(steps))' = e - x
  BY <1>1, <1>8, <1>9
<1>15. Computed(Given - Len(steps))'
  BY <1>2, <1>13, <1>14 DEF Computed, Trellis, Traced, Decoded
<1>16. IsRead'
  BY <1>1, <1>2 DEF Hmm!EnqueueStep, ViterbiInv, IsRead
<1>17. QED
  BY <1>10, <1>12, <1>15, <1>16 DEF ViterbiInv

LEMMA HmmEnqueuesPath == ASSUME ViterbiInv, Hmm!EnqueuePath PROVE ViterbiInv'
<1>1. PICK u \in Nat, e \in Nat, x \in Nat :
        /\ u = nObs /\ u > 1 /\ e = Given /\ x = Len(steps) /\ x <= e /\ DOMAIN steps = 1..x
        /\ obs \in Nat /\ obs >= 1 /\ obs <= u + 1 /\ e <= 2 * u - 1
  BY HmmNumbers
<1>2. /\ obs = u /\ x < MaxQueue /\ obs' = obs + 1
      /\ steps' = Append(steps, [op |-> "path"])
      /\ UNCHANGED <<model, old, new, path, vProb, vPath>>
  BY <1>1 DEF Hmm!EnqueuePath
<1>3. [op |-> "path"] \in HmmCommands /\ steps \in Seq(HmmCommands)
  BY DEF HmmCommands, ViterbiInv, HmmTypes
<1>4. /\ steps' \in Seq(HmmCommands) /\ Len(steps') = x + 1
      /\ steps'[x + 1] = [op |-> "path"]
      /\ \A q \in 1..x : steps'[q] = steps[q]
  BY <1>1, <1>2, <1>3, AppendProperties
<1>5. Given' = e + 1 /\ e = 2 * u - 2
  BY <1>1, <1>2 DEF Given
<1>6. HmmTypes'
  BY <1>1, <1>2, <1>4, HmmParameters DEF ViterbiInv, HmmTypes
<1>7. ASSUME NEW q \in 1..(x + 1) PROVE IsCommand(steps'[q], (e + 1) - (x + 1) + q)
  <2>1. CASE q <= x
    <3>1. q \in 1..x /\ steps'[q] = steps[q] /\ (e + 1) - (x + 1) + q = e - x + q
      BY <1>1, <1>4, <2>1
    <3>2. IsCommand(steps[q], e - x + q)
      BY <1>1, <3>1 DEF ViterbiInv, InOrder
    <3>3. QED
      BY <3>1, <3>2
  <2>2. CASE q = x + 1
    <3>1. steps'[q] = [op |-> "path"] /\ (e + 1) - (x + 1) + q = 2 * nObs - 1
      BY <1>1, <1>4, <1>5, <2>2
    <3>2. QED
      BY <3>1 DEF IsCommand
  <2>3. QED
    BY <1>1, <2>1, <2>2
<1>8. InOrder'
  <2>1. Len(steps') <= Given'
    BY <1>1, <1>4, <1>5
  <2>2. QED
    BY <1>4, <1>5, <1>7, <2>1 DEF InOrder, IsCommand
<1>9. Computed(e - x)
  BY <1>1 DEF ViterbiInv
<1>10. (Given - Len(steps))' = e - x
  BY <1>1, <1>4, <1>5
<1>11. Computed(Given - Len(steps))'
  BY <1>2, <1>9, <1>10 DEF Computed, Trellis, Traced, Decoded
<1>12. IsRead'
  BY <1>1, <1>2 DEF Hmm!EnqueuePath, ViterbiInv, IsRead
<1>13. QED
  BY <1>6, <1>8, <1>11, <1>12 DEF ViterbiInv

\* One command leaves the queue.
LEMMA HmmTakes ==
  ASSUME ViterbiInv, Hmm!Execute
  PROVE  \E d \in Nat, x \in HmmCommands :
           /\ d = Given - Len(steps) /\ x = Head(steps) /\ x = steps[1]
           /\ IsCommand(x, d + 1) /\ Computed(d)
           /\ steps' \in Seq(HmmCommands) /\ Len(steps') <= MaxQueue /\ InOrder'
           /\ (Given - Len(steps))' = d + 1
<1>1. PICK u \in Nat, e \in Nat, x \in Nat :
        /\ u = nObs /\ u > 1 /\ e = Given /\ x = Len(steps) /\ x <= e /\ DOMAIN steps = 1..x
        /\ obs \in Nat /\ obs >= 1 /\ obs <= u + 1 /\ e <= 2 * u - 1
  BY HmmNumbers
<1>2. steps # <<>> /\ steps' = Tail(steps) /\ obs' = obs
  BY DEF Hmm!Execute
<1>3. steps \in Seq(HmmCommands) /\ x <= MaxQueue
  BY <1>1 DEF ViterbiInv, HmmTypes
<1>4. x >= 1
  BY <1>1, <1>2, <1>3, EmptySeq
<1>5. /\ steps' \in Seq(HmmCommands) /\ Len(steps') = x - 1
      /\ Head(steps) = steps[1] /\ Head(steps) \in HmmCommands
      /\ \A q \in 1..(x - 1) : steps'[q] = steps[q + 1]
  BY <1>1, <1>2, <1>3, <1>4, HeadTailProperties
<1>6. Given' = e
  BY <1>1, <1>2 DEF Given
<1>7. \A q \in 1..x : IsCommand(steps[q], e - x + q)
  BY <1>1 DEF ViterbiInv, InOrder
<1>8. PICK d \in Nat : d = e - x
  BY <1>1
<1>9. IsCommand(steps[1], d + 1)
  BY <1>4, <1>7, <1>8
<1>10. ASSUME NEW q \in 1..(x - 1) PROVE IsCommand(steps'[q], e - (x - 1) + q)
  <2>1. q + 1 \in 1..x /\ e - (x - 1) + q = e - x + (q + 1)
    BY <1>1
  <2>2. IsCommand(steps[q + 1], e - x + (q + 1))
    BY <1>7, <2>1
  <2>3. QED
    BY <1>5, <2>1, <2>2
<1>11. InOrder'
  <2>1. Len(steps') <= Given'
    BY <1>1, <1>5, <1>6
  <2>2. QED
    BY <1>5, <1>6, <1>10, <2>1 DEF InOrder, IsCommand
<1>12. (Given - Len(steps))' = d + 1
  BY <1>1, <1>5, <1>6, <1>8
<1>13. Computed(d)
  BY <1>1, <1>8 DEF ViterbiInv
<1>14. Len(steps') <= MaxQueue
  BY <1>1, <1>3, <1>5, HmmParameters
<1>15. QED
  BY <1>1, <1>5, <1>8, <1>9, <1>11, <1>12, <1>13, <1>14

\* A launch takes the step from its column to the next.
LEMMA HmmStepRight ==
  ASSUME ViterbiInv, NEW t \in 1..(nObs - 1), Hmm!ViterbiOneStep(StepAt(t)),
         model' = model, old = Trellis(t - 1), Traced(t - 1)
  PROVE  /\ old' = Trellis(t - 1)' /\ new' = Trellis(t)' /\ Traced(t)'
         /\ new' \in [Hmm!States -> Nat]
         /\ path' \in [0..(nObs - 2) -> [Hmm!States -> Hmm!States \cup {JUNK}]]
         /\ UNCHANGED <<old, vProb, vPath>>
<1>1. model \in Models /\ t \in Nat /\ t > 0 /\ t \in Hmm!Times /\ t - 1 \in 0..(nObs - 2)
  BY HmmParameters DEF ViterbiInv, HmmTypes, Hmm!Times
<1>2. PICK from \in [Hmm!States -> Hmm!States] :
        /\ \A s \in Hmm!States : from[s] \in Hmm!Best(s)
        /\ new' = [s \in Hmm!States |->
                    Hmm!Sum(s, from[s]) + model.emit[<<Hmm!obs(t), s>>]]
        /\ path' = [path EXCEPT ![t - 1] = from]
        /\ UNCHANGED <<old, vProb, vPath>>
  BY DEF Hmm!ViterbiOneStep, StepAt, Hmm!PathCell
<1>3. PICK p : p = Trellis(t - 1) /\ p = Hmm!Column(model)[t - 1].prob
  BY DEF Trellis
<1>4. p \in [Hmm!States -> Nat] /\ old = p
  BY <1>1, <1>3, TrellisIs
<1>5. Hmm!Column(model)[t] = ColumnAfter(model, t, p)
  BY <1>1, <1>3, TrellisIs
<1>6. ASSUME NEW s \in Hmm!States
      PROVE  /\ new'[s] = SumsOf(model, p)[s][Hmm!FirstBest(SumsOf(model, p)[s])]
                          + model.emit[<<Hmm!obs(t), s>>]
             /\ new'[s] \in Nat
  <2>1. PICK f \in [Hmm!States -> Nat] : f = SumsOf(model, p)[s]
    BY <1>1, <1>4, SumsAre
  <2>2. \A b \in Hmm!States : Hmm!Sum(s, b) = f[b]
    BY <1>4, <2>1 DEF Hmm!Sum, SumsOf
  <2>3. from[s] \in Hmm!States /\ \A c \in Hmm!States : f[from[s]] >= f[c]
    BY <1>2, <2>2 DEF Hmm!Best
  <2>4. f[from[s]] = f[Hmm!FirstBest(f)]
    BY <2>3, GreatestSum
  <2>5. new'[s] = f[from[s]] + model.emit[<<Hmm!obs(t), s>>]
    BY <1>2, <2>2, <2>3
  <2>6. f[from[s]] \in Nat /\ model.emit[<<Hmm!obs(t), s>>] \in Nat
    BY <1>1, <2>1, <2>3, HmmModel
  <2>7. QED
    BY <2>1, <2>4, <2>5, <2>6
<1>7. new' = [s \in Hmm!States |-> new'[s]]
  BY <1>2
<1>8. new' = ColumnAfter(model, t, p).prob
  BY <1>6, <1>7 DEF ColumnAfter
<1>9. new' = Trellis(t)' /\ old' = Trellis(t - 1)'
  BY <1>2, <1>3, <1>4, <1>5, <1>8 DEF Trellis
<1>10. new' \in [Hmm!States -> Nat]
  BY <1>6, <1>7
<1>11. path \in [0..(nObs - 2) -> [Hmm!States -> Hmm!States \cup {JUNK}]]
  BY DEF ViterbiInv, HmmTypes
<1>12. path' \in [0..(nObs - 2) -> [Hmm!States -> Hmm!States \cup {JUNK}]]
  BY <1>2, <1>11
<1>13. \A d \in 0..(nObs - 2) : path'[d] = IF d = t - 1 THEN from ELSE path[d]
  BY <1>2, <1>11
<1>14. \A s \in Hmm!States :
         /\ from[s] \in Hmm!States
         /\ \A c \in Hmm!States : SumsOf(model, p)[s][from[s]] >= SumsOf(model, p)[s][c]
  BY <1>2, <1>4 DEF Hmm!Best, Hmm!Sum, SumsOf
<1>15. ASSUME NEW d \in 0..(t - 1)
       PROVE  /\ path'[d] \in [Hmm!States -> Hmm!States]
              /\ \A s \in Hmm!States : BestBefore(model, d, s, path'[d][s])
  <2>1. d \in 0..(nObs - 2)
    BY <1>1, HmmParameters
  <2>2. CASE d = t - 1
    <3>1. path'[d] = from
      BY <1>13, <2>1, <2>2
    <3>2. QED
      BY <1>1, <1>3, <1>14, <2>2, <3>1 DEF BestBefore
  <2>3. CASE d # t - 1
    <3>1. d \in 0..((t - 1) - 1)
      BY <1>1, <2>3
    <3>2. /\ path[d] \in [Hmm!States -> Hmm!States]
          /\ \A s \in Hmm!States : BestBefore(model, d, s, path[d][s])
      BY <3>1 DEF Traced
    <3>3. path'[d] = path[d]
      BY <1>13, <2>1, <2>3
    <3>4. QED
      BY <3>2, <3>3
  <2>4. QED
    BY <2>2, <2>3
<1>16. Traced(t)'
  BY <1>15 DEF Traced
<1>17. QED
  BY <1>2, <1>9, <1>10, <1>12, <1>16

\* Back from state last, by the entries of w.
IsTrace(w, x, last) ==
  x = [t \in Hmm!Times |-> IF t = nObs - 1 THEN last ELSE w[t][x[t + 1]]]

LEMMA HmmBacktrace ==
  ASSUME NEW last \in Hmm!States, NEW w,
         \A t \in 0..(nObs - 2) : w[t] \in [Hmm!States -> Hmm!States]
  PROVE  \E h \in [Hmm!Times -> Hmm!States] : IsTrace(w, h, last)
<1>1. PICK u \in Nat : u = nObs /\ u > 1
  BY HmmParameters
<1>2. \A t \in 0..(u - 2) : w[t] \in [Hmm!States -> Hmm!States]
  BY <1>1
<1>3. PICK g : g = [y \in (1..u) \X Hmm!States |->
                     IF y[1] = 1 THEN last ELSE w[u - y[1]][y[2]]]
  OBVIOUS
<1>4. g \in [(1..u) \X Hmm!States -> Hmm!States]
  <2>1. ASSUME NEW y \in (1..u) \X Hmm!States
        PROVE  (IF y[1] = 1 THEN last ELSE w[u - y[1]][y[2]]) \in Hmm!States
    <3>1. CASE y[1] = 1
      BY <3>1
    <3>2. CASE y[1] # 1
      <4>1. u - y[1] \in 0..(u - 2) /\ y[2] \in Hmm!States
        BY <1>1, <3>2
      <4>2. QED
        BY <1>2, <3>2, <4>1
    <3>3. QED
      BY <3>1, <3>2
  <2>2. QED
    BY <1>3, <2>1
<1>5. PICK f \in [1..u -> Hmm!States] : Unrolled(f, g, last, u)
  BY <1>4, UnrolledExists
<1>6. PICK h : h = [t \in Hmm!Times |-> f[u - t]]
  OBVIOUS
<1>7. \A t \in Hmm!Times : t \in Nat /\ t <= u - 1 /\ u - t \in 1..u
  BY <1>1 DEF Hmm!Times
<1>8. h \in [Hmm!Times -> Hmm!States]
  BY <1>6, <1>7
<1>9. ASSUME NEW t \in Hmm!Times
      PROVE  h[t] = IF t = u - 1 THEN last ELSE w[t][h[t + 1]]
  <2>1. h[t] = f[u - t] /\ u - t \in 1..u
    BY <1>6, <1>7
  <2>2. f[u - t] = IF u - t = 1 THEN last ELSE g[<<u - t, f[(u - t) - 1]>>]
    BY <1>5, <2>1 DEF Unrolled
  <2>3. CASE t = u - 1
    BY <1>1, <2>1, <2>2, <2>3
  <2>4. CASE t # u - 1
    <3>1. /\ t + 1 \in Hmm!Times /\ u - (t + 1) = (u - t) - 1 /\ u - t # 1
          /\ (u - t) - 1 \in 1..u /\ u - (u - t) = t
      BY <1>1, <1>7, <2>4 DEF Hmm!Times
    <3>2. h[t + 1] = f[(u - t) - 1]
      BY <1>6, <3>1
    <3>3. PICK y : y = <<u - t, h[t + 1]>>
      OBVIOUS
    <3>4. y \in (1..u) \X Hmm!States /\ y[1] = u - t /\ y[2] = h[t + 1]
      BY <1>8, <2>1, <3>1, <3>3
    <3>5. g[y] = w[t][h[t + 1]]
      BY <1>3, <3>1, <3>4
    <3>6. h[t] = g[y]
      BY <2>1, <2>2, <3>1, <3>2, <3>3
    <3>7. QED
      BY <2>4, <3>5, <3>6
  <2>5. QED
    BY <2>3, <2>4
<1>10. h = [t \in Hmm!Times |-> IF t = u - 1 THEN last ELSE w[t][h[t + 1]]]
  <2>1. h = [t \in Hmm!Times |-> h[t]]
    BY <1>6
  <2>2. QED
    BY <1>9, <2>1
<1>11. QED
  BY <1>1, <1>8, <1>10 DEF IsTrace

LEMMA HmmTrace ==
  ASSUME NEW last \in Hmm!States, NEW w, NEW x, IsTrace(w, x, last),
         \A t \in 0..(nObs - 2) : w[t] \in [Hmm!States -> Hmm!States]
  PROVE  x \in [Hmm!Times -> Hmm!States]
<1>1. PICK u \in Nat : u = nObs /\ u > 1
  BY HmmParameters
<1>2. \A t \in 0..(u - 2) : w[t] \in [Hmm!States -> Hmm!States]
  BY <1>1
<1>3. x = [t \in 0..(u - 1) |-> IF t = u - 1 THEN last ELSE w[t][x[t + 1]]]
  BY <1>1 DEF IsTrace, Hmm!Times
<1>4. \A t \in 0..(u - 1) : x[t] = IF t = u - 1 THEN last ELSE w[t][x[t + 1]]
  BY <1>3
<1> DEFINE Good == {e \in Nat : e <= u - 1 => x[u - 1 - e] \in Hmm!States}
<1>5. 0 \in Good
  <2>1. u - 1 - 0 = u - 1 /\ u - 1 \in 0..(u - 1)
    BY <1>1
  <2>2. QED
    BY <1>4, <2>1
<1>6. ASSUME NEW e \in Good PROVE e + 1 \in Good
  <2>1. e \in Nat /\ (e <= u - 1 => x[u - 1 - e] \in Hmm!States)
    OBVIOUS
  <2>2. SUFFICES ASSUME e + 1 <= u - 1 PROVE x[u - 1 - (e + 1)] \in Hmm!States
    BY <2>1
  <2>3. PICK t \in 0..(u - 2) : t = u - 1 - (e + 1)
    BY <1>1, <2>1, <2>2
  <2>4. t + 1 = u - 1 - e /\ t \in 0..(u - 1) /\ t # u - 1 /\ e <= u - 1
    BY <1>1, <2>1, <2>2, <2>3
  <2>5. x[t + 1] \in Hmm!States
    BY <2>1, <2>4
  <2>6. w[t][x[t + 1]] \in Hmm!States
    BY <1>2, <2>5
  <2>7. x[t] = w[t][x[t + 1]]
    BY <1>4, <2>4
  <2>8. QED
    BY <2>3, <2>6, <2>7
<1>7. Good = Nat
  <2> HIDE DEF Good
  <2>1. Good \in SUBSET Nat
    BY DEF Good
  <2>2. QED
    BY <1>5, <1>6, <2>1, Induct
<1>8. ASSUME NEW t \in Hmm!Times PROVE x[t] \in Hmm!States
  <2>1. PICK e \in Nat : e = u - 1 - t /\ e <= u - 1 /\ u - 1 - e = t
    BY <1>1 DEF Hmm!Times
  <2>2. e \in Good
    <3> HIDE DEF Good
    <3> QED
      BY <1>7
  <2>3. QED
    BY <2>1, <2>2
<1>9. x = [t \in Hmm!Times |-> x[t]]
  BY DEF IsTrace
<1>10. QED
  BY <1>8, <1>9

LEMMA HmmPathIs ==
  ASSUME model \in Models, new = Trellis(nObs - 1), new \in [Hmm!States -> Nat],
         Traced(nObs - 1), Hmm!ViterbiPath
  PROVE  /\ vProb' \in Nat /\ Follows(model, vPath')
         /\ vProb' = Trellis(nObs - 1)[vPath'[nObs - 1]]
         /\ UNCHANGED <<old, new, path>>
<1>1. PICK last : last = Hmm!FirstBest(new)
  OBVIOUS
<1>2. last \in Hmm!States /\ new[last] \in Nat
  BY <1>1, HmmFirstBest
<1>3. PICK w : w = path
  OBVIOUS
<1> DEFINE back == CHOOSE x : x =
      [t \in Hmm!Times |-> IF t = nObs - 1 THEN last ELSE path[t][x[t + 1]]]
<1>4. last = Hmm!Min({s \in Hmm!States : \A r \in Hmm!States : new[s] >= new[r]})
  BY <1>1 DEF Hmm!FirstBest
<1>5. /\ vProb' = new[last] /\ vPath' = [t \in Hmm!Times |-> back[t]]
      /\ UNCHANGED <<old, new, path>>
  BY <1>4 DEF Hmm!ViterbiPath
<1>6. back = CHOOSE x : IsTrace(w, x, last)
  BY <1>3 DEF IsTrace
<1> HIDE DEF back
<1>7. PICK u \in Nat : u = nObs /\ u > 1 /\ Hmm!Times = 0..(u - 1)
  BY HmmParameters DEF Hmm!Times
<1>8. /\ \A t \in 0..(nObs - 2) : w[t] \in [Hmm!States -> Hmm!States]
      /\ \A t \in 0..(nObs - 2), s \in Hmm!States : BestBefore(model, t, s, w[t][s])
  <2>1. \A t \in 0..(u - 2) : t \in 0..((u - 1) - 1)
    BY <1>7
  <2>2. QED
    BY <1>3, <1>7, <2>1 DEF Traced
<1>9. IsTrace(w, back, last)
  <2>1. \E x : IsTrace(w, x, last)
    BY <1>2, <1>8, HmmBacktrace
  <2>2. QED
    BY <1>6, <2>1
<1>10. back \in [Hmm!Times -> Hmm!States]
  BY <1>2, <1>8, <1>9, HmmTrace
<1>11. vPath' = back
  BY <1>5, <1>10
<1>12. \A t \in Hmm!Times : back[t] = IF t = nObs - 1 THEN last ELSE w[t][back[t + 1]]
  BY <1>9 DEF IsTrace
<1>13. back[nObs - 1] = last
  BY <1>7, <1>12
<1>14. ASSUME NEW t \in 0..(nObs - 2) PROVE BestBefore(model, t, back[t + 1], back[t])
  <2>1. t \in Hmm!Times /\ t + 1 \in Hmm!Times /\ t # nObs - 1
    BY <1>7
  <2>2. back[t] = w[t][back[t + 1]] /\ back[t + 1] \in Hmm!States
    BY <1>10, <1>12, <2>1
  <2>3. QED
    BY <1>8, <2>2
<1>15. Follows(model, back)
  BY <1>1, <1>10, <1>13, <1>14 DEF Follows, Trellis
<1>16. QED
  BY <1>2, <1>5, <1>11, <1>13, <1>15

LEMMA HmmExecutes == ASSUME ViterbiInv, Hmm!Execute PROVE ViterbiInv'
<1>1. PICK d \in Nat, x \in HmmCommands :
        /\ d = Given - Len(steps) /\ x = Head(steps) /\ x = steps[1]
        /\ IsCommand(x, d + 1) /\ Computed(d)
        /\ steps' \in Seq(HmmCommands) /\ Len(steps') <= MaxQueue /\ InOrder'
        /\ (Given - Len(steps))' = d + 1
  BY HmmTakes
<1>2. UNCHANGED <<model, obs, decoded>>
  BY DEF Hmm!Execute
<1>3. \/ x.op = "step" /\ Hmm!ViterbiOneStep(x)
      \/ x.op = "copy" /\ Hmm!CopyBuffer
      \/ x.op = "path" /\ Hmm!ViterbiPath
  BY <1>1 DEF Hmm!Execute
<1>4. PICK u \in Nat : u = nObs /\ u > 1 /\ Hmm!Times = 0..(u - 1)
  BY HmmParameters DEF Hmm!Times
<1>5. SUFFICES
        /\ old' \in [Hmm!States -> Nat] /\ new' \in [Hmm!States -> Nat \cup {JUNK}]
        /\ path' \in [0..(nObs - 2) -> [Hmm!States -> Hmm!States \cup {JUNK}]]
        /\ vPath' \in [Hmm!Times -> Hmm!States \cup {JUNK}] /\ vProb' \in Nat \cup {JUNK}
        /\ Computed(d + 1)'
  <2>1. Computed(Given - Len(steps))' <=> Computed(d + 1)'
    BY <1>1 DEF Computed, Trellis, Traced, Decoded
  <2>2. model' \in Models /\ obs' \in 1..(nObs + 1)
    BY <1>2 DEF ViterbiInv, HmmTypes
  <2>3. IsRead'
    BY <1>2 DEF Hmm!Execute, ViterbiInv, IsRead
  <2>4. QED
    BY <1>1, <2>1, <2>2, <2>3 DEF ViterbiInv, HmmTypes
<1>6. CASE \E t \in 1..(nObs - 1) : d + 1 = 2 * t - 1 /\ x = StepAt(t)
  <2>1. PICK t \in 1..(nObs - 1) : d + 1 = 2 * t - 1 /\ x = StepAt(t)
    BY <1>6
  <2>2. t \in Nat /\ t - 1 \in Hmm!Times /\ (t - 1) + 1 = t /\ t \in Hmm!Times
        /\ d = 2 * (t - 1) /\ t <= u - 1
    BY <1>4, <2>1
  <2>3. old = Trellis(t - 1) /\ Traced(t - 1)
    <3>1. \A c \in Hmm!Times : d = 2 * c => c = t - 1
      BY <1>4, <2>2
    <3>2. \A c \in Hmm!Times : d # 2 * c + 1
      BY <1>4, <2>2
    <3>3. d # 2 * nObs - 1
      BY <1>4, <2>2
    <3>4. QED
      BY <1>1, <3>1, <3>2, <3>3 DEF Computed
  <2>4. Hmm!ViterbiOneStep(StepAt(t)) /\ model' = model
    BY <1>2, <1>3, <2>1 DEF StepAt
  <2>5. /\ old' = Trellis(t - 1)' /\ new' = Trellis(t)' /\ Traced(t)'
        /\ new' \in [Hmm!States -> Nat]
        /\ path' \in [0..(nObs - 2) -> [Hmm!States -> Hmm!States \cup {JUNK}]]
        /\ UNCHANGED <<old, vProb, vPath>>
    BY <2>3, <2>4, HmmStepRight
  <2>6. d + 1 = 2 * (t - 1) + 1
    BY <2>2
  <2>7. Computed(d + 1)'
    <3>1. PICK c \in Hmm!Times : c = t - 1 /\ c + 1 = t
      BY <2>2
    <3>2. old' = Trellis(c)' /\ new' = Trellis(c + 1)' /\ Traced(c + 1)'
      BY <2>5, <3>1 DEF Trellis, Traced
    <3>3. c + 1 \in Hmm!Times /\ d + 1 = 2 * c + 1
      BY <2>2, <2>6, <3>1
    <3>4. QED
      BY <3>2, <3>3 DEF Computed
  <2>8. QED
    BY <2>5, <2>7 DEF ViterbiInv, HmmTypes
<1>7. CASE \E t \in 1..(nObs - 1) : d + 1 = 2 * t /\ x = [op |-> "copy"]
  <2>1. PICK t \in 1..(nObs - 1) : d + 1 = 2 * t /\ x = [op |-> "copy"]
    BY <1>7
  <2>2. t \in Nat /\ t - 1 \in Hmm!Times /\ (t - 1) + 1 = t /\ t \in Hmm!Times
        /\ d = 2 * (t - 1) + 1 /\ t <= u - 1
    BY <1>4, <2>1
  <2>3. new = Trellis(t) /\ Traced(t)
    <3>1. \A c \in Hmm!Times : d = 2 * c + 1 => c = t - 1
      BY <1>4, <2>2
    <3>2. \A c \in Hmm!Times : d # 2 * c
      BY <1>4, <2>2
    <3>3. d # 2 * nObs - 1
      BY <1>4, <2>2
    <3>4. PICK c \in Hmm!Times : d = 2 * c + 1 /\ new = Trellis(c + 1) /\ Traced(c + 1)
      BY <1>1, <3>2, <3>3 DEF Computed
    <3>5. c + 1 = t
      BY <2>2, <3>1, <3>4
    <3>6. QED
      BY <3>4, <3>5
  <2>4. old' = new /\ UNCHANGED <<new, path, vProb, vPath>>
    BY <1>3, <2>1 DEF Hmm!CopyBuffer
  <2>5. new \in [Hmm!States -> Nat]
    BY <2>2, <2>3, TrellisIs DEF Trellis, ViterbiInv, HmmTypes
  <2>6. Computed(d + 1)'
    <3>1. old' = Trellis(t)' /\ new' = Trellis(t)' /\ Traced(t)'
      BY <1>2, <2>3, <2>4 DEF Trellis, Traced
    <3>2. QED
      BY <2>1, <2>2, <3>1 DEF Computed
  <2>7. QED
    BY <2>4, <2>5, <2>6 DEF ViterbiInv, HmmTypes
<1>8. CASE d + 1 = 2 * nObs - 1 /\ x = [op |-> "path"]
  <2>1. Hmm!ViterbiPath
    BY <1>3, <1>8
  <2>2. new = Trellis(nObs - 1) /\ Traced(nObs - 1) /\ nObs - 1 \in Hmm!Times
    <3>1. \A c \in Hmm!Times : d = 2 * c => c = nObs - 1 /\ c # 0
      BY <1>4, <1>8
    <3>2. \A c \in Hmm!Times : d # 2 * c + 1
      BY <1>4, <1>8
    <3>3. d # 2 * nObs - 1
      BY <1>4, <1>8
    <3>4. QED
      BY <1>1, <1>4, <3>1, <3>2, <3>3 DEF Computed
  <2>3. new \in [Hmm!States -> Nat]
    BY <2>2, TrellisIs DEF Trellis, ViterbiInv, HmmTypes
  <2>4. /\ vProb' \in Nat /\ Follows(model, vPath')
        /\ vProb' = Trellis(nObs - 1)[vPath'[nObs - 1]]
        /\ UNCHANGED <<old, new, path>>
    <3>1. model \in Models
      BY DEF ViterbiInv, HmmTypes
    <3>2. QED
      BY <2>1, <2>2, <2>3, <3>1, HmmPathIs
  <2>5. vPath' \in [Hmm!Times -> Hmm!States]
    BY <2>4 DEF Follows
  <2>6. Decoded'
    BY <1>2, <2>4 DEF Decoded, Trellis
  <2>7. Computed(d + 1)'
    BY <1>8, <2>6 DEF Computed
  <2>8. QED
    BY <2>3, <2>4, <2>5, <2>7 DEF ViterbiInv, HmmTypes
<1>9. QED
  BY <1>1, <1>6, <1>7, <1>8 DEF IsCommand

LEMMA HmmKeeps == ViterbiInv /\ [Hmm!Next]_viterbi => ViterbiInv'
<1> SUFFICES ASSUME ViterbiInv, [Hmm!Next]_viterbi PROVE ViterbiInv'
  OBVIOUS
<1>1. ASSUME UNCHANGED <<model, old, new, path, vProb, vPath, obs, steps>>
      PROVE  HmmTypes' /\ InOrder' /\ Computed(Given - Len(steps))'
  <2>1. HmmTypes'
    BY <1>1 DEF ViterbiInv, HmmTypes
  <2>2. InOrder'
    BY <1>1 DEF ViterbiInv, InOrder, IsCommand, Given
  <2>3. Computed(Given - Len(steps))'
    BY <1>1 DEF ViterbiInv, Computed, Trellis, Traced, Decoded, Given
  <2>4. QED
    BY <2>1, <2>2, <2>3
<1>2. CASE UNCHANGED viterbi
  <2>1. IsRead'
    BY <1>2 DEF viterbi, ViterbiInv, IsRead
  <2>2. QED
    BY <1>1, <1>2, <2>1 DEF viterbi, ViterbiInv
<1>3. CASE Hmm!ReadBack
  <2>1. IsRead'
    BY <1>3 DEF Hmm!ReadBack, IsRead
  <2>2. QED
    BY <1>1, <1>3, <2>1 DEF Hmm!ReadBack, ViterbiInv
<1>4. CASE Hmm!EnqueueStep \/ Hmm!EnqueuePath \/ Hmm!Execute
  BY <1>4, HmmEnqueues, HmmEnqueuesPath, HmmExecutes
<1>5. QED
  BY <1>2, <1>3, <1>4 DEF Hmm!Next

LEMMA HmmFollows == ViterbiInv => Hmm!TypeOK /\ Hmm!StepsFollowEachOther
<1> SUFFICES ASSUME ViterbiInv PROVE Hmm!TypeOK /\ Hmm!StepsFollowEachOther
  OBVIOUS
<1>1. Hmm!TypeOK
  BY DEF ViterbiInv, HmmTypes, Hmm!TypeOK
<1>2. ASSUME steps # <<>>, Head(steps).op = "step"
      PROVE  /\ old = Hmm!Column(model)[Head(steps).t - 1].prob
             /\ \A t \in 0..(Head(steps).t - 2), s \in Hmm!States : path[t][s] # JUNK
  <2>1. PICK u \in Nat, e \in Nat, x \in Nat :
          /\ u = nObs /\ u > 1 /\ e = Given /\ x = Len(steps) /\ x <= e /\ DOMAIN steps = 1..x
          /\ obs \in Nat /\ obs >= 1 /\ obs <= u + 1 /\ e <= 2 * u - 1
    BY HmmNumbers
  <2>2. steps \in Seq(HmmCommands)
    BY DEF ViterbiInv, HmmTypes
  <2>3. x >= 1 /\ Head(steps) = steps[1]
    BY <1>2, <2>1, <2>2, EmptySeq, HeadTailProperties
  <2>4. PICK d \in Nat : d = e - x
    BY <2>1
  <2>5. IsCommand(Head(steps), d + 1) /\ Computed(d)
    <3>1. e - x + 1 = d + 1 /\ 1 \in 1..x
      BY <2>3, <2>4
    <3>2. QED
      BY <2>1, <2>3, <2>4, <3>1 DEF ViterbiInv, InOrder
  <2>6. PICK t \in 1..(nObs - 1) : d + 1 = 2 * t - 1 /\ Head(steps) = StepAt(t)
    BY <1>2, <2>5 DEF IsCommand
  <2>7. /\ t - 1 \in Hmm!Times /\ d = 2 * (t - 1)
        /\ \A c \in Hmm!Times : c \in Nat /\ (d = 2 * c => c = t - 1) /\ d # 2 * c + 1
        /\ d # 2 * nObs - 1
    BY <2>1, <2>6 DEF Hmm!Times
  <2>8. old = Trellis(t - 1) /\ Traced(t - 1)
    BY <2>5, <2>7 DEF Computed
  <2>9. Head(steps).t = t
    BY <2>6 DEF StepAt
  <2>10. ASSUME NEW c \in 0..(t - 2), NEW s \in Hmm!States PROVE path[c][s] # JUNK
    <3>1. c \in 0..((t - 1) - 1)
      BY <2>6, <2>1
    <3>2. path[c][s] \in Hmm!States
      BY <2>8, <3>1 DEF Traced
    <3>3. QED
      BY <3>2, HmmParameters DEF Hmm!States
  <2>11. QED
    BY <2>8, <2>9, <2>10 DEF Trellis
<1>3. QED
  BY <1>1, <1>2 DEF Hmm!StepsFollowEachOther

(* Weights of paths.                                                       *)

\* x is the weight of p up to each observation.
AreWeights(a, p, x) ==
  x = [t \in Hmm!Times |->
        IF t = 0 THEN a.init[p[0]]
        ELSE x[t - 1] + a.trans[<<p[t], p[t - 1]>>] + a.emit[<<Hmm!obs(t), p[t]>>]]

LEMMA WeightsExist ==
  ASSUME NEW a \in Models, NEW p \in [Hmm!Times -> Hmm!States]
  PROVE  \E x : AreWeights(a, p, x)
<1>1. PICK u \in Nat : u = nObs /\ u > 1 /\ Hmm!Times = 0..(u - 1)
  BY HmmParameters DEF Hmm!Times
<1>2. PICK begin : begin = a.init[p[0]]
  OBVIOUS
<1>3. begin \in Nat
  BY <1>1, <1>2, HmmModel
<1>4. PICK more : more = [q \in 2..u |-> a.trans[<<p[q - 1], p[(q - 1) - 1]>>]]
  OBVIOUS
<1>5. PICK emits : emits = [q \in 2..u |-> a.emit[<<Hmm!obs(q - 1), p[q - 1]>>]]
  OBVIOUS
<1>6. ASSUME NEW q \in 2..u PROVE more[q] \in Nat /\ emits[q] \in Nat
  <2>1. q - 1 \in Hmm!Times /\ (q - 1) - 1 \in Hmm!Times /\ q - 1 \in Nat
    BY <1>1
  <2>2. p[q - 1] \in Hmm!States /\ p[(q - 1) - 1] \in Hmm!States
    BY <2>1
  <2>3. QED
    BY <1>4, <1>5, <2>1, <2>2, HmmModel
<1>7. PICK g : g = [y \in (1..u) \X Nat |->
                     IF y[1] = 1 THEN 0 ELSE y[2] + more[y[1]] + emits[y[1]]]
  OBVIOUS
<1>8. g \in [(1..u) \X Nat -> Nat]
  <2>1. ASSUME NEW y \in (1..u) \X Nat
        PROVE  (IF y[1] = 1 THEN 0 ELSE y[2] + more[y[1]] + emits[y[1]]) \in Nat
    <3>1. y[1] # 1 => y[1] \in 2..u
      BY <1>1
    <3>2. QED
      BY <1>6, <3>1
  <2>2. QED
    BY <1>7, <2>1
<1>9. PICK f \in [1..u -> Nat] : Unrolled(f, g, begin, u)
  BY <1>3, <1>8, UnrolledExists
<1>10. PICK x : x = [t \in Hmm!Times |-> f[t + 1]]
  OBVIOUS
<1>11. ASSUME NEW t \in Hmm!Times
       PROVE  x[t] = IF t = 0 THEN begin
                     ELSE x[t - 1] + a.trans[<<p[t], p[t - 1]>>] + a.emit[<<Hmm!obs(t), p[t]>>]
  <2>1. t \in Nat /\ t + 1 \in 1..u /\ (t + 1) - 1 = t /\ x[t] = f[t + 1]
    BY <1>1, <1>10
  <2>2. f[t + 1] = IF t + 1 = 1 THEN begin ELSE g[<<t + 1, f[(t + 1) - 1]>>]
    BY <1>9, <2>1 DEF Unrolled
  <2>3. CASE t = 0
    BY <2>1, <2>2, <2>3
  <2>4. CASE t # 0
    <3>1. t + 1 \in 2..u /\ t + 1 # 1 /\ t - 1 \in Hmm!Times /\ (t - 1) + 1 = t /\ t \in 1..u
      BY <1>1, <2>1, <2>4
    <3>2. x[t - 1] = f[t] /\ f[t] \in Nat
      BY <1>10, <3>1
    <3>3. PICK y : y = <<t + 1, f[t]>>
      OBVIOUS
    <3>4. y \in (1..u) \X Nat /\ y[1] = t + 1 /\ y[2] = f[t]
      BY <2>1, <3>2, <3>3
    <3>5. g[y] = f[t] + more[t + 1] + emits[t + 1]
      BY <1>7, <3>1, <3>4
    <3>6. f[t + 1] = g[y]
      BY <2>1, <2>2, <3>1, <3>3
    <3>7. /\ more[t + 1] = a.trans[<<p[t], p[t - 1]>>]
          /\ emits[t + 1] = a.emit[<<Hmm!obs(t), p[t]>>]
      BY <1>4, <1>5, <2>1, <3>1
    <3>8. QED
      BY <2>1, <2>4, <3>2, <3>5, <3>6, <3>7
  <2>5. QED
    BY <2>3, <2>4
<1>12. x = [t \in Hmm!Times |-> x[t]]
  BY <1>10
<1>13. QED
  BY <1>2, <1>11, <1>12 DEF AreWeights

LEMMA WeightIs ==
  ASSUME NEW a \in Models, NEW p \in [Hmm!Times -> Hmm!States]
  PROVE  \E x : AreWeights(a, p, x) /\ Hmm!Weight(a, p) = x[nObs - 1]
<1> DEFINE upTo == CHOOSE x : x =
      [t \in Hmm!Times |->
        IF t = 0 THEN a.init[p[0]]
        ELSE x[t - 1] + a.trans[<<p[t], p[t - 1]>>] + a.emit[<<Hmm!obs(t), p[t]>>]]
<1>1. Hmm!Weight(a, p) = upTo[nObs - 1]
  BY DEF Hmm!Weight
<1>2. upTo = CHOOSE x : AreWeights(a, p, x)
  BY DEF AreWeights
<1> HIDE DEF upTo
<1>3. AreWeights(a, p, upTo)
  BY <1>2, WeightsExist
<1>4. QED
  BY <1>1, <1>3

\* A weight is at most the reference's greatest one for its last state, and is
\* that one if every state comes from one of greatest sum.
BestUpTo(a, p, t) == \A e \in 0..(t - 1) : BestBefore(a, e, p[e + 1], p[e])
Greatest(a, p, t) == Hmm!Column(a)[t].prob[p[t]]

LEMMA WeightGrows ==
  ASSUME NEW a \in Models, NEW p \in [Hmm!Times -> Hmm!States], NEW x, AreWeights(a, p, x),
         NEW t \in Nat, t + 1 \in Hmm!Times, x[t] \in Nat, x[t] <= Greatest(a, p, t)
  PROVE  /\ x[t + 1] \in Nat /\ x[t + 1] <= Greatest(a, p, t + 1)
         /\ x[t] = Greatest(a, p, t) /\ BestBefore(a, t, p[t + 1], p[t]) =>
              x[t + 1] = Greatest(a, p, t + 1)
<1>1. t \in Hmm!Times /\ (t + 1) - 1 = t /\ t + 1 \in Nat /\ t + 1 # 0 /\ t + 1 > 0
  BY HmmParameters DEF Hmm!Times
<1>2. PICK b \in Hmm!States, s \in Hmm!States : b = p[t] /\ s = p[t + 1]
  BY <1>1
<1>3. PICK prob \in [Hmm!States -> Nat] : prob = Hmm!Column(a)[t].prob
  BY <1>1, TrellisIs
<1>4. PICK f \in [Hmm!States -> Nat] : f = SumsOf(a, prob)[s]
  BY SumsAre
<1>5. PICK best \in Hmm!States : best = Hmm!FirstBest(f) /\ \A c \in Hmm!States : f[best] >= f[c]
  BY HmmFirstBest
<1>6. PICK tr \in Nat, em \in Nat : tr = a.trans[<<s, b>>] /\ em = a.emit[<<Hmm!obs(t + 1), s>>]
  BY <1>1, HmmModel
<1>7. f[b] = prob[b] + tr
  BY <1>4, <1>6 DEF SumsOf
<1>8. Greatest(a, p, t + 1) = f[best] + em
  <2>1. Hmm!Column(a)[t + 1] = ColumnAfter(a, t + 1, prob)
    BY <1>1, <1>3, TrellisIs
  <2>2. Hmm!Column(a)[t + 1].prob[s] = f[best] + em
    BY <2>1, <1>4, <1>5, <1>6 DEF ColumnAfter
  <2>3. QED
    BY <1>2, <2>2 DEF Greatest
<1>9. Greatest(a, p, t) = prob[b]
  BY <1>2, <1>3 DEF Greatest
<1>10. x[t + 1] = x[t] + tr + em
  <2>1. x[t + 1] = x[(t + 1) - 1] + a.trans[<<p[t + 1], p[(t + 1) - 1]>>]
                     + a.emit[<<Hmm!obs(t + 1), p[t + 1]>>]
    BY <1>1 DEF AreWeights
  <2>2. QED
    BY <2>1, <1>1, <1>2, <1>6
<1>11. f[b] \in Nat /\ f[best] \in Nat /\ f[best] >= f[b] /\ prob[b] \in Nat
  BY <1>5
<1>12. ASSUME BestBefore(a, t, p[t + 1], p[t]) PROVE f[b] = f[best]
  <2>1. \A c \in Hmm!States : f[b] >= f[c]
    BY <1>2, <1>3, <1>4, <1>12 DEF BestBefore
  <2>2. QED
    BY <1>5, <2>1, GreatestSum
<1>13. QED
  BY <1>6, <1>7, <1>8, <1>9, <1>10, <1>11, <1>12

LEMMA PathWeight ==
  ASSUME NEW a \in Models, NEW p \in [Hmm!Times -> Hmm!States]
  PROVE  /\ Hmm!Weight(a, p) \in Nat /\ Hmm!Weight(a, p) <= Greatest(a, p, nObs - 1)
         /\ BestUpTo(a, p, nObs - 1) => Hmm!Weight(a, p) = Greatest(a, p, nObs - 1)
<1>1. PICK x : AreWeights(a, p, x) /\ Hmm!Weight(a, p) = x[nObs - 1]
  BY WeightIs
<1> DEFINE Good == {t \in Nat : t \in Hmm!Times =>
      /\ x[t] \in Nat /\ x[t] <= Greatest(a, p, t)
      /\ BestUpTo(a, p, t) => x[t] = Greatest(a, p, t)}
<1>2. 0 \in Good
  <2>1. 0 \in Hmm!Times
    BY HmmParameters DEF Hmm!Times
  <2>2. x[0] = a.init[p[0]]
    BY <1>1, <2>1 DEF AreWeights
  <2>3. Greatest(a, p, 0) = a.init[p[0]] /\ a.init[p[0]] \in Nat
    BY <2>1, TrellisIs, HmmModel DEF Greatest
  <2>4. QED
    BY <2>2, <2>3
<1>3. ASSUME NEW t \in Good PROVE t + 1 \in Good
  <2>1. /\ t \in Nat
        /\ t \in Hmm!Times => /\ x[t] \in Nat /\ x[t] <= Greatest(a, p, t)
                              /\ BestUpTo(a, p, t) => x[t] = Greatest(a, p, t)
    OBVIOUS
  <2>2. SUFFICES ASSUME t + 1 \in Hmm!Times
                 PROVE  /\ x[t + 1] \in Nat /\ x[t + 1] <= Greatest(a, p, t + 1)
                        /\ BestUpTo(a, p, t + 1) => x[t + 1] = Greatest(a, p, t + 1)
    BY <2>1
  <2>3. t \in Hmm!Times
    BY <2>1, <2>2, HmmParameters DEF Hmm!Times
  <2>4. BestUpTo(a, p, t + 1) => BestUpTo(a, p, t) /\ BestBefore(a, t, p[t + 1], p[t])
    <3>1. t \in 0..((t + 1) - 1) /\ \A e \in 0..(t - 1) : e \in 0..((t + 1) - 1)
      BY <2>1
    <3>2. QED
      BY <3>1 DEF BestUpTo
  <2>5. QED
    <3> HIDE DEF Good
    <3> QED
      BY <1>1, <2>1, <2>2, <2>3, <2>4, WeightGrows
<1>4. Good = Nat
  <2> HIDE DEF Good
  <2>1. Good \in SUBSET Nat
    BY DEF Good
  <2>2. QED
    BY <1>2, <1>3, <2>1, Induct
<1>5. PICK t \in Nat : t = nObs - 1 /\ t \in Hmm!Times
  BY HmmParameters DEF Hmm!Times
<1>6. t \in Good
  <2> HIDE DEF Good
  <2> QED
    BY <1>4
<1>7. QED
  BY <1>1, <1>5, <1>6

\* A path that comes over greatest sums to a state of greatest weight is one of
\* greatest weight.
LEMMA FollowedIsBest ==
  ASSUME NEW a \in Models, NEW v, Follows(a, v)
  PROVE  /\ Hmm!Weight(a, v) = Hmm!Column(a)[nObs - 1].prob[v[nObs - 1]]
         /\ Hmm!Weight(a, v) \in Nat
         /\ \A s \in Hmm!States : Hmm!Column(a)[nObs - 1].prob[s] <= Hmm!Weight(a, v)
         /\ \A p \in [Hmm!Times -> Hmm!States] : Hmm!Weight(a, p) <= Hmm!Weight(a, v)
<1>1. PICK u \in Nat : u = nObs - 1 /\ u \in Hmm!Times /\ u - 1 = nObs - 2
  BY HmmParameters DEF Hmm!Times
<1>2. PICK prob \in [Hmm!States -> Nat] : prob = Hmm!Column(a)[u].prob
  BY <1>1, TrellisIs
<1>3. v \in [Hmm!Times -> Hmm!States] /\ v[u] = Hmm!FirstBest(prob) /\ v[u] \in Hmm!States
  BY <1>1, <1>2 DEF Follows
<1>4. \A s \in Hmm!States : prob[v[u]] >= prob[s] /\ prob[s] \in Nat
  BY <1>3, HmmFirstBest
<1>5. BestUpTo(a, v, u)
  BY <1>1 DEF Follows, BestUpTo
<1>6. Hmm!Weight(a, v) = prob[v[u]] /\ Hmm!Weight(a, v) \in Nat
  BY <1>1, <1>2, <1>3, <1>5, PathWeight DEF Greatest
<1>7. ASSUME NEW p \in [Hmm!Times -> Hmm!States] PROVE Hmm!Weight(a, p) <= Hmm!Weight(a, v)
  <2>1. Hmm!Weight(a, p) \in Nat /\ Hmm!Weight(a, p) <= prob[p[u]] /\ p[u] \in Hmm!States
    BY <1>1, <1>2, PathWeight DEF Greatest
  <2>2. QED
    BY <2>1, <1>4, <1>6, <1>3
<1>8. QED
  BY <1>1, <1>2, <1>4, <1>6, <1>7, <1>3

\* The reference's path is one.
LEMMA CPUFollows ==
  ASSUME NEW a \in Models
  PROVE  Follows(a, Hmm!ViterbiCPU(a))
<1>1. PICK u \in Nat : u = nObs /\ u > 1 /\ Hmm!Times = 0..(u - 1)
  BY HmmParameters DEF Hmm!Times
<1>2. PICK col : col = Hmm!Column(a)
  OBVIOUS
<1>3. PICK last : last = Hmm!FirstBest(col[nObs - 1].prob)
  OBVIOUS
<1>4. last \in Hmm!States
  <2>1. nObs - 1 \in Hmm!Times
    BY <1>1
  <2>2. col[nObs - 1].prob \in [Hmm!States -> Nat]
    BY <1>2, <2>1, TrellisIs
  <2>3. QED
    BY <1>3, <2>2, HmmFirstBest
<1>5. PICK w : w = [t \in 0..(nObs - 2) |-> col[t + 1].from]
  OBVIOUS
<1>6. ASSUME NEW t \in 0..(nObs - 2)
      PROVE  /\ w[t] \in [Hmm!States -> Hmm!States]
             /\ \A s \in Hmm!States : BestBefore(a, t, s, w[t][s])
  <2>1. t \in Hmm!Times /\ t + 1 \in Hmm!Times /\ t + 1 > 0 /\ (t + 1) - 1 = t
    BY <1>1
  <2>2. PICK p \in [Hmm!States -> Nat] : p = Hmm!Column(a)[t].prob
    BY <2>1, TrellisIs
  <2>3. Hmm!Column(a)[t + 1] = ColumnAfter(a, t + 1, p)
    BY <2>1, <2>2, TrellisIs
  <2>4. w[t] = [s \in Hmm!States |-> Hmm!FirstBest(SumsOf(a, p)[s])]
    BY <1>2, <1>5, <2>3 DEF ColumnAfter
  <2>5. ASSUME NEW s \in Hmm!States
        PROVE  /\ w[t][s] \in Hmm!States
               /\ \A c \in Hmm!States : SumsOf(a, p)[s][w[t][s]] >= SumsOf(a, p)[s][c]
    <3>1. PICK f \in [Hmm!States -> Nat] : f = SumsOf(a, p)[s]
      BY SumsAre
    <3>2. w[t][s] = Hmm!FirstBest(f)
      BY <2>4, <3>1
    <3>3. QED
      BY <3>1, <3>2, HmmFirstBest
  <2>6. QED
    BY <2>2, <2>4, <2>5 DEF BestBefore
<1> DEFINE back == CHOOSE x : x =
      [t \in Hmm!Times |-> IF t = nObs - 1 THEN Hmm!FirstBest(col[t].prob)
                           ELSE col[t + 1].from[x[t + 1]]]
<1>7. Hmm!ViterbiCPU(a) = [t \in Hmm!Times |-> back[t]]
  BY <1>2 DEF Hmm!ViterbiCPU
<1>8. \A x : IsTrace(w, x, last) <=>
        x = [t \in Hmm!Times |-> IF t = nObs - 1 THEN Hmm!FirstBest(col[t].prob)
                                 ELSE col[t + 1].from[x[t + 1]]]
  <2>1. ASSUME NEW x, NEW t \in Hmm!Times
        PROVE  (IF t = nObs - 1 THEN last ELSE w[t][x[t + 1]])
                 = (IF t = nObs - 1 THEN Hmm!FirstBest(col[t].prob) ELSE col[t + 1].from[x[t + 1]])
    <3>1. t # nObs - 1 => t \in 0..(nObs - 2)
      BY <1>1
    <3>2. QED
      BY <1>3, <1>5, <3>1
  <2>2. QED
    BY <2>1 DEF IsTrace
<1>9. \E x : IsTrace(w, x, last)
  BY <1>4, <1>6, HmmBacktrace
<1>10. IsTrace(w, back, last)
  <2>1. PICK x : x = [t \in Hmm!Times |-> IF t = nObs - 1 THEN Hmm!FirstBest(col[t].prob)
                                          ELSE col[t + 1].from[x[t + 1]]]
    BY <1>8, <1>9
  <2>2. back = [t \in Hmm!Times |-> IF t = nObs - 1 THEN Hmm!FirstBest(col[t].prob)
                                    ELSE col[t + 1].from[back[t + 1]]]
    BY <2>1
  <2> HIDE DEF back
  <2>3. QED
    BY <2>2, <1>8
<1> HIDE DEF back
<1>11. back \in [Hmm!Times -> Hmm!States]
  BY <1>4, <1>6, <1>10, HmmTrace
<1>12. Hmm!ViterbiCPU(a) = back
  BY <1>7, <1>11
<1>13. \A t \in Hmm!Times : back[t] = IF t = nObs - 1 THEN last ELSE w[t][back[t + 1]]
  BY <1>10 DEF IsTrace
<1>14. back[nObs - 1] = last
  BY <1>1, <1>13
<1>15. ASSUME NEW t \in 0..(nObs - 2) PROVE BestBefore(a, t, back[t + 1], back[t])
  <2>1. t \in Hmm!Times /\ t + 1 \in Hmm!Times /\ t # nObs - 1
    BY <1>1
  <2>2. back[t] = w[t][back[t + 1]] /\ back[t + 1] \in Hmm!States
    BY <1>11, <1>13, <2>1
  <2>3. QED
    BY <1>6, <2>2
<1>16. QED
  BY <1>2, <1>3, <1>11, <1>12, <1>14, <1>15 DEF Follows

\* What is read back is decoded.
LEMMA HmmIsDecoded ==
  ASSUME ViterbiInv, decoded # <<>>
  PROVE  model \in Models /\ Follows(model, decoded) /\ vProb = Trellis(nObs - 1)[decoded[nObs - 1]]
<1>1. decoded = vPath /\ obs > nObs /\ steps = <<>> /\ model \in Models /\ obs \in 1..(nObs + 1)
  BY DEF ViterbiInv, IsRead, HmmTypes
<1>2. PICK u \in Nat : u = nObs /\ u > 1 /\ Hmm!Times = 0..(u - 1)
  BY HmmParameters DEF Hmm!Times
<1>3. Given - Len(steps) = 2 * u - 1
  BY <1>1, <1>2 DEF Given
<1>4. Computed(2 * u - 1)
  BY <1>3 DEF ViterbiInv
<1>5. \A c \in Hmm!Times : 2 * u - 1 # 2 * c /\ (c + 1 \in Hmm!Times => 2 * u - 1 # 2 * c + 1)
  BY <1>2
<1>6. Decoded
  BY <1>4, <1>5 DEF Computed
<1>7. QED
  BY <1>1, <1>6 DEF Decoded

LEMMA HmmRight == ViterbiInv => Hmm!PathIsMostProbable /\ Hmm!MatchesReference
<1> SUFFICES ASSUME ViterbiInv, decoded # <<>>
             PROVE  /\ Hmm!Weight(model, decoded) = vProb
                    /\ \A p \in [Hmm!Times -> Hmm!States] : Hmm!Weight(model, p) <= vProb
                    /\ Hmm!Weight(model, decoded) = Hmm!Weight(model, Hmm!ViterbiCPU(model))
                    /\ vProb = Hmm!Max({Hmm!Column(model)[nObs - 1].prob[s] : s \in Hmm!States})
  BY DEF Hmm!PathIsMostProbable, Hmm!MatchesReference
<1>1. model \in Models /\ Follows(model, decoded) /\ vProb = Trellis(nObs - 1)[decoded[nObs - 1]]
  BY HmmIsDecoded
<1>2. PICK prob : prob = Hmm!Column(model)[nObs - 1].prob
  OBVIOUS
<1>3. PICK cpu : cpu = Hmm!ViterbiCPU(model)
  OBVIOUS
<1>4. Follows(model, cpu)
  BY <1>1, <1>3, CPUFollows
<1>5. decoded \in [Hmm!Times -> Hmm!States] /\ cpu \in [Hmm!Times -> Hmm!States]
      /\ decoded[nObs - 1] = cpu[nObs - 1]
  BY <1>1, <1>4 DEF Follows
<1>6. /\ Hmm!Weight(model, decoded) = prob[decoded[nObs - 1]]
      /\ Hmm!Weight(model, decoded) \in Nat
      /\ \A s \in Hmm!States : prob[s] <= Hmm!Weight(model, decoded)
      /\ \A p \in [Hmm!Times -> Hmm!States] : Hmm!Weight(model, p) <= Hmm!Weight(model, decoded)
  BY <1>1, <1>2, FollowedIsBest
<1>7. Hmm!Weight(model, cpu) = prob[cpu[nObs - 1]]
  BY <1>1, <1>2, <1>4, FollowedIsBest
<1>8. vProb = prob[decoded[nObs - 1]]
  BY <1>1, <1>2 DEF Trellis
<1>9. vProb = Hmm!Max({prob[s] : s \in Hmm!States})
  <2>1. decoded[nObs - 1] \in Hmm!States
    BY <1>5, HmmParameters DEF Hmm!Times
  <2>2. PICK S : S = {prob[s] : s \in Hmm!States}
    OBVIOUS
  <2>3. vProb \in S /\ \A y \in S : vProb >= y
    BY <1>6, <1>8, <2>1, <2>2
  <2>4. \A s \in Hmm!States : prob[s] \in Nat
    BY <1>1, <1>2, TrellisIs, HmmParameters DEF Hmm!Times
  <2>5. ASSUME NEW x \in S, \A y \in S : x >= y PROVE x = vProb
    <3>1. x \in Nat /\ vProb \in Nat
      BY <2>2, <2>3, <2>4
    <3>2. x >= vProb /\ vProb >= x
      BY <2>3, <2>5
    <3>3. QED
      BY <3>1, <3>2
  <2>6. Hmm!Max(S) = CHOOSE x \in S : \A y \in S : x >= y
    BY DEF Hmm!Max
  <2>7. vProb = CHOOSE x \in S : \A y \in S : x >= y
    BY <2>3, <2>5
  <2>8. QED
    BY <2>2, <2>6, <2>7
<1>10. QED
  BY <1>2, <1>3, <1>5, <1>6, <1>7, <1>8, <1>9
-------------------------------------------------------------------------------
(* The programs together.                                                  *)

ProgramsInv ==
  /\ which = "quicksort" => QInv
  /\ which # "quicksort" => QuicksortIdle
  /\ which = "mul" => MulInv
  /\ which = "nbody" => BodyInv
  /\ which = "sobel" => SobelInv
  /\ which = "viterbi" => ViterbiInv

LEMMA ProgramsStep == ProgramsInv /\ [ProgramsNext]_programs => ProgramsInv'
<1> SUFFICES ASSUME ProgramsInv, [ProgramsNext]_programs PROVE ProgramsInv'
  OBVIOUS
<1>1. /\ which' = which
      /\ which = "quicksort" => [Next]_vars
      /\ which # "quicksort" => UNCHANGED vars
      /\ which = "mul" => [Mul!Next]_product
      /\ which = "nbody" => [Nbody!Next]_bodies
      /\ which = "sobel" => [Sobel!Next]_sobel
      /\ which = "viterbi" => [Hmm!Next]_viterbi
  BY DEF ProgramsNext, QuicksortStep, ProductStep, BodiesStep, SobelStep, ViterbiStep, programs
<1>2. which = "quicksort" => QInv'
  BY <1>1, QNext DEF ProgramsInv
<1>3. which # "quicksort" => QuicksortIdle'
  BY <1>1 DEF ProgramsInv, QuicksortIdle, vars, Indices
<1>4. which = "mul" => MulInv'
  BY <1>1, MulStep DEF ProgramsInv
<1>5. which = "nbody" => BodyInv'
  BY <1>1, BodyStep DEF ProgramsInv
<1>6. which = "sobel" => SobelInv'
  BY <1>1, SobelKeeps DEF ProgramsInv
<1>7. which = "viterbi" => ViterbiInv'
  BY <1>1, HmmKeeps DEF ProgramsInv
<1>8. QED
  BY <1>1, <1>2, <1>3, <1>4, <1>5, <1>6, <1>7 DEF ProgramsInv

\* Whichever program runs, its invariant holds.
LEMMA ProgramsInvariance == ProgramsSpec => []ProgramsInv
<1>1. ProgramsInit => ProgramsInv
  BY QInit, MulFirst, BodyFirst, SobelFirst, HmmFirstState DEF ProgramsInit, ProgramsInv
<1>2. QED
  BY <1>1, ProgramsStep, PTL DEF ProgramsSpec

\* For matrices, bodies, groups and images of any size and every interleaving of
\* the work-items: no index leaves its array, no sum takes an element that is
\* not yet in local memory or no longer, and every pixel finds its neighbours.
THEOREM ItemsShare == ProgramsSpec => []MemoryIsShared
<1>1. ASSUME ProgramsInv PROVE MemoryIsShared
  <2>1. TypeOK
    <3>1. CASE which = "quicksort"
      BY <1>1, <3>1 DEF ProgramsInv, QInv, QType, TypeOK
    <3>2. CASE which # "quicksort"
      <4>1. /\ list = [x \in Indices |-> 1] /\ stack = <<>> /\ pc = "done"
            /\ i = 0 /\ j = 0
        BY <1>1, <3>2 DEF ProgramsInv, QuicksortIdle
      <4>2. Size \in Nat \ {0} /\ Len(stack) = 0
        BY <4>1, QuicksortAssumption
      <4>3. QED
        BY <4>1, <4>2 DEF TypeOK
    <3>3. QED
      BY <3>1, <3>2
  <2>2. QED
    BY <1>1, <2>1, MulShared, BodyShared, SobelShared DEF ProgramsInv, MemoryIsShared
<1>2. QED
  BY <1>1, ProgramsInvariance, PTL

\* However far the host is ahead of the driver, a launch finds the positions the
\* launch before it left, or the column of its own observation.
THEOREM LaunchesInOrder == ProgramsSpec => []LaunchesFollow
<1>1. ProgramsInv => LaunchesFollow
  BY BodyFollows, HmmFollows DEF ProgramsInv, LaunchesFollow
<1>2. QED
  BY <1>1, ProgramsInvariance, PTL

LEMMA IdleIsSorted == QuicksortIdle => Sorted
<1> SUFFICES ASSUME QuicksortIdle PROVE Sorted
  OBVIOUS
<1>1. list = [x \in Indices |-> 1] /\ input = list
  BY DEF QuicksortIdle
<1>2. QED
  BY <1>1 DEF Sorted

\* What the host reads back is the sorted input, the product the sequential loop
\* computes, the positions after the right launch, a most probable path and, of
\* rows that are whole groups, the image the phone computes but for the left rims:
\* for inputs and groups of any size and in every interleaving of the work-items
\* and of host and driver.
THEOREM ResultsRight == ProgramsSpec => []ResultsAreRight
<1>1. ASSUME ProgramsInv PROVE ResultsAreRight
  <2>1. Sorted
    BY <1>1, InvSorts, IdleIsSorted DEF ProgramsInv
  <2>2. QED
    BY <1>1, <2>1, MulComplete, BodyResult, HmmRight, SobelAgrees, SobelStays
    DEF ProgramsInv, ResultsAreRight
<1>2. QED
  BY <1>1, ProgramsInvariance, PTL
==============================================================================
