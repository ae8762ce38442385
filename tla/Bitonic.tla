------------------------------- MODULE Bitonic -------------------------------
(***************************************************************************)
(* bitonic.c and its kernel BitonicSort, and the sequential reference      *)
(* ExecuteSortReference.  The host queues every pass of every stage        *)
(* without waiting; the driver keeps each launch's arguments.  A work-item *)
(* has one int4 or two, four elements each; those of a launch touch        *)
(* different ones (ItemsDisjoint), so that a launch can be one step.       *)
(***************************************************************************)
EXTENDS Naturals, Sequences, FiniteSets, SequencesExt

CONSTANTS
  Quads,      \* int4 elements of the buffer: array_size / 4
  LocalSize,  \* local_work_size
  Inputs,     \* what generateInput may produce
  MaxQueue    \* bound: launches in the driver's queue

Elements == 0..(4 * Quads - 1)

\* "scale should be higher than 8": every launch is a multiple of the local
\* size, and array_size a power of two.
BitonicAssumption ==
  /\ \E n \in 1..Quads : Quads = 2 ^ n
  /\ LocalSize \in Nat \ {0} /\ (Quads \div 2) % LocalSize = 0
  /\ Inputs \subseteq [Elements -> Nat] /\ MaxQueue \in Nat \ {0}

VARIABLES
  input,   \* the array as uploaded
  dir,     \* argument 3: 1 for ascending
  array,   \* theArray, on the server
  stage, passOfStage,  \* the host's loops: the next launch
  queue,   \* the launches the driver has not carried out
  ran,     \* the launch it carried out last
  output   \* what the host read back

vars == <<input, dir, array, stage, passOfStage, queue, ran, output>>

\* for (temp = array_size; temp > 2; temp >>= 1) no_stages++
Halvings(n, last) == CHOOSE s \in 0..n : n \div 2 ^ s <= last /\ \A t \in 0..(s - 1) : n \div 2 ^ t > last
NoStages == Halvings(4 * Quads, 2)

None == [stage |-> 0, pass |-> 1, items |-> 0, dir |-> 0]

Init ==
  /\ input \in Inputs /\ dir \in {0, 1} /\ array = input
  /\ stage = 0 /\ passOfStage = 0 /\ queue = <<>> /\ ran = None /\ output = <<>>
-------------------------------------------------------------------------------
(* The kernel.                                                             *)

Bit(i, n) == (i \div 2 ^ n) % 2
Lanes == 0..3

Quad(a, q)   == [j \in Lanes |-> a[4 * q + j]]
Zwxy(v)      == [j \in Lanes |-> v[(j + 2) % 4]]
Yxwz(v)      == [j \in Lanes |-> v[IF j % 2 = 0 THEN j + 1 ELSE j - 1]]
\* (v & mask) | (w & ~mask)
Select(mask, v, w) == [j \in Lanes |-> IF mask[j] THEN v[j] ELSE w[j]]
\* (v < w) ^ imask, imask as the set of lanes that are -1
Mask(v, w, imask) == [j \in Lanes |-> (v[j] < w[j]) # (j \in imask)]

\* One comparison of the lanes of v with those of w, upward or downward.
Compare(v, w, imask, up) ==
  IF up THEN Select(Mask(v, w, imask), v, w) ELSE Select(Mask(v, w, imask), w, v)

InsideFour(v, up) ==
  LET h == Compare(v, Zwxy(v), {2, 3}, up) IN Compare(h, Yxwz(h), {1, 3}, up)

\* "sort inside one four", in the first stage and in the last pass of another.
FirstStage(v, i) ==
  LET u == Compare(v, Yxwz(v), {1, 2}, dir = 1) IN InsideFour(u, Bit(i, 0) # dir)
LastPass(v, i, l) == InsideFour(v, Bit(i, l.stage) # l.dir)

\* "upper level pass, exchange between two fours".
Left(i, pass)  == (i \div 2 ^ (pass - 1)) * 2 ^ pass + (i % 2 ^ (pass - 1))
Right(i, pass) == Left(i, pass) + 2 ^ (pass - 1)
Up(i, l) == Bit(i, l.stage - 1) # l.dir

Exchanged(a, i, l) ==
  LET v == Quad(a, Left(i, l.pass))
      w == Quad(a, Right(i, l.pass))
      least == Select([j \in Lanes |-> v[j] < w[j]], v, w)
      most  == Select([j \in Lanes |-> v[j] < w[j]], w, v)
  IN  IF Up(i, l) THEN <<least, most>> ELSE <<most, least>>

\* The int4 elements of work-item i, and what it stores in them.
Touched(i, l) == IF l.pass > 0 THEN {Left(i, l.pass), Right(i, l.pass)} ELSE {i}
Stored(a, i, l, q) ==
  CASE l.stage = 0                       -> FirstStage(Quad(a, q), i)
    [] l.pass > 0 /\ q = Left(i, l.pass) -> Exchanged(a, i, l)[1]
    [] l.pass > 0                        -> Exchanged(a, i, l)[2]
    [] OTHER                             -> LastPass(Quad(a, q), i, l)

BitonicSort(a, l) ==
  LET owner == [q \in 0..(Quads - 1) |->
                  {i \in 0..(l.items - 1) : q \in Touched(i, l)}]
      new == [q \in 0..(Quads - 1) |->
                IF owner[q] = {} THEN Quad(a, q)
                ELSE Stored(a, CHOOSE i \in owner[q] : TRUE, l, q)]
  IN  [e \in Elements |-> new[e \div 4][e % 4]]
-------------------------------------------------------------------------------
(* The host and the driver.                                                *)

GlobalSize(pass) == IF pass > 0 THEN Quads \div 2 ELSE Quads

\* What clSetKernelArg and clEnqueueNDRangeKernel give the driver.
Launch == [stage |-> stage, pass |-> passOfStage, items |-> GlobalSize(passOfStage), dir |-> dir]

Enqueue ==
  /\ stage < NoStages /\ Len(queue) < MaxQueue
  /\ queue' = Append(queue, Launch)
  /\ IF passOfStage > 0 THEN passOfStage' = passOfStage - 1 /\ UNCHANGED stage
     ELSE stage' = stage + 1 /\ passOfStage' = stage + 1
  /\ UNCHANGED <<input, dir, array, ran, output>>

Execute ==
  /\ queue # <<>>
  /\ array' = BitonicSort(array, Head(queue)) /\ ran' = Head(queue)
  /\ queue' = Tail(queue)
  /\ UNCHANGED <<input, dir, stage, passOfStage, output>>

ReadBackM1 ==
  /\ stage = NoStages /\ output = <<>>
  /\ output' = array
  /\ UNCHANGED <<input, dir, array, stage, passOfStage, queue, ran>>
\* clFinish, and a blocking read.
ReadBack ==
  /\ stage = NoStages /\ queue = <<>> /\ output = <<>>
  /\ output' = array
  /\ UNCHANGED <<input, dir, array, stage, passOfStage, queue, ran>>

Next == Enqueue \/ Execute \/ ReadBack
Spec == Init /\ [][Next]_vars
-------------------------------------------------------------------------------
(* ExecuteSortReference of android/bitonic/jni/bitonic_cpu.c: stages,      *)
(* passes and pairs one after the other, with shift = stage - passOfStage. *)

RefLeft(g, shift) == (g \div 2 ^ shift) * 2 ^ (shift + 1) + (g % 2 ^ shift)

RefPair(a, s, shift, g, ascending) ==
  LET l == RefLeft(g, shift)
      r == l + 2 ^ shift
      lesser  == IF a[l] > a[r] THEN a[r] ELSE a[l]
      greater == IF a[l] > a[r] THEN a[l] ELSE a[r]
  IN  IF Bit(g, s) # ascending THEN [a EXCEPT ![l] = lesser, ![r] = greater]
      ELSE [a EXCEPT ![l] = greater, ![r] = lesser]

\* for (stage ...) for (passOfStage ...): shift goes from stage down to 0.
Passes(last) ==
  [n \in 1..((last * (last + 1)) \div 2) |->
     LET s == CHOOSE s \in 0..(last - 1) : (s * (s + 1)) \div 2 < n /\ n <= ((s + 1) * (s + 2)) \div 2
     IN  [stage |-> s, shift |-> ((s + 1) * (s + 2)) \div 2 - n]]

Reference(a, ascending) ==
  FoldLeft(LAMBDA b, p :
             FoldLeft(LAMBDA c, n : RefPair(c, p.stage, p.shift, n - 1, ascending),
                      b, [n \in 1..(2 * Quads) |-> n]),
           a, Passes(Halvings(4 * Quads, 1)))
-------------------------------------------------------------------------------
(* Properties.                                                             *)

TypeOK ==
  /\ array \in [Elements -> Nat] /\ dir \in {0, 1}
  /\ stage \in 0..NoStages /\ passOfStage \in 0..stage
  /\ Len(queue) <= MaxQueue
  /\ output = <<>> \/ output \in [Elements -> Nat]

\* Work-items of a launch touch int4 elements of their own, all inside the
\* buffer, and every element belongs to one: no barrier is needed inside a
\* pass, and only the order of passes matters (BitonicSort.cl 49-52).
ItemsDisjoint ==
  \A n \in DOMAIN queue :
    LET l == queue[n] IN
      /\ UNION {Touched(i, l) : i \in 0..(l.items - 1)} = 0..(Quads - 1)
      /\ \A i, j \in 0..(l.items - 1) : i # j => Touched(i, l) \cap Touched(j, l) = {}

Ordered(a, from, to, up) ==
  \A e \in from..(to - 1) : IF up THEN a[e] <= a[e + 1] ELSE a[e] >= a[e + 1]

\* When the last pass of a stage has run, the blocks of four times two to the
\* stage are sorted, upward and downward in turn: what the next one merges.
BlocksAlternate ==
  ran.pass = 0 =>
    LET block == 4 * 2 ^ ran.stage IN
      \A b \in 0..((4 * Quads) \div block - 1) :
        Ordered(array, b * block, (b + 1) * block - 1, (b % 2) # dir)

\* The host reads its input, sorted in the direction it asked for.
Sorted ==
  output # <<>> =>
    /\ Ordered(output, 0, 4 * Quads - 1, dir = 1)
    /\ \A v \in {input[e] : e \in Elements} :
         Cardinality({e \in Elements : output[e] = v}) = Cardinality({e \in Elements : input[e] = v})

\* It is what the sequential reference makes of it.
MatchesReference == output # <<>> => output = Reference(input, dir)
==============================================================================
