------------------------------ MODULE Quicksort ------------------------------
(***************************************************************************)
(* quicksort() of the phone's quicksort.c, instruction by instruction as   *)
(* far as its bounds and its order matter, with the stack of the calls     *)
(* that have not begun.                                                    *)
(***************************************************************************)
EXTENDS Integers, FiniteSets, SequencesExt

CONSTANTS
  Size,    \* 2^scale * 4 elements in the code
  Values

ASSUME QuicksortAssumption == Size \in Nat \ {0} /\ Values \subseteq Int

VARIABLES
  input,    \* what generateInput left
  list,
  stack,    \* the calls <<m, n>> still to be made, innermost first
  pc,       \* "call", "loop", "up", "down", "swap", "done"
  m, n, key, i, j

vars == <<input, list, stack, pc, m, n, key, i, j>>
Indices == 0..(Size - 1)

Init ==
  /\ input \in [Indices -> Values] /\ list = input
  /\ stack = <<<<0, Size - 1>>>> /\ pc = "call"
  /\ m = 0 /\ n = Size - 1 /\ key = input[0] /\ i = 0 /\ j = 0

swap(l, x, y) == [l EXCEPT ![x] = l[y], ![y] = l[x]]
choose_pivot(x, y) == (x + y) \div 2

\* Up to the head of the outer loop.
Call ==
  /\ pc = "call" /\ stack # <<>>
  /\ LET f == Head(stack) IN
     IF f[1] < f[2]
     THEN /\ m' = f[1] /\ n' = f[2] /\ list' = swap(list, m', choose_pivot(m', n'))
          /\ key' = list'[m'] /\ i' = m' + 1 /\ j' = n' /\ pc' = "loop"
     ELSE UNCHANGED <<m, n, list, key, i, j, pc>>
  /\ stack' = Tail(stack) /\ UNCHANGED input

Return ==
  /\ pc = "call" /\ stack = <<>> /\ pc' = "done"
  /\ UNCHANGED <<input, list, stack, m, n, key, i, j>>

UpM1 ==
  /\ pc = "up"
  /\ IF i <= n /\ list[i] < key THEN i' = i + 1 /\ UNCHANGED pc ELSE UNCHANGED i /\ pc' = "down"
  /\ UNCHANGED <<input, list, stack, m, n, key, j>>
Up ==
  /\ pc = "up"
  /\ IF i <= n /\ list[i] <= key THEN i' = i + 1 /\ UNCHANGED pc ELSE UNCHANGED i /\ pc' = "down"
  /\ UNCHANGED <<input, list, stack, m, n, key, j>>

DownM1 ==
  /\ pc = "down"
  /\ IF j >= m /\ list[j] >= key THEN j' = j - 1 /\ UNCHANGED pc ELSE UNCHANGED j /\ pc' = "swap"
  /\ UNCHANGED <<input, list, stack, m, n, key, i>>
Down ==
  /\ pc = "down"
  /\ IF j >= m /\ list[j] > key THEN j' = j - 1 /\ UNCHANGED pc ELSE UNCHANGED j /\ pc' = "swap"
  /\ UNCHANGED <<input, list, stack, m, n, key, i>>

SwapM1 ==
  /\ pc = "swap" /\ pc' = "loop"
  /\ list' = IF i <= j + 1 /\ i \in Indices THEN swap(list, i, j) ELSE list
  /\ UNCHANGED <<input, stack, m, n, key, i, j>>
Swap ==
  /\ pc = "swap" /\ pc' = "loop"
  /\ list' = IF i < j THEN swap(list, i, j) ELSE list
  /\ UNCHANGED <<input, stack, m, n, key, i, j>>

\* The outer loop's head; behind it the pivot goes to its place, and the parts
\* before and after it are sorted.
Loop ==
  /\ pc = "loop"
  /\ \/ i <= j /\ pc' = "up" /\ UNCHANGED <<list, stack>>
     \/ /\ i > j /\ pc' = "call" /\ list' = swap(list, m, j)
        /\ stack' = <<<<m, j - 1>>, <<j + 1, n>>>> \o stack
  /\ UNCHANGED <<input, m, n, key, i, j>>

Next == Call \/ Return \/ Loop \/ Up \/ Down \/ Swap
Spec == Init /\ [][Next]_vars /\ WF_vars(Next)
-------------------------------------------------------------------------------
Count(l, v) == Cardinality({x \in Indices : l[x] = v})

TypeOK ==
  /\ pc \in {"call", "loop", "up", "down", "swap", "done"}
  /\ i \in 0..Size /\ j \in 0..(Size - 1) /\ DOMAIN list = Indices
  /\ Len(stack) <= Size

\* Indices of the calls still to be made, and of the current one.
Segments == UNION {f[1]..f[2] : f \in ToSet(stack)}
Current  == IF pc \in {"call", "done"} THEN {} ELSE m..n

\* What a call has put in its place stays there: everything outside the calls
\* still to be made, and outside the current one, is where a sorted array has it.
PlacedForGood ==
  \A x \in Indices \ (Segments \cup Current) :
    /\ Cardinality({y \in Indices : input[y] < list[x]}) <= x
    /\ x < Cardinality({y \in Indices : input[y] <= list[x]})

\* Between the two scans: nothing above the key before i, nothing up to it
\* behind j.
PartsSplit ==
  pc \in {"up", "down", "swap"} =>
    /\ \A x \in m..(i - 1) : list[x] <= key
    /\ \A x \in (j + 1)..n : list[x] > key

\* Both parts of a call are what it is to leave them as.
PartsKeepTheirSides == PlacedForGood /\ PartsSplit

\* The result is a sorted permutation of the input.
Sorted ==
  pc = "done" => /\ \A x, y \in Indices : x < y => list[x] <= list[y]
                 /\ \A v \in Values : Count(list, v) = Count(input, v)

\* Every input is sorted in the end, those with equal elements included.
Ends == <>(pc = "done")
==============================================================================
