----------------------------- MODULE MaxOneBlock -----------------------------
(***************************************************************************)
(* maxOneBlock of Viterbi.cl: the work-items of a group find the greatest  *)
(* of their values and where it came from.  As long as the distance s is   *)
(* above a warp they meet at a barrier after every round; the last rounds  *)
(* are unrolled without one, for the first Warp work-items.  LockStep says *)
(* that these execute instruction by instruction together.                 *)
(*                                                                         *)
(* A round is three steps of a work-item: it loads the two values, it      *)
(* stores the greater, it copies the index.                                *)
(***************************************************************************)
EXTENDS Naturals, FiniteSetsExt

CONSTANTS
  LocalSize,
  Warp,       \* 32 in the code
  Given,      \* contents of maxValue the group may start from
  LockStep

Locals == 0..(LocalSize - 1)
BlockAssumption ==
  /\ \E w, n \in 1..LocalSize : Warp = 2 ^ w /\ LocalSize = Warp * 2 ^ n
  /\ Given \subseteq [Locals -> Nat] /\ LockStep \in BOOLEAN

VARIABLES
  given,     \* maxValue as the group found it
  maxValue, maxInd,
  s,         \* of each work-item: the round it is in; 0 when it is done
  pc,        \* of each work-item: "load", "value", "index", "barrier"
  m3, idx    \* what it has loaded and chosen

vars == <<given, maxValue, maxInd, s, pc, m3, idx>>

Init ==
  /\ given \in Given /\ maxValue = given /\ maxInd = [i \in Locals |-> i]
  /\ s = [i \in Locals |-> LocalSize \div 2] /\ m3 = given /\ idx = maxInd
  /\ pc = [i \in Locals |-> IF LocalSize \div 2 > Warp /\ i >= LocalSize \div 2
                            THEN "barrier" ELSE "load"]

Unrolled(i)  == s[i] <= Warp
InWarp       == 0..(Warp - 1)
Active       == {i \in Locals : s[i] > 0 /\ pc[i] # "barrier" /\ (Unrolled(i) => i \in InWarp)}
-------------------------------------------------------------------------------
(* One step of the work-items W together.                                  *)

\* Ties go down in the loop and up in the unrolled rounds.
Keeps(i) == LET m1 == maxValue[i] m2 == maxValue[i + s[i]] IN
            IF Unrolled(i) THEN m1 > m2 ELSE m1 >= m2

Load(W) ==
  /\ \A i \in W : pc[i] = "load"
  /\ idx' = [i \in Locals |-> IF i \in W /\ ~Keeps(i) THEN i + s[i]
                              ELSE IF i \in W THEN i ELSE idx[i]]
  /\ m3' = [i \in Locals |-> IF i \in W THEN maxValue[idx'[i]] ELSE m3[i]]
  /\ pc' = [i \in Locals |-> IF i \in W THEN "value" ELSE pc[i]]
  /\ UNCHANGED <<given, maxValue, maxInd, s>>

StoreValue(W) ==
  /\ \A i \in W : pc[i] = "value"
  /\ maxValue' = [i \in Locals |-> IF i \in W THEN m3[i] ELSE maxValue[i]]
  /\ pc' = [i \in Locals |-> IF i \in W THEN "index" ELSE pc[i]]
  /\ UNCHANGED <<given, maxInd, s, m3, idx>>

StoreIndex(W) ==
  /\ \A i \in W : pc[i] = "index"
  /\ maxInd' = [i \in Locals |-> IF i \in W THEN maxInd[idx[i]] ELSE maxInd[i]]
  /\ pc' = [i \in Locals |-> IF i \notin W THEN pc[i]
                             ELSE IF Unrolled(i) THEN "load" ELSE "barrier"]
  /\ s' = [i \in Locals |-> IF i \in W /\ Unrolled(i) THEN s[i] \div 2 ELSE s[i]]
  /\ UNCHANGED <<given, maxValue, m3, idx>>

Step(W) == Load(W) \/ StoreValue(W) \/ StoreIndex(W)

\* barrier(CLK_LOCAL_MEM_FENCE) of the loop, and its next round.
Barrier ==
  /\ \A i \in Locals : pc[i] = "barrier"
  /\ s' = [i \in Locals |-> s[i] \div 2]
  /\ pc' = [i \in Locals |-> IF s'[i] > Warp /\ i >= s'[i] THEN "barrier" ELSE "load"]
  /\ UNCHANGED <<given, maxValue, maxInd, m3, idx>>

Alone == {i \in Active : ~(LockStep /\ Unrolled(i))}
Next ==
  \/ \E i \in Alone : Step({i})
  \/ Active # {} /\ Alone = {} /\ Step(Active)
  \/ Barrier

Spec == Init /\ [][Next]_vars
-------------------------------------------------------------------------------
(* Properties.                                                             *)

TypeOK ==
  /\ maxValue \in [Locals -> Nat] /\ maxInd \in [Locals -> Locals]
  /\ s \in [Locals -> 0..(LocalSize \div 2)] /\ idx \in [Locals -> Locals]
  /\ pc \in [Locals -> {"load", "value", "index", "barrier"}]

GreatestOf(S) == Max({given[i] : i \in S})

\* The barriers of the loop are enough: when the unrolled part begins, each
\* of the first 2 * Warp cells has the greatest value of its residue class and
\* an index it is found at, however the work-items ran before.
LoopPartRight ==
  (\A i \in Locals : s[i] = Warp /\ pc[i] = "load") =>
    \A i \in 0..(2 * Warp - 1) :
      /\ maxValue[i] = GreatestOf({j \in Locals : j % (2 * Warp) = i})
      /\ given[maxInd[i]] = maxValue[i] /\ maxInd[i] % (2 * Warp) = i

\* "On return, the max value is in maxValue[0], the index of max element is in
\* maxInd[0]" (Viterbi.cl 13): as they stand when work-item 0 returns.
BlockMaximum ==
  s[0] = 0 => maxValue[0] = GreatestOf(Locals) /\ given[maxInd[0]] = maxValue[0]

\* Without lock-step it may have less, and another value's index; but never a
\* value below its own, or one the group did not have.
SomeValueOfTheGroup ==
  s[0] = 0 => /\ maxValue[0] \in {given[i] : i \in Locals}
              /\ maxValue[0] >= GreatestOf({j \in Locals : j % Warp = 0})
==============================================================================
