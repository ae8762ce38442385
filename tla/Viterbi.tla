------------------------------- MODULE Viterbi -------------------------------
(***************************************************************************)
(* hmm.c, the kernels ViterbiOneStep and ViterbiPath, and the sequential   *)
(* reference ViterbiCPU.  The host queues a launch and a copy for every    *)
(* observation, then the launch that traces the path back, and waits once. *)
(*                                                                         *)
(* A group of ViterbiOneStep takes one state's greatest sum and some state *)
(* it comes from, as MaxOneBlock has it with lock-step; groups read one    *)
(* column and write their own cells of another, so a launch is one step.   *)
(***************************************************************************)
EXTENDS Naturals, Sequences, FiniteSetsExt

CONSTANTS
  nState, nObs,
  nEmit,      \* observations are taken in turn, i % nEmit
  Models,     \* [init, trans, emit]: what initHMM may produce
  JUNK,       \* what nobody wrote
  MaxQueue    \* bound: commands in the driver's queue

States == 0..(nState - 1)
Times  == 0..(nObs - 1)

\* Weights are above zero: for a column of zeros the code has no state.
ViterbiAssumption ==
  /\ nState \in Nat \ {0} /\ nObs \in Nat \ {0, 1} /\ nEmit \in Nat \ {0}
  /\ JUNK \notin Nat /\ MaxQueue \in Nat \ {0}
  /\ \A m \in Models : /\ m.init \in [States -> Nat \ {0}]
                       /\ m.trans \in [States \X States -> Nat]
                       /\ m.emit \in [(0..(nEmit - 1)) \X States -> Nat]

VARIABLES
  model,
  old, new,  \* maxProbOld, maxProbNew
  path,      \* path[t] of each state: the one before it
  vProb, vPath,
  i,         \* the host's loop; nObs when it has ended, nObs + 1 after
  queue, output

vars == <<model, old, new, path, vProb, vPath, i, queue, output>>

obs(t) == t % nEmit

Init ==
  /\ model \in Models /\ old = model.init /\ new = [s \in States |-> JUNK]
  /\ path = [t \in 0..(nObs - 2) |-> [s \in States |-> JUNK]]
  /\ vProb = JUNK /\ vPath = [t \in Times |-> JUNK]
  /\ i = 1 /\ queue = <<>> /\ output = <<>>
-------------------------------------------------------------------------------
(* The host.                                                               *)

Commands == <<[op |-> "step", t |-> i, obs |-> obs(i)], [op |-> "copy"]>>

EnqueueStepM1 ==
  /\ i < nObs /\ Len(queue) + 2 <= MaxQueue
  /\ queue' = queue \o <<Commands[2], Commands[1]>> /\ i' = i + 1
  /\ UNCHANGED <<model, old, new, path, vProb, vPath, output>>
\* The arguments and the launch of one observation, and the copy.
EnqueueStep ==
  /\ i < nObs /\ Len(queue) + 2 <= MaxQueue
  /\ queue' = queue \o Commands /\ i' = i + 1
  /\ UNCHANGED <<model, old, new, path, vProb, vPath, output>>

EnqueuePath ==
  /\ i = nObs /\ Len(queue) < MaxQueue
  /\ queue' = Append(queue, [op |-> "path"]) /\ i' = i + 1
  /\ UNCHANGED <<model, old, new, path, vProb, vPath, output>>

\* clFinish, and a blocking read of v_path.
ReadBack ==
  /\ i > nObs /\ queue = <<>> /\ output = <<>>
  /\ output' = vPath
  /\ UNCHANGED <<model, old, new, path, vProb, vPath, i, queue>>
-------------------------------------------------------------------------------
(* The kernels, carried out in order by the driver.                        *)

Sum(s, before) == old[before] + model.trans[<<s, before>>]
Best(s) == {b \in States : \A c \in States : Sum(s, b) >= Sum(s, c)}

\* path[(iObs-1)*nState + iState]
PathCell(t) == t - 1

ViterbiOneStep(q) ==
  \E from \in [States -> States] :
    /\ \A s \in States : from[s] \in Best(s)
    /\ new' = [s \in States |-> Sum(s, from[s]) + model.emit[<<q.obs, s>>]]
    /\ path' = [path EXCEPT ![PathCell(q.t)] = from]
    /\ UNCHANGED <<old, vProb, vPath>>

CopyBuffer == old' = new /\ UNCHANGED <<new, path, vProb, vPath>>

\* The first state of greatest weight, and back from it.
ViterbiPath ==
  LET last == Min({s \in States : \A r \in States : new[s] >= new[r]})
      back[t \in Times] == IF t = nObs - 1 THEN last ELSE path[t][back[t + 1]]
  IN  /\ vProb' = new[last] /\ vPath' = [t \in Times |-> back[t]]
      /\ UNCHANGED <<old, new, path>>

Execute ==
  /\ queue # <<>>
  /\ LET q == Head(queue) IN
       \/ q.op = "step" /\ ViterbiOneStep(q)
       \/ q.op = "copy" /\ CopyBuffer
       \/ q.op = "path" /\ ViterbiPath
  /\ queue' = Tail(queue)
  /\ UNCHANGED <<model, i, output>>

Next == EnqueueStep \/ EnqueuePath \/ Execute \/ ReadBack
Spec == Init /\ [][Next]_vars
-------------------------------------------------------------------------------
(* ViterbiCPU of android/hmm/jni/hmm_cpu.c, and what it is to compute.     *)

FirstBest(f) == Min({b \in States : \A c \in States : f[b] >= f[c]})

\* maxProbOld before observation t + 1, and path[t].
Column(m) ==
  LET col[t \in Times] ==
        IF t = 0 THEN [prob |-> m.init, from |-> <<>>]
        ELSE LET sum == [s \in States |-> [b \in States |-> col[t - 1].prob[b] + m.trans[<<s, b>>]]]
             IN  [prob |-> [s \in States |-> sum[s][FirstBest(sum[s])] + m.emit[<<obs(t), s>>]],
                  from |-> [s \in States |-> FirstBest(sum[s])]]
  IN col

ViterbiCPU(m) ==
  LET col == Column(m)
      back[t \in Times] == IF t = nObs - 1 THEN FirstBest(col[t].prob)
                           ELSE col[t + 1].from[back[t + 1]]
  IN  [t \in Times |-> back[t]]

Weight(m, p) ==
  LET upTo[t \in Times] == IF t = 0 THEN m.init[p[0]]
        ELSE upTo[t - 1] + m.trans[<<p[t], p[t - 1]>>] + m.emit[<<obs(t), p[t]>>]
  IN  upTo[nObs - 1]
-------------------------------------------------------------------------------
(* Properties.                                                             *)

TypeOK ==
  /\ old \in [States -> Nat] /\ new \in [States -> Nat \cup {JUNK}]
  /\ path \in [0..(nObs - 2) -> [States -> States \cup {JUNK}]]
  /\ vPath \in [Times -> States \cup {JUNK}] /\ vProb \in Nat \cup {JUNK}
  /\ Len(queue) <= MaxQueue /\ i \in 1..(nObs + 1)

\* However far the host is ahead, a launch finds the column of the observation
\* before its own, and the path of those before it complete.
StepsFollowEachOther ==
  queue # <<>> /\ Head(queue).op = "step" =>
    /\ old = Column(model)[Head(queue).t - 1].prob
    /\ \A t \in 0..(Head(queue).t - 2), s \in States : path[t][s] # JUNK

\* The path read back is one of greatest weight among all paths, and vProb
\* its weight (hmm.c; "backtrace to find the Viterbi path", Viterbi.cl 153).
PathIsMostProbable ==
  output # <<>> => /\ Weight(model, output) = vProb
                   /\ \A p \in [Times -> States] : Weight(model, p) <= vProb

\* The reference's path has the same weight: the two part only in ties, which
\* the reference breaks downward and maxOneBlock either way.
MatchesReference ==
  output # <<>> =>
    /\ Weight(model, output) = Weight(model, ViterbiCPU(model))
    /\ vProb = Max({Column(model)[nObs - 1].prob[s] : s \in States})
==============================================================================
