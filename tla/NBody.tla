-------------------------------- MODULE NBody --------------------------------
(***************************************************************************)
(* nbody.c and nbody_sim of NBody.cl.  A launch computes every body's new  *)
(* position and velocity from all positions, which each group reads tile   *)
(* by tile through local memory; the host then exchanges the buffers, and  *)
(* reads the result after the last launch.                                 *)
(*                                                                         *)
(* A position or velocity is the number of steps it has made and what its  *)
(* last step was computed from: the velocity and the positions added up in *)
(* acc, each with its own number of steps.                                 *)
(***************************************************************************)
EXTENDS Integers, FiniteSets, SequencesExt

CONSTANTS
  numBodies, localSize,
  MaxIterations   \* bound: 100 in the code

BodiesAssumption ==
  /\ localSize \in Nat \ {0} /\ \E n \in 1..numBodies : numBodies = n * localSize
  /\ MaxIterations \in Nat \ {0}

Bodies == 0..(numBodies - 1)
Locals == 0..(localSize - 1)
Groups == 0..((numBodies \div localSize) - 1)
gid(i) == i[1] * localSize + i[2]
Items  == Groups \X Locals

VARIABLES
  host,        \* "launch", "finish", "exchange", "read", "done"
  iterations, i, exchange,
  args,        \* the kernel's arguments 0, 1, 6 and 7
  mem,         \* contents of the four buffers
  localPos,    \* of each group
  pc, tile, j, acc,   \* of each work-item
  result       \* ref_pos and ref_vel

vars == <<host, iterations, i, exchange, args, mem, localPos, pc, tile, j, acc, result>>
hosts == <<host, iterations, i, exchange, args, result>>
items == <<localPos, pc, tile, j, acc>>

Unset == [step |-> -1, vel |-> -1, acc |-> {}]
Start == [step |-> 0, vel |-> 0, acc |-> {}]
All(value) == [b \in Bodies |-> value]

Init ==
  /\ host = "launch" /\ iterations \in 1..MaxIterations /\ i = 0 /\ exchange = TRUE
  /\ args = [pos |-> "d_in_pos", vel |-> "d_in_vel",
             newPosition |-> "d_out_pos", newVelocity |-> "d_out_vel"]
  /\ mem = [d_in_pos |-> All(Start), d_in_vel |-> All(Start),
            d_out_pos |-> All(Unset), d_out_vel |-> All(Unset)]
  /\ localPos = [g \in Groups |-> [t \in Locals |-> -1]]
  /\ pc = [w \in Items |-> "idle"] /\ tile = [w \in Items |-> 0] /\ j = tile
  /\ acc = [w \in Items |-> {}] /\ result = [pos |-> All(Unset), vel |-> All(Unset)]
-------------------------------------------------------------------------------
(* A work-item: load, barrier, add up, barrier, for each tile; then store. *)

At(w, from, to) == pc[w] = from /\ pc' = [pc EXCEPT ![w] = to]

Load(w) ==
  /\ At(w, "load", "loaded")
  /\ localPos' = [localPos EXCEPT ![w[1]][w[2]] =
       mem[args.pos][tile[w] * localSize + w[2]].step]
  /\ UNCHANGED <<hosts, mem, tile, j, acc>>

Barrier(g, from, to) ==
  /\ \A t \in Locals : pc[<<g, t>>] = from
  /\ pc' = [w \in Items |-> IF w[1] = g THEN to ELSE pc[w]]

Loaded(g) ==
  /\ Barrier(g, "loaded", "add")
  /\ j' = [w \in Items |-> IF w[1] = g THEN 0 ELSE j[w]]
  /\ UNCHANGED <<hosts, mem, localPos, tile, acc>>

Add(w) ==
  /\ At(w, "add", IF j[w] + 1 = localSize THEN "added" ELSE "add")
  /\ acc' = [acc EXCEPT ![w] = @ \cup {<<tile[w] * localSize + j[w], localPos[w[1]][j[w]]>>}]
  /\ j' = [j EXCEPT ![w] = @ + 1]
  /\ UNCHANGED <<hosts, mem, localPos, tile>>

Added(g) ==
  /\ Barrier(g, "added", IF (tile[<<g, 0>>] + 1) * localSize < numBodies THEN "load" ELSE "store")
  /\ tile' = [w \in Items |-> IF w[1] = g THEN tile[w] + 1 ELSE tile[w]]
  /\ UNCHANGED <<hosts, mem, localPos, j, acc>>

Moved(p, v, a) == [step |-> p.step + 1, vel |-> v.step, acc |-> a]

Store(w) ==
  /\ At(w, "store", "done")
  /\ LET b == gid(w)  oldVel == mem[args.vel][b] IN
     mem' = [mem EXCEPT ![args.newPosition][b] = Moved(mem[args.pos][b], oldVel, acc[w]),
                        ![args.newVelocity][b] = Moved(oldVel, oldVel, acc[w])]
  /\ UNCHANGED <<hosts, localPos, tile, j, acc>>
-------------------------------------------------------------------------------
(* The host.                                                               *)

Launch ==
  /\ host = "launch" /\ host' = "finish"
  /\ pc' = [w \in Items |-> "load"] /\ tile' = [w \in Items |-> 0]
  /\ acc' = [w \in Items |-> {}]
  /\ UNCHANGED <<iterations, i, exchange, args, result, mem, localPos, j>>

clFinish ==
  /\ host = "finish" /\ host' = "exchange" /\ \A w \in Items : pc[w] = "done"
  /\ UNCHANGED <<iterations, i, exchange, args, result, mem, items>>

\* The four clSetKernelArg calls and the loop's head.
Exchange ==
  /\ host = "exchange" /\ i' = i + 1 /\ exchange' = ~exchange
  /\ args' = IF exchange
             THEN [args EXCEPT !.pos = "d_out_pos", !.vel = "d_out_vel",
                               !.newPosition = "d_in_pos", !.newVelocity = "d_in_vel"]
             ELSE [args EXCEPT !.pos = "d_in_pos", !.vel = "d_in_vel",
                               !.newPosition = "d_out_pos", !.newVelocity = "d_out_vel"]
  /\ host' = IF i' < iterations THEN "launch" ELSE "read"
  /\ UNCHANGED <<iterations, result, mem, items>>

ReadBack ==
  /\ host = "read" /\ host' = "done"
  /\ result' = [pos |-> mem["d_out_pos"], vel |-> mem["d_out_vel"]]
  /\ UNCHANGED <<iterations, i, exchange, args, mem, items>>

Next ==
  \/ Launch \/ clFinish \/ Exchange \/ ReadBack
  \/ \E w \in Items : Load(w) \/ Add(w) \/ Store(w)
  \/ \E g \in Groups : Loaded(g) \/ Added(g)
Spec == Init /\ [][Next]_vars
-------------------------------------------------------------------------------
\* nbody_cpu.c: body after body, in place.
nBodyCPU(state) ==
  LET Body(s, b) ==
        LET a == {<<o, s.pos[o].step>> : o \in Bodies} IN
        [s EXCEPT !.pos[b] = Moved(@, s.vel[b], a), !.vel[b] = Moved(@, @, a)]
  IN  FoldLeft(Body, state, [n \in 1..numBodies |-> n - 1])

Reference[n \in 0..MaxIterations] ==
  IF n = 0 THEN [pos |-> All(Start), vel |-> All(Start)] ELSE nBodyCPU(Reference[n - 1])
-------------------------------------------------------------------------------
\* Body b after n steps of the whole system.
After(n) == IF n = 0 THEN Start
            ELSE [step |-> n, vel |-> n - 1, acc |-> Bodies \X {n - 1}]

TypeOK ==
  /\ host \in {"launch", "finish", "exchange", "read", "done"} /\ i \in 0..iterations
  /\ \A w \in Items : /\ pc[w] \in {"idle", "load", "loaded", "add", "added", "store", "done"}
                      /\ tile[w] \in 0..(numBodies \div localSize) /\ j[w] \in 0..localSize
  /\ Cardinality({args[a] : a \in DOMAIN args}) = 4

\* A work-item adds up positions of one step only, the step its own body is at:
\* no other work-item's store reaches it, and no stale tile.
AddsOneStep == \A w \in Items : host = "finish" => acc[w] \subseteq Bodies \X {i}

\* Between two launches the input buffers hold all bodies after i steps, the
\* output buffers what they held a step before.
LaunchReadsLastStep ==
  host = "launch" => /\ mem[args.pos] = All(After(i)) /\ mem[args.vel] = All(After(i))
                     /\ mem[args.newPosition] = All(IF i = 0 THEN Unset ELSE After(i - 1))

\* The host reads d_out_pos and d_out_vel, which the last launch wrote only if
\* the number of launches is odd: of an even number the last step is lost.
EvenLosesLastStep ==
  host = "done" =>
    LET n == IF iterations % 2 = 1 THEN iterations ELSE iterations - 1
    IN  result.pos = All(After(n)) /\ result.vel = All(After(n))

\* The CPU version moves the bodies one by one and computes the later ones from
\* those already moved: of a step, the two agree on the first body only.
ReferenceAgreesOnFirst ==
  host = "done" /\ iterations % 2 = 1 =>
    {b \in Bodies : result.pos[b] = Reference[iterations].pos[b]} = {0}
==============================================================================
