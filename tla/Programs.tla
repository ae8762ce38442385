------------------------------ MODULE Programs ------------------------------
(***************************************************************************)
(* Applications with their kernels, each with variables of its own:        *)
(* Quicksort, which this module extends, the matrix product, the N-body    *)
(* simulation, the Sobel filter and the Viterbi decoder.  A behaviour is   *)
(* one of the program `which`; the variables of the others are "off", and  *)
(* Quicksort is done.                                                      *)
(***************************************************************************)
EXTENDS Quicksort

CONSTANTS
  BLOCK_SIZE, WA, HA, WB,                       \* of MatrixMul
  numBodies, localSize, MaxIterations,          \* of NBody
  LX, LY, Images,                               \* of SobelFilter
  nState, nObs, nEmit, Models, JUNK, MaxQueue   \* of Viterbi

VARIABLES
  which,
  As, Bs, tile, mulPc, k, Csub, C,
  host, iterations, launch, exchange, args, mem, localPos, bodyPc, bodyTile, body,
  acc, result,
  width, height, group, uc4LocalData, sobelPc, uiDest,
  model, old, new, path, vProb, vPath, obs, steps, decoded

product == <<As, Bs, tile, mulPc, k, Csub, C>>
bodies  == <<host, iterations, launch, exchange, args, mem, localPos, bodyPc, bodyTile,
             body, acc, result>>
sobel   == <<width, height, group, uc4LocalData, sobelPc, uiDest>>
viterbi == <<model, old, new, path, vProb, vPath, obs, steps, decoded>>

Mul   == INSTANCE MatrixMul WITH pc <- mulPc
Nbody == INSTANCE NBody WITH i <- launch, pc <- bodyPc, tile <- bodyTile, j <- body
Sobel == INSTANCE SobelFilter WITH pc <- sobelPc
Hmm   == INSTANCE Viterbi WITH i <- obs, queue <- steps, output <- decoded

ASSUME ProgramsAssumption ==
  /\ Mul!MatrixAssumption /\ Nbody!BodiesAssumption /\ Sobel!SobelAssumption
  /\ Hmm!ViterbiAssumption
-------------------------------------------------------------------------------
QuicksortIdle ==
  /\ input = [x \in Indices |-> 1] /\ list = input /\ stack = <<>> /\ pc = "done"
  /\ m = 0 /\ n = 0 /\ key = 1 /\ i = 0 /\ j = 0
ProductIdle ==
  /\ As = "off" /\ Bs = "off" /\ tile = "off" /\ mulPc = "off" /\ k = "off"
  /\ Csub = "off" /\ C = "off"
BodiesIdle ==
  /\ host = "off" /\ iterations = "off" /\ launch = "off" /\ exchange = "off"
  /\ args = "off" /\ mem = "off" /\ localPos = "off" /\ bodyPc = "off"
  /\ bodyTile = "off" /\ body = "off" /\ acc = "off" /\ result = "off"
SobelIdle ==
  /\ width = "off" /\ height = "off" /\ group = "off" /\ uc4LocalData = "off"
  /\ sobelPc = "off" /\ uiDest = "off"
ViterbiIdle ==
  /\ model = "off" /\ old = "off" /\ new = "off" /\ path = "off" /\ vProb = "off"
  /\ vPath = "off" /\ obs = "off" /\ steps = "off" /\ decoded = "off"

ProgramsInit ==
  /\ which \in {"quicksort", "mul", "nbody", "sobel", "viterbi"}
  /\ IF which = "quicksort" THEN Init ELSE QuicksortIdle
  /\ IF which = "mul" THEN Mul!Init ELSE ProductIdle
  /\ IF which = "nbody" THEN Nbody!Init ELSE BodiesIdle
  /\ IF which = "sobel" THEN Sobel!Init ELSE SobelIdle
  /\ IF which = "viterbi" THEN Hmm!Init ELSE ViterbiIdle

QuicksortStep ==
  which = "quicksort" /\ Next /\ UNCHANGED <<which, product, bodies, sobel, viterbi>>
ProductStep ==
  which = "mul" /\ Mul!Next /\ UNCHANGED <<which, vars, bodies, sobel, viterbi>>
BodiesStep ==
  which = "nbody" /\ Nbody!Next /\ UNCHANGED <<which, vars, product, sobel, viterbi>>
SobelStep ==
  which = "sobel" /\ Sobel!Next /\ UNCHANGED <<which, vars, product, bodies, viterbi>>
ViterbiStep ==
  which = "viterbi" /\ Hmm!Next /\ UNCHANGED <<which, vars, product, bodies, sobel>>

\* Where another program runs.
ProgramsIdle == QuicksortIdle /\ ProductIdle /\ BodiesIdle /\ SobelIdle /\ ViterbiIdle

ProgramsNext == QuicksortStep \/ ProductStep \/ BodiesStep \/ SobelStep \/ ViterbiStep
programs == <<which, vars, product, bodies, sobel, viterbi>>
ProgramsSpec == ProgramsInit /\ [][ProgramsNext]_programs
-------------------------------------------------------------------------------
\* Work-items that share local memory take nothing that is not yet there, or no
\* longer, in any order, and no index leaves its array: the barriers keep the
\* tiles of the product and of the bodies apart, and the rim of a Sobel group
\* is complete.
MemoryIsShared ==
  /\ TypeOK
  /\ which = "mul"   => Mul!TypeOK /\ Mul!SumsFollowReference
  /\ which = "nbody" => Nbody!TypeOK /\ Nbody!AddsOneStep
  /\ which = "sobel" => Sobel!TypeOK /\ Sobel!EachCellHasOneItem /\ Sobel!NothingReadTooEarly

\* Launches that are queued, some while the host sets the next arguments, find
\* what the launch before left: positions of the bodies, columns of the
\* Viterbi trellis.
LaunchesFollow ==
  /\ which = "nbody"   => Nbody!LaunchReadsLastStep
  /\ which = "viterbi" => Hmm!TypeOK /\ Hmm!StepsFollowEachOther

\* What the host reads back is what it should compute, and what the sequential
\* version on the phone does: the list is sorted, the product is the reference's
\* term by term, the path is a most probable one, an image whose rows are whole
\* groups is the phone's but for the left rims of the Sobel filter.  Of an even
\* number of launches of the bodies the last one's positions are not read.
ResultsAreRight ==
  /\ Sorted
  /\ which = "mul"     => Mul!MatchesReference
  /\ which = "nbody"   => Nbody!EvenLosesLastStep
  /\ which = "viterbi" => Hmm!PathIsMostProbable /\ Hmm!MatchesReference
  /\ which = "sobel"   => Sobel!AgreesButLeftRim /\ Sobel!StaysInTheImage
==============================================================================
