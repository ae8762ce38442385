----------------------------- MODULE MCPrograms -----------------------------
(***************************************************************************)
(* The programs of Programs on one instance each, and the applications     *)
(* whose results rest on powers of two, on recursive definitions or on     *)
(* text: the bitonic sort, the reduction of the Viterbi kernel, the DCT    *)
(* and loadPPM.  A behaviour is one of the program `which`.                *)
(***************************************************************************)
EXTENDS Programs, TLC

VARIABLES
  unsorted, dir, array, stage, passOfStage, passes, ran, sorted,
  given, maxValue, maxInd, stride, blockPc, m3, idx,
  imageW, imageH, dctGroup, l_Transpose, dctPc, row, D, d_Dst, early,
  file, rest, pixels, header, ppmPc, chars, ppmWidth, ppmHeight, w, h, size, loaded,
  status, overread

bitonic == <<unsorted, dir, array, stage, passOfStage, passes, ran, sorted>>
maximum == <<given, maxValue, maxInd, stride, blockPc, m3, idx>>
dct     == <<imageW, imageH, dctGroup, l_Transpose, dctPc, row, D, d_Dst, early>>
ppm     == <<file, rest, pixels, header, ppmPc, chars, ppmWidth, ppmHeight, w, h, size,
             loaded, status, overread>>
others == <<bitonic, maximum, dct, ppm>>
-------------------------------------------------------------------------------
(* Inputs of zeros and ones: a network of comparisons that sorts them all  *)
(* sorts everything.  Eight elements, all inputs; sixteen, where several   *)
(* passes exchange whole int4 elements, with up to two ones or zeros, or   *)
(* one run of ones.                                                        *)

ZeroOne == [0..7 -> {0, 1}]
FewOf(v) == {[e \in 0..15 |-> IF e \in {x, y} THEN v ELSE 1 - v] : x, y \in 0..15}
Sparse == FewOf(0) \cup FewOf(1)
          \cup {[e \in 0..15 |-> IF e \in x..y THEN 1 ELSE 0] : x, y \in 0..15}

Bitonic8 == INSTANCE Bitonic WITH
  input <- unsorted, queue <- passes, output <- sorted,
  Quads <- 2, LocalSize <- 1, Inputs <- ZeroOne, MaxQueue <- 3
Bitonic16 == INSTANCE Bitonic WITH
  input <- unsorted, queue <- passes, output <- sorted,
  Quads <- 4, LocalSize <- 2, Inputs <- Sparse, MaxQueue <- 2

\* A warp of two in a group of eight; one greatest value, or two, anywhere.
OneOrTwo == {[x \in 0..7 |-> IF x \in {y, z} THEN 2 ELSE 1] : y, z \in 0..7}

MaxLockStep == INSTANCE MaxOneBlock WITH
  s <- stride, pc <- blockPc,
  LocalSize <- 8, Warp <- 2, Given <- OneOrTwo, LockStep <- TRUE
MaxFree == INSTANCE MaxOneBlock WITH
  s <- stride, pc <- blockPc,
  LocalSize <- 8, Warp <- 2, Given <- OneOrTwo, LockStep <- FALSE

\* Two states and four observations of two kinds, which the last ones repeat;
\* transitions of two weights, with and without ties.
Emits == {[x \in (0..1) \X (0..1) |-> IF x[1] = x[2] THEN v ELSE 0] : v \in 0..1}
Starts == {[x \in 0..1 |-> 1], [x \in 0..1 |-> 2 - x]}
MCModels == [init : Starts, trans : [(0..1) \X (0..1) -> 0..1], emit : Emits]
MCJunk == -1

\* Groups of 3 by 3: three groups across and two down, with a last row of
\* groups that hangs over; a width that is no multiple of the group's.
MCImages == {<<9, 4>>, <<7, 3>>}

\* Blocks of 2 by 2, one in a group or, in lock-step, four, on images that cut
\* blocks and groups off.
DctFree == INSTANCE Dct WITH
  group <- dctGroup, pc <- dctPc, n <- row,
  N <- 2, BLOCK_X <- 2, BLOCK_Y <- 2, Images <- {<<3, 2>>}, LockStep <- FALSE
DctLockStep == INSTANCE Dct WITH
  group <- dctGroup, pc <- dctPc, n <- row,
  N <- 2, BLOCK_X <- 4, BLOCK_Y <- 4, Images <- {<<4, 2>>, <<5, 4>>, <<6, 3>>},
  LockStep <- TRUE

\* Images of one or two pixels a side, every layout of the header.
Loader == INSTANCE Ppm WITH
  pc <- ppmPc, i <- chars, width <- ppmWidth, height <- ppmHeight, result <- status,
  Sides <- {1, 2}, MaxVal <- 5

ASSUME PartsAssumption ==
  /\ Bitonic8!BitonicAssumption /\ Bitonic16!BitonicAssumption
  /\ MaxLockStep!BlockAssumption /\ MaxFree!BlockAssumption
  /\ DctFree!DctAssumption /\ DctLockStep!DctAssumption /\ Loader!PpmAssumption
-------------------------------------------------------------------------------
BitonicIdle ==
  /\ unsorted = "off" /\ dir = "off" /\ array = "off" /\ stage = "off"
  /\ passOfStage = "off" /\ passes = "off" /\ ran = "off" /\ sorted = "off"
MaximumIdle ==
  /\ given = "off" /\ maxValue = "off" /\ maxInd = "off" /\ stride = "off"
  /\ blockPc = "off" /\ m3 = "off" /\ idx = "off"
DctIdle ==
  /\ imageW = "off" /\ imageH = "off" /\ dctGroup = "off" /\ l_Transpose = "off"
  /\ dctPc = "off" /\ row = "off" /\ D = "off" /\ d_Dst = "off" /\ early = "off"
PpmIdle ==
  /\ file = "off" /\ rest = "off" /\ pixels = "off" /\ header = "off" /\ ppmPc = "off"
  /\ chars = "off" /\ ppmWidth = "off" /\ ppmHeight = "off" /\ w = "off" /\ h = "off"
  /\ size = "off" /\ loaded = "off" /\ status = "off" /\ overread = "off"

AllInit ==
  /\ \/ ProgramsInit
     \/ /\ which \in {"bitonic8", "bitonic16", "maxLockStep", "maxFree",
                      "dctFree", "dctLockStep", "ppm"}
        /\ ProgramsIdle
  /\ CASE which = "bitonic8" -> Bitonic8!Init [] which = "bitonic16" -> Bitonic16!Init
       [] OTHER -> BitonicIdle
  /\ CASE which = "maxLockStep" -> MaxLockStep!Init [] which = "maxFree" -> MaxFree!Init
       [] OTHER -> MaximumIdle
  /\ CASE which = "dctFree" -> DctFree!Init [] which = "dctLockStep" -> DctLockStep!Init
       [] OTHER -> DctIdle
  /\ IF which = "ppm" THEN Loader!Init ELSE PpmIdle

BitonicStep ==
  /\ (which = "bitonic8" /\ Bitonic8!Next) \/ (which = "bitonic16" /\ Bitonic16!Next)
  /\ UNCHANGED <<programs, maximum, dct, ppm>>
MaximumStep ==
  /\ (which = "maxLockStep" /\ MaxLockStep!Next) \/ (which = "maxFree" /\ MaxFree!Next)
  /\ UNCHANGED <<programs, bitonic, dct, ppm>>
DctStep ==
  /\ (which = "dctFree" /\ DctFree!Next) \/ (which = "dctLockStep" /\ DctLockStep!Next)
  /\ UNCHANGED <<programs, bitonic, maximum, ppm>>
PpmStep == which = "ppm" /\ Loader!Next /\ UNCHANGED <<programs, bitonic, maximum, dct>>

AllNext ==
  \/ ProgramsNext /\ UNCHANGED others
  \/ BitonicStep \/ MaximumStep \/ DctStep \/ PpmStep

\* The sequential programs run.
AllSpec ==
  /\ AllInit /\ [][AllNext]_<<programs, others>>
  /\ WF_vars(QuicksortStep /\ UNCHANGED others) /\ WF_ppm(PpmStep)
-------------------------------------------------------------------------------
\* The quicksort ends on every input, and loadPPM on every whole header.
LoopsEnd ==
  /\ which = "quicksort" => Ends
  /\ which = "ppm" => Loader!EndsOnWholeHeader

\* The other applications: a sort or a reduction or a DCT that ran as it should
\* gives what the sequential version does, an accepted image is the one in the
\* file but for the gray ones, and the bodies' reference agrees on their first
\* launch.  On the way no index leaves its array, int4 elements are one
\* work-item's, the stages of a sort follow each other, and a DCT block is right
\* unless it was read early.
OthersAreRight ==
  CASE which = "bitonic8" -> /\ Bitonic8!TypeOK /\ Bitonic8!ItemsDisjoint
                             /\ Bitonic8!BlocksAlternate
                             /\ Bitonic8!Sorted /\ Bitonic8!MatchesReference
    [] which = "bitonic16" -> /\ Bitonic16!TypeOK /\ Bitonic16!ItemsDisjoint
                              /\ Bitonic16!BlocksAlternate
                              /\ Bitonic16!Sorted /\ Bitonic16!MatchesReference
    [] which = "maxLockStep" -> /\ MaxLockStep!TypeOK /\ MaxLockStep!LoopPartRight
                                /\ MaxLockStep!BlockMaximum
    [] which = "maxFree" -> /\ MaxFree!TypeOK /\ MaxFree!LoopPartRight
                            /\ MaxFree!SomeValueOfTheGroup
    [] which = "nbody" -> Nbody!ReferenceAgreesOnFirst
    [] which = "dctFree" -> /\ DctFree!TypeOK /\ DctFree!RightUnlessEarly
                            /\ DctFree!WholeBlocksOnly
    [] which = "dctLockStep" -> /\ DctLockStep!TypeOK /\ DctLockStep!WholeBlocksOnly
                                /\ DctLockStep!MatchesCPU
    [] which = "ppm" -> /\ Loader!TypeOK /\ Loader!AcceptedIsRight /\ Loader!SavedLoads
                        /\ Loader!OverreadIsGray
    [] OTHER -> TRUE
==============================================================================
