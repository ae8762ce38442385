----------------------------- MODULE SobelFilter -----------------------------
(***************************************************************************)
(* ckSobel of SobelFilter.cl, launched as sobel.c does, against the        *)
(* sequential SobelFilterHost of the phone.  The work-items of a group     *)
(* copy their part of the image and a rim one pixel wide into local        *)
(* memory, meet at a barrier, and take the eight neighbours of their pixel *)
(* from there.  A pixel stands for its index in the source.                *)
(***************************************************************************)
EXTENDS Integers

CONSTANTS
  LX, LY,     \* the group: 16 by 4 in the code
  Images      \* <<width, height>>

SobelAssumption ==
  LX \in Nat /\ LX > 1 /\ LY \in Nat /\ LY > 1 /\ Images \subseteq (Nat \ {0}) \X (Nat \ {0})

Zero  == -1   \* what is read outside the image
Unset == -2

VARIABLES
  width, height,
  group,      \* the group that runs: groups share nothing
  uc4LocalData,
  pc,         \* of each work-item: "load", "barrier", "read", "done"
  uiDest      \* of the pixels written: their neighbours

vars == <<width, height, group, uc4LocalData, pc, uiDest>>

Items  == (0..(LX - 1)) \X (0..(LY - 1))
Pitch  == LX + 2
Cells  == 0..(Pitch * (LY + 2) - 1)
shrRoundUp(n, side) == ((side + n - 1) \div n) * n
GlobalSize0 == shrRoundUp(LX, width)

Init ==
  /\ \E image \in Images : width = image[1] /\ height = image[2]
  /\ group \in (0..(GlobalSize0 \div LX - 1)) \X (0..(shrRoundUp(LY, height) \div LY - 1))
  /\ uc4LocalData = [c \in Cells |-> Unset] /\ pc = [i \in Items |-> "load"] /\ uiDest = <<>>

PosX(i) == group[1] * LX + i[1]
PosY(i) == group[2] * LY + i[2]
YPrime(i) == PosY(i) - 1
-------------------------------------------------------------------------------
(* What a work-item stores in local memory: pairs of a cell and a pixel.   *)

Pixel(inside, index) == IF inside THEN index ELSE Zero
Above(i) == YPrime(i) > -1 /\ YPrime(i) < height
Below(i) == YPrime(i) + LY < height

Main(i) ==
  {<<i[2] * Pitch + i[1] + 1, Pixel(Above(i) /\ PosX(i) < width, YPrime(i) * GlobalSize0 + PosX(i))>>}
NextBlock(i) == IF i[2] >= 2 THEN {} ELSE
  {<<(i[2] + LY) * Pitch + i[1] + 1,
     Pixel(Below(i) /\ PosX(i) < width, (YPrime(i) + LY) * GlobalSize0 + PosX(i))>>}

\* The work-items at the right edge read the rim on the left.
Left(i) == IF i[1] # LX - 1 THEN {} ELSE
  {<<i[2] * Pitch, Pixel(Above(i) /\ group[1] > 0, YPrime(i) * GlobalSize0 + group[1] * (LX - 1))>>}
LeftNext(i) == IF i[1] # LX - 1 \/ i[2] >= 2 THEN {} ELSE
  {<<(i[2] + LY) * Pitch, Pixel(Below(i) /\ group[1] > 0,
     (YPrime(i) + LY) * GlobalSize0 + group[1] * LX - 1)>>}

\* Those at the left edge read the rim on the right.
Right(i) == IF i[1] # 0 THEN {} ELSE
  {<<(i[2] + 1) * Pitch - 1, Pixel(Above(i) /\ (group[1] + 1) * LX < width,
     YPrime(i) * GlobalSize0 + (group[1] + 1) * LX)>>}
RightNext(i) == IF i[1] # 0 \/ i[2] >= 2 THEN {} ELSE
  {<<(i[2] + LY + 1) * Pitch - 1, Pixel(Below(i) /\ (group[1] + 1) * LX < width,
     (YPrime(i) + LY) * GlobalSize0 + (group[1] + 1) * LX)>>}

Stores(i) == Main(i) \cup NextBlock(i) \cup Left(i) \cup LeftNext(i) \cup Right(i) \cup RightNext(i)
-------------------------------------------------------------------------------
\* What memory holds after the stores.
Stored(memory, stores) ==
  [c \in DOMAIN memory \cup {s[1] : s \in stores} |->
     IF \E s \in stores : s[1] = c THEN (CHOOSE s \in stores : s[1] = c)[2] ELSE memory[c]]

Load(i) ==
  /\ pc[i] = "load" /\ pc' = [pc EXCEPT ![i] = "barrier"]
  /\ uc4LocalData' = Stored(uc4LocalData, Stores(i))
  /\ UNCHANGED <<width, height, group, uiDest>>

Barrier ==
  /\ \A i \in Items : pc[i] = "barrier"
  /\ pc' = [i \in Items |-> "read"]
  /\ UNCHANGED <<width, height, group, uc4LocalData, uiDest>>

\* NW, N, NE, W, E, SW, S, SE; the pixel itself counts for nothing.
Neighbours(i) ==
  LET at == i[2] * Pitch + i[1] IN
  [d \in 1..8 |-> uc4LocalData[at + <<0, 1, 2, Pitch, Pitch + 2, 2 * Pitch, 2 * Pitch + 1, 2 * Pitch + 2>>[d]]]

Read(i) ==
  /\ pc[i] = "read" /\ pc' = [pc EXCEPT ![i] = "done"]
  /\ uiDest' = IF PosY(i) < height /\ PosX(i) < width
               THEN Stored(uiDest, {<<PosY(i) * GlobalSize0 + PosX(i), Neighbours(i)>>}) ELSE uiDest
  /\ UNCHANGED <<width, height, group, uc4LocalData>>

Next == Barrier \/ \E i \in Items : Load(i) \/ Read(i)
Spec == Init /\ [][Next]_vars
-------------------------------------------------------------------------------
(* SobelFilterHost: the same neighbours, read one pixel after another.     *)

Inside(x, y) == x >= 0 /\ x < width /\ y >= 0 /\ y < height
HostRow(x, y) == [dx \in -1..1 |-> Pixel(Inside(x + dx, y), y * width + x + dx)]
SobelFilterHost(x, y) ==
  LET r == [dy \in -1..1 |-> HostRow(x, y + dy)] IN
  <<r[-1][-1], r[-1][0], r[-1][1], r[0][-1], r[0][1], r[1][-1], r[1][0], r[1][1]>>
-------------------------------------------------------------------------------
TypeOK ==
  /\ pc \in [Items -> {"load", "barrier", "read", "done"}]
  /\ uc4LocalData \in [Cells -> Int]
  /\ DOMAIN uiDest \subseteq Nat /\ \A p \in DOMAIN uiDest : uiDest[p] \in [1..8 -> Int]

\* The program gives the kernel the size of the launch, rounded up to whole
\* groups, as the length of a row: right only for such widths.
WholeGroups == width % LX = 0

(* Each cell of local memory is stored by exactly one work-item, so the    *)
(* rim, which some work-items load besides their own pixel, is complete    *)
(* at the barrier and no store races another (SobelFilter.cl:29-134).      *)
EachCellHasOneItem ==
  \A c \in Cells : \E i \in Items : \A j \in Items : (\E s \in Stores(j) : s[1] = c) <=> j = i

(* No work-item past the barrier takes a cell nobody has stored yet, in    *)
(* any order of the loads.                                                 *)
NothingReadTooEarly ==
  \A p \in DOMAIN uiDest : \A d \in 1..8 : uiDest[p][d] # Unset

(* Of an image whose rows are whole groups nothing outside is read or      *)
(* written, at the bottom too, where the last groups hang over.            *)
StaysInTheImage ==
  WholeGroups => /\ \A i \in Items : \A s \in Stores(i) : s[2] \in Zero..(width * height - 1)
                 /\ DOMAIN uiDest \subseteq 0..(width * height - 1)

\* The W and NW of the first column of the third and later groups, whose
\* rows are those of the main read.
Misread(i) == IF i[1] # 0 \/ group[1] < 2 THEN {}
              ELSE {1, 4, 6} \cap {d \in 1..8 : i[2] + <<0, 0, 0, 1, 1, 2, 2, 2>>[d] < LY}

(* Every pixel's neighbours are those of the host, but for what a group    *)
(* from the third on reads to its left in its first LY rows of local       *)
(* memory, where the product takes LX - 1 instead of LX.                   *)
AgreesButLeftRim ==
  WholeGroups => \A i \in Items : pc[i] = "done" /\ Inside(PosX(i), PosY(i)) =>
    \A d \in (1..8) \ Misread(i) :
      uiDest[PosY(i) * width + PosX(i)][d] = SobelFilterHost(PosX(i), PosY(i))[d]

(* What the comments say: the kernel and the host are the same filter,     *)
(* and the left rim is the last column of the block before.                *)
MatchesHost ==
  WholeGroups => \A i \in Items : pc[i] = "done" /\ Inside(PosX(i), PosY(i)) =>
    uiDest[PosY(i) * width + PosX(i)] = SobelFilterHost(PosX(i), PosY(i))
==============================================================================
