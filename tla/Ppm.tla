--------------------------------- MODULE Ppm ---------------------------------
(***************************************************************************)
(* loadPPM and shrLoadPPM4ub of ocl_utils.c, and what savePPM writes.  A   *)
(* file is its lines, up to the pixels: a comment, text without a number,  *)
(* or the numbers on it, none if it is blank.  fgets at the end of the     *)
(* file leaves `header` as it was; sscanf returns EOF, -1, for a blank     *)
(* line, and i is an unsigned int.                                         *)
(***************************************************************************)
EXTENDS Integers, SequencesExt

CONSTANTS
  Sides,    \* widths and heights of the images
  MaxVal    \* 255 in the code

PpmAssumption == Sides \subseteq Nat \ {0} /\ MaxVal \in Nat \ Sides

VARIABLES
  file,            \* [magic, w, h, lines, pixels]
  rest, pixels,    \* what has not been read of it
  header,          \* the last line
  pc,              \* "magic", "header", "pixels", "expand", "done"
  i, width, height,
  w, h,            \* the caller's variables, -1 while they are not set
  size,            \* of *data, and how much of it fread has filled
  loaded,
  result,          \* 0 or -1
  overread         \* bytes shrLoadPPM4ub took from behind the block

vars == <<file, rest, pixels, header, pc, i, width, height, w, h, size, loaded, result, overread>>

Numbers(ns) == [kind |-> "numbers", nums |-> ns]
Comment     == [kind |-> "comment", nums |-> <<>>]
Text        == [kind |-> "text", nums |-> <<>>]
Blank       == Numbers(<<>>)

channels(f) == IF f.magic = "P5" THEN 1 ELSE 3

savePPM(x, y) ==
  [magic |-> "P6", w |-> x, h |-> y, lines |-> <<Numbers(<<x, y>>), Numbers(<<MaxVal>>)>>,
   pixels |-> x * y * 3]

\* The ways a header is laid out, with a comment, a blank line or neither.
Layouts(x, y) ==
  LET plain == {<<Numbers(<<x, y, MaxVal>>)>>, savePPM(x, y).lines,
                <<Numbers(<<x>>), Numbers(<<y, MaxVal>>)>>,
                <<Numbers(<<x>>), Numbers(<<y>>), Numbers(<<MaxVal>>)>>}
  IN  plain \cup UNION {{InsertAt(l, n, e) : n \in DOMAIN l, e \in {Comment, Blank}} : l \in plain}

Whole(magic, x, y) == {[magic |-> magic, w |-> x, h |-> y, lines |-> l,
                        pixels |-> x * y * (IF magic = "P5" THEN 1 ELSE 3)] : l \in Layouts(x, y)}
\* ... or the writer stopped: in the pixels, or in the header.
Cut(f) == {[f EXCEPT !.pixels = @ - 1]} \cup
          {[f EXCEPT !.pixels = 0, !.lines = SubSeq(@, 1, n)] : n \in 0..(Len(f.lines) - 1)}

Files == UNION {LET fs == Whole(magic, x, y) IN fs \cup UNION {Cut(f) : f \in fs} :
                  magic \in {"P5", "P6", "other"}, x \in Sides, y \in Sides}
         \cup {savePPM(x, y) : x \in Sides, y \in Sides}

Init ==
  /\ file \in Files /\ rest = file.lines /\ pixels = file.pixels
  /\ header = Text /\ pc = "magic" /\ i = 0 /\ width = 0 /\ height = 0
  /\ w = -1 /\ h = -1 /\ size = 0 /\ loaded = 0 /\ result = 0 /\ overread = 0
-------------------------------------------------------------------------------
Fails == pc' = "done" /\ result' = -1

Magic ==
  /\ pc = "magic"
  /\ \/ file.magic \in {"P5", "P6"} /\ pc' = "header" /\ UNCHANGED result
     \/ file.magic = "other" /\ Fails
  /\ UNCHANGED <<file, rest, pixels, header, i, width, height, w, h, size, loaded, overread>>

\* A line of the header, a piece of the pixels, or the last line again.
fgets ==
  \/ rest # <<>> /\ header' = Head(rest) /\ rest' = Tail(rest) /\ UNCHANGED pixels
  \/ /\ rest = <<>> /\ pixels > 0 /\ header' \in {Text, Comment, Blank, Numbers(<<1>>)}
     /\ pixels' \in 0..(pixels - 1) /\ UNCHANGED rest
  \/ rest = <<>> /\ pixels = 0 /\ UNCHANGED <<header, rest, pixels>>

\* What sscanf returns when it is asked for n numbers.
sscanf(line, n) == IF line = Blank THEN -1
                   ELSE IF Len(line.nums) < n THEN Len(line.nums) ELSE n

UInt == 2 ^ 4   \* 2 ^ 32 in the code: what matters is that -1 is not below 3

Header ==
  /\ pc = "header" /\ i < 3 /\ fgets
  /\ IF header'.kind = "comment" THEN UNCHANGED <<i, width, height>>
     ELSE LET got == sscanf(header', 3 - i) IN
          /\ i' = (i + got) % UInt
          /\ width' = IF i = 0 /\ got >= 1 THEN header'.nums[1] ELSE width
          /\ height' = IF i + got >= 2 /\ i < 2 THEN header'.nums[2 - i] ELSE height
  /\ UNCHANGED <<file, pc, w, h, size, loaded, result, overread>>

Malloc ==
  /\ pc = "header" /\ i >= 3 /\ pc' = "pixels"
  /\ w' = width /\ h' = height /\ size' = width * height * channels(file)
  /\ UNCHANGED <<file, rest, pixels, header, i, width, height, loaded, result, overread>>

\* fread starts where fgets has stopped: lines it has not read are data too,
\* and as there is at least one byte in each, the data is then not short.
Fread ==
  /\ pc = "pixels"
  /\ \/ rest # <<>> /\ loaded' \in 0..size
     \/ rest = <<>> /\ loaded' = IF pixels < size THEN pixels ELSE size
  /\ IF loaded' < size THEN Fails ELSE pc' = "expand" /\ UNCHANGED result
  /\ UNCHANGED <<file, rest, pixels, header, i, width, height, w, h, size, overread>>

\* shrLoadPPM4ub: three bytes of the block for every pixel.
Expand ==
  /\ pc = "expand" /\ pc' = "done" /\ overread' = w * h * 3 - size
  /\ UNCHANGED <<file, rest, pixels, header, i, width, height, w, h, size, loaded, result>>

Next == Magic \/ Header \/ Malloc \/ Fread \/ Expand
Spec == Init /\ [][Next]_vars /\ WF_vars(Next)
-------------------------------------------------------------------------------
NoBlank == Blank \notin ToSet(file.lines)
HeaderCut == \A l \in Layouts(file.w, file.h) : file.lines # l

TypeOK ==
  /\ pc \in {"magic", "header", "pixels", "expand", "done"} /\ result \in {-1, 0}
  /\ loaded \in 0..size /\ size = (IF w = -1 THEN 0 ELSE w * h * channels(file))

\* What loadPPM accepts has the image's sides, unless a blank line in the
\* header has set i back.
AcceptedIsRight ==
  pc = "done" /\ result = 0 /\ NoBlank => w = file.w /\ h = file.h /\ loaded = w * h * channels(file)

\* What savePPM wrote is accepted, with the same sides.
SavedLoads ==
  pc = "done" /\ file = savePPM(file.w, file.h) => result = 0 /\ w = file.w /\ h = file.h

\* A gray image (P5) has one byte for every pixel and shrLoadPPM4ub takes three.
OverreadIsGray == overread > 0 <=> pc = "done" /\ result = 0 /\ channels(file) = 1 /\ size > 0

\* The loop over the header ends, unless the file ends inside the header (the
\* last line is then taken again and again) or a blank line set i back.
EndsOnWholeHeader == ~HeaderCut /\ NoBlank => <>(pc = "done")
==============================================================================
