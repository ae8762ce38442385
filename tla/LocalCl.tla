------------------------------- MODULE LocalCl -------------------------------
(***************************************************************************)
(* What an application expects of an OpenCL implementation on its own      *)
(* machine with one in-order queue, whose reads block: every command has   *)
(* its effect in the order of the calls, so that for the application it    *)
(* has it at the call; a launch uses the arguments set last; a read        *)
(* delivers what all earlier commands left.                                *)
(***************************************************************************)
EXTENDS Naturals

CONSTANTS Buffers, Scalars, Contents, Kernel(_, _), JUNK, None

VARIABLES
  mem,       \* contents of the buffers that exist, None of the others
  target,    \* the buffer argument of the kernel
  num,       \* its scalar argument
  delivered  \* what the last read returned

localVars == <<mem, target, num, delivered>>

LInit ==
  /\ mem = [b \in Buffers |-> None] /\ target = None /\ num = None
  /\ delivered = JUNK

\* Created with contents v, or with none (JUNK).
LCreate(b, v) ==
  /\ mem[b] = None
  /\ mem' = [mem EXCEPT ![b] = v] /\ UNCHANGED <<target, num, delivered>>

LRelease(b) ==
  /\ mem[b] # None /\ b # target
  /\ mem' = [mem EXCEPT ![b] = None] /\ UNCHANGED <<target, num, delivered>>

LSetBuffer(b) ==
  /\ mem[b] # None
  /\ target' = b /\ UNCHANGED <<mem, num, delivered>>

LSetScalar(n) == num' = n /\ UNCHANGED <<mem, target, delivered>>

LWrite(b, v) ==
  /\ mem[b] # None
  /\ mem' = [mem EXCEPT ![b] = v] /\ UNCHANGED <<target, num, delivered>>

LCopy(a, b) ==
  /\ mem[a] # None /\ mem[b] # None
  /\ mem' = [mem EXCEPT ![b] = mem[a]] /\ UNCHANGED <<target, num, delivered>>

LLaunch ==
  /\ target # None /\ num # None
  /\ mem' = [mem EXCEPT ![target] = IF @ = JUNK THEN JUNK ELSE Kernel(@, num)]
  /\ UNCHANGED <<target, num, delivered>>

LRead(b) ==
  /\ mem[b] # None
  /\ delivered' = mem[b] /\ UNCHANGED <<mem, target, num>>

LNext ==
  \/ \E b \in Buffers, v \in Contents \union {JUNK} : LCreate(b, v)
  \/ \E b \in Buffers, v \in Contents : LWrite(b, v)
  \/ \E b \in Buffers : LRelease(b) \/ LSetBuffer(b) \/ LRead(b)
  \/ \E n \in Scalars : LSetScalar(n)
  \/ \E a, b \in Buffers : LCopy(a, b)
  \/ LLaunch

LSpec == LInit /\ [][LNext]_localVars
==============================================================================
