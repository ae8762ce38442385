------------------------------ MODULE Payloads ------------------------------
(***************************************************************************)
(* What travels with clCreateBuffer, clEnqueueWriteBuffer,                 *)
(* clEnqueueReadBuffer and clEnqueueMapBuffer: the bytes of an array of    *)
(* the application.  Arrays above CMP_LIM are compressed by the sender and *)
(* uncompressed by the receiver; the handlers answer from, and free, their *)
(* own blocks, while the driver's queue goes on.                           *)
(*                                                                         *)
(* An array is transferred as a whole, under the name of its buffer; what  *)
(* it holds is one value.  A length differs from the array's by -1, 0, 1.  *)
(***************************************************************************)
EXTENDS Naturals, Sequences, FiniteSets

CONSTANTS
  Buffers,
  Size,            \* of each buffer
  CMP_LIM,
  Contents,
  Incompressible,  \* contents that compress2 makes longer
  JUNK,            \* what nobody wrote
  MaxQueue         \* bound: commands in the driver's queue

PayloadsAssumption ==
  /\ Size \in [Buffers -> Nat \ {0}] /\ CMP_LIM \in Nat /\ MaxQueue \in Nat \ {0}
  /\ Incompressible \subseteq Contents /\ JUNK \notin Contents

VARIABLES
  host,    \* the application's arrays
  dev,     \* the buffers on the server; JUNK before they are created
  made,    \* the buffers created
  queue,   \* the driver's queue
  call,    \* the call being handled
  local,   \* what an OpenCL in the process would have in the buffers,
  want,    \* and in the arrays once the reads before are done
  unread,  \* arrays with a read that was not blocking, until clFinish
  early,   \* arrays answered from a block not yet filled
  client, server   \* "ok", or "undefined" after undefined behaviour

vars   == <<host, dev, made, queue, call, local, want, unread, early, client, server>>
ghosts == <<local, want>>

Value  == Contents \cup {JUNK}
NoCall == [op |-> "none"]
Call(op, b, blocking, block) == [op |-> op, buf |-> b, wait |-> blocking, block |-> block]

Init ==
  /\ host = [b \in Buffers |-> JUNK] /\ dev = host /\ local = host /\ want = host
  /\ made = {} /\ queue = <<>> /\ call = NoCall /\ unread = {} /\ early = {}
  /\ client = "ok" /\ server = "ok"

Ready == client = "ok" /\ server = "ok" /\ call = NoCall
Room == Len(queue) < MaxQueue
-------------------------------------------------------------------------------
(* Lengths.                                                                *)

Long(b) == Size[b] > CMP_LIM

\* compress2's len, within the room of 1.1 * cb + 12 it is given.
Compressed(b, c) == IF c \in Incompressible THEN Size[b] + 1 ELSE Size[b] - 1

\* How many elements of A(c) a write packs.
SentLen(b, c) == IF Long(b) THEN Compressed(b, c) ELSE Size[b]

\* do_enq_read_buf sets its `len` only on the way to compress2.
ReplyLens(b, c) == IF Long(b) THEN {Compressed(b, c)}
                   ELSE {Size[b] - 1, Size[b], Size[b] + 1}
-------------------------------------------------------------------------------
(* clCreateBuffer.  The arrays the application passes are its own: it      *)
(* touches none that a read is still to fill.                              *)

\* Without a host pointer.
CreateEmpty(b) ==
  /\ Ready /\ b \notin made
  /\ made' = made \cup {b}
  /\ UNCHANGED <<host, dev, queue, call, ghosts, unread, early, client, server>>

\* With one: an array within CMP_LIM is packed through `buf`, which was
\* never set; do_create_buf unpacks into calloc(cb).
CreateCopy(b, c) ==
  /\ Ready /\ b \notin made /\ b \notin unread
  /\ made' = made \cup {b}
  /\ host' = [host EXCEPT ![b] = c] /\ want' = [want EXCEPT ![b] = c]
  /\ local' = [local EXCEPT ![b] = c]
  /\ \/ ~Long(b) /\ dev' = [dev EXCEPT ![b] = JUNK] /\ client' \in {"ok", "undefined"}
        /\ UNCHANGED server
     \/ Long(b) /\ SentLen(b, c) <= Size[b] /\ dev' = [dev EXCEPT ![b] = c]
        /\ UNCHANGED <<client, server>>
     \/ Long(b) /\ SentLen(b, c) > Size[b] /\ server' = "undefined"
        /\ UNCHANGED <<client, dev>>
  /\ UNCHANGED <<queue, call, unread, early>>
-------------------------------------------------------------------------------
(* clEnqueueWriteBuffer.                                                   *)

WriteCommand(b, c) == [op |-> "write", buf |-> b, data |-> c]

\* do_enq_write_buf unpacks into calloc(cb), uncompresses into another block
\* and never frees it: a queued command keeps its data.
Write(b, c, blocking) ==
  /\ Ready /\ Room /\ b \in made /\ b \notin unread
  /\ host' = [host EXCEPT ![b] = c] /\ want' = [want EXCEPT ![b] = c]
  /\ local' = [local EXCEPT ![b] = c] /\ early' = early \ {b}
  /\ IF SentLen(b, c) > Size[b]
     THEN server' = "undefined" /\ UNCHANGED <<queue, call>>
     ELSE /\ queue' = Append(queue, WriteCommand(b, c))
          /\ call' = Call("write", b, blocking, JUNK)
          /\ UNCHANGED server
  /\ UNCHANGED <<dev, made, unread, client>>

AnsweredM1 == call.wait => Len(queue) <= 1
\* The driver returns from a blocking call when its command is done.
Answered == call.wait => queue = <<>>

WriteReturns ==
  /\ call.op = "write" /\ server = "ok" /\ Answered
  /\ call' = NoCall
  /\ UNCHANGED <<host, dev, made, queue, ghosts, unread, early, client, server>>
-------------------------------------------------------------------------------
(* clEnqueueReadBuffer and clEnqueueMapBuffer.                             *)

\* `call.block` is the handler's block, "mapped" reads the buffer itself.
Read(b, blocking) ==
  /\ Ready /\ Room /\ b \in made /\ b \notin unread
  /\ queue' = Append(queue, [op |-> "read", buf |-> b, freed |-> FALSE])
  /\ call' = Call("read", b, blocking, JUNK)
  /\ want' = [want EXCEPT ![b] = local[b]]
  /\ UNCHANGED <<host, dev, made, local, unread, early, client, server>>

Map(b, blocking) ==
  /\ Ready /\ Room /\ b \in made /\ b \notin unread
  /\ queue' = Append(queue, [op |-> "map", buf |-> b])
  /\ call' = Call("map", b, blocking, JUNK)
  /\ want' = [want EXCEPT ![b] = local[b]]
  /\ UNCHANGED <<host, dev, made, local, unread, early, client, server>>

\* do_enq_read_buf frees the block the driver fills; above CMP_LIM `buff`
\* is by then the block of the compressed data, and the other is not freed.
Freed(q) ==
  [i \in DOMAIN q |-> IF q[i].op = "read" /\ i = Len(q) /\ ~Long(q[i].buf)
                      THEN [q[i] EXCEPT !.freed = TRUE] ELSE q[i]]

Note(b) ==
  /\ unread' = IF call.wait THEN unread ELSE unread \cup {b}
  /\ early' = IF call.wait \/ queue = <<>> THEN early \ {b} ELSE early \cup {b}

\* The handler packs len elements of its block, the wrapper unpacks all
\* that came: above CMP_LIM into a block of the reply's size and from there
\* into the array, else into the array.
ReadReturns ==
  LET b == call.buf IN
  /\ call.op = "read" /\ server = "ok" /\ Answered
  /\ \E n \in ReplyLens(b, call.block) :
       /\ host' = [host EXCEPT ![b] =
                     IF Long(b) \/ n >= Size[b] THEN call.block ELSE JUNK]
       /\ IF ~Long(b) /\ n > Size[b]
          THEN client' = "undefined" /\ server' \in {"ok", "undefined"}
          ELSE UNCHANGED <<client, server>>
  /\ queue' = Freed(queue) /\ call' = NoCall /\ Note(b)
  /\ UNCHANGED <<dev, made, ghosts>>

\* do_enq_map_buf packs cb bytes from where the driver mapped the buffer.
MapReturns ==
  LET b == call.buf IN
  /\ call.op = "map" /\ server = "ok" /\ Answered
  /\ host' = [host EXCEPT ![b] = dev[b]]
  /\ call' = NoCall /\ Note(b)
  /\ UNCHANGED <<dev, made, queue, ghosts, client, server>>
-------------------------------------------------------------------------------
(* The driver, and waiting for it.                                         *)

ExecuteCommand ==
  /\ server = "ok" /\ queue # <<>>
  /\ queue' = Tail(queue)
  /\ LET q == Head(queue) IN
       \/ /\ q.op = "write" /\ dev' = [dev EXCEPT ![q.buf] = q.data]
          /\ UNCHANGED <<call, server>>
       \/ /\ q.op = "read" /\ server' = IF q.freed THEN "undefined" ELSE "ok"
          /\ call' = IF call.op = "read" /\ Len(queue) = 1
                     THEN [call EXCEPT !.block = dev[q.buf]] ELSE call
          /\ UNCHANGED dev
       \/ q.op = "map" /\ UNCHANGED <<call, dev, server>>
  /\ UNCHANGED <<host, made, ghosts, unread, early, client>>

\* clFinish: the handler returns when the queue is empty.
Finish ==
  /\ Ready /\ queue = <<>>
  /\ unread' = {}
  /\ UNCHANGED <<host, dev, made, queue, call, ghosts, early, client, server>>

Next ==
  \/ \E b \in Buffers : CreateEmpty(b)
  \/ \E b \in Buffers, c \in Contents : CreateCopy(b, c)
  \/ \E b \in made, c \in Contents, blocking \in BOOLEAN : Write(b, c, blocking)
  \/ \E b \in made, blocking \in BOOLEAN : Read(b, blocking) \/ Map(b, blocking)
  \/ WriteReturns \/ ReadReturns \/ MapReturns
  \/ ExecuteCommand \/ Finish

Spec == Init /\ [][Next]_vars
-------------------------------------------------------------------------------
(* Properties.                                                             *)

TypeOK ==
  /\ host \in [Buffers -> Value] /\ dev \in [Buffers -> Value]
  /\ local \in [Buffers -> Value] /\ want \in [Buffers -> Value]
  /\ made \subseteq Buffers /\ unread \subseteq made /\ early \subseteq made
  /\ Len(queue) <= MaxQueue
  /\ {client, server} \subseteq {"ok", "undefined"}

Running == client = "ok" /\ server = "ok"

\* Compression and the order of freeing lose nothing above CMP_LIM: an array
\* holds what a local OpenCL would put there, but for reads and maps that
\* were answered before the driver had carried them out (do_enq_read_buf,
\* do_enq_map_buf), which nothing fills later.
LargeArraysRight ==
  Running /\ call = NoCall =>
    \A b \in Buffers : Long(b) /\ b \notin early => host[b] = want[b]

\* When the driver has nothing left to do, a buffer holds what was last
\* written, however many writes were queued; a small one may hold junk
\* instead, from its creation, and never another array's contents.
BuffersHoldWhatWasWritten ==
  Running /\ queue = <<>> =>
    \A b \in made : dev[b] = local[b] \/ (~Long(b) /\ dev[b] = JUNK)

\* Whatever the calls and however the driver is scheduled, only a buffer
\* within CMP_LIM or contents that do not compress bring either process to
\* undefined behaviour (and_rpc_handler.c 525, 541, 571; and_rpc_clnt.c 515).
HarmNeedsSmallOrIncompressible ==
  ~Running => \E b \in made : ~Long(b) \/ host[b] \in Incompressible

\* A block of the handler the driver still writes to is freed only under a
\* read that was not blocking: one command at most per array, none large.
DanglingReads ==
  \A i \in DOMAIN queue : queue[i].op = "read" /\ queue[i].freed =>
    /\ ~Long(queue[i].buf) /\ queue[i].buf \in unread \cap early
    /\ \A j \in DOMAIN queue : j # i /\ queue[j].op = "read" => queue[j].buf # queue[i].buf
==============================================================================
