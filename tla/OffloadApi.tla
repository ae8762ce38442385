------------------------------ MODULE OffloadApi ------------------------------
(***************************************************************************)
(* The OpenCL objects of one application, seen through the wrapper: the    *)
(* client's table of handles (mem_ptrs, mem_idx in and_rpc_clnt.c), the    *)
(* objects and the in-order command queue the server's driver keeps, and   *)
(* what each wrapped call does to both.  A call is one step, the request   *)
(* and its reply being what RpcFraming and RpcTransport are about; a call  *)
(* that has to wait for the queue is two, and the driver runs in between.  *)
(*                                                                         *)
(* A handle the application holds is the ADDRESS of a slot of mem_ptrs;    *)
(* the slot holds the driver's object.  Slots are never given back.  The   *)
(* first six objects are those every application sets up; the object that  *)
(* slot s is filled with is written s + 1, so that 0 is the NULL pointer.  *)
(* The application is one of the repository's: it prints the error code of *)
(* a call and goes on, and it makes no use of a buffer it has released.    *)
(*                                                                         *)
(* The driver (an OpenCL implementation) is external and is modelled by    *)
(* what the handlers rely on: objects, one in-order queue, arguments that  *)
(* stay set, error codes for NULL.                                         *)
(***************************************************************************)
EXTENDS Naturals, Sequences

CONSTANTS
  Buffers,        \* cl_mem variables of the application
  Large,          \* those of more than CMP_LIM bytes
  Slots,          \* length of mem_ptrs
  MaxObjs,        \* bound: objects the application creates
  MaxQueue,       \* bound: commands outstanding in the driver's queue
  Scalars,        \* values of the scalar kernel parameter
  Contents,       \* contents of a buffer
  Kernel(_, _),   \* contents a launch leaves, from contents and scalar
  MayFail,        \* can the driver refuse to create or build?
  Blocking,       \* does the application only read blockingly?
  JUNK,           \* an indeterminate value
  Unset           \* no value, no handle

ASSUME ApiAssumption ==
  /\ Large \subseteq Buffers
  /\ Slots \in Nat /\ MaxObjs \in Nat /\ MaxObjs >= 6
  /\ Scalars \subseteq Nat /\ Contents \subseteq Nat
  /\ \A v \in Contents, n \in Scalars : Kernel(v, n) \in Contents
  /\ MayFail \in BOOLEAN /\ Blocking \in BOOLEAN
  /\ JUNK \notin Nat /\ Unset \notin Nat \union Buffers /\ Unset # JUNK

VARIABLES
  mem_ptrs, mem_idx,  \* the client's slots, and the next one
  handle,             \* of a buffer: the slot its cl_mem points to
  live, content,      \* the driver's buffers, and what is in them
  built,              \* the driver has built the program
  args,               \* the kernel's arguments in the driver
  queue,              \* commands not yet carried out, oldest first
  up,                 \* the server process exists
  wait,               \* the call that waits for the queue, and for which object
  wanted,             \* what the application last passed for each parameter
  refused,            \* clSetKernelArg returned an error for it
  got                 \* what the last read or map delivered

client == <<mem_ptrs, mem_idx, handle>>
driver == <<live, content, built, args, queue, up>>
app    == <<wait, wanted, refused, got>>
vars   == <<client, driver, app>>

NULL == 0
PLATFORM == 0  DEVICE == 1  CONTEXT == 2  QUEUE == 3  PROGRAM == 4  KERNEL == 5

\* The slots whose objects the creating call of a slot passes along.
Parents(s) ==
  CASE s = PLATFORM -> {}
    [] s = DEVICE   -> {PLATFORM}
    [] s = CONTEXT  -> {DEVICE}
    [] s = QUEUE    -> {CONTEXT, DEVICE}
    [] s = KERNEL   -> {PROGRAM}
    [] OTHER        -> {CONTEXT}

Params   == {"buffer", "scalar", "local"}
Indices  == 0..(MaxObjs - 1)
Objects  == 1..MaxObjs
Idle     == [op |-> "none", obj |-> NULL]
Nothing  == [p \in Params |-> Unset]
Commands ==
  [op: {"write"}, dst: Objects, src: {NULL}, num: Contents, wdst: Nat, wnum: Nat]
  \union [op: {"copy"}, dst: Objects, src: Objects, num: {NULL}, wdst: Nat, wnum: Nat]
  \union [op: {"launch"}, dst: {NULL} \union Objects, src: {NULL}, num: Scalars,
         wdst: Nat, wnum: Nat]

Init ==
  /\ mem_ptrs = [s \in Indices |-> NULL] /\ mem_idx = 0
  /\ handle = [b \in Buffers |-> Unset]
  /\ live = {} /\ content = [o \in Objects |-> JUNK]
  /\ built = FALSE /\ args = Nothing /\ queue = <<>> /\ up = TRUE
  /\ wait = Idle /\ wanted = Nothing /\ got = JUNK
  /\ refused = [p \in Params |-> FALSE]

Ready == up /\ wait = Idle          \* the application can make a call
SetUp == Ready /\ mem_idx > KERNEL
Good(v) == v # NULL /\ v # JUNK     \* an object the driver knows
Obj(b) == mem_ptrs[handle[b]]

ServerDies == up' = FALSE /\ UNCHANGED <<client, live, content, built, args, queue, app>>
-------------------------------------------------------------------------------
(* Creation.  `*x_l = mem_ptrs + mem_idx++`, and the reply is unpacked     *)
(* into the slot whatever it is; the application is told CL_SUCCESS.       *)

FillM1(v) ==
  /\ mem_ptrs' = [mem_ptrs EXCEPT ![mem_idx] = v]
  /\ mem_idx' = IF mem_idx <= KERNEL THEN mem_idx + 1 ELSE mem_idx

\* A slot past the table lies on the client's other statics.
Fill(v) ==
  /\ \E w \in {v, JUNK} :
       /\ w = v \/ mem_idx >= Slots
       /\ mem_ptrs' = [mem_ptrs EXCEPT ![mem_idx] = w]
  /\ mem_idx' = mem_idx + 1

ParentsGood(s) == \A p \in Parents(s) : Good(mem_ptrs[p])

\* What the driver's creating call leaves in the handler's local: the object,
\* NULL, or for the two calls that return it through a pointer what was there.
Created(s) ==
  (IF ParentsGood(s) /\ (s = KERNEL => built) THEN {s + 1} ELSE {}) \union
  (IF ParentsGood(s) /\ (s = KERNEL => built) /\ ~MayFail THEN {}
   ELSE IF s <= DEVICE THEN {NULL, JUNK} ELSE {NULL})

\* Applications build before they create the kernel, whatever comes of it.
CreateObject ==
  /\ Ready /\ mem_idx <= KERNEL
  /\ mem_idx = KERNEL => built \/ MayFail
  /\ \/ /\ \E v \in Created(mem_idx) : Fill(v)
        /\ UNCHANGED <<handle, driver, app>>
     \/ /\ \E p \in Parents(mem_idx) : mem_ptrs[p] = JUNK
        /\ ServerDies

BuildProgram ==
  /\ Ready /\ mem_idx = KERNEL /\ ~built
  /\ Good(mem_ptrs[PROGRAM])
  /\ built' = TRUE
  /\ UNCHANGED <<client, live, content, args, queue, up, app>>

\* What clCreateBuffer puts into a buffer created with contents v, or with
\* none (host_ptr is NULL, v is JUNK): those of a small one are copied from
\* the uninitialized `buf`.
InitialContent(b, v) == IF b \in Large THEN v ELSE JUNK

CreateBuffer(b, v) ==
  /\ SetUp /\ mem_idx < MaxObjs /\ handle[b] = Unset
  /\ handle' = [handle EXCEPT ![b] = mem_idx]
  /\ \E w \in Created(mem_idx) :
       /\ Fill(w)
       /\ live' = IF w = NULL THEN live ELSE live \union {w}
       /\ content' = IF w = NULL THEN content
                     ELSE [content EXCEPT ![w] = InitialContent(b, v)]
  /\ UNCHANGED <<built, args, queue, up, app>>

ReleaseMem(b) ==
  /\ SetUp /\ handle[b] # Unset /\ wanted["buffer"] # handle[b]
  /\ handle' = [handle EXCEPT ![b] = Unset]
  /\ live' = live \ {Obj(b)}
  /\ UNCHANGED <<mem_ptrs, mem_idx, content, built, args, queue, up, app>>
-------------------------------------------------------------------------------
(* Kernel arguments.                                                       *)

\* What clSetKernelArg of the driver accepts for a parameter: NULL for a
\* buffer or for local memory, a value for a scalar, a buffer it knows.
Accepts(p, isNull, v) ==
  /\ Good(mem_ptrs[KERNEL])
  /\ CASE p = "buffer" -> isNull \/ v \in live
       [] p = "scalar" -> ~isNull
       [] p = "local"  -> isNull

SetArgM1(p, want, isNull, v) ==
  /\ wanted' = [wanted EXCEPT ![p] = want]
  /\ refused' = [refused EXCEPT ![p] = FALSE]
  /\ args' = IF Accepts(p, isNull, v) THEN [args EXCEPT ![p] = v] ELSE args
  /\ UNCHANGED <<client, live, content, built, queue, up, wait, got>>

SetArg(p, want, isNull, v) ==
  /\ wanted' = [wanted EXCEPT ![p] = want]
  /\ refused' = [refused EXCEPT ![p] = ~Accepts(p, isNull, v)]
  /\ args' = IF Accepts(p, isNull, v) THEN [args EXCEPT ![p] = v] ELSE args
  /\ UNCHANGED <<client, live, content, built, queue, up, wait, got>>

\* `*tmp >= mem_ptrs && *tmp < mem_ptrs + 20`: is the argument a handle?
IsHandle(s) == s < Slots

\* A handle is replaced by what its slot holds; one the test does not know is
\* sent as it is, an address of the client.  An indeterminate object may also
\* be one the driver falls over.
SetArgBuffer(b) ==
  /\ SetUp /\ handle[b] # Unset
  /\ LET v == IF IsHandle(handle[b]) THEN Obj(b) ELSE JUNK IN
       \/ SetArg("buffer", handle[b], v = NULL, v)
       \/ v = JUNK /\ ServerDies

\* Eight bytes are read at the address of a value of four: `high` says
\* whether the four behind it are all zero.  The server takes eight zero
\* bytes for the NULL pointer.
IsZeroM1(n, high) == ~high
IsZero(n, high) == n = 0 /\ ~high

SetArgScalar(n) ==
  /\ SetUp
  /\ \E high \in BOOLEAN : SetArg("scalar", n, IsZero(n, high), n)

SetArgLocal == SetUp /\ SetArg("local", NULL, TRUE, NULL)
-------------------------------------------------------------------------------
(* Commands.  The driver answers CL_INVALID_... when an object is NULL or  *)
(* an argument has never been set, and nothing is queued.                  *)

Command(op, dst, src, num, wdst, wnum) ==
  [op |-> op, dst |-> dst, src |-> src, num |-> num, wdst |-> wdst, wnum |-> wnum]

Enqueue(ok, c) ==
  /\ SetUp /\ Len(queue) < MaxQueue
  /\ queue' = IF ok /\ Good(mem_ptrs[QUEUE]) THEN Append(queue, c) ELSE queue
  /\ UNCHANGED <<client, live, content, built, args, up, app>>

\* The driver runs the kernel with the arguments it has; wdst and wnum are
\* what the application means by this launch.
NDRangeKernel ==
  /\ \A p \in Params : wanted[p] # Unset
  /\ Enqueue(Good(mem_ptrs[KERNEL]) /\ \A p \in Params : args[p] # Unset,
             Command("launch", args["buffer"], NULL, args["scalar"],
                     wanted["buffer"] + 1, wanted["scalar"]))

Usable(b) == handle[b] # Unset
JunkObject(b) == Usable(b) /\ SetUp /\ Obj(b) = JUNK /\ ServerDies

WriteBufferM1(b, v) ==
  /\ Usable(b)
  /\ \/ Obj(b) # JUNK /\ Enqueue(Good(Obj(b)), Command("write", Obj(b), NULL, v, Obj(b), v))
     \/ SetUp /\ ServerDies

\* The contents travel with the request and the server keeps them in a block
\* it never frees, so that the command may be carried out at any time.
WriteBuffer(b, v) ==
  /\ Usable(b)
  /\ \/ Obj(b) # JUNK /\ Enqueue(Good(Obj(b)), Command("write", Obj(b), NULL, v, Obj(b), v))
     \/ JunkObject(b)

CopyBuffer(a, b) ==
  /\ Usable(a) /\ Usable(b) /\ a # b
  /\ \/ /\ JUNK \notin {Obj(a), Obj(b)}
        /\ Enqueue(Good(Obj(a)) /\ Good(Obj(b)),
                   Command("copy", Obj(b), Obj(a), NULL, Obj(b), NULL))
     \/ JunkObject(a)
     \/ JunkObject(b)

\* What command c makes of the buffers' contents m.
Effect(m, c) ==
  CASE c.op = "write"  -> [m EXCEPT ![c.dst] = c.num]
    [] c.op = "copy"   -> [m EXCEPT ![c.dst] = m[c.src]]
    [] c.op = "launch" -> [m EXCEPT ![c.dst] = IF @ = JUNK THEN JUNK
                                               ELSE Kernel(@, c.num)]

\* The driver carries out the oldest command; a kernel given the NULL buffer
\* may take the server down.
ExecuteCommand ==
  /\ up /\ queue # <<>>
  /\ \/ /\ queue' = Tail(queue)
        /\ content' = IF Head(queue).dst = NULL THEN content
                      ELSE Effect(content, Head(queue))
        /\ UNCHANGED <<client, live, built, args, up, app>>
     \/ Head(queue).dst = NULL /\ ServerDies
-------------------------------------------------------------------------------
(* Calls that return data, or wait.                                        *)

WaitFor(op, o) ==
  /\ wait' = [op |-> op, obj |-> o]
  /\ UNCHANGED <<client, driver, wanted, refused, got>>

Deliver(S) ==
  /\ wait' = Idle /\ got' \in S
  /\ UNCHANGED <<client, driver, wanted, refused>>

\* The reply of a small read has `len` bytes, and `len` is uninitialized.
ReadOutcomes(b, o) == IF b \in Large THEN {content[o]} ELSE {content[o], JUNK}

\* A blocking read waits for the queue.  One that is not blocking answers
\* with whatever the block holds when the driver has only queued the command.
ReadBufferM1(b) ==
  /\ SetUp /\ Usable(b)
  /\ \/ Good(Obj(b)) /\ Good(mem_ptrs[QUEUE]) /\ Deliver(ReadOutcomes(b, Obj(b)))
     \/ ~(Good(Obj(b)) /\ Good(mem_ptrs[QUEUE])) /\ Deliver({JUNK})

ReadBuffer(b) ==
  /\ SetUp /\ Usable(b)
  /\ LET ok == Good(Obj(b)) /\ Good(mem_ptrs[QUEUE]) IN
       \/ ok /\ WaitFor("read", Obj(b))
       \/ ok /\ ~Blocking
             /\ Deliver({JUNK} \union IF queue = <<>> THEN ReadOutcomes(b, Obj(b)) ELSE {})
       \/ ~ok /\ Deliver({JUNK})
       \/ Obj(b) = JUNK /\ ServerDies

\* do_enq_map_buf copies from what the driver returned without looking at it.
MapBuffer(b) ==
  /\ SetUp /\ Usable(b)
  /\ \/ Good(Obj(b)) /\ Good(mem_ptrs[QUEUE]) /\ WaitFor("map", Obj(b))
     \/ ~(Good(Obj(b)) /\ Good(mem_ptrs[QUEUE])) /\ ServerDies

ReadReturns(b) ==
  /\ up /\ wait.op = "read" /\ queue = <<>>
  /\ Usable(b) /\ Obj(b) = wait.obj
  /\ Deliver(ReadOutcomes(b, wait.obj))

MapReturns ==
  /\ up /\ wait.op = "map" /\ queue = <<>>
  /\ Deliver({content[wait.obj]})

\* clFinish of a queue that could not be created fails at once.
Finish ==
  /\ SetUp
  /\ Good(mem_ptrs[QUEUE]) /\ WaitFor("finish", NULL)

FinishReturns ==
  /\ up /\ wait.op = "finish" /\ queue = <<>>
  /\ wait' = Idle
  /\ UNCHANGED <<client, driver, wanted, refused, got>>
-------------------------------------------------------------------------------
Next ==
  \/ CreateObject \/ BuildProgram
  \/ \E b \in Buffers, v \in Contents \union {JUNK} : CreateBuffer(b, v)
  \/ \E b \in Buffers : ReleaseMem(b)
  \/ \E b \in Buffers : SetArgBuffer(b)
  \/ \E n \in Scalars : SetArgScalar(n)
  \/ SetArgLocal
  \/ NDRangeKernel
  \/ \E b \in Buffers, v \in Contents : WriteBuffer(b, v)
  \/ \E a, b \in Buffers : CopyBuffer(a, b)
  \/ \E b \in Buffers : ReadBuffer(b)
  \/ \E b \in Buffers : MapBuffer(b)
  \/ \E b \in Buffers : ReadReturns(b)
  \/ MapReturns \/ Finish \/ FinishReturns
  \/ ExecuteCommand

Spec == Init /\ [][Next]_vars
-------------------------------------------------------------------------------
(* What the application sees of it: OpenCL on its own machine.             *)

\* The contents after each number of the commands q, starting from m.
Carried(m, q) ==
  LET after[n \in 0..Len(q)] == IF n = 0 THEN m ELSE Effect(after[n - 1], q[n])
  IN  after

\* What the buffers will hold when the driver has carried out its queue.
Settled == Carried(content, queue)[Len(queue)]

\* The buffers' contents then, and the buffer the kernel is to run on: the
\* one its handle belongs to.
Memory == [b \in Buffers |-> IF handle[b] = Unset THEN Unset ELSE Settled[Obj(b)]]
Target == IF wanted["buffer"] = Unset THEN Unset
          ELSE CHOOSE b \in Buffers : handle[b] = wanted["buffer"]

Local == INSTANCE LocalCl WITH
  None      <- Unset,
  mem       <- Memory,
  target    <- Target,
  num       <- wanted["scalar"],
  delivered <- got

(* With large buffers, blocking reads, scalars other than zero, creations  *)
(* that succeed and room in the table, an application cannot tell the      *)
(* server from an OpenCL implementation of its own.                        *)
ImplementsLocalCl == Local!LSpec
-------------------------------------------------------------------------------
(* What the variables range over.                                          *)
TypeOK ==
  /\ mem_ptrs \in [Indices -> {NULL, JUNK} \union Objects] /\ mem_idx \in 0..MaxObjs
  /\ handle \in [Buffers -> Indices \union {Unset}]
  /\ live \subseteq Objects
  /\ content \in [Objects -> Contents \union {JUNK}]
  /\ built \in BOOLEAN /\ up \in BOOLEAN
  /\ args \in [Params -> Nat \union {Unset}]
  /\ args["buffer"] \in {NULL, Unset} \union Objects
  /\ args["scalar"] \in Scalars \union {Unset}
  /\ queue \in Seq(Commands)
  /\ wait \in [op: {"none", "finish"}, obj: {NULL}] \union [op: {"read", "map"}, obj: Objects]
  /\ wanted \in [Params -> Nat \union {Unset}]
  /\ refused \in [Params -> BOOLEAN]
  /\ got \in Contents \union {JUNK}

(* A buffer's cl_mem leads through its slot to a buffer that the driver    *)
(* still has and that no other cl_mem leads to, unless its creation failed *)
(* or its slot is not in the table: handles survive any sequence of        *)
(* creations and releases (mem_idx++ in every creating call).              *)
HandleNamesItsBuffer ==
  \A b \in Buffers : handle[b] # Unset =>
    /\ handle[b] < mem_idx
    /\ \A a \in Buffers : a # b => handle[a] # handle[b]
    /\ \/ Obj(b) = handle[b] + 1 /\ Obj(b) \in live
       \/ Obj(b) = NULL
       \/ Obj(b) = JUNK /\ handle[b] >= Slots

(* A queued launch runs with the arguments the application set last, also  *)
(* after later calls have set others.  The exceptions: the scalar zero,    *)
(* whose eight bytes the server takes for NULL (and_rpc_handler.c:300), a  *)
(* buffer whose creation failed without the application being told         *)
(* (and_rpc_clnt.c:524), and a handle past the table (:549).               *)
LaunchMeansWhatWasSet ==
  \A i \in 1..Len(queue) : queue[i].op = "launch" =>
    LET c == queue[i] IN
      /\ c.num # c.wnum => c.wnum = 0
      /\ c.dst # c.wdst => mem_ptrs[c.wdst - 1] = NULL \/ c.wdst > Slots

(* When the driver holds another argument than the application passed last,*)
(* clSetKernelArg returned an error, except for a buffer that was never    *)
(* created: that one becomes the NULL argument with CL_SUCCESS.            *)
LostArgumentIsReported ==
  /\ wanted["scalar"] # args["scalar"] => refused["scalar"]
  /\ (wanted["buffer"] # Unset /\ args["buffer"] # wanted["buffer"] + 1 /\ ~refused["buffer"])
       => args["buffer"] = NULL /\ mem_ptrs[wanted["buffer"]] = NULL

(* No sequence of calls takes the server process down as long as every     *)
(* object could be created and the table had room for it.                  *)
ServerFallsOverLostObject ==
  ~up => mem_idx > Slots \/ \E s \in 0..(mem_idx - 1) : ~Good(mem_ptrs[s])
==============================================================================
