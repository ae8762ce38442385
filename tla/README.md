# Specifications of cl_offload

cl_offload lets an application on a phone run its OpenCL work on another
machine.  The application links `src/src/and_rpc_clnt.c` instead of the OpenCL
library; every `cl*` function packs its arguments with tpl, sends them over one
TCP connection and waits for the reply.  The server
(`and_rpc_server.c`, `and_rpc_handler.c`) runs one thread per connection, which
unpacks the request, calls the real OpenCL, packs the results and answers.

This directory holds TLA+ specifications of that system, TLC configurations
that check them on small instances, and proofs for TLAPS.

## 1. Inventory

| component | code | state | operations | what makes it correct |
|---|---|---|---|---|
| client transport | `and_rpc_clnt.c` 169-309 | `tcp_sock`, static `_buf`, `_big_buf` | send loop, first recv, recv loop, decode, free | every call gets the reply of its own request, and only it |
| server thread | `and_rpc_server.c` 163-239 | `buff`, `big_buf`, `tmp_buf`, `left`, `idx` | recv loop, handler, send loop | a handler sees a whole request; a client that leaves harms nobody |
| reply sizing | `and_rpc_handler.c` | `gsz`, one for the process | GETSIZE, compare, malloc, dump, return | a reply is complete, in its block, and reported with its own size |
| wrapper and handlers | both | `mem_ptrs`, `mem_idx`; the driver's objects, arguments, queue | 20 `cl*` calls | an application cannot tell the server from a local OpenCL |
| accept loop | `and_rpc_server.c` 241-320 | listening socket, descriptors | accept, create a thread | the service goes on whatever one client does |
| discovery | `and_rpc_clnt.c` 35-163, 878-888; server 76-157 | two UDP sockets | multicast a question, answer, time a connect, decide | the application ends with a connection, or knows it has none |
| SunRPC variant | `src/src/sunrpc` | one `CLIENT`, `local`; the server's static results and the blocks its stubs allocate | the same calls through rpcgen stubs | as above, with calls that time out |
| objects and payloads | both | the driver's objects with their references; the handlers' blocks | create, release, leave; transfers, compressed above `CMP_LIM` | what a client holds is there; a buffer holds what was written |
| MAR service | `src/scripts/mar*.py` | `servers`, `discover_time`, `running` | discover, answer, choose, stop | the fastest server of *this* discovery is chosen; threads end |
| web service | `src/scripts/cl_*.py` | a child process, files of fixed names | POST an image | a request gets its own image or an error |
| applications and kernels | `src/src/*.c`, `*.cl`, `android/*/jni` | buffers, local memory | launches, passes | the parallel result is that of the sequential reference |
| host utilities | `src/src/ocl_utils.c` | a PPM header being read | load, save, expand | what was saved loads; bad files are refused |
| tpl | `src/src/tpl.c` | vendored | dump, load | external |

How they interact: a call of the application is one request and one reply on
the connection; threads of the server share `gsz` and the OpenCL driver, and
nothing protects either; the driver carries out its queue while the application
goes on; a handle the application holds is the address of a slot of
`mem_ptrs`, and the slot holds the server's pointer.

What is hard: TCP may cut a message anywhere and both sides read a length from
wherever a `recv` starts; three almost equal size limits (1020, 1024 and what
`recv` returned) decide where a reply lies and who frees it; `gsz` is raced;
errors of creating calls are swallowed; the queue is answered before it is
carried out; kernels update in place or meet in local memory, some of them
without a barrier; datagrams are lost or late; a client may leave anywhere.
`PROJECT.json` lists every hazard at its
line with the properties that would notice it.

## 2. Modules

| module | models | with |
|---|---|---|
| `RpcCall` | abstract: synchronous, exactly-once, in-order calls | |
| `RpcFraming` | send and recv loops of both sides over byte streams | refines `RpcCall` |
| `RpcTransport` | the same loops with buffers, blocks, bytes and exits | extends `RpcFraming` |
| `ServerThreads` | the handlers' accesses to `gsz`, per thread | |
| `LocalCl` | abstract: an in-order OpenCL on the same machine | |
| `OffloadApi` | handle table, driver objects, arguments, queue, every call | refines `LocalCl` |
| `FloydWarshall` | the kernel's work-items and the host loop; CPU reference | |
| `Payloads` | what travels with create, write, read and map, and when it is freed | |
| `Lifetimes` | objects of several clients, released in any order or never | |
| `ServerConns` | accept loop, threads, descriptors | |
| `Server` | connections, transfers and objects of the server side by side | extends `ServerConns` |
| `Discovery` | multicast question and answer, the decision; tpl and SunRPC | |
| `SunRpcXdr` | every SunRPC wrapper's parameters through struct, XDR and handler | |
| `SunCalls` | abstract: calls in order, at most once, that may fail | |
| `SunRpc` | calls of several clients to the SunRPC server | refines `SunCalls` |
| `MarService` | announcers, discoverer and client of the MAR service | |
| `WebService` | the Sobel web service | |
| `Services` | SunRPC calls and messages, discovery, MAR and web service side by side | extends `SunRpc` |
| `Bitonic` | work-items, queued passes; sequential reference | |
| `MaxOneBlock`, `Viterbi` | the reduction; the host of the Viterbi launches; reference | |
| `MatrixMul`, `NBody` | tiles between barriers; exchanged buffers; references | |
| `SobelFilter`, `Dct` | pixels through local memory; references | |
| `Quicksort`, `Ppm` | sequential code of the phone and of the host | |
| `Programs` | quicksort, matrix product, N-body, Sobel filter and Viterbi side by side | extends `Quicksort` |
| `RpcFramingProofs`, `RpcTransportProofs`, `ServerThreadsProofs`, `ServerProofs`, `OffloadApiProofs`, `ServicesProofs`, `FloydWarshallProofs`, `ProgramsProofs` | theorems | extend their module |
| `MC...` | constants for TLC | |

**RpcFraming.** Each side has a program counter, its `idx`, `nread` and `left`.
A direction of the connection is two positions in an unbounded stream (put in,
taken out) and where the latest message starts and ends, so every chunking is
a choice of how far a position moves.  One action per loop body: `ClientSend`,
`ClientRecvFirst`, `ClientRecvMore`, `ServerRecvFirst`, `ServerRecvMore`,
`ServerExec`, `ServerSend`.  A length word is right only when it is read at the
start of a message by a recv that returned all of it; otherwise it is any value
of `Words`.

**RpcTransport.** Adds the contents.  A byte is named by direction, call and
index; the length word is what the first bytes of the buffer spell, stale ones
included.  `BuildRequest` shows that a request of up to 1020 bytes is built in
`_buf` and a larger one is not; `Deliver` is what `tpl_deserialize` and
`tpl_deserialize_array` read and free; `ReplyBlock`, `SizeIsEnough` and `Dumps`
decide where the handler writes and whether it can.  Exits of either process
are actions; what the code does then has no defined outcome in several places
and is the state `"undefined"`.  The variable `whole` is not of the code: it
remembers whether every first recv so far returned the whole length word, which
the properties need to say what is lost and why.

**ServerThreads.** A handler is the steps GETSIZE, compare, malloc, dump,
return, each with its own read of `gsz`.  Receiving, unpacking, the OpenCL call
and packing share nothing and are one step (`Carry`).  `large` is not of the
code: it remembers whether a handler has packed an image the buffer has no room
for.

**OffloadApi.** A call is one step, or two when it waits for the queue; the
driver's `ExecuteCommand` may run between any two.  The set-up calls come in
the order all applications of the repository use (the first six slots are
platform, device, context, queue, program, kernel); then buffers are created,
released, written, copied, passed as arguments, read and mapped in any order.
The outcomes of uninitialized reads are `JUNK`.  The driver is external.
`LocalCl` sees of this state what an application could: its buffers as the queue
will leave them (`Carried`), the arguments it passed, and what it read.

**FloydWarshall.** A work-item loads its own cell and column k, loads row k,
compares and stores: three steps, interleaved with those of all others.  `CPU`
is the sequential reference, a recursive function for each of its three loops.
Shortest paths are stated by potentials: a weight for every node that no edge
undercuts.  `MCFloydWarshall` has the lightest walk by definition
(`WalkWeight`), and assumes, so that TLC evaluates it for every graph of the
run, that the two mean the same (`WalksArePotentials`).

**Payloads.** An array has a length, at the limit or above it, and contents
that compress or do not.  A transfer is the call's step at the server, the
driver's command some time later, and the answer in between: what the handler
answers from and frees is explicit, and a command that finds its block freed
makes the server `"undefined"`.  `want` and `local` are what an OpenCL on the
same machine would have left on both sides.

**Lifetimes.** The driver counts references and gives addresses again; a client
has a slot for each kind of object and may, if it is one of `Careless`, use one
it has released.

**ServerConns.** Descriptors are numbers with a connection behind them, or
`Free`.  A thread is created with a number and goes on with the number: `Conn`
says whose connection that is now.  Requests come in two pieces, so that a
client can leave between them.

**Discovery.** One client, servers that start their announcer first and their
listener later, and a stranger on the client's port.  `variant` chooses between
`and_rpc_clnt.c`, which has no local path, and `sunrpc/ocl_rpc_clnt.c`, which has.

**SunRpcXdr.** A table for each step of the way: what the wrapper stores in
the struct, what the routine of each side puts into units, what the handler
passes on.  `Survives` says which parameters are sent and fit.  **SunRpc.** The
time-out, the `xid`s, the order of `svc_run` and the life of the argument
block; a queue of the driver for each client.

**MarService.** Each thread's loop as the steps between which others run; the
`running` flags, the empty datagram `stop()` sends to its own socket, and a
clock of `MaxTime` for latencies.  **WebService.** `do_POST` line by line, with
the files and the child process that outlive a request.

**Bitonic**, **Viterbi**.  The host is a sequence of calls that runs ahead of
the driver by `MaxQueue` commands; a launch captures the arguments as they are.
**MaxOneBlock**, **MatrixMul**, **NBody**, **SobelFilter**, **Dct**.  The
work-items of a group step by step, accesses to local memory apart from each
other, barriers as actions of the group.  `LockStep` is the guarantee, where
the kernel needs it, that neighbours take each step together.  Floating point
is symbolic: a sum is the sequence or the bag of its terms, a pixel its index,
a transformed vector a term; so equality means that the same operands were
combined, which is what interleavings can spoil.

**Quicksort.** The stack holds the calls that are still to be made; the scans
are steps of their own.  **Ppm.** A file is a sequence of lines that `fgets`
and `sscanf` (external) read; `i` wraps as the `unsigned int` it is, in 4 bits.

## 3. Runs

Sizes are scaled: 4 or 6 stand for the 1024-byte buffer, 2 for the four bytes
of the length word, 3 for the five bytes of header; what the code compares
stays in the same order (1020 < 1021..1024 < 1025, one recv, two, three).

Modules about parts that do not interact are checked together, in one run each:
`Server`, `Services` and `Programs` (and `MCRpcTransport` for several
instances of one module) instantiate each module
with its constants and its own variables; `which`, chosen in the initial state,
says whose steps are taken, and the variables of the others stand still.
The theorems are about these compositions.  `MCPrograms` adds to `Programs` the
applications whose results TLAPS cannot reach (section 4), with
variables and constants of their own.
The properties of such a run are conjunctions of the parts' properties, by
subject.

| run | shows | bounds |
|---|---|---|
| `framing` | alignment, no overrun, causes of waiting for ever, refinement of `RpcCall`, every call returns unless a byte was dropped | buffer 4, messages of 3, 4, 5, 9 bytes (below, at, above one and above two buffers), 2 calls: the second meets what the first left |
| `transport` | what each side finds in its buffers, what brings the server down, what is freed twice; exits between calls end their thread only; a first recv inside the length word | buffer 6, requests 4 and 7, replies 4, 6, 9 (one on each side of every limit), 2 calls; "exits": 1 call, every place of exit, partial sends; "short": `MinFirst` 1, a request of 4, replies with equal and different high bytes |
| `threads` | races on `gsz`; nothing leaves the buffer until a reply was packed that does not fit | 3 threads (two can race the third), sizes below, at and above the limit |
| `api` | handles, arguments, errors, server death | 2 buffers, table of 8 slots and 9 objects (one past the table), queue of 1, creations may fail |
| `api_local` | refinement of `LocalCl` | 2 buffers, queue of 2 (arguments change under a queued launch), 2 contents, 2 scalars |
| `server` | who is served, what transfers lose, who loses objects | `ServerConns`: 3 clients on 2 descriptors (numbers are used again), a call each. `Payloads`: one buffer above `CMP_LIM`, one at it; two contents that compress, one that does not; queue of 3. `Lifetimes`: 2 clients, one careless; 3 and 2 objects on 3 addresses, which are used again |
| `services` | order and meaning of calls, losses, which waits end | `SunRpc`: 2 clients with 2 calls and 1, blocking; 1 client with 3 calls, blocking or not. `SunRpcXdr`: units of 64 values for 2^32; the edges of int and of size_t. `Discovery`: 2 servers and a stranger, both variants. `MarService`: 1 server, 3 discoveries (an answer can come in a later one), 2 instants. `WebService`: 3 requests, 2 runs of the server |
| `floyd` | stability, pass formula, reference, shortest paths | 3 nodes, 2 graphs, all interleavings of 9 work-items |
| `programs` | what work-items read of each other, what the host reads back, loops that end | see below |
| `floyd_host` | **violation**: the launch of `floyd_warshall.c` | the same graphs, row 0 only |
| `max_block_cpu` | **violation**: the reduction on a CPU device | group of 8, warp of 2, so that the last rounds have no barrier |
| `sobel_rim` | **violation**: the rim of the third group | groups of 3 x 3, three of them across |

The programs: `Bitonic` with 8 elements, all inputs of 0 and 1 (enough for a
network of comparisons), and with 16, 3 stages, inputs with up to two ones or
zeros, or one run; `MaxOneBlock` with and without lock-step; `Viterbi` with 2
states, 4 observations, 64 models, a queue longer than a step of the host;
`MatrixMul` with 2 groups of 2 x 2 and 2 tiles; `NBody` with 4 bodies, groups of 2, 1 to 4 launches (both
parities, twice); `SobelFilter` with groups of 3 x 3 (a middle, two edges, a row
that loads none of the next block), three across, and images that end inside a
group; `Dct` with blocks of 2 x 2, one in a group that is cut off or not, and
four in a group in lock-step; `Quicksort` with all arrays of 5 elements of 4
values; `Ppm` with sides of 1 and 2, every layout of the header, cut anywhere.

Deadlock is checked where the system cannot stop.  It is off where the bound on
calls ends the behaviour, where a dropped byte leaves both sides waiting (that
state is what `StuckOnlyByDroppedByte` is about), after undefined behaviour, in
`api`, whose application may have no call left when its objects were refused,
and in all models of programs that end: kernels, sorts, the services that are
interrupted, a client whose discovery waits for ever (`WaitsOnlyForLoss`).

Every property of these runs has a mutant: a definition of the model changed the way a slip
in the code would (an off-by-one in a limit, a missing free, a store dropped),
under which TLC finds the property violated.

**What the runs say of the code.**  Calls are exactly-once and in order for any
chunking as long as a first recv returns four bytes; a send that leaves exactly
one byte hangs both sides.  A small reply that TCP delivers in pieces is decoded
from its last piece; an array of 1021 to 1024 bytes frees a block that is
already free.  A race on `gsz` can shorten or lengthen a reply, and only in the
two array handlers can it leave a block.  An argument of zero is refused by the
driver and the launch that follows uses the value before it.  With large
buffers, blocking reads and none of these, the wrapper is a local OpenCL.
`floyd_warshall.c` launches one dimension and computes one row; the kernel
itself is right, although it updates in place without a barrier.  In pass 0 the
argument is zero, so that the driver keeps `num_nodes` from the call before:
`LaunchMeansWhatWasSet` names that exception, and `FloydWarshall` models the
passes as the host means them.

A connection closed inside a request makes its thread close the descriptor and
go on receiving from the number: until a client does that, threads keep to
their own connection, and what another client does is nobody's loss; after it,
a thread may execute a request mixed from two clients, or end the process.  What
a client holds is safe from the others, unless one of them uses a handle it has
released; what a client leaves behind is never freed.  Transfers above
`CMP_LIM` are right if their contents compress and they block.  Discovery waits
for ever only over lost datagrams or ended threads.  A SunRPC call that timed
out is executed nevertheless, later, and in order; its non-blocking transfers
use blocks that are freed.  Of the MAR service's latencies only those of late
answers are too small, and only an announcer stopped before it ran goes on.
The web service gives an image to the first request of a run at most, and ends
every reply with an error.

The kernels are right where they have barriers.  `maxOneBlock` and `DCT8x8`
need lock-step and are launched on a CPU device; the Sobel filter's third and
later groups take their left rim from the wrong column; after the even number
of launches `nbody.c` makes, the host reads the step before the last, and the
CPU reference, which updates in place, agrees with the kernel on the first
body only.  `loadPPM` does not return from a file whose header is cut short.

**Fairness.** `FairSpec` of `RpcFraming`: weak fairness of each loop of the
client and of the server thread, since a blocked `recv` returns when there are
bytes, `send` makes progress and a handler returns; none of starting a call,
which the application may never do. `TransportSpec`: weak fairness of the
server thread only, where processes exit. `Discovery`: of the client and of
every server's threads, not of the network, which may lose any datagram.
`ServerConns`: of every thread and of the accept loop, which fails for want of
a descriptor but need not fail otherwise. `SunRpc`: weak fairness of the
answer, of the freeing and of the driver; strong fairness of taking up each
client's request, since `svc_run` polls all connections and serves every one
that is ready, while another client's call makes the thread busy again and
again. `MarService`: weak fairness of the threads' loops and of the client's
polling, a datagram waiting on a socket being received in its turn; none of
interrupts, of questions, or of the clock. `Ppm`, `Quicksort`: the one thread
goes on. `WebService`: a reply that is begun goes on. The safety properties
need none.

## 4. Proofs

All are checked by TLAPS for every value of the constants that satisfies the
named assumptions.  `PROJECT.json` lists the theorems a reader should know of.

* `RpcFramingProofs`, under `FramingAssumption` and `WholeWord` (a first recv
  returns the length word; without it the properties are false).  `CInv` says
  where a call can stand: at rest, the request being read, the handler about
  to run, the reply being sent or read.  It ties every position of both streams
  to both program counters, which `Aligned` alone does not.  From it follow all
  five safety properties (of which `ExecutesWholeRequest` and
  `DroppedByteIsFatal` are proved and in no run) and `Refinement`: each step is a step of `RpcCall` or
  leaves it alone.
* `RpcTransportProofs`, under `TransportAssumption` only: first recvs may end
  inside the length word, sends may be partial, processes may exit.  `TInv` has
  a part that holds whatever the recvs returned (`CountsInv`, `StreamsInv`: the
  positions, and what lies in the two streams), and a part that holds while
  `whole`: where a call can stand, or stood when a process exited (`PlaceInv`),
  what the side that reads has gathered (`RequestInv`, `GatherInv`), what the
  handler wrote (`ReplyInv`), and who waits when a thread is lost (`EndInv`).  `BytesKept`, `ServerFalls` and
  `FreedTwice` follow.  `ShortReads` is about the recvs that are not whole and
  needs its own strengthening, `ShortInv`: in the first call, which bytes of
  `_buf` are still those of the request.
* `ServerThreadsProofs`, under `ThreadsAssumption`.  The invariant says what a
  thread's block, room and reported size are at each step when it was not
  raced, and what remains true when it was.  `SmallRepliesSafe` needs that,
  until a reply is packed that does not fit, `gsz` and every thread's own reply
  have room in the buffer and no thread is about to leave it.  `SingleClientSafe`
  assumes one thread.  `FixedImageAlwaysWritten` and `ReportsSomeReply` are
  proved and in no run.
* `ServerProofs`, under the assumptions of `ServerConns`, `Payloads` and
  `Lifetimes`, and of their composition `Server`.  Connections (`ConnsInv`):
  until a client leaves inside a request, a working thread's number is that of
  its client's connection and an open connection is that of a working thread
  (`OwnInv`), and what a thread has read is its client's stream up to the
  request it is at (`CallInv`).  Objects (`ObjectsInv`): what is there is in the
  lineage of an object that is not released (`NeededInv`), and until a released
  handle is used the clients' slots and the unreleased objects name each other
  (`HeldInv`, `OwnerInv`).  Transfers (`TransfersInv`): a buffer holds, or will
  by the last write queued for it, what it should (`PendingInv`); a queued read
  whose block is freed is one of a small array that was answered early
  (`ReadsInv`); arrays are right but for those (`ArraysInv`, `HarmInv`).
* `OffloadApiProofs`, under `ApiAssumption`.  `HandleNamesItsBuffer` is
  inductive with the type; the two about arguments need `WantedInv`
  (what was passed lies in a filled slot), `ArgsInv` (why the driver may hold
  something else) and `LaunchInv` (the same for what is queued, which must
  survive later creations); `ServerFalls` is inductive with these.
  `LocalRefinement` assumes `Ordinary`, what the run `api_local` has in its
  configuration: large buffers, blocking reads, scalars other than
  zero, creations that succeed, and room in the table.  The run `api` has each
  of these otherwise; section 3 says what is lost then.  The mapping is
  `Carried`, what the queue will leave of the buffers: a call appends its effect
  to it (`CarriedAppend`), a command the driver carries out leaves it alone
  (`CarriedTail`), and a new object is in no queued command (`CarriedFresh`).
  `Carried` is recursive over the queue, so these are inductions.
* `ServicesProofs`, under the assumptions of `SunRpc`, `SunRpcXdr`, `Discovery`,
  `MarService` and `WebService`, and of their composition `Services`.  Calls (`SInv`): requests wait in the order of
  their `xid`s, behind the one being executed (`WireInv`); what a client's log
  can look like (`LogInv`); which objects are there, and for which call in the
  log (`HandleInv`, `ObjectsInv`); the driver's queue is in the order of the
  calls and misses no write behind its oldest command (`QueueInv`), so that each
  object holds what the last write before that command left (`ContentsInv`); a
  reply, however late, is that of its call (`RepliesInv`); only a read that does
  not block does harm (`HarmInv`).
  `Refinement` maps each step to a call, an execution, a return or a failure of
  `SunCalls`.
  Messages (`MessageInv`): at each station, what the wire holds is the argument
  struct of the call, or the reply to the driver's answer, unit by unit.  That
  says something only because decoding undoes encoding (`RoundTrip`, an
  induction over the struct's layout, for every layout of ints, quads, byte
  arrays and strings), and because a table of 24 procedures, proved row by row,
  tells which member each parameter goes through (`ServedAll`).
  Discovery (`SearchInv`): who answered has a thread that answers, and a
  socket or handle leads to who answered.  MAR (`RoundInv`): an answer on its way to the
  list of servers is about a discovery that was asked, and if it is the last
  one, its time was taken before; `TalkInv` ties an announcer's flag to what it
  has sent itself.  Web service (`ImagesInv`): requests are given to runs in
  order, a run's child is closed by its first request, so a file that is not the
  request's own is of an earlier run.
* `FloydWarshallProofs`, under `GraphAssumption` (weights are natural numbers
  and the diagonal is zero: `floyd_warshall.c` 42-47).  The diagonal stays zero,
  so the way through k is never shorter for a cell of row or column k, so no
  work-item stores there, so what the others load from there is what the pass
  began with.  `PassCorrect` holds for any set of launched rows, that of the
  host included.  The other two assume that every row is launched, which
  `floyd_host` shows to be needed.  `PathsAreShortest`: no step makes a cell
  lighter than a potential of the graph allows (`KeepsPotentials`), and after
  pass k no cell is heavier than the way through k or a node before it
  (`Closed`), so at the end each row is itself a potential.  `AgreesWithCPU`:
  three inductions, one for each loop of the reference, show that a pass of it
  leaves the same formula although it goes through the cells one by one
  (`PassReaches`), and the kernel's matrix at the start of a pass is the
  reference's (`FollowsCPU`).
* `ProgramsProofs`, under the assumptions of `Quicksort`, `MatrixMul`, `NBody`,
  `SobelFilter` and `Viterbi`, and of their composition `Programs`.
  Quicksort (`QInv`): calls on the stack lie apart
  and in order (`CallsInv`); the scans have left only elements of their side
  (`ScanInv`); the list is a permutation of the input (`PermInv`); and any two
  elements that share no open call are in order (`ApartInv`), which at the end
  is all of them.
  Matrix product (`MulInv`) and bodies (`BodyInv`): the work-items of a group
  are on the same tile between the same two barriers (`Together`), and each has
  done exactly what its program counter says (`ItemDone`, `BodyDone`): its own cell of the
  tile is loaded, its sum is a prefix of the reference's.  With these two, an
  element read from another's cell is the one it should be.  `HostInv` adds, for
  the bodies, which buffer holds which step when a launch or a read comes.
  Sobel (`SobelInv`): before the barrier, who has loaded has filled its cells,
  each with the pixel it stands for (`CellValue`, in which the left rim is read
  where the code reads it, from the wrong column in some groups); each cell is some
  work-item's and one's only (`SobelOnce`), so behind the barrier the whole array
  is filled, and a work-item writes what the eight cells around its own hold
  (`Around`).  The cells that `Misread` does not name are, in an image
  whose rows are whole groups, the host's pixels (`SobelAgrees`), and nothing is
  read from outside it (`SobelStays`).
  Viterbi (`ViterbiInv`): the command that the driver takes next is the one
  the host gave at that place (`InOrder`), and after e commands the columns are
  those of the reference and the path is traced up to there (`Computed`).
  At the end `ViterbiPath` has followed the predecessors back from a state of
  greatest weight (`Follows`).  That no path is heavier is Bellman's principle: by
  induction over the observations a path weighs at most what the column says of
  the state it ends in (`PathWeight`), and the followed path weighs that much
  (`FollowedIsBest`).
  The indices are products, quotients and remainders by constants nobody knows;
  `OneQuotient` and `Quotient` are what these proofs use of them.

A recursive function can be proved about where an induction over a *set* of
numbers is enough: the lemmas `Least` and `Induct` get it from the
well-foundedness of `<`.  The library's induction theorems, over a predicate,
are not used.

Only model-checked, because TLAPS does not do liveness under fairness:
`CallReturns`, `IdleExitsEndThreads`, `EveryoneAnswered`, `WaitsEnd`,
`LoopsEnd`.

Only model-checked, because the provers do not reach it: `OthersAreRight`, the
only safety invariant of the runs without a theorem.  The bitonic sort and the
reduction of the Viterbi kernel go by powers of two, of which the provers know
nothing, and that a network of comparisons sorts is an induction over data; the
DCT and `ReferenceAgreesOnFirst` compare with recursive or folded references;
`loadPPM` is a recursion over text.

## 5. Plan

Every part of the system that has state and interacts has its module, and each
safety invariant of the runs but `OthersAreRight` is proved.  What is left is the
part of it that is within reach: `ItemsDisjoint` of `Bitonic` and `LoopPartRight`
of `MaxOneBlock`, with lemmas about powers of two.

## 6. Not modelled

* The FFT: unrolled floating point with hard-coded offsets, a barrier round
  every exchange.  The inverse DCT, which nothing launches.  `sobel_opt1.cl`,
  launched only by the smoke test `sobel_test.c`.
* Floating-point arithmetic itself (rounding, thresholds, the order of terms
  where a bag stands for a sum), and what a compiler may cache of local memory
  that is not volatile.
* Byte order and packing of tpl; offsets and events, which the applications
  leave at zero and NULL; `clFlush`, device queries, `GET_PLAT_INFO`, which no
  wrapper sends.
* The bandwidth sink of the SunRPC server's discovery thread; `cl_client.py`; requests of the web service without a method;
  products of image sides that overflow.
* Memory the server never frees (large replies, tpl nodes, written data).
* Random fills, logging, the programs that only print device properties, the
  OpenCL headers.
