------------------------------- MODULE Server -------------------------------
(***************************************************************************)
(* The parts of and_rpc_server.c and and_rpc_handler.c around the framing, *)
(* each with variables of its own: the connections (ServerConns), what the *)
(* transfers carry (Payloads), whose objects there are (Lifetimes).  A     *)
(* behaviour is one of the part `which`; the others stay as they begin.    *)
(***************************************************************************)
EXTENDS ServerConns

CONSTANTS
  Buffers, Size, CMP_LIM, Contents, Incompressible, JUNK, MaxQueue,  \* of Payloads
  Apps,                                       \* the Clients of Lifetimes
  Careless, Addrs, None, MaxMade              \* of Lifetimes

VARIABLES
  which,
  host, dev, made, queue, call, local, want, unread, early, client, server,
  obj, slot, held, created, conn, stale, alive

transfers == <<host, dev, made, queue, call, local, want, unread, early, client, server>>
objects   == <<obj, slot, held, created, conn, stale, alive>>

Transfers == INSTANCE Payloads
Objects   == INSTANCE Lifetimes WITH Clients <- Apps, made <- created, up <- alive

ASSUME PartsAssumption == Transfers!PayloadsAssumption /\ Objects!LifetimesAssumption

ServerInit ==
  /\ which \in {"connections", "transfers", "objects"}
  /\ Init /\ Transfers!Init /\ Objects!Init

ConnsStep(A) ==
  which = "connections" /\ A /\ UNCHANGED <<which, transfers, objects>>
TransfersStep ==
  which = "transfers" /\ Transfers!Next /\ UNCHANGED <<which, vars, objects>>
ObjectsStep ==
  which = "objects" /\ Objects!Next /\ UNCHANGED <<which, vars, transfers>>

ServerNext == ConnsStep(Next) \/ TransfersStep \/ ObjectsStep

everything == <<which, vars, transfers, objects>>

\* ServerConns!Fairness, for the behaviours that are about connections.
ServerFairness ==
  /\ WF_vars(ConnsStep(Accept)) /\ WF_vars(ConnsStep(FreeFds = {} /\ AcceptFails))
  /\ \A t \in Clients : WF_vars(ConnsStep(Step(t)))
ServerSpec == ServerInit /\ [][ServerNext]_everything /\ ServerFairness
-------------------------------------------------------------------------------
\* Above CMP_LIM arrays and buffers hold what a local OpenCL would put there,
\* but for early answers; buffers hold what was last written; and nothing but
\* a small array, or one that does not compress, leads to undefined behaviour.
TransfersKeepContents ==
  /\ Transfers!TypeOK
  /\ Transfers!LargeArraysRight /\ Transfers!BuffersHoldWhatWasWritten
  /\ Transfers!HarmNeedsSmallOrIncompressible /\ Transfers!DanglingReads

\* What a client holds is there and its own, whatever others release and
\* leave; what remains of a client that left is what it had not released.
ObjectsLiveAsHeld ==
  /\ Objects!TypeOK
  /\ Objects!HeldIsThere /\ Objects!OnlyForgottenRemains /\ Objects!DiesOfStaleHandle
==============================================================================
