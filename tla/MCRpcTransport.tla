--------------------------- MODULE MCRpcTransport ----------------------------
(***************************************************************************)
(* RpcTransport on buffers of 6 bytes: a request or reply of 4 bytes fits, *)
(* 5 and 6 lie between the 1020-byte and the 1024-byte tests of the client,*)
(* 7 and 9 need a block of their own.  A behaviour is one of `which`:      *)
(* "calls", two calls one after the other; "exits", one call in which the  *)
(* processes may exit and send() may take less than it is given; "short",  *)
(* one call in which a first recv may end inside the length word.          *)
(***************************************************************************)
EXTENDS RpcTransport

VARIABLE which

MCReqSizes   == {4, 7}
MCRepSizes   == {4, 6, 9}
MCPlainSizes == {6}
MCWords      == 0..15
\* A request whose bytes stay in _buf, replies with the same and with other
\* high bytes.
ShortReqSizes == {4}
ShortRepSizes == {6, 9}

Exiting == INSTANCE RpcTransport WITH
  PartialSends <- TRUE, Exits <- {"client", "server"}, MaxCalls <- 1
Short == INSTANCE RpcTransport WITH
  MinFirst <- 1, ReqSizes <- ShortReqSizes, RepSizes <- ShortRepSizes, MaxCalls <- 1

ASSUME PartsAssumption == Exiting!TransportAssumption /\ Short!TransportAssumption

CallsStep    == which = "calls" /\ TNext /\ UNCHANGED which
ExitsStep(A) == which = "exits" /\ A /\ UNCHANGED which
ShortStep    == which = "short" /\ Short!TNext /\ UNCHANGED which

TransportInit == which \in {"calls", "exits", "short"} /\ TInit
TransportNext == CallsStep \/ ExitsStep(Exiting!TNext) \/ ShortStep

\* RpcTransport!TFairSpec, where the processes exit.
TransportSpec ==
  /\ TransportInit /\ [][TransportNext]_<<which, tvars>>
  /\ WF_tvars(ExitsStep(Exiting!TServer))
-----------------------------------------------------------------------------
\* A client that exits between two calls ends its own thread.
IdleExitsEndThreads == which = "exits" => Exiting!IdleExitEndsThread
==============================================================================
