----------------------------- MODULE RpcFraming ------------------------------
(***************************************************************************)
(* How a request and its reply are framed on the TCP connection between    *)
(* tpl_rpc_call (and_rpc_clnt.c) and handle_client (and_rpc_server.c).     *)
(*                                                                         *)
(* Both sides run the same two loops.  The send loop writes the message    *)
(* while more than ONE byte is left (`while (idx > 1)`), taking whatever   *)
(* send() accepts.  The receive side calls recv() once, takes the first    *)
(* four bytes of the buffer as the length of the message, and calls recv() *)
(* again while bytes are missing.                                          *)
(*                                                                         *)
(* A direction of the connection is an unbounded byte stream described by  *)
(* two positions, the bytes put into it and the bytes taken out of it, so  *)
(* that any chunking by send, by the network and by recv is a choice of    *)
(* how far a position moves.  xxStart and xxLen say where the latest       *)
(* message begins and how long it claims to be.  A length word read        *)
(* anywhere else, or read before all its bytes arrived, is arbitrary.      *)
(***************************************************************************)
EXTENDS Integers

CONSTANTS
  BUFSIZE,    \* sizeof(_buf) and sizeof(buff): most bytes one recv returns
  LenBytes,   \* sizeof(uint32_t), the length word that starts a message
  MinFirst,   \* fewest bytes the first recv of a message returns
  ReqSizes,   \* sizes of request messages, header included
  RepSizes,   \* sizes of reply messages, header included
  Words,      \* values a misread length word may have
  MaxCalls    \* bound on the calls made in a behaviour

ASSUME FramingAssumption ==
  /\ LenBytes \in Nat /\ LenBytes >= 1
  /\ BUFSIZE \in Nat /\ BUFSIZE >= LenBytes
  /\ MinFirst \in 1..LenBytes
  /\ ReqSizes \subseteq {n \in Nat : n > LenBytes}
  /\ RepSizes \subseteq {n \in Nat : n > LenBytes}
  /\ Words \subseteq Nat
  /\ MaxCalls \in Nat

VARIABLES
  cpc,      \* client: "idle", "send", "recv" (first recv), "more" (recv loop)
  cIdx,     \* client: idx, the bytes still to send
  cRead,    \* client: nread
  cLeft,    \* client: left
  spc,      \* server thread: "recv", "more", "exec", "send"
  sIdx, sRead, sLeft,
  upSent, upRcvd,     \* bytes put into / taken from the request stream
  upStart, upLen,     \* where the latest request begins, and its size
  dnSent, dnRcvd,     \* the same for the reply stream
  dnStart, dnLen,
  calls, execs, returns

client == <<cpc, cIdx, cRead, cLeft>>
server == <<spc, sIdx, sRead, sLeft>>
up     == <<upSent, upRcvd, upStart, upLen>>
dn     == <<dnSent, dnRcvd, dnStart, dnLen>>
count  == <<calls, execs, returns>>
vars   == <<client, server, up, dn, count>>

Init ==
  /\ cpc = "idle" /\ cIdx = 0 /\ cRead = 0 /\ cLeft = 0
  /\ spc = "recv" /\ sIdx = 0 /\ sRead = 0 /\ sLeft = 0
  /\ upSent = 0 /\ upRcvd = 0 /\ upStart = 0 /\ upLen = 0
  /\ dnSent = 0 /\ dnRcvd = 0 /\ dnStart = 0 /\ dnLen = 0
  /\ calls = 0 /\ execs = 0 /\ returns = 0

(* The send loops: idx bytes are left; is there another round?             *)
UnsentM1(idx) == idx > 2
Unsent(idx) == idx > 1

(* The receive loops: left bytes are missing; is there another round?      *)
MissingM2(left) == left >= 0
MissingM3(left) == left > BUFSIZE
Missing(left) == left > 0

(* The length word found by a first recv of n bytes taken at position pos. *)
WordsReadM1(n, pos, start, len) == {len - 1}
WordsRead(n, pos, start, len) ==
  IF n >= LenBytes /\ pos = start THEN {len} ELSE Words

(* recv() blocks on an empty stream and returns some of what is there.     *)
Recv(n, sent, rcvd) == n >= 1 /\ n <= BUFSIZE /\ n <= sent - rcvd

-----------------------------------------------------------------------------
(* The client: tpl_rpc_call. *)

Call(n) ==
  /\ cpc = "idle" /\ calls < MaxCalls
  /\ cpc' = "send" /\ cIdx' = n
  /\ upStart' = upSent /\ upLen' = n
  /\ calls' = calls + 1
  /\ UNCHANGED <<cRead, cLeft, server, upSent, upRcvd, dn, execs, returns>>

ClientSend(n) ==
  /\ cpc = "send" /\ n <= cIdx
  /\ upSent' = upSent + n
  /\ cIdx' = cIdx - n
  /\ cpc' = IF Unsent(cIdx - n) THEN "send" ELSE "recv"
  /\ UNCHANGED <<cRead, cLeft, server, upRcvd, upStart, upLen, dn, count>>

(* What the client does with its `left`: loop, or return from the call.    *)
ClientGot(read, missing) ==
  /\ cRead' = read /\ cLeft' = missing
  /\ IF Missing(missing)
       THEN cpc' = "more" /\ returns' = returns
       ELSE cpc' = "idle" /\ returns' = returns + 1

ClientRecvFirst(n) ==
  /\ cpc = "recv" /\ n >= MinFirst /\ Recv(n, dnSent, dnRcvd)
  /\ dnRcvd' = dnRcvd + n
  /\ \E len \in WordsRead(n, dnRcvd, dnStart, dnLen) : ClientGot(n, len - n)
  /\ UNCHANGED <<cIdx, server, up, dnSent, dnStart, dnLen, calls, execs>>

ClientRecvMore(n) ==
  /\ cpc = "more" /\ Recv(n, dnSent, dnRcvd)
  /\ dnRcvd' = dnRcvd + n
  /\ ClientGot(cRead + n, cLeft - n)
  /\ UNCHANGED <<cIdx, server, up, dnSent, dnStart, dnLen, calls, execs>>

-----------------------------------------------------------------------------
(* The server thread of the connection: handle_client. *)

ServerGot(read, missing) ==
  /\ sRead' = read /\ sLeft' = missing
  /\ spc' = IF Missing(missing) THEN "more" ELSE "exec"

ServerRecvFirst(n) ==
  /\ spc = "recv" /\ n >= MinFirst /\ Recv(n, upSent, upRcvd)
  /\ upRcvd' = upRcvd + n
  /\ \E len \in WordsRead(n, upRcvd, upStart, upLen) : ServerGot(n, len - n)
  /\ UNCHANGED <<client, sIdx, upSent, upStart, upLen, dn, count>>

ServerRecvMore(n) ==
  /\ spc = "more" /\ Recv(n, upSent, upRcvd)
  /\ upRcvd' = upRcvd + n
  /\ ServerGot(sRead + n, sLeft - n)
  /\ UNCHANGED <<client, sIdx, upSent, upStart, upLen, dn, count>>

(* process_request runs the handler and the reply is given its length.     *)
ServerExec(n) ==
  /\ spc = "exec"
  /\ spc' = "send" /\ sIdx' = n
  /\ dnStart' = dnSent /\ dnLen' = n
  /\ execs' = execs + 1
  /\ UNCHANGED <<client, sRead, sLeft, up, dnSent, dnRcvd, calls, returns>>

ServerSend(n) ==
  /\ spc = "send" /\ n <= sIdx
  /\ dnSent' = dnSent + n
  /\ sIdx' = sIdx - n
  /\ spc' = IF Unsent(sIdx - n) THEN "send" ELSE "recv"
  /\ UNCHANGED <<client, sRead, sLeft, up, dnRcvd, dnStart, dnLen, count>>

-----------------------------------------------------------------------------
ClientStep ==
  \/ \E n \in ReqSizes : Call(n)
  \/ \E n \in 1..cIdx : ClientSend(n)
  \/ \E n \in 1..BUFSIZE : ClientRecvFirst(n) \/ ClientRecvMore(n)

ServerStep ==
  \/ \E n \in 1..BUFSIZE : ServerRecvFirst(n) \/ ServerRecvMore(n)
  \/ \E n \in RepSizes : ServerExec(n)
  \/ \E n \in 1..sIdx : ServerSend(n)

Next == ClientStep \/ ServerStep

Spec == Init /\ [][Next]_vars

(* The application may stop calling; a call once begun keeps running, a    *)
(* blocked recv returns when there are bytes, and a handler returns.       *)
Fairness ==
  /\ WF_vars(\E n \in 1..cIdx : ClientSend(n))
  /\ WF_vars(\E n \in 1..BUFSIZE : ClientRecvFirst(n) \/ ClientRecvMore(n))
  /\ WF_vars(ServerStep)

FairSpec == Spec /\ Fairness

-----------------------------------------------------------------------------
(* Properties *)

TypeOK ==
  /\ cpc \in {"idle", "send", "recv", "more"}
  /\ spc \in {"recv", "more", "exec", "send"}
  /\ cIdx \in Nat /\ cRead \in Nat /\ cLeft \in Int
  /\ sIdx \in Nat /\ sRead \in Nat /\ sLeft \in Int
  /\ upSent \in Nat /\ upRcvd \in Nat /\ upStart \in Nat /\ upLen \in Nat
  /\ dnSent \in Nat /\ dnRcvd \in Nat /\ dnStart \in Nat /\ dnLen \in Nat
  /\ calls \in Nat /\ execs \in Nat /\ returns \in Nat

(* The first recv of every message is made exactly where a message begins: *)
(* no byte of an earlier message is left in the stream, and none of the    *)
(* next one has been taken, so the four bytes it interprets as a length    *)
(* (and_rpc_server.c:175, and_rpc_clnt.c:224) are the length word.         *)
Aligned ==
  /\ spc = "recv" /\ upRcvd < upSent => upRcvd = upStart
  /\ cpc = "recv" /\ dnRcvd < dnSent => dnRcvd = dnStart

(* The receive loops copy what recv returned into a block of exactly *len  *)
(* bytes and never compare the count with what is left                     *)
(* (and_rpc_server.c:180-191): whatever recv returns next must fit.        *)
FitsBigBuf ==
  /\ spc = "more" => upSent - upRcvd <= sLeft
  /\ cpc = "more" => dnSent - dnRcvd <= cLeft

(* A handler runs only on a request that has been read to its last byte.   *)
ExecutesWholeRequest ==
  spc = "exec" => upRcvd = upStart + upLen /\ sRead = upLen

(* Nothing can move: both sides are in a recv on an empty stream.          *)
Stuck ==
  /\ cpc \in {"recv", "more"} /\ dnSent = dnRcvd
  /\ spc \in {"recv", "more"} /\ upSent = upRcvd

(* The two sides wait for each other forever only when a send loop has     *)
(* left its last byte behind, which `while (idx > 1)` does when the sends  *)
(* before it add up to all bytes but one.                                  *)
StuckOnlyByDroppedByte == Stuck => cIdx = 1 \/ sIdx = 1

(* ... and when it has, the call is lost: a request without its last byte  *)
(* is never executed, and a reply without it never returns.                *)
DroppedByteIsFatal ==
  /\ cpc = "recv" /\ cIdx = 1 => execs < calls
  /\ spc = "recv" /\ sIdx = 1 => returns < calls

(* The framing implements synchronous, exactly-once, in-order calls.       *)
Call_ == INSTANCE RpcCall
ImplementsRpcCall == Call_!CallSpec

(* Every call that is begun returns, unless a send loop dropped a byte.    *)
CallReturns == (cpc = "send") ~> (cpc = "idle" \/ cIdx = 1 \/ sIdx = 1)
==============================================================================
