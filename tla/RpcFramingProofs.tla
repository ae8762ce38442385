--------------------------- MODULE RpcFramingProofs --------------------------
(***************************************************************************)
(* Proofs about RpcFraming for every buffer size, every set of message     *)
(* sizes and every chunking, under the one assumption that the first recv  *)
(* of a message returns the whole length word.                             *)
(***************************************************************************)
EXTENDS RpcFraming, TLAPS

ASSUME WholeWord == MinFirst = LenBytes

(* The inductive invariant says where a call can stand.                    *)

\* Neither side is in the middle of anything and both streams are empty.
AtRest ==
  /\ spc = "recv" /\ sIdx = 0 /\ upRcvd = upSent /\ dnRcvd = dnSent
  /\ execs = calls /\ returns = calls

\* The server has read nothing, or some, of the request being sent.
ReadingRequest ==
  /\ \/ spc = "recv" /\ upRcvd = upStart
     \/ /\ spc = "more" /\ sRead = upRcvd - upStart
        /\ sLeft = upLen - sRead /\ sLeft > 0
  /\ upRcvd <= upSent
  /\ execs + 1 = calls /\ dnRcvd = dnSent

\* The handler may run: the request is complete.
Executing ==
  /\ spc = "exec" /\ sRead = upLen /\ upRcvd = upStart + upLen
  /\ cIdx = 0 /\ execs + 1 = calls /\ dnRcvd = dnSent

\* The reply is being sent, or has been sent up to at most one byte.
Replying ==
  /\ spc \in {"send", "recv"} /\ execs = calls
  /\ upRcvd = upSent /\ cIdx = 0
  /\ dnSent = dnStart + dnLen - sIdx /\ sIdx <= dnLen
  /\ IF spc = "send" THEN sIdx > 1 ELSE sIdx <= 1
  /\ dnLen > 1 /\ dnStart <= dnRcvd /\ dnRcvd <= dnSent

\* The request has been sent except for its last cIdx bytes.
Sent ==
  /\ upSent = upStart + upLen - cIdx /\ upLen > 1 /\ cIdx <= upLen

CInv ==
  /\ cpc = "idle" => AtRest
  /\ cpc = "send" => Sent /\ cIdx > 1 /\ ReadingRequest
  /\ cpc = "recv" =>
       /\ Sent /\ cIdx <= 1
       /\ \/ ReadingRequest \/ Executing
          \/ Replying /\ dnRcvd = dnStart
  /\ cpc = "more" =>
       /\ Sent /\ Replying
       /\ cRead = dnRcvd - dnStart /\ cLeft = dnLen - cRead /\ cLeft > 0
  /\ cpc # "idle" => returns + 1 = calls

IInv == TypeOK /\ CInv

-----------------------------------------------------------------------------
LEMMA InitIInv == Init => IInv
BY DEF Init, IInv, TypeOK, CInv, AtRest

LEMMA NextType == TypeOK /\ [Next]_vars => TypeOK'
<1> SUFFICES ASSUME TypeOK, [Next]_vars PROVE TypeOK'
  OBVIOUS
<1> USE FramingAssumption DEF TypeOK
<1>1. ASSUME NEW n \in ReqSizes, Call(n) PROVE TypeOK'
  BY <1>1 DEF Call, server, dn
<1>2. ASSUME NEW n \in 1..cIdx, ClientSend(n) PROVE TypeOK'
  BY <1>2 DEF ClientSend, Unsent, server, dn, count
<1>3. ASSUME NEW n \in 1..BUFSIZE, ClientRecvFirst(n) PROVE TypeOK'
  BY <1>3 DEF ClientRecvFirst, ClientGot, Missing, WordsRead, Recv, server, up
<1>4. ASSUME NEW n \in 1..BUFSIZE, ClientRecvMore(n) PROVE TypeOK'
  BY <1>4 DEF ClientRecvMore, ClientGot, Missing, Recv, server, up
<1>5. ASSUME NEW n \in 1..BUFSIZE, ServerRecvFirst(n) PROVE TypeOK'
  BY <1>5 DEF ServerRecvFirst, ServerGot, Missing, WordsRead, Recv, client, dn, count
<1>6. ASSUME NEW n \in 1..BUFSIZE, ServerRecvMore(n) PROVE TypeOK'
  BY <1>6 DEF ServerRecvMore, ServerGot, Missing, Recv, client, dn, count
<1>7. ASSUME NEW n \in RepSizes, ServerExec(n) PROVE TypeOK'
  BY <1>7 DEF ServerExec, client, up
<1>8. ASSUME NEW n \in 1..sIdx, ServerSend(n) PROVE TypeOK'
  BY <1>8 DEF ServerSend, Unsent, client, up, count
<1>9. CASE UNCHANGED vars
  BY <1>9 DEF vars, client, server, up, dn, count
<1>10. QED
  BY <1>1, <1>2, <1>3, <1>4, <1>5, <1>6, <1>7, <1>8, <1>9
  DEF Next, ClientStep, ServerStep

LEMMA NextCInv == IInv /\ [Next]_vars => CInv'
<1> SUFFICES ASSUME IInv, [Next]_vars PROVE CInv'
  OBVIOUS
<1> USE FramingAssumption, WholeWord
    DEF IInv, TypeOK, CInv, AtRest, ReadingRequest, Executing, Replying, Sent
<1>1. ASSUME NEW n \in ReqSizes, Call(n) PROVE CInv'
  BY <1>1 DEF Call, server, dn
<1>2. ASSUME NEW n \in 1..cIdx, ClientSend(n) PROVE CInv'
  BY <1>2 DEF ClientSend, Unsent, server, dn, count
<1>3. ASSUME NEW n \in 1..BUFSIZE, ClientRecvFirst(n) PROVE CInv'
  BY <1>3 DEF ClientRecvFirst, ClientGot, Missing, WordsRead, Recv, server, up
<1>4. ASSUME NEW n \in 1..BUFSIZE, ClientRecvMore(n) PROVE CInv'
  BY <1>4 DEF ClientRecvMore, ClientGot, Missing, Recv, server, up
<1>5. ASSUME NEW n \in 1..BUFSIZE, ServerRecvFirst(n) PROVE CInv'
  BY <1>5 DEF ServerRecvFirst, ServerGot, Missing, WordsRead, Recv, client, dn, count
<1>6. ASSUME NEW n \in 1..BUFSIZE, ServerRecvMore(n) PROVE CInv'
  BY <1>6 DEF ServerRecvMore, ServerGot, Missing, Recv, client, dn, count
<1>7. ASSUME NEW n \in RepSizes, ServerExec(n) PROVE CInv'
  BY <1>7 DEF ServerExec, client, up
<1>8. ASSUME NEW n \in 1..sIdx, ServerSend(n) PROVE CInv'
  BY <1>8 DEF ServerSend, Unsent, client, up, count
<1>9. CASE UNCHANGED vars
  BY <1>9 DEF vars, client, server, up, dn, count
<1>10. QED
  BY <1>1, <1>2, <1>3, <1>4, <1>5, <1>6, <1>7, <1>8, <1>9
  DEF Next, ClientStep, ServerStep

LEMMA Invariance == Spec => []IInv
<1>1. IInv /\ [Next]_vars => IInv'
  BY NextType, NextCInv DEF IInv
<1>2. QED
  BY InitIInv, <1>1, PTL DEF Spec

-----------------------------------------------------------------------------
(* Every variable of the two loops keeps its type, `left` going negative   *)
(* included.                                                               *)
THEOREM TypeCorrect == Spec => []TypeOK
BY Invariance, PTL DEF IInv

(* The first recv of every request and of every reply is made exactly      *)
(* where the message begins, whatever the sizes and the chunking, so the   *)
(* length both sides work with is the one the other side wrote.            *)
THEOREM FramingKept == Spec => []Aligned
<1>1. IInv => Aligned
  BY DEF IInv, TypeOK, CInv, AtRest, ReadingRequest, Executing, Replying,
         Sent, Aligned
<1>2. QED
  BY Invariance, <1>1, PTL

(* The unchecked memcpy of the receive loops stays inside the block of     *)
(* *len bytes, because no byte beyond the message can be in the stream.    *)
THEOREM NoOverrun == Spec => []FitsBigBuf
<1>1. IInv => FitsBigBuf
  BY DEF IInv, TypeOK, CInv, AtRest, ReadingRequest, Executing, Replying,
         Sent, FitsBigBuf
<1>2. QED
  BY Invariance, <1>1, PTL

(* A handler runs only on a request that was read to its last byte.        *)
THEOREM WholeRequests == Spec => []ExecutesWholeRequest
<1>1. IInv => ExecutesWholeRequest
  BY DEF IInv, TypeOK, CInv, AtRest, ReadingRequest, Executing, Replying,
         Sent, ExecutesWholeRequest
<1>2. QED
  BY Invariance, <1>1, PTL

(* The only way for both sides to wait forever is a send loop that stopped *)
(* with one byte left.                                                     *)
THEOREM StuckCause == Spec => []StuckOnlyByDroppedByte
<1>1. IInv => StuckOnlyByDroppedByte
  BY DEF IInv, TypeOK, CInv, AtRest, ReadingRequest, Executing, Replying,
         Sent, StuckOnlyByDroppedByte, Stuck
<1>2. QED
  BY Invariance, <1>1, PTL

(* A dropped byte loses the call it belongs to for good.                   *)
THEOREM DroppedByteLosesCall == Spec => []DroppedByteIsFatal
<1>1. IInv => DroppedByteIsFatal
  BY DEF IInv, TypeOK, CInv, AtRest, ReadingRequest, Executing, Replying,
         Sent, DroppedByteIsFatal
<1>2. QED
  BY Invariance, <1>1, PTL

-----------------------------------------------------------------------------
(* Every step of the framing is a step of RpcCall or leaves it unchanged.  *)
LEMMA StepSimulation == IInv /\ [Next]_vars => [Call_!CallNext]_(Call_!callVars)
<1> SUFFICES ASSUME IInv, [Next]_vars
             PROVE  [Call_!CallNext]_(Call_!callVars)
  OBVIOUS
<1> USE FramingAssumption, WholeWord
    DEF IInv, TypeOK, CInv, AtRest, ReadingRequest, Executing, Replying, Sent,
        Call_!CallNext, Call_!callVars, Call_!Begin, Call_!Execute,
        Call_!Finish
<1>1. ASSUME NEW n \in ReqSizes, Call(n) PROVE Call_!Begin
  BY <1>1 DEF Call
<1>2. ASSUME NEW n \in 1..cIdx, ClientSend(n)
      PROVE  UNCHANGED Call_!callVars
  BY <1>2 DEF ClientSend, Unsent, count
<1>3. ASSUME NEW n \in 1..BUFSIZE, ClientRecvFirst(n)
      PROVE  Call_!Finish \/ UNCHANGED Call_!callVars
  BY <1>3 DEF ClientRecvFirst, ClientGot, Missing, WordsRead, Recv
<1>4. ASSUME NEW n \in 1..BUFSIZE, ClientRecvMore(n)
      PROVE  Call_!Finish \/ UNCHANGED Call_!callVars
  BY <1>4 DEF ClientRecvMore, ClientGot, Missing, Recv
<1>5. ASSUME NEW n \in 1..BUFSIZE,
             ServerRecvFirst(n) \/ ServerRecvMore(n)
      PROVE  UNCHANGED Call_!callVars
  BY <1>5 DEF ServerRecvFirst, ServerRecvMore, count
<1>6. ASSUME NEW n \in RepSizes, ServerExec(n) PROVE Call_!Execute
  BY <1>6 DEF ServerExec
<1>7. ASSUME NEW n \in 1..sIdx, ServerSend(n)
      PROVE  UNCHANGED Call_!callVars
  BY <1>7 DEF ServerSend, Unsent, count
<1>8. CASE UNCHANGED vars
  BY <1>8 DEF vars, count
<1>9. QED
  BY <1>1, <1>2, <1>3, <1>4, <1>5, <1>6, <1>7, <1>8
  DEF Next, ClientStep, ServerStep

(* The byte-level exchange implements synchronous, exactly-once, in-order  *)
(* calls.                                                                  *)
THEOREM Refinement == Spec => ImplementsRpcCall
<1>1. Init => Call_!CallInit
  BY DEF Init, Call_!CallInit
<1>2. QED
  BY Invariance, StepSimulation, <1>1, PTL
  DEF Spec, ImplementsRpcCall, Call_!CallSpec
==============================================================================
