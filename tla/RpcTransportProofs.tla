------------------------- MODULE RpcTransportProofs -------------------------
(***************************************************************************)
(* Proofs about RpcTransport for every buffer size, every set of message   *)
(* sizes, any number of calls and every chunking, with processes that exit *)
(* anywhere and sends that take less than they are given.  What is said of *)
(* contents is said while every first recv returned the whole length word, *)
(* which the module records in `whole`.                                    *)
(***************************************************************************)
EXTENDS RpcTransport, SequenceTheorems, TLAPS

(* The inductive invariant: types, counts that hold whatever the first     *)
(* recvs returned, what the two streams hold, where a call can stand, and  *)
(* what the buffers hold of it there.                                      *)

Byte   == {"q", "r", "x"} \X Int \X Int
Buffer == [0..(BUFSIZE - 1) -> Byte]
Blocks == UNION {[0..(m - 1) -> Byte] : m \in Nat}
Entry  == [kind : {"plain", "array"}, req : Nat, rep : Nat]

ControlType ==
  /\ cpc \in {"idle", "send", "recv", "more", "gone", "undefined"}
  /\ spc \in {"recv", "more", "exec", "send", "gone", "ended", "dead",
             "undefined"}
  /\ cIdx \in Nat /\ cRead \in Nat /\ cLeft \in Int
  /\ sIdx \in Nat /\ sRead \in Nat /\ sLeft \in Int
  /\ upSent \in Nat /\ upRcvd \in Nat /\ upStart \in Nat /\ upLen \in Nat
  /\ dnSent \in Nat /\ dnRcvd \in Nat /\ dnStart \in Nat /\ dnLen \in Nat
  /\ calls \in Nat /\ execs \in Nat /\ returns \in Nat
  /\ cFrag \in BOOLEAN /\ sFrag \in BOOLEAN /\ argsOk \in BOOLEAN
  /\ heap \in {"null", "live", "freed", "corrupt"} /\ leaks \in Nat
  /\ out \in {"none", "right", "wrong", "rejected"}
  /\ leftIn \in {"none", "idle", "send", "recv", "more"} /\ whole \in BOOLEAN

BlocksType ==
  /\ log \in Seq(Entry) /\ Len(log) = calls
  /\ upBytes \in Seq(Byte) /\ Len(upBytes) = upSent
  /\ dnBytes \in Seq(Byte) /\ Len(dnBytes) = dnSent
  /\ cbuf \in Buffer /\ sbuf \in Buffer
  /\ cbig \in Blocks /\ sbig \in Blocks /\ sMsg \in Blocks

CountsInv ==
  /\ upSent + cIdx = upStart + upLen /\ cIdx <= upLen /\ upRcvd <= upSent
  /\ dnSent + sIdx = dnStart + dnLen /\ sIdx <= dnLen /\ dnRcvd <= dnSent
  /\ calls > 0 => upLen \in ReqSizes
  /\ execs > 0 => dnLen \in RepSizes
  /\ leaks <= calls /\ (cpc \in {"send", "recv"} => leaks < calls)
  /\ cpc = "more" => cFrag /\ heap = "live"
  /\ cpc = "gone" => leftIn # "none"
  /\ spc = "more" => sFrag

StreamsInv ==
  /\ \A p \in (upStart + 1)..upSent :
       upBytes[p] = <<"q", calls, p - upStart - 1>>
  /\ \A p \in (dnStart + 1)..dnSent :
       dnBytes[p] = IF p - dnStart - 1 \in DOMAIN sMsg
                      THEN sMsg[p - dnStart - 1] ELSE Junk

\* Where the client stands, or stood when it exited.
Place == IF cpc = "gone" THEN leftIn ELSE cpc

\* The server thread runs no further.
Stopped == spc \in {"gone", "ended", "dead", "undefined"}

AtRest ==
  /\ spc = "recv" \/ Stopped
  /\ sIdx = 0 /\ upRcvd = upSent /\ dnRcvd = dnSent
  /\ execs = calls /\ returns = calls

ReadingRequest ==
  /\ \/ spc = "recv" /\ upRcvd = upStart
     \/ /\ spc = "more" /\ sRead = upRcvd - upStart
        /\ sLeft = upLen - sRead /\ sLeft > 0
     \/ Stopped
  /\ execs + 1 = calls /\ dnRcvd = dnSent

Executing ==
  /\ spc = "exec" /\ sRead = upLen /\ upRcvd = upStart + upLen
  /\ cIdx = 0 /\ execs + 1 = calls /\ dnRcvd = dnSent

Replying ==
  /\ \/ spc = "send" /\ sIdx > 1
     \/ spc = "recv" /\ sIdx <= 1
     \/ Stopped
  /\ execs = calls /\ upRcvd = upSent /\ cIdx = 0
  /\ dnStart <= dnRcvd

PlaceInv ==
  /\ cpc = "undefined" => ServerLost
  /\ Place = "idle" => AtRest
  /\ Place = "send" => cIdx > 1 /\ ReadingRequest
  /\ Place = "recv" =>
       /\ cIdx <= 1
       /\ ReadingRequest \/ Executing \/ (Replying /\ dnRcvd = dnStart)
  /\ Place = "more" =>
       /\ Replying
       /\ cRead = dnRcvd - dnStart /\ cLeft = dnLen - cRead /\ cLeft > 0
  /\ Place \in {"send", "recv", "more"} => returns + 1 = calls

\* The first n bytes of the request.
Holds(block, n) == \A i \in 0..(n - 1) : block[i] = <<"q", calls, i>>

RequestInv ==
  /\ spc = "more" => sbig \in [0..(upLen - 1) -> Byte] /\ Holds(sbig, sRead)
  /\ spc = "exec" =>
       IF sFrag THEN sbig \in [0..(upLen - 1) -> Byte] /\ Holds(sbig, upLen)
                ELSE upLen <= BUFSIZE /\ Holds(sbuf, upLen)

\* What the block of the reply holds once the handler ran: the image, or,
\* when the handler was told too small a size, what was there before.
Written ==
  \A i \in H_OFFSET..(dnLen - 1) : i \in DOMAIN sMsg /\ sMsg[i] = <<"r", calls, i>>
Refused ==
  /\ sFrag /\ log[calls].kind = "plain"
  /\ H_OFFSET \in DOMAIN sMsg /\ sMsg[H_OFFSET] = <<"q", calls, H_OFFSET>>

ReplyInv ==
  execs = calls /\ calls > 0 =>
    /\ log[calls].rep = dnLen
    /\ log[calls].kind = "plain" => dnLen <= BUFSIZE
    /\ Written \/ Refused
    /\ sFrag \/ argsOk

GatherInv ==
  cpc = "more" =>
    /\ cbig \in [0..(dnLen - 1) -> Byte]
    /\ \A i \in 0..(cRead - 1) : cbig[i] = dnBytes[dnStart + 1 + i]

ReturnInv == CallDecodesItsReply /\ WrongOnlyInPieces /\ BigReplyFreed

\* A thread that met an undefined end met it while the client waits.
EndInv ==
  /\ spc \in {"dead", "undefined"} /\ ~ClientLost =>
       /\ cpc = "recv" /\ dnSent = dnRcvd
       /\ spc = "undefined" /\ sFrag /\ \E n \in ReplySizes : n > upLen
  /\ ServerSurvivesIdleExit

TInv ==
  /\ ControlType /\ BlocksType /\ CountsInv /\ StreamsInv
  /\ whole => /\ PlaceInv /\ RequestInv /\ ReplyInv /\ GatherInv
              /\ ReturnInv /\ EndInv

-----------------------------------------------------------------------------
(* Operators of the model *)

LEMMA OffsetType == H_OFFSET \in Nat /\ LenBytes = 2 /\ H_OFFSET = 3
BY TransportAssumption

LEMMA AfterFreeValues ==
  /\ AfterFree["null"] = "null" /\ AfterFree["live"] = "freed"
  /\ AfterFree["freed"] = "corrupt" /\ AfterFree["corrupt"] = "corrupt"
BY DEF AfterFree

LEMMA AfterFreeType ==
  ASSUME NEW h \in {"null", "live", "freed", "corrupt"}
  PROVE  AfterFree[h] \in {"null", "live", "freed", "corrupt"}
BY AfterFreeValues

LEMMA JunkIsByte == Junk \in Byte
BY DEF Junk, Byte

\* A copy keeps the block's size and the type of its bytes.
LEMMA CopyBytes ==
  ASSUME NEW m \in Nat, NEW block \in [0..(m - 1) -> Byte],
         NEW stream \in Seq(Byte), NEW off \in Int, NEW pos \in Nat,
         NEW n \in Int, pos + n <= Len(stream)
  PROVE  Copy(block, off, stream, pos, n) \in [0..(m - 1) -> Byte]
<1>1. ASSUME NEW i \in 0..(m - 1)
      PROVE  (IF i \in off..(off + n - 1) THEN stream[pos + 1 + i - off]
                                         ELSE block[i]) \in Byte
  <2>1. CASE i \in off..(off + n - 1)
    <3>1. pos + 1 + i - off \in 1..Len(stream)
      BY <2>1
    <3>2. QED
      BY <3>1, <2>1
  <2>2. QED
    BY <2>1
<1>2. DOMAIN block = 0..(m - 1)
  OBVIOUS
<1>3. QED
  BY <1>1, <1>2 DEF Copy

LEMMA CopyBuffer ==
  ASSUME NEW block \in Buffer, NEW stream \in Seq(Byte), NEW off \in Int,
         NEW pos \in Nat, NEW n \in Int, pos + n <= Len(stream)
  PROVE  Copy(block, off, stream, pos, n) \in Buffer
BY CopyBytes, FramingAssumption DEF Buffer

LEMMA CopyBlock ==
  ASSUME NEW block \in Blocks, NEW stream \in Seq(Byte), NEW off \in Int,
         NEW pos \in Nat, NEW n \in Int, pos + n <= Len(stream)
  PROVE  Copy(block, off, stream, pos, n) \in Blocks
<1>1. PICK m \in Nat : block \in [0..(m - 1) -> Byte]
  BY DEF Blocks
<1>2. Copy(block, off, stream, pos, n) \in [0..(m - 1) -> Byte]
  BY <1>1, CopyBytes
<1>3. QED
  BY <1>2 DEF Blocks

\* What a copy put into a block, and what it left there.
LEMMA CopyReads ==
  ASSUME NEW block, NEW stream, NEW off, NEW pos, NEW n, NEW i \in DOMAIN block
  PROVE  Copy(block, off, stream, pos, n)[i] =
           IF i \in off..(off + n - 1) THEN stream[pos + 1 + i - off]
                                      ELSE block[i]
BY DEF Copy

LEMMA BufferIsBlock == Buffer \subseteq Blocks
BY FramingAssumption DEF Buffer, Blocks

LEMMA FreshType ==
  ASSUME NEW len \in Nat, NEW buf \in Blocks, NEW n \in Int
  PROVE  FreshBlock(len, buf, n) \in [0..(len - 1) -> Byte]
<1>1. PICK m \in Nat : buf \in [0..(m - 1) -> Byte]
  BY DEF Blocks
<1>2. DOMAIN buf = 0..(m - 1)
  BY <1>1
<1>3. ASSUME NEW i \in 0..(len - 1)
      PROVE  (IF i < n /\ i \in DOMAIN buf THEN buf[i] ELSE Junk) \in Byte
  BY <1>1, <1>2, JunkIsByte
<1>4. QED
  BY <1>3 DEF FreshBlock

LEMMA FreshBlocks ==
  ASSUME NEW len \in Nat, NEW buf \in Blocks, NEW n \in Int
  PROVE  FreshBlock(len, buf, n) \in Blocks
BY FreshType DEF Blocks

LEMMA FreshReads ==
  ASSUME NEW len \in Nat, NEW buf, NEW m \in Nat,
         buf \in [0..(m - 1) -> Byte], NEW n \in Int, NEW i \in 0..(len - 1)
  PROVE  FreshBlock(len, buf, n)[i] = IF i < n /\ i < m THEN buf[i] ELSE Junk
<1>1. DOMAIN buf = 0..(m - 1)
  OBVIOUS
<1>2. QED
  BY <1>1 DEF FreshBlock

LEMMA FilledBytes ==
  ASSUME NEW m \in Nat, NEW block \in [0..(m - 1) -> Byte],
         NEW n \in Int, NEW dumped, calls \in Nat
  PROVE  Filled(block, n, dumped) \in [0..(m - 1) -> Byte]
<1>1. DOMAIN block = 0..(m - 1)
  OBVIOUS
<1>2. \A i \in 0..(m - 1) : <<"r", calls, i>> \in Byte /\ block[i] \in Byte
  BY DEF Byte
<1>3. QED
  BY <1>1, <1>2 DEF Filled

LEMMA FilledType ==
  ASSUME NEW block, NEW n \in Int, NEW dumped, calls \in Nat
  PROVE  /\ block \in Buffer => Filled(block, n, dumped) \in Buffer
         /\ block \in Blocks => Filled(block, n, dumped) \in Blocks
<1>1. block \in Buffer => Filled(block, n, dumped) \in Buffer
  BY FilledBytes, FramingAssumption DEF Buffer
<1>2. ASSUME block \in Blocks PROVE Filled(block, n, dumped) \in Blocks
  <2>1. PICK m \in Nat : block \in [0..(m - 1) -> Byte]
    BY <1>2 DEF Blocks
  <2>2. Filled(block, n, dumped) \in [0..(m - 1) -> Byte]
    BY <2>1, FilledBytes
  <2>3. QED
    BY <2>2 DEF Blocks
<1>3. QED
  BY <1>1, <1>2

LEMMA VerdictType ==
  ASSUME NEW src
  PROVE  Verdict(src) \in {"right", "wrong", "rejected"}
BY DEF Verdict

-----------------------------------------------------------------------------
(* The initial state *)

LEMMA InitTInv == TInit => TInv
<1> SUFFICES ASSUME TInit PROVE TInv
  OBVIOUS
<1> USE DEF TInit, Init
<1>1. ControlType
  <2>1. /\ cFrag \in BOOLEAN /\ sFrag \in BOOLEAN /\ argsOk \in BOOLEAN
        /\ whole \in BOOLEAN
    BY Zenon
  <2>2. QED
    BY <2>1 DEF ControlType
<1>2. BlocksType
  <2> USE FramingAssumption
  <2>1. cbuf \in Buffer /\ sbuf \in Buffer
    BY JunkIsByte DEF Buffer
  <2>2. <<>> \in [0..(0 - 1) -> Byte]
    OBVIOUS
  <2>3. cbig \in Blocks /\ sbig \in Blocks /\ sMsg \in Blocks
    BY <2>2 DEF Blocks
  <2>4. QED
    BY <2>1, <2>3 DEF BlocksType
<1>3. CountsInv
  BY DEF CountsInv
<1>4. StreamsInv
  BY DEF StreamsInv
<1>5. PlaceInv
  BY DEF PlaceInv, Place, AtRest
<1>6. RequestInv /\ ReplyInv /\ GatherInv
  BY DEF RequestInv, ReplyInv, GatherInv
<1>7. ReturnInv
  BY DEF ReturnInv, CallDecodesItsReply, WrongOnlyInPieces, BigReplyFreed
<1>8. EndInv
  BY DEF EndInv, ServerSurvivesIdleExit
<1>9. QED
  BY <1>1, <1>2, <1>3, <1>4, <1>5, <1>6, <1>7, <1>8 DEF TInv

-----------------------------------------------------------------------------
(* Types *)

LEMMA NextControl == ControlType /\ [TNext]_tvars => ControlType'
<1> SUFFICES ASSUME ControlType, [TNext]_tvars PROVE ControlType'
  OBVIOUS
<1> USE FramingAssumption DEF ControlType
<1>1. ASSUME NEW n \in ReqSizes, NEW kind, BuildRequest(n, kind)
      PROVE  ControlType'
  <2>1. cFrag' \in BOOLEAN
    BY <1>1, Zenon DEF BuildRequest
  <2>2. QED
    BY <1>1, <2>1 DEF BuildRequest, Call, server, dn, smem, past
<1>2. ASSUME NEW n \in 1..cIdx, SendRequest(n) PROVE ControlType'
  BY <1>2 DEF SendRequest, ClientSend, Unsent, server, dn, count, cmem, smem,
              past
<1>3. ASSUME NEW n \in Nat, NEW big, Deliver(n, big), cFrag' \in BOOLEAN
      PROVE  heap' \in {"null", "live", "freed", "corrupt"} /\ leaks' \in Nat
             /\ out' \in {"none", "right", "wrong", "rejected"}
  <2>1. CASE cpc' = "more"
    BY <1>3, <2>1 DEF Deliver
  <2>2. CASE cpc' # "more"
    <3> DEFINE src == IF DecodesBig(n) THEN big ELSE cbuf'
               h == IF cFrag' THEN "live" ELSE heap
    <3>1. out' = Verdict(src) /\ leaks' = leaks
      BY <1>3, <2>2 DEF Deliver
    <3>2. heap' = AfterFree[h] \/ heap' = h
      BY <1>3, <2>2 DEF Deliver
    <3>3. h \in {"null", "live", "freed", "corrupt"}
      OBVIOUS
    <3>4. QED
      BY <3>1, <3>2, <3>3, AfterFreeType, VerdictType
  <2>3. QED
    BY <2>1, <2>2
<1>4. ASSUME NEW n \in 1..BUFSIZE, FirstRecvReply(n) PROVE ControlType'
  <2>1. cFrag' \in BOOLEAN /\ heap' \in {"null", "live", "freed", "corrupt"}
        /\ leaks' \in Nat /\ out' \in {"none", "right", "wrong", "rejected"}
    <3>1. cFrag' \in BOOLEAN
      BY <1>4 DEF FirstRecvReply
    <3>2. CASE cFrag'
      BY <1>4, <3>1, <3>2 DEF FirstRecvReply
    <3>3. CASE ~cFrag'
      <4>1. Deliver(n, cbig)
        BY <1>4, <3>3 DEF FirstRecvReply
      <4>2. QED
        BY <1>3, <3>1, <4>1
    <3>4. QED
      BY <3>2, <3>3
  <2>2. QED
    BY <1>4, <2>1 DEF FirstRecvReply, ClientRecvFirst, ClientGot, Missing,
       WordsRead, Recv, server, up, smem
<1>5. ASSUME NEW n \in 1..BUFSIZE, MoreRecvReply(n) PROVE ControlType'
  <2>1. cFrag' \in BOOLEAN /\ cRead + n \in Nat /\ Deliver(cRead + n, cbig')
    BY <1>5 DEF MoreRecvReply
  <2>2. heap' \in {"null", "live", "freed", "corrupt"} /\ leaks' \in Nat
        /\ out' \in {"none", "right", "wrong", "rejected"}
    BY <1>3, <2>1
  <2>3. QED
    BY <1>5, <2>1, <2>2 DEF MoreRecvReply, ClientRecvMore, ClientGot, Missing,
       Recv, server, up, smem, past
<1>6. ASSUME NEW n \in 1..BUFSIZE, FirstRecvRequest(n) PROVE ControlType'
  BY <1>6 DEF FirstRecvRequest, ServerRecvFirst, ServerGot, Missing, WordsRead,
     Recv, client, dn, count, cmem
<1>7. ASSUME NEW n \in 1..BUFSIZE, MoreRecvRequest(n) PROVE ControlType'
  BY <1>7 DEF MoreRecvRequest, ServerRecvMore, ServerGot, Missing, Recv,
     client, dn, count, cmem, past
<1>8. ASSUME NEW n \in RepSizes, NEW enough \in BOOLEAN, RunHandler(n, enough)
      PROVE  ControlType'
  BY <1>8 DEF RunHandler, ServerExec, client, up, cmem, past
<1>9. ASSUME NEW n \in RepSizes, NEW enough \in BOOLEAN,
             HandlerOverruns(n, enough)
      PROVE  ControlType'
  BY <1>9 DEF HandlerOverruns, client, up, dn, count, cmem, smem, past
<1>10. ASSUME NEW n \in 1..sIdx, SendReply(n) PROVE ControlType'
  BY <1>10 DEF SendReply, ServerSend, Unsent, client, up, count, cmem, smem,
     past
<1>11. CASE ClientLosesServer \/ ClientExit
  BY <1>11 DEF ClientLosesServer, ClientExit, ClientLost, server, up, dn,
     count, cmem, smem, past
<1>12. CASE ServerSeesClose \/ ReplyRefused \/ ServerExit
  BY <1>12 DEF ServerSeesClose, ReplyRefused, ServerExit, client, up, dn,
     count, cmem, smem, past
<1>13. CASE UNCHANGED tvars
  BY <1>13 DEF tvars, vars, client, server, up, dn, count, cmem, smem, past
<1>14. QED
  BY <1>1, <1>2, <1>4, <1>5, <1>6, <1>7, <1>8, <1>9, <1>10, <1>11, <1>12,
     <1>13 DEF TNext, TClient, TServer

-----------------------------------------------------------------------------
(* Counts *)

LEMMA NextCounts ==
  ControlType /\ CountsInv /\ [TNext]_tvars => CountsInv'
<1> SUFFICES ASSUME ControlType, CountsInv, [TNext]_tvars PROVE CountsInv'
  OBVIOUS
<1> USE FramingAssumption DEF ControlType, CountsInv
<1>1. ASSUME NEW n \in ReqSizes, NEW kind, BuildRequest(n, kind)
      PROVE  CountsInv'
  BY <1>1 DEF BuildRequest, Call, server, dn, smem, past
<1>2. ASSUME NEW n \in 1..cIdx, SendRequest(n) PROVE CountsInv'
  BY <1>2 DEF SendRequest, ClientSend, Unsent, server, dn, count, cmem, smem,
              past
<1>4. ASSUME NEW n \in 1..BUFSIZE, FirstRecvReply(n) PROVE CountsInv'
  <2>1. /\ leaks' \in Nat /\ leaks' <= calls
        /\ cpc' = "more" => cFrag' /\ heap' = "live"
    <3>1. cpc' = "more" => cFrag'
      BY <1>4 DEF FirstRecvReply, ClientRecvFirst, ClientGot, Missing
    <3>2. CASE cFrag'
      BY <1>4, <3>2 DEF FirstRecvReply, ClientRecvFirst
    <3>3. CASE ~cFrag'
      BY <1>4, <3>1, <3>3 DEF FirstRecvReply, Deliver
    <3>4. QED
      BY <3>2, <3>3
  <2>2. QED
    BY <1>4, <2>1 DEF FirstRecvReply, ClientRecvFirst, ClientGot, Missing,
       Recv, server, up, smem
<1>5. ASSUME NEW n \in 1..BUFSIZE, MoreRecvReply(n) PROVE CountsInv'
  <2>1. /\ leaks' = leaks
        /\ cpc' = "more" => cFrag' /\ heap' = "live"
    <3>1. Deliver(cRead + n, cbig') /\ cFrag' = cFrag /\ cpc = "more"
      BY <1>5 DEF MoreRecvReply, ClientRecvMore
    <3>2. QED
      BY <3>1 DEF Deliver
  <2>2. QED
    BY <1>5, <2>1 DEF MoreRecvReply, ClientRecvMore, ClientGot, Missing,
       Recv, server, up, smem, past
<1>6. ASSUME NEW n \in 1..BUFSIZE, FirstRecvRequest(n) PROVE CountsInv'
  <2>1. spc' = "more" => sFrag'
    BY <1>6 DEF FirstRecvRequest, ServerRecvFirst, ServerGot, Missing
  <2>2. QED
    BY <1>6, <2>1 DEF FirstRecvRequest, ServerRecvFirst, ServerGot, Recv,
       client, dn, count, cmem
<1>7. ASSUME NEW n \in 1..BUFSIZE, MoreRecvRequest(n) PROVE CountsInv'
  BY <1>7 DEF MoreRecvRequest, ServerRecvMore, ServerGot, Missing, Recv,
     client, dn, count, cmem, past
<1>8. ASSUME NEW n \in RepSizes, NEW enough \in BOOLEAN, RunHandler(n, enough)
      PROVE  CountsInv'
  BY <1>8 DEF RunHandler, ServerExec, client, up, cmem, past
<1>9. ASSUME NEW n \in RepSizes, NEW enough \in BOOLEAN,
             HandlerOverruns(n, enough)
      PROVE  CountsInv'
  BY <1>9 DEF HandlerOverruns, client, up, dn, count, cmem, smem, past
<1>10. ASSUME NEW n \in 1..sIdx, SendReply(n) PROVE CountsInv'
  BY <1>10 DEF SendReply, ServerSend, Unsent, client, up, count, cmem, smem,
     past
<1>11. CASE ClientLosesServer \/ ClientExit
  BY <1>11 DEF ClientLosesServer, ClientExit, ClientLost, server, up, dn,
     count, cmem, smem, past
<1>12. CASE ServerSeesClose \/ ReplyRefused \/ ServerExit
  BY <1>12 DEF ServerSeesClose, ReplyRefused, ServerExit, client, up, dn,
     count, cmem, smem, past
<1>13. CASE UNCHANGED tvars
  BY <1>13 DEF tvars, vars, client, server, up, dn, count, cmem, smem, past
<1>14. QED
  BY <1>1, <1>2, <1>4, <1>5, <1>6, <1>7, <1>8, <1>9, <1>10, <1>11, <1>12,
     <1>13 DEF TNext, TClient, TServer

(* The first bytes of the streams and of the buffers that a step adds or   *)
(* copies are bytes.                                                       *)
LEMMA NextBlocks ==
  ControlType /\ CountsInv /\ BlocksType /\ [TNext]_tvars => BlocksType'
<1> SUFFICES ASSUME ControlType, CountsInv, BlocksType, [TNext]_tvars
             PROVE  BlocksType'
  OBVIOUS
<1>a. /\ BUFSIZE \in Nat /\ calls \in Nat /\ upSent \in Nat /\ dnSent \in Nat
      /\ upRcvd \in Nat /\ dnRcvd \in Nat /\ cRead \in Nat /\ sRead \in Nat
      /\ cIdx \in Nat /\ sIdx \in Nat /\ upLen \in Nat /\ dnLen \in Nat
      /\ upRcvd <= upSent /\ dnRcvd <= dnSent
  BY FramingAssumption DEF ControlType, CountsInv
<1>b. /\ log \in Seq(Entry) /\ Len(log) = calls
      /\ upBytes \in Seq(Byte) /\ Len(upBytes) = upSent
      /\ dnBytes \in Seq(Byte) /\ Len(dnBytes) = dnSent
      /\ cbuf \in Buffer /\ sbuf \in Buffer
      /\ cbig \in Blocks /\ sbig \in Blocks /\ sMsg \in Blocks
  BY DEF BlocksType
<1>c. DOMAIN cbuf = 0..(BUFSIZE - 1) /\ DOMAIN sbuf = 0..(BUFSIZE - 1)
  BY <1>b DEF Buffer
<1>1. ASSUME NEW n \in ReqSizes, NEW kind \in {"plain", "array"},
             BuildRequest(n, kind)
      PROVE  BlocksType'
  <2>1. log' = Append(log, [kind |-> kind, req |-> n, rep |-> 0])
        /\ calls' = calls + 1 /\ n \in Nat
    BY <1>1, FramingAssumption DEF BuildRequest, Call
  <2>2. [kind |-> kind, req |-> n, rep |-> 0] \in Entry
    BY <2>1 DEF Entry
  <2>3. log' \in Seq(Entry) /\ Len(log') = calls'
    BY <1>b, <2>1, <2>2
  <2>4. cbuf' \in Buffer
    <3>1. cbuf' = [i \in 0..(BUFSIZE - 1) |->
             IF i = LenBytes \/ (BuildsInBuf(n) /\ i < n)
               THEN <<"q", calls + 1, i>> ELSE cbuf[i]]
      BY <1>1, <1>c DEF BuildRequest
    <3>2. \A i \in 0..(BUFSIZE - 1) :
            <<"q", calls + 1, i>> \in Byte /\ cbuf[i] \in Byte
      <4>1. calls + 1 \in Nat
        BY <1>a
      <4>2. ASSUME NEW i \in 0..(BUFSIZE - 1) PROVE cbuf[i] \in Byte /\ i \in Nat
        BY <1>a, <1>b DEF Buffer
      <4>3. QED
        BY <4>1, <4>2 DEF Byte
    <3>3. QED
      BY <3>1, <3>2 DEF Buffer
  <2>5. UNCHANGED <<upBytes, dnBytes, upSent, dnSent, sbuf, cbig, sbig, sMsg>>
    BY <1>1 DEF BuildRequest, Call, server, dn, smem
  <2>6. QED
    BY <1>b, <2>3, <2>4, <2>5 DEF BlocksType
<1>2. ASSUME NEW n \in 1..cIdx, SendRequest(n) PROVE BlocksType'
  <2> DEFINE more == [j \in 1..n |-> <<"q", calls, upLen - cIdx + j - 1>>]
  <2>1. upBytes' = upBytes \o more /\ upSent' = upSent + n
    BY <1>2 DEF SendRequest, ClientSend
  <2>2. \A j \in 1..n : <<"q", calls, upLen - cIdx + j - 1>> \in Byte
    BY <1>a DEF Byte
  <2>3. n \in Nat
    BY <1>a
  <2>4. more \in Seq(Byte) /\ Len(more) = n
    BY <2>2, <2>3
  <2> HIDE DEF more
  <2>5. upBytes' \in Seq(Byte) /\ Len(upBytes') = upSent'
    BY <1>b, <2>1, <2>3, <2>4, ConcatProperties
  <2>6. UNCHANGED <<log, calls, dnBytes, dnSent, cbuf, sbuf, cbig, sbig, sMsg>>
    BY <1>2 DEF SendRequest, ClientSend, dn, count, cmem, smem
  <2>7. QED
    BY <1>b, <2>5, <2>6 DEF BlocksType

<1>3. ASSUME NEW n \in 1..BUFSIZE, FirstRecvReply(n) PROVE BlocksType'
  <2>1. /\ n \in Nat /\ cLeft' \in Int
        /\ dnRcvd + n <= dnSent /\ dnRcvd + n <= Len(dnBytes)
    BY <1>3, <1>a, <1>b, NextControl DEF FirstRecvReply, ClientRecvFirst, Recv,
       ControlType
  <2>2. cbuf' \in Buffer
    <3>1. Copy(cbuf, 0, dnBytes, dnRcvd, n) \in Buffer
      BY <1>a, <1>b, <2>1, CopyBuffer
    <3>2. QED
      BY <1>3, <3>1 DEF FirstRecvReply
  <2>3. cbig' \in Blocks
    <3>1. CASE cFrag'
      <4>1. cLeft' > 0
        BY <1>3, <3>1 DEF FirstRecvReply
      <4>2. PICK left \in Int : left = cLeft'
        BY <2>1
      <4>3. left > 0 /\ n \in Nat
        BY <2>1, <4>1, <4>2
      <4>4. PICK len \in Nat : len = n + left
        BY <4>3
      <4>5. FreshBlock(len, cbuf', n) \in Blocks
        <5>1. PICK buf \in Blocks : buf = cbuf'
          BY <2>2, BufferIsBlock
        <5>2. FreshBlock(len, buf, n) \in Blocks
          BY <4>3, FreshBlocks
        <5>3. QED
          BY <5>1, <5>2
      <4>6. cbig' = FreshBlock(len, cbuf', n)
        BY <1>3, <3>1, <4>2, <4>4 DEF FirstRecvReply
      <4>7. QED
        BY <4>5, <4>6
    <3>2. CASE ~cFrag'
      BY <1>3, <1>b, <3>2 DEF FirstRecvReply
    <3>3. QED
      BY <3>1, <3>2
  <2>4. UNCHANGED <<log, calls, upBytes, dnBytes, upSent, dnSent, sbuf, sbig,
                    sMsg>>
    BY <1>3 DEF FirstRecvReply, ClientRecvFirst, up, smem, bytes
  <2>5. QED
    BY <1>b, <2>2, <2>3, <2>4 DEF BlocksType
<1>4. ASSUME NEW n \in 1..BUFSIZE, MoreRecvReply(n) PROVE BlocksType'
  <2>1. n \in Nat /\ dnRcvd + n <= dnSent
    BY <1>4, <1>a DEF MoreRecvReply, ClientRecvMore, Recv
  <2>2. cbuf' \in Buffer
    <3>1. Copy(cbuf, 0, dnBytes, dnRcvd, n) \in Buffer
      BY <1>a, <1>b, <2>1, CopyBuffer
    <3>2. QED
      BY <1>4, <3>1 DEF MoreRecvReply
  <2>3. cbig' \in Blocks
    <3>1. Copy(cbig, cRead, dnBytes, dnRcvd, n) \in Blocks
      BY <1>a, <1>b, <2>1, CopyBlock
    <3>2. QED
      BY <1>4, <3>1 DEF MoreRecvReply
  <2>4. UNCHANGED <<log, calls, upBytes, dnBytes, upSent, dnSent, sbuf, sbig,
                    sMsg>>
    BY <1>4 DEF MoreRecvReply, ClientRecvMore, up, smem, bytes
  <2>5. QED
    BY <1>b, <2>2, <2>3, <2>4 DEF BlocksType
<1>5. ASSUME NEW n \in 1..BUFSIZE, FirstRecvRequest(n) PROVE BlocksType'
  <2>1. n \in Nat /\ upRcvd + n <= upSent /\ sLeft' \in Int
    BY <1>5, <1>a, NextControl DEF FirstRecvRequest, ServerRecvFirst, Recv,
       ControlType
  <2>2. sbuf' \in Buffer
    <3>1. Copy(sbuf, 0, upBytes, upRcvd, n) \in Buffer
      BY <1>a, <1>b, <2>1, CopyBuffer
    <3>2. QED
      BY <1>5, <3>1 DEF FirstRecvRequest
  <2>3. sbig' \in Blocks
    <3>1. CASE sFrag'
      <4>1. sLeft' > 0
        BY <1>5, <3>1 DEF FirstRecvRequest
      <4>2. PICK left \in Int : left = sLeft'
        BY <2>1
      <4>3. left > 0 /\ n \in Nat
        BY <2>1, <4>1, <4>2
      <4>4. PICK len \in Nat : len = n + left
        BY <4>3
      <4>5. FreshBlock(len, sbuf', n) \in Blocks
        <5>1. PICK buf \in Blocks : buf = sbuf'
          BY <2>2, BufferIsBlock
        <5>2. FreshBlock(len, buf, n) \in Blocks
          BY <4>3, FreshBlocks
        <5>3. QED
          BY <5>1, <5>2
      <4>6. sbig' = FreshBlock(len, sbuf', n)
        BY <1>5, <3>1, <4>2, <4>4 DEF FirstRecvRequest
      <4>7. QED
        BY <4>5, <4>6
    <3>2. CASE ~sFrag'
      BY <1>5, <1>b, <3>2 DEF FirstRecvRequest
    <3>3. QED
      BY <3>1, <3>2
  <2>4. UNCHANGED <<log, calls, upBytes, dnBytes, upSent, dnSent, cbuf, cbig,
                    sMsg>>
    BY <1>5 DEF FirstRecvRequest, ServerRecvFirst, dn, count, cmem, bytes
  <2>5. QED
    BY <1>b, <2>2, <2>3, <2>4 DEF BlocksType
<1>6. ASSUME NEW n \in 1..BUFSIZE, MoreRecvRequest(n) PROVE BlocksType'
  <2>1. n \in Nat /\ upRcvd + n <= upSent
    BY <1>6, <1>a DEF MoreRecvRequest, ServerRecvMore, Recv
  <2>2. sbuf' \in Buffer
    <3>1. Copy(sbuf, 0, upBytes, upRcvd, n) \in Buffer
      BY <1>a, <1>b, <2>1, CopyBuffer
    <3>2. QED
      BY <1>6, <3>1 DEF MoreRecvRequest
  <2>3. sbig' \in Blocks
    <3>1. Copy(sbig, sRead, upBytes, upRcvd, n) \in Blocks
      BY <1>a, <1>b, <2>1, CopyBlock
    <3>2. QED
      BY <1>6, <3>1 DEF MoreRecvRequest
  <2>4. UNCHANGED <<log, calls, upBytes, dnBytes, upSent, dnSent, cbuf, cbig,
                    sMsg>>
    BY <1>6 DEF MoreRecvRequest, ServerRecvMore, dn, count, cmem, bytes
  <2>5. QED
    BY <1>b, <2>2, <2>3, <2>4 DEF BlocksType
<1>7. ASSUME NEW n \in RepSizes, NEW enough \in BOOLEAN, RunHandler(n, enough)
      PROVE  BlocksType'
  <2>1. n \in Nat
    BY FramingAssumption
  <2>2. log' \in Seq(Entry) /\ Len(log') = calls
    <3>1. log' = [log EXCEPT ![calls].rep = n]
      BY <1>7 DEF RunHandler
    <3>2. log \in [1..calls -> Entry]
      BY <1>a, <1>b
    <3>3. log' \in [1..calls -> Entry]
      BY <2>1, <3>1, <3>2 DEF Entry
    <3>4. QED
      BY <1>a, <3>3
  <2>3. RequestBlock \in Blocks
    BY <1>b, BufferIsBlock DEF RequestBlock
  <2>4. ReplyBlock(n) \in Blocks
    BY <2>1, <2>3, FreshBlocks, OffsetType DEF ReplyBlock
  <2> DEFINE full == Filled(ReplyBlock(n), n, Dumps(enough))
  <2>5. full \in Blocks
    BY <2>1, <2>4, <1>a, FilledType
  <2>6. sMsg' = full
        /\ sbuf' = IF sFrag \/ n > BUFSIZE THEN sbuf ELSE full
    BY <1>7 DEF RunHandler
  <2>7. sbuf' \in Buffer
    <3>1. CASE sFrag \/ n > BUFSIZE
      BY <2>6, <3>1, <1>b
    <3>2. CASE ~(sFrag \/ n > BUFSIZE)
      <4>1. ReplyBlock(n) \in Buffer
        BY <1>b, <3>2 DEF ReplyBlock, RequestBlock
      <4>2. full \in Buffer
        BY <2>1, <4>1, <1>a, FilledType
      <4>3. QED
        BY <2>6, <3>2, <4>2
    <3>3. QED
      BY <3>1, <3>2
  <2>8. sMsg' \in Blocks
    BY <2>5, <2>6
  <2>9. UNCHANGED <<calls, upBytes, dnBytes, upSent, dnSent, cbuf, cbig, sbig>>
    BY <1>7 DEF RunHandler, ServerExec, up, cmem
  <2>10. QED
    BY <1>b, <2>2, <2>7, <2>8, <2>9 DEF BlocksType
<1>8. ASSUME NEW n \in 1..sIdx, SendReply(n) PROVE BlocksType'
  <2> DEFINE more == [j \in 1..n |->
                        LET i == dnLen - sIdx + j - 1
                        IN IF i \in DOMAIN sMsg THEN sMsg[i] ELSE Junk]
  <2>1. dnBytes' = dnBytes \o more /\ dnSent' = dnSent + n
    BY <1>8 DEF SendReply, ServerSend
  <2>2. PICK m \in Nat : sMsg \in [0..(m - 1) -> Byte]
    BY <1>b DEF Blocks
  <2>3. \A j \in 1..n : (LET i == dnLen - sIdx + j - 1
                         IN IF i \in DOMAIN sMsg THEN sMsg[i] ELSE Junk) \in Byte
    BY <2>2, JunkIsByte
  <2>4. n \in Nat
    BY <1>a
  <2>5. more \in Seq(Byte) /\ Len(more) = n
    BY <2>3, <2>4
  <2> HIDE DEF more
  <2>6. dnBytes' \in Seq(Byte) /\ Len(dnBytes') = dnSent'
    BY <1>b, <2>1, <2>4, <2>5, ConcatProperties
  <2>7. UNCHANGED <<log, calls, upBytes, upSent, cbuf, sbuf, cbig, sbig, sMsg>>
    BY <1>8 DEF SendReply, ServerSend, up, count, cmem, smem
  <2>8. QED
    BY <1>b, <2>6, <2>7 DEF BlocksType
<1>9. ASSUME UNCHANGED <<log, calls, upBytes, dnBytes, upSent, dnSent, cbuf,
                         sbuf, cbig, sbig, sMsg>>
      PROVE  BlocksType'
  BY <1>9, <1>b DEF BlocksType
<1>10. ASSUME NEW n \in RepSizes, NEW enough \in BOOLEAN,
              HandlerOverruns(n, enough)
       PROVE  BlocksType'
  BY <1>9, <1>10 DEF HandlerOverruns, up, dn, count, cmem, smem, bytes
<1>11. CASE ClientLosesServer \/ ClientExit
  BY <1>9, <1>11 DEF ClientLosesServer, ClientExit, server, up, dn,
     count, cmem, smem, bytes
<1>12. CASE ServerSeesClose \/ ReplyRefused \/ ServerExit
  BY <1>9, <1>12 DEF ServerSeesClose, ReplyRefused, ServerExit, client, up, dn,
     count, cmem, smem, bytes
<1>13. CASE UNCHANGED tvars
  BY <1>9, <1>13 DEF tvars, vars, up, dn, count, cmem, smem, bytes
<1>14. QED
  BY <1>1, <1>2, <1>3, <1>4, <1>5, <1>6, <1>7, <1>8, <1>10, <1>11, <1>12,
     <1>13 DEF TNext, TClient, TServer

-----------------------------------------------------------------------------
(* What the streams hold *)

LEMMA NextStreams ==
  ControlType /\ CountsInv /\ BlocksType /\ StreamsInv /\ [TNext]_tvars
    => StreamsInv'
<1> SUFFICES ASSUME ControlType, CountsInv, BlocksType, StreamsInv,
                    [TNext]_tvars
             PROVE  StreamsInv'
  OBVIOUS
<1>a. /\ calls \in Nat /\ upSent \in Nat /\ dnSent \in Nat
      /\ upStart \in Nat /\ dnStart \in Nat
      /\ cIdx \in Nat /\ sIdx \in Nat /\ upLen \in Nat /\ dnLen \in Nat
      /\ upSent + cIdx = upStart + upLen /\ dnSent + sIdx = dnStart + dnLen
  BY DEF ControlType, CountsInv
<1>b. /\ upBytes \in Seq(Byte) /\ Len(upBytes) = upSent
      /\ dnBytes \in Seq(Byte) /\ Len(dnBytes) = dnSent
  BY DEF BlocksType
<1> DEFINE Up == \A p \in (upStart + 1)..upSent :
                   upBytes[p] = <<"q", calls, p - upStart - 1>>
           Dn == \A p \in (dnStart + 1)..dnSent :
                   dnBytes[p] = IF p - dnStart - 1 \in DOMAIN sMsg
                                  THEN sMsg[p - dnStart - 1] ELSE Junk
<1>c. Up /\ Dn
  BY DEF StreamsInv
<1>d. ASSUME UNCHANGED <<upStart, upSent, upBytes, calls>> PROVE Up'
  BY <1>c, <1>d
<1>e. ASSUME UNCHANGED <<dnStart, dnSent, dnBytes, sMsg>> PROVE Dn'
  BY <1>c, <1>e
<1>f. Up' /\ Dn' => StreamsInv'
  BY DEF StreamsInv
<1>1. ASSUME NEW n \in ReqSizes, NEW kind \in {"plain", "array"},
             BuildRequest(n, kind)
      PROVE  Up' /\ Dn'
  <2>1. upStart' = upSent /\ upSent' = upSent
        /\ UNCHANGED <<dnStart, dnSent, dnBytes, sMsg>>
    BY <1>1 DEF BuildRequest, Call, dn, smem
  <2>2. (upStart' + 1)..upSent' = {}
    BY <2>1, <1>a
  <2>3. QED
    BY <2>1, <2>2, <1>e
<1>2. ASSUME NEW n \in 1..cIdx, SendRequest(n) PROVE Up' /\ Dn'
  <2> DEFINE more == [j \in 1..n |-> <<"q", calls, upLen - cIdx + j - 1>>]
  <2>1. upBytes' = upBytes \o more /\ upSent' = upSent + n /\ calls' = calls
        /\ upStart' = upStart /\ UNCHANGED <<dnStart, dnSent, dnBytes, sMsg>>
    BY <1>2 DEF SendRequest, ClientSend, dn, smem, count
  <2>2. n \in Nat
    BY <1>a
  <2>3. \A j \in 1..n : <<"q", calls, upLen - cIdx + j - 1>> \in Byte
    BY <1>a DEF Byte
  <2>4. more \in Seq(Byte) /\ Len(more) = n
    BY <2>2, <2>3
  <2>5. \A j \in 1..n : more[j] = <<"q", calls, upLen - cIdx + j - 1>>
    OBVIOUS
  <2> HIDE DEF more
  <2>6. \A i \in 1..(upSent + n) :
          (upBytes \o more)[i] = IF i <= upSent THEN upBytes[i]
                                                ELSE more[i - upSent]
    BY <1>b, <2>4, ConcatProperties
  <2>7. ASSUME NEW p \in (upStart + 1)..(upSent + n)
        PROVE  (upBytes \o more)[p] = <<"q", calls, p - upStart - 1>>
    <3>1. p \in 1..(upSent + n)
      BY <1>a, <2>2
    <3>2. CASE p <= upSent
      <4>1. (upBytes \o more)[p] = upBytes[p]
        BY <2>6, <3>1, <3>2
      <4>2. p \in (upStart + 1)..upSent
        BY <1>a, <2>2, <3>2
      <4>3. QED
        BY <1>c, <4>1, <4>2
    <3>3. CASE ~(p <= upSent)
      <4>1. p - upSent \in 1..n
        BY <1>a, <2>2, <3>3
      <4>2. upLen - cIdx + (p - upSent) - 1 = p - upStart - 1
        BY <1>a
      <4>3. more[p - upSent] = <<"q", calls, p - upStart - 1>>
        BY <2>5, <4>1, <4>2
      <4>4. QED
        BY <2>6, <3>1, <3>3, <4>3
    <3>4. QED
      BY <3>2, <3>3
  <2>8. Up'
    BY <2>1, <2>7
  <2>9. QED
    BY <2>1, <2>8, <1>e
<1>3. ASSUME NEW n \in RepSizes, NEW enough \in BOOLEAN, RunHandler(n, enough)
      PROVE  Up' /\ Dn'
  <2>1. dnStart' = dnSent /\ dnSent' = dnSent
        /\ UNCHANGED <<upStart, upSent, upBytes, calls>>
    BY <1>3 DEF RunHandler, ServerExec, up
  <2>2. (dnStart' + 1)..dnSent' = {}
    BY <2>1, <1>a
  <2>3. QED
    BY <2>1, <2>2, <1>d
<1>4. ASSUME NEW n \in 1..sIdx, SendReply(n) PROVE Up' /\ Dn'
  <2> DEFINE at(i) == IF i \in DOMAIN sMsg THEN sMsg[i] ELSE Junk
             more == [j \in 1..n |->
                        LET i == dnLen - sIdx + j - 1
                        IN IF i \in DOMAIN sMsg THEN sMsg[i] ELSE Junk]
  <2>1. dnBytes' = dnBytes \o more /\ dnSent' = dnSent + n
        /\ dnStart' = dnStart /\ sMsg' = sMsg
        /\ UNCHANGED <<upStart, upSent, upBytes, calls>>
    BY <1>4 DEF SendReply, ServerSend, up, count, smem
  <2>2. n \in Nat
    BY <1>a
  <2>3. more \in Seq(Byte) /\ Len(more) = n
    <3>1. PICK m \in Nat : sMsg \in [0..(m - 1) -> Byte]
      BY DEF BlocksType, Blocks
    <3>2. \A j \in 1..n : (LET i == dnLen - sIdx + j - 1
                           IN IF i \in DOMAIN sMsg THEN sMsg[i] ELSE Junk) \in Byte
      BY <3>1, JunkIsByte
    <3>3. QED
      BY <2>2, <3>2
  <2>5. \A j \in 1..n : more[j] = at(dnLen - sIdx + j - 1)
    OBVIOUS
  <2> HIDE DEF more
  <2>6. \A i \in 1..(dnSent + n) :
          (dnBytes \o more)[i] = IF i <= dnSent THEN dnBytes[i]
                                                ELSE more[i - dnSent]
    BY <1>b, <2>3, ConcatProperties
  <2>7. ASSUME NEW p \in (dnStart + 1)..(dnSent + n)
        PROVE  (dnBytes \o more)[p] = at(p - dnStart - 1)
    <3>1. p \in 1..(dnSent + n)
      BY <1>a, <2>2
    <3>2. CASE p <= dnSent
      <4>1. (dnBytes \o more)[p] = dnBytes[p]
        BY <2>6, <3>1, <3>2
      <4>2. p \in (dnStart + 1)..dnSent
        BY <1>a, <2>2, <3>2
      <4>3. QED
        BY <1>c, <4>1, <4>2
    <3>3. CASE ~(p <= dnSent)
      <4>1. p - dnSent \in 1..n
        BY <1>a, <2>2, <3>3
      <4>2. dnLen - sIdx + (p - dnSent) - 1 = p - dnStart - 1
        BY <1>a
      <4> HIDE DEF at
      <4>3. more[p - dnSent] = at(p - dnStart - 1)
        BY <2>5, <4>1, <4>2
      <4>4. QED
        BY <2>6, <3>1, <3>3, <4>3
    <3>4. QED
      BY <3>2, <3>3
  <2>8. Dn'
    BY <2>1, <2>7
  <2>9. QED
    BY <2>1, <2>8, <1>d
<1>5. ASSUME UNCHANGED <<upStart, upSent, upBytes, calls>>,
             UNCHANGED <<dnStart, dnSent, dnBytes, sMsg>>
      PROVE  Up' /\ Dn'
  BY <1>5, <1>d, <1>e
<1> HIDE DEF Up, Dn
<1>6. ASSUME NEW n \in 1..BUFSIZE,
             \/ FirstRecvReply(n) \/ MoreRecvReply(n)
             \/ FirstRecvRequest(n) \/ MoreRecvRequest(n)
      PROVE  Up' /\ Dn'
  BY <1>5, <1>6 DEF FirstRecvReply, MoreRecvReply, FirstRecvRequest,
     MoreRecvRequest, ClientRecvFirst, ClientRecvMore, ServerRecvFirst,
     ServerRecvMore, up, dn, count, cmem, smem, bytes
<1>7. ASSUME NEW n \in RepSizes, NEW enough \in BOOLEAN,
              HandlerOverruns(n, enough)
      PROVE  Up' /\ Dn'
  BY <1>5, <1>7 DEF HandlerOverruns, up, dn, count, cmem, smem, bytes
<1>8. CASE ClientLosesServer \/ ClientExit
  BY <1>5, <1>f, <1>8 DEF ClientLosesServer, ClientExit, server, up, dn,
     count, cmem, smem, bytes
<1>9. CASE ServerSeesClose \/ ReplyRefused \/ ServerExit
  BY <1>5, <1>f, <1>9 DEF ServerSeesClose, ReplyRefused, ServerExit, client,
     up, dn, count, cmem, smem, bytes
<1>10. CASE UNCHANGED tvars
  BY <1>5, <1>f, <1>10 DEF tvars, vars, up, dn, count, cmem, smem, bytes
<1>11. QED
  BY <1>f, <1>1, <1>2, <1>3, <1>4, <1>6, <1>7, <1>8, <1>9, <1>10
  DEF TNext, TClient, TServer

-----------------------------------------------------------------------------
(* Where a call can stand *)

LEMMA WholeBefore == ControlType /\ [TNext]_tvars /\ whole' => whole
<1> SUFFICES ASSUME ControlType, [TNext]_tvars, whole' PROVE whole
  OBVIOUS
<1>1. CASE \E n \in 1..BUFSIZE : FirstRecvReply(n) \/ FirstRecvRequest(n)
  BY <1>1 DEF FirstRecvReply, FirstRecvRequest
<1>2. CASE UNCHANGED whole
  BY <1>2
<1>3. CASE \E n \in ReqSizes, kind \in {"plain", "array"} : BuildRequest(n, kind)
  BY <1>3 DEF BuildRequest, past
<1>4. CASE \E n \in 1..BUFSIZE : MoreRecvReply(n) \/ MoreRecvRequest(n)
  BY <1>4 DEF MoreRecvReply, MoreRecvRequest, past
<1>5. CASE \E n \in RepSizes, enough \in BOOLEAN :
             RunHandler(n, enough) \/ HandlerOverruns(n, enough)
  BY <1>5 DEF RunHandler, HandlerOverruns, past
<1>6. CASE (\E n \in 1..cIdx : SendRequest(n)) \/ (\E n \in 1..sIdx : SendReply(n))
  BY <1>6 DEF SendRequest, SendReply, past
<1>7. CASE ClientLosesServer \/ ClientExit
  BY <1>7 DEF ClientLosesServer, ClientExit, past
<1>8. CASE ServerSeesClose \/ ReplyRefused \/ ServerExit
  BY <1>8 DEF ServerSeesClose, ReplyRefused, ServerExit, past
<1>9. CASE UNCHANGED tvars
  BY <1>9 DEF tvars, past
<1>10. QED
  BY <1>1, <1>3, <1>4, <1>5, <1>6, <1>7, <1>8, <1>9 DEF TNext, TClient, TServer

LEMMA NextPlace ==
  ControlType /\ CountsInv /\ PlaceInv /\ [TNext]_tvars /\ whole' => PlaceInv'
<1> SUFFICES ASSUME ControlType, CountsInv, PlaceInv, [TNext]_tvars, whole'
             PROVE  PlaceInv'
  OBVIOUS
<1> USE FramingAssumption
    DEF ControlType, CountsInv, PlaceInv, Place, AtRest, ReadingRequest,
        Executing, Replying, Stopped, ServerLost
<1>1. ASSUME NEW n \in ReqSizes, NEW kind, BuildRequest(n, kind)
      PROVE  PlaceInv'
  BY <1>1 DEF BuildRequest, Call, server, dn, smem, past
<1>2. ASSUME NEW n \in 1..cIdx, SendRequest(n) PROVE PlaceInv'
  BY <1>2 DEF SendRequest, ClientSend, Unsent, server, dn, count, cmem, smem,
              past
<1>3. ASSUME NEW n \in 1..BUFSIZE, FirstRecvReply(n) PROVE PlaceInv'
  <2>1. n >= LenBytes
    BY <1>3 DEF FirstRecvReply
  <2>2. QED
    BY <1>3, <2>1 DEF FirstRecvReply, ClientRecvFirst, ClientGot, Missing,
       WordsRead, Recv, server, up
<1>4. ASSUME NEW n \in 1..BUFSIZE, MoreRecvReply(n) PROVE PlaceInv'
  BY <1>4 DEF MoreRecvReply, ClientRecvMore, ClientGot, Missing, Recv,
     server, up
<1>5. ASSUME NEW n \in 1..BUFSIZE, FirstRecvRequest(n) PROVE PlaceInv'
  <2>1. n >= LenBytes
    BY <1>5 DEF FirstRecvRequest
  <2>2. QED
    BY <1>5, <2>1 DEF FirstRecvRequest, ServerRecvFirst, ServerGot, Missing,
       WordsRead, Recv, client, dn, count
<1>6. ASSUME NEW n \in 1..BUFSIZE, MoreRecvRequest(n) PROVE PlaceInv'
  BY <1>6 DEF MoreRecvRequest, ServerRecvMore, ServerGot, Missing, Recv,
     client, dn, count, past
<1>7. ASSUME NEW n \in RepSizes, NEW enough \in BOOLEAN, RunHandler(n, enough)
      PROVE  PlaceInv'
  BY <1>7 DEF RunHandler, ServerExec, client, up, past
<1>8. ASSUME NEW n \in RepSizes, NEW enough \in BOOLEAN,
             HandlerOverruns(n, enough)
      PROVE  PlaceInv'
  BY <1>8 DEF HandlerOverruns, client, up, dn, count, past
<1>9. ASSUME NEW n \in 1..sIdx, SendReply(n) PROVE PlaceInv'
  BY <1>9 DEF SendReply, ServerSend, Unsent, client, up, count, past
<1>10. CASE ClientLosesServer
  BY <1>10 DEF ClientLosesServer, server, up, dn, count, past
<1>11. CASE ClientExit
  BY <1>11 DEF ClientExit, ClientLost, server, up, dn, count
<1>12. CASE ServerSeesClose \/ ReplyRefused \/ ServerExit
  BY <1>12, ZenonT(40) DEF ServerSeesClose, ReplyRefused, ServerExit, client, up, dn,
     count, past
<1>13. CASE UNCHANGED tvars
  BY <1>13 DEF tvars, vars, client, server, up, dn, count, past
<1>14. QED
  BY <1>1, <1>2, <1>3, <1>4, <1>5, <1>6, <1>7, <1>8, <1>9, <1>10, <1>11,
     <1>12, <1>13 DEF TNext, TClient, TServer

-----------------------------------------------------------------------------
(* What the server thread's buffers hold of the request *)

\* The bytes of the request that a recv of n bytes takes.
LEMMA RequestBytes ==
  ASSUME ControlType, CountsInv, StreamsInv, NEW n \in Nat,
         upStart <= upRcvd, upRcvd + n <= upSent
  PROVE  \A i \in (upRcvd - upStart)..(upRcvd - upStart + n - 1) :
           upBytes[upStart + 1 + i] = <<"q", calls, i>>
<1> SUFFICES ASSUME NEW i \in (upRcvd - upStart)..(upRcvd - upStart + n - 1)
             PROVE  upBytes[upStart + 1 + i] = <<"q", calls, i>>
  OBVIOUS
<1>1. upRcvd \in Nat /\ upStart \in Nat /\ upSent \in Nat
  BY DEF ControlType
<1>2. PICK p \in (upStart + 1)..upSent : p = upStart + 1 + i
  BY <1>1
<1>3. p - upStart - 1 = i
  BY <1>1, <1>2
<1>4. upBytes[p] = <<"q", calls, p - upStart - 1>>
  BY DEF StreamsInv
<1>5. QED
  BY <1>2, <1>3, <1>4

LEMMA NextRequest ==
  ControlType /\ CountsInv /\ BlocksType /\ StreamsInv /\ PlaceInv /\ RequestInv
    /\ [TNext]_tvars /\ whole' => RequestInv'
<1> SUFFICES ASSUME ControlType, CountsInv, BlocksType, StreamsInv, PlaceInv,
                    RequestInv, [TNext]_tvars, whole'
             PROVE  RequestInv'
  OBVIOUS
<1>a. /\ BUFSIZE \in Nat /\ LenBytes \in Nat /\ LenBytes >= 1
      /\ upSent \in Nat /\ upRcvd \in Nat /\ upStart \in Nat /\ upLen \in Nat
      /\ sRead \in Nat /\ sLeft \in Int /\ cIdx \in Nat
      /\ upSent + cIdx = upStart + upLen /\ upRcvd <= upSent
  BY FramingAssumption DEF ControlType, CountsInv
<1>b. upBytes \in Seq(Byte) /\ Len(upBytes) = upSent
      /\ sbuf \in [0..(BUFSIZE - 1) -> Byte] /\ sbig \in Blocks
  BY DEF BlocksType, Buffer
<1>c. BlocksType'
  BY NextBlocks
<1>1. ASSUME spc' \notin {"more", "exec"} PROVE RequestInv'
  BY <1>1 DEF RequestInv
<1>2. ASSUME UNCHANGED <<spc, upLen, calls, sRead, sFrag, sbig, sbuf>>
      PROVE  RequestInv'
  BY <1>2 DEF RequestInv, Holds
<1>3. ASSUME NEW n \in ReqSizes, NEW kind, BuildRequest(n, kind)
      PROVE  RequestInv'
  <2>1. cpc = "idle" /\ spc' = spc
    BY <1>3 DEF BuildRequest, Call, server
  <2>2. spc' \notin {"more", "exec"}
    BY <2>1 DEF PlaceInv, Place, AtRest, Stopped
  <2>3. QED
    BY <2>2, <1>1
<1>4. ASSUME NEW n \in 1..BUFSIZE, FirstRecvRequest(n) PROVE RequestInv'
  <2>0. n >= LenBytes
    BY <1>4 DEF FirstRecvRequest
  <2>1. /\ n \in Nat /\ n >= LenBytes /\ n >= 1 /\ upRcvd + n <= upSent
        /\ UNCHANGED <<upLen, calls, upSent, upStart>> /\ spc = "recv"
    BY <1>4, <1>a, <2>0 DEF FirstRecvRequest, ServerRecvFirst, Recv, count
  <2>2. upRcvd = upStart
    BY <2>1, <1>a DEF PlaceInv, Place, AtRest, ReadingRequest, Executing,
       Replying, Stopped, ControlType, ServerLost, CountsInv
  <2>3. sRead' = n /\ sLeft' = upLen - n
    BY <1>4, <2>1, <2>2 DEF FirstRecvRequest, ServerRecvFirst, ServerGot,
       WordsRead
  <2>4. \A i \in 0..(n - 1) : upBytes[upRcvd + 1 + i] = <<"q", calls, i>>
    <3>1. \A i \in (upRcvd - upStart)..(upRcvd - upStart + n - 1) :
            upBytes[upStart + 1 + i] = <<"q", calls, i>>
      BY <1>a, <2>1, <2>2, RequestBytes
    <3>2. upRcvd - upStart = 0 /\ upRcvd - upStart + n - 1 = n - 1
      BY <1>a, <2>1, <2>2
    <3>3. QED
      BY <2>2, <3>1, <3>2
  <2>5. \A i \in 0..(n - 1) : sbuf'[i] = <<"q", calls, i>>
    <3> SUFFICES ASSUME NEW i \in 0..(n - 1)
                 PROVE  sbuf'[i] = <<"q", calls, i>>
      OBVIOUS
    <3>1. sbuf' = Copy(sbuf, 0, upBytes, upRcvd, n)
      BY <1>4 DEF FirstRecvRequest
    <3>2. i \in 0..(BUFSIZE - 1) /\ i \in 0..(0 + n - 1)
          /\ upRcvd + 1 + i - 0 = upRcvd + 1 + i
      BY <1>a, <2>1
    <3>3. Copy(sbuf, 0, upBytes, upRcvd, n)[i] = upBytes[upRcvd + 1 + i]
      <4>1. i \in DOMAIN sbuf
        BY <1>b, <3>2 DEF Buffer
      <4>2. QED
        BY <3>2, <4>1, CopyReads
    <3>4. QED
      BY <2>4, <3>1, <3>3
  <2>6. CASE sLeft' > 0
    <3>1. spc' = "more"
      BY <1>4, <2>6 DEF FirstRecvRequest, ServerRecvFirst, ServerGot, Missing
    <3>2. PICK len \in Nat : len = upLen
      BY <1>a
    <3>3. sbig' = FreshBlock(len, sbuf', n)
      <4>1. n + sLeft' = len
        BY <2>1, <2>3, <3>2, <1>a
      <4>2. QED
        BY <1>4, <2>6, <4>1 DEF FirstRecvRequest
    <3>4. PICK buf \in [0..(BUFSIZE - 1) -> Byte] : buf = sbuf'
      BY <1>c DEF BlocksType, Buffer
    <3>5. FreshBlock(len, buf, n) \in [0..(len - 1) -> Byte]
      <4>1. buf \in Blocks
        BY BufferIsBlock DEF Buffer
      <4>2. n \in Int
        BY <2>1
      <4>3. QED
        BY <4>1, <4>2, FreshType, Zenon
    <3>6. ASSUME NEW i \in 0..(n - 1)
          PROVE  FreshBlock(len, buf, n)[i] = <<"q", calls, i>>
      <4>1. i \in 0..(len - 1) /\ i < n /\ i < BUFSIZE
        BY <1>a, <2>1, <2>2, <3>2
      <4>2. FreshBlock(len, buf, n)[i] = buf[i]
        BY <1>a, <2>1, <4>1, FreshReads
      <4>3. QED
        BY <2>5, <3>4, <4>2
    <3>7. sbig' \in [0..(upLen' - 1) -> Byte]
      BY <2>1, <3>2, <3>3, <3>4, <3>5
    <3>8. Holds(sbig, sRead)'
      BY <2>1, <2>3, <3>3, <3>4, <3>6 DEF Holds
    <3>9. QED
      BY <3>1, <3>7, <3>8 DEF RequestInv
  <2>7. CASE ~(sLeft' > 0)
    <3>1. spc' = "exec"
      BY <1>4, <2>7 DEF FirstRecvRequest, ServerRecvFirst, ServerGot, Missing
    <3>2. ~sFrag'
      BY <1>4, <2>7 DEF FirstRecvRequest
    <3>3. ~(upLen - n > 0)
      BY <2>3, <2>7
    <3>4. n = upLen
      BY <1>a, <2>1, <2>2, <3>3
    <3>5. upLen' <= BUFSIZE /\ Holds(sbuf, upLen)'
      BY <1>a, <2>1, <2>5, <3>4 DEF Holds
    <3>6. QED
      BY <3>1, <3>2, <3>5 DEF RequestInv
  <2>8. QED
    BY <2>6, <2>7
<1>5. ASSUME NEW n \in 1..BUFSIZE, MoreRecvRequest(n) PROVE RequestInv'
  <2>1. /\ n \in Nat /\ upRcvd + n <= upSent /\ n <= sLeft
        /\ UNCHANGED <<upLen, calls, upSent, upStart, sFrag>> /\ spc = "more"
        /\ sRead' = sRead + n /\ sLeft' = sLeft - n
    BY <1>5, <1>a DEF MoreRecvRequest, ServerRecvMore, ServerGot, Recv, count
  <2>2. sRead = upRcvd - upStart /\ sLeft = upLen - sRead
    BY <2>1, <1>a DEF PlaceInv, Place, AtRest, ReadingRequest, Executing,
       Replying, Stopped, ControlType, ServerLost, CountsInv
  <2>3. sFrag /\ sbig \in [0..(upLen - 1) -> Byte] /\ Holds(sbig, sRead)
    BY <2>1 DEF RequestInv, CountsInv
  <2>4. sbig' = Copy(sbig, sRead, upBytes, upRcvd, n)
    BY <1>5 DEF MoreRecvRequest
  <2>5. sbig' \in [0..(upLen - 1) -> Byte]
    BY <1>a, <1>b, <2>1, <2>3, <2>4, CopyBytes
  <2>a. PICK total \in Nat : total = sRead + n
    BY <1>a, <2>1
  <2>6. ASSUME NEW i \in 0..(total - 1)
        PROVE  Copy(sbig, sRead, upBytes, upRcvd, n)[i] = <<"q", calls, i>>
    <3>1. i \in 0..(upLen - 1)
      BY <1>a, <2>1, <2>2, <2>a
    <3>2. Copy(sbig, sRead, upBytes, upRcvd, n)[i] =
            IF i \in sRead..(sRead + n - 1) THEN upBytes[upRcvd + 1 + i - sRead]
                                           ELSE sbig[i]
      BY <1>a, <2>1, <2>3, <3>1, CopyReads
    <3>3. CASE i \in sRead..(sRead + n - 1)
      <4>1. upRcvd + 1 + i - sRead = upStart + 1 + i
        BY <1>a, <2>2
      <4>2. upBytes[upStart + 1 + i] = <<"q", calls, i>>
        <5>1. i \in (upRcvd - upStart)..(upRcvd - upStart + n - 1)
          BY <2>2, <3>3
        <5>2. upStart <= upRcvd
          BY <1>a, <2>2
        <5>3. QED
          BY <5>1, <5>2, <2>1, RequestBytes
      <4>3. QED
        BY <3>2, <3>3, <4>1, <4>2
    <3>4. CASE i \notin sRead..(sRead + n - 1)
      <4>1. i \in 0..(sRead - 1)
        BY <1>a, <2>1, <2>a, <3>4
      <4>2. QED
        BY <2>3, <3>2, <3>4, <4>1 DEF Holds
    <3>5. QED
      BY <3>3, <3>4
  <2>7. Holds(sbig, sRead)'
    <3>1. sRead' = total /\ calls' = calls
      BY <2>1, <2>a
    <3>2. QED
      BY <2>4, <2>6, <3>1 DEF Holds
  <2>8. CASE spc' = "more"
    BY <2>1, <2>5, <2>7, <2>8 DEF RequestInv
  <2>9. CASE spc' = "exec"
    <3>1. ~(sLeft - n > 0)
      BY <1>5, <2>9 DEF MoreRecvRequest, ServerRecvMore, ServerGot, Missing
    <3>2. sRead' = upLen'
      BY <1>a, <2>1, <2>2, <3>1
    <3>3. QED
      BY <2>1, <2>3, <2>5, <2>7, <2>9, <3>2 DEF RequestInv
  <2>10. QED
    BY <1>1, <2>8, <2>9
<1>6. ASSUME NEW n \in RepSizes, NEW enough \in BOOLEAN,
             RunHandler(n, enough) \/ HandlerOverruns(n, enough)
      PROVE  RequestInv'
  BY <1>1, <1>6 DEF RunHandler, HandlerOverruns, ServerExec
<1>7. ASSUME NEW n \in 1..sIdx, SendReply(n) PROVE RequestInv'
  BY <1>1, <1>7 DEF SendReply, ServerSend
<1>8. ASSUME NEW n \in 1..cIdx, SendRequest(n) PROVE RequestInv'
  BY <1>2, <1>8 DEF SendRequest, ClientSend, server, count, smem
<1>9. ASSUME NEW n \in 1..BUFSIZE, FirstRecvReply(n) \/ MoreRecvReply(n)
      PROVE  RequestInv'
  BY <1>2, <1>9 DEF FirstRecvReply, MoreRecvReply, ClientRecvFirst,
     ClientRecvMore, server, up, smem
<1>10. CASE ClientLosesServer \/ ClientExit
  BY <1>2, <1>10 DEF ClientLosesServer, ClientExit, server, up, count, smem
<1>11. CASE ServerSeesClose \/ ReplyRefused \/ ServerExit
  BY <1>1, <1>11 DEF ServerSeesClose, ReplyRefused, ServerExit
<1>12. CASE UNCHANGED tvars
  BY <1>2, <1>12 DEF tvars, vars, server, up, count, smem
<1>13. QED
  BY <1>3, <1>4, <1>5, <1>6, <1>7, <1>8, <1>9, <1>10, <1>11, <1>12
  DEF TNext, TClient, TServer

-----------------------------------------------------------------------------
(* What the block of the reply holds *)

LEMMA AtExec ==
  ASSUME ControlType, CountsInv, PlaceInv, spc = "exec"
  PROVE  Executing
BY DEF ControlType, CountsInv, PlaceInv, Place, AtRest, ReadingRequest, Executing,
   Replying, Stopped, ServerLost

LEMMA FilledReads ==
  ASSUME NEW block, NEW n, NEW dumped, NEW i \in DOMAIN block
  PROVE  Filled(block, n, dumped)[i] =
           IF i < LenBytes \/ (dumped /\ i \in H_OFFSET..(n - 1))
             THEN <<"r", calls, i>> ELSE block[i]
BY DEF Filled

\* The handler is given the whole request.
LEMMA HandlerIsGiven ==
  ASSUME ControlType, CountsInv, BlocksType, PlaceInv, RequestInv, spc = "exec"
  PROVE  HoldsRequest
<1>a. upLen \in Nat /\ BUFSIZE \in Nat /\ LenBytes \in Nat
  BY FramingAssumption DEF ControlType
<1> SUFFICES ASSUME NEW i \in LenBytes..(upLen - 1)
             PROVE  i \in DOMAIN RequestBlock /\ RequestBlock[i] = <<"q", calls, i>>
  BY DEF HoldsRequest
<1>1. i \in 0..(upLen - 1)
  BY <1>a
<1>2. CASE sFrag
  <2>1. sbig \in [0..(upLen - 1) -> Byte] /\ Holds(sbig, upLen)
    BY <1>2 DEF RequestInv
  <2>2. QED
    BY <1>1, <1>2, <2>1 DEF RequestBlock, Holds
<1>3. CASE ~sFrag
  <2>1. upLen <= BUFSIZE /\ Holds(sbuf, upLen)
    BY <1>3 DEF RequestInv
  <2>2. i \in 0..(BUFSIZE - 1)
    BY <1>a, <1>1, <2>1
  <2>3. sbuf \in [0..(BUFSIZE - 1) -> Byte]
    BY DEF BlocksType, Buffer
  <2>4. QED
    BY <1>1, <1>3, <2>1, <2>2, <2>3 DEF RequestBlock, Holds
<1>4. QED
  BY <1>2, <1>3

LEMMA NextReply ==
  ControlType /\ CountsInv /\ BlocksType /\ PlaceInv /\ RequestInv /\ ReplyInv
    /\ [TNext]_tvars /\ whole' => ReplyInv'
<1> SUFFICES ASSUME ControlType, CountsInv, BlocksType, PlaceInv,
                    RequestInv, ReplyInv, [TNext]_tvars, whole'
             PROVE  ReplyInv'
  OBVIOUS
<1>a. /\ BUFSIZE \in Nat /\ upLen \in Nat /\ calls \in Nat /\ execs \in Nat
      /\ upSent \in Nat /\ upRcvd \in Nat
  BY FramingAssumption DEF ControlType
<1>1. ASSUME execs' # calls' PROVE ReplyInv'
  BY <1>1 DEF ReplyInv
<1>2. ASSUME UNCHANGED <<execs, calls, log, dnLen, sFrag, sMsg, argsOk>>
      PROVE  ReplyInv'
  BY <1>2 DEF ReplyInv, Written, Refused
<1>3. ASSUME NEW n \in ReqSizes, NEW kind, BuildRequest(n, kind)
      PROVE  ReplyInv'
  <2>1. cpc = "idle" /\ calls' = calls + 1 /\ execs' = execs
    BY <1>3 DEF BuildRequest, Call
  <2>2. execs = calls
    BY <2>1 DEF PlaceInv, Place, AtRest
  <2>3. QED
    BY <1>1, <1>a, <2>1, <2>2
<1>4. ASSUME NEW n \in 1..BUFSIZE, FirstRecvRequest(n) PROVE ReplyInv'
  <2>1. spc = "recv" /\ upRcvd < upSent /\ execs' = execs /\ calls' = calls
    BY <1>4, <1>a DEF FirstRecvRequest, ServerRecvFirst, Recv, count
  <2>2. execs + 1 = calls
    BY <2>1, <1>a DEF PlaceInv, Place, AtRest, ReadingRequest, Executing,
       Replying, Stopped, ControlType, ServerLost, CountsInv
  <2>3. execs' # calls'
    BY <1>a, <2>1, <2>2
  <2>4. QED
    BY <1>1, <2>3
<1>5. ASSUME NEW n \in RepSizes, NEW enough \in BOOLEAN, RunHandler(n, enough)
      PROVE  ReplyInv'
  <2> DEFINE dumped == Dumps(enough)
             block == ReplyBlock(n)
  <2>1. /\ spc = "exec" /\ n \in ReplySizes /\ enough \in SizeIsEnough
        /\ dumped => n - 1 \in DOMAIN block
        /\ sMsg' = Filled(block, n, dumped)
        /\ dnLen' = n /\ calls' = calls /\ sFrag' = sFrag
        /\ log' = [log EXCEPT ![calls].rep = n]
        /\ argsOk' = (enough /\ HoldsRequest)
    BY <1>5 DEF RunHandler, ServerExec
  <2>2. n \in Nat /\ H_OFFSET = 3 /\ LenBytes = 2 /\ H_OFFSET < n
    BY FramingAssumption, TransportAssumption
  <2>3. Executing
    BY <2>1, AtExec
  <2>4. execs + 1 = calls
    BY <2>3 DEF Executing
  <2>5. calls \in 1..calls /\ log \in [1..calls -> Entry]
    BY <1>a, <2>4 DEF BlocksType
  <2>6. /\ log'[calls'].rep = dnLen'
        /\ log'[calls'].kind = log[calls].kind
        /\ log[calls].kind \in {"plain", "array"}
    BY <2>1, <2>5 DEF Entry
  <2>7. log[calls].kind = "plain" => n <= BUFSIZE
    BY <2>1, TransportAssumption DEF ReplySizes
  <2>8. block \in Blocks
    <3>1. RequestBlock \in Blocks
      BY BufferIsBlock DEF RequestBlock, BlocksType
    <3>2. QED
      BY <2>2, <3>1, FreshBlocks DEF ReplyBlock
  <2>9. PICK m \in Nat : block \in [0..(m - 1) -> Byte]
    BY <2>8 DEF Blocks
  <2>10. DOMAIN block = 0..(m - 1)
    BY <2>9
  <2> HIDE DEF dumped, block
  <2>11. Filled(block, n, dumped) \in [0..(m - 1) -> Byte]
    BY <1>a, <2>2, <2>9, FilledBytes
  <2>12. ASSUME dumped PROVE Written'
    <3>1. n - 1 \in 0..(m - 1)
      BY <2>1, <2>10, <2>12
    <3>2. ASSUME NEW i \in H_OFFSET..(n - 1)
          PROVE  i \in DOMAIN Filled(block, n, dumped)
                 /\ Filled(block, n, dumped)[i] = <<"r", calls, i>>
      <4>1. i \in 0..(m - 1)
        BY <2>2, <3>1
      <4>2. Filled(block, n, dumped)[i] =
              IF i < LenBytes \/ (dumped /\ i \in H_OFFSET..(n - 1))
                THEN <<"r", calls, i>> ELSE block[i]
        BY <2>10, <4>1, FilledReads
      <4>3. Filled(block, n, dumped)[i] = <<"r", calls, i>>
        BY <2>12, <3>2, <4>2
      <4>4. QED
        BY <2>11, <4>1, <4>3
    <3>3. QED
      BY <2>1, <3>2 DEF Written
  <2>13. ASSUME ~dumped PROVE Refused'
    <3>1. ~enough /\ log[calls].kind # "array"
      BY <2>13 DEF dumped, Dumps
    <3>2. sFrag
      BY <2>1, <3>1 DEF SizeIsEnough
    <3>3. log[calls].kind = "plain"
      BY <2>6, <3>1
    <3>4. block = sbig
      BY <2>2, <2>7, <3>2, <3>3, <1>a DEF block, ReplyBlock, RequestBlock
    <3>5. sbig \in [0..(upLen - 1) -> Byte] /\ Holds(sbig, upLen)
      BY <2>1, <3>2 DEF RequestInv
    <3>6. upLen > 3
      BY <1>a, <2>2, <2>4, TransportAssumption DEF CountsInv
    <3>7. 3 \in 0..(upLen - 1)
      BY <1>a, <3>6
    <3>8. sbig[3] = <<"q", calls, 3>>
      BY <3>5, <3>7 DEF Holds
    <3>9. 3 \in DOMAIN Filled(sbig, n, dumped)
          /\ Filled(sbig, n, dumped)[3] = sbig[3]
      <4>1. Filled(sbig, n, dumped) \in [0..(upLen - 1) -> Byte]
        BY <1>a, <2>2, <3>5, FilledBytes
      <4>2. Filled(sbig, n, dumped)[3] =
              IF 3 < LenBytes \/ (dumped /\ 3 \in H_OFFSET..(n - 1))
                THEN <<"r", calls, 3>> ELSE sbig[3]
        <5>1. 3 \in DOMAIN sbig
          BY <3>5, <3>7
        <5>2. QED
          BY <5>1, FilledReads
      <4>3. ~(3 < LenBytes)
        BY <2>2
      <4>4. QED
        BY <2>13, <3>7, <4>1, <4>2, <4>3
    <3>10. QED
      BY <2>1, <2>2, <2>6, <3>2, <3>3, <3>4, <3>8, <3>9 DEF Refused
  <2>14. sFrag' \/ argsOk'
    <3>1. ASSUME ~sFrag PROVE enough
      BY <2>1, <3>1 DEF SizeIsEnough
    <3>2. HoldsRequest
      BY <2>1, HandlerIsGiven
    <3>3. QED
      BY <2>1, <3>1, <3>2
  <2>15. log'[calls'].kind = "plain" => dnLen' <= BUFSIZE
    BY <2>1, <2>6, <2>7
  <2>16. QED
    BY <2>6, <2>12, <2>13, <2>14, <2>15 DEF ReplyInv
<1>6. ASSUME NEW n \in RepSizes, NEW enough \in BOOLEAN,
             HandlerOverruns(n, enough)
      PROVE  ReplyInv'
  BY <1>2, <1>6 DEF HandlerOverruns, dn, count, smem, bytes
<1>7. ASSUME NEW n \in 1..sIdx, SendReply(n) PROVE ReplyInv'
  BY <1>2, <1>7 DEF SendReply, ServerSend, count, smem
<1>8. ASSUME NEW n \in 1..cIdx, SendRequest(n) PROVE ReplyInv'
  BY <1>2, <1>8 DEF SendRequest, ClientSend, dn, count, smem
<1>9. ASSUME NEW n \in 1..BUFSIZE,
             FirstRecvReply(n) \/ MoreRecvReply(n) \/ MoreRecvRequest(n)
      PROVE  ReplyInv'
  BY <1>2, <1>9 DEF FirstRecvReply, MoreRecvReply, MoreRecvRequest,
     ClientRecvFirst, ClientRecvMore, ServerRecvMore, dn, count, smem, bytes
<1>10. CASE ClientLosesServer \/ ClientExit
  BY <1>2, <1>10 DEF ClientLosesServer, ClientExit, dn, count, smem, bytes
<1>11. CASE ServerSeesClose \/ ReplyRefused \/ ServerExit
  BY <1>2, <1>11 DEF ServerSeesClose, ReplyRefused, ServerExit, dn, count,
     smem, bytes
<1>12. CASE UNCHANGED tvars
  BY <1>2, <1>12 DEF tvars, vars, dn, count, smem, bytes
<1>13. QED
  BY <1>3, <1>4, <1>5, <1>6, <1>7, <1>8, <1>9, <1>10, <1>11, <1>12
  DEF TNext, TClient, TServer

-----------------------------------------------------------------------------
(* What the client gathers of the reply, and what it makes of it *)

\* The stream as the client sees it at its first recv.
LEMMA AtFirstRecv ==
  ASSUME ControlType, CountsInv, PlaceInv, cpc = "recv", dnRcvd < dnSent
  PROVE  Replying /\ dnRcvd = dnStart /\ execs = calls /\ calls > 0
BY DEF ControlType, CountsInv, PlaceInv, Place, ReadingRequest, Executing,
   Replying

LEMMA AtMoreRecv ==
  ASSUME ControlType, CountsInv, PlaceInv, cpc = "more"
  PROVE  /\ Replying /\ execs = calls /\ calls > 0
         /\ cRead = dnRcvd - dnStart /\ cLeft = dnLen - cRead /\ cLeft > 0
BY DEF ControlType, CountsInv, PlaceInv, Place, Replying

\* A first recv copies the first n bytes of the reply and knows its length.
LEMMA FirstRecvFacts ==
  ASSUME ControlType, CountsInv, BlocksType, PlaceInv, whole',
         NEW n \in 1..BUFSIZE, FirstRecvReply(n)
  PROVE  /\ Replying /\ dnRcvd = dnStart /\ execs = calls /\ calls > 0
         /\ n \in Nat /\ n <= dnSent - dnStart
         /\ cRead' = n /\ cLeft' = dnLen - n
         /\ \A i \in 0..(n - 1) : cbuf'[i] = dnBytes[dnStart + 1 + i]
<1>a. /\ BUFSIZE \in Nat /\ dnSent \in Nat /\ dnRcvd \in Nat /\ dnStart \in Nat
  BY FramingAssumption DEF ControlType
<1>0. n >= LenBytes
  BY DEF FirstRecvReply
<1>1. /\ n \in Nat /\ n <= dnSent - dnRcvd /\ cpc = "recv" /\ dnRcvd < dnSent
      /\ cbuf' = Copy(cbuf, 0, dnBytes, dnRcvd, n)
  BY <1>a DEF FirstRecvReply, ClientRecvFirst, Recv
<1>2. Replying /\ dnRcvd = dnStart /\ execs = calls /\ calls > 0
  BY <1>1, AtFirstRecv
<1>3. cRead' = n /\ cLeft' = dnLen - n
  BY <1>0, <1>2 DEF FirstRecvReply, ClientRecvFirst, ClientGot, WordsRead
<1>4. ASSUME NEW i \in 0..(n - 1) PROVE cbuf'[i] = dnBytes[dnStart + 1 + i]
  <2>1. i \in 0..(BUFSIZE - 1) /\ i \in 0..(0 + n - 1)
        /\ dnRcvd + 1 + i - 0 = dnStart + 1 + i
    BY <1>a, <1>1, <1>2
  <2>2. i \in DOMAIN cbuf
    BY <2>1 DEF BlocksType, Buffer
  <2>3. Copy(cbuf, 0, dnBytes, dnRcvd, n)[i] =
          IF i \in 0..(0 + n - 1) THEN dnBytes[dnRcvd + 1 + i - 0] ELSE cbuf[i]
    BY <2>2, CopyReads
  <2>4. QED
    BY <1>1, <2>1, <2>3
<1>5. QED
  BY <1>1, <1>2, <1>3, <1>4

\* A later recv goes on where the last one ended.
LEMMA MoreRecvFacts ==
  ASSUME ControlType, CountsInv, BlocksType, PlaceInv, GatherInv,
         NEW n \in 1..BUFSIZE, MoreRecvReply(n)
  PROVE  /\ Replying /\ execs = calls /\ calls > 0
         /\ n \in Nat /\ n <= cLeft /\ n <= dnSent - dnRcvd
         /\ cRead = dnRcvd - dnStart /\ cLeft = dnLen - cRead
         /\ cRead' = cRead + n /\ cLeft' = cLeft - n
         /\ cbig' \in [0..(dnLen - 1) -> Byte]
         /\ \A i \in 0..(cRead + n - 1) : cbig'[i] = dnBytes[dnStart + 1 + i]
<1>a. /\ BUFSIZE \in Nat /\ dnSent \in Nat /\ dnRcvd \in Nat /\ dnStart \in Nat
      /\ dnLen \in Nat /\ cRead \in Nat /\ cLeft \in Int
  BY FramingAssumption DEF ControlType
<1>1. /\ n \in Nat /\ n <= dnSent - dnRcvd /\ cpc = "more" /\ n <= cLeft
      /\ cRead' = cRead + n /\ cLeft' = cLeft - n
      /\ cbig' = Copy(cbig, cRead, dnBytes, dnRcvd, n)
  BY <1>a DEF MoreRecvReply, ClientRecvMore, ClientGot, Recv
<1>2. /\ Replying /\ execs = calls /\ calls > 0
      /\ cRead = dnRcvd - dnStart /\ cLeft = dnLen - cRead /\ cLeft > 0
  BY <1>1, AtMoreRecv
<1>3. /\ cbig \in [0..(dnLen - 1) -> Byte]
      /\ \A i \in 0..(cRead - 1) : cbig[i] = dnBytes[dnStart + 1 + i]
  BY <1>1 DEF GatherInv
<1>4. dnBytes \in Seq(Byte) /\ dnRcvd + n <= Len(dnBytes)
  BY <1>a, <1>1 DEF BlocksType
<1>5. cbig' \in [0..(dnLen - 1) -> Byte]
  <2>1. PICK len \in Nat : len = dnLen
    BY <1>a
  <2>2. cbig \in [0..(len - 1) -> Byte]
    BY <1>3, <2>1
  <2>3. Copy(cbig, cRead, dnBytes, dnRcvd, n) \in [0..(len - 1) -> Byte]
    BY <1>a, <1>1, <1>4, <2>2, CopyBytes
  <2>4. QED
    BY <1>1, <2>1, <2>3
<1>6. ASSUME NEW i \in 0..(cRead + n - 1)
      PROVE  cbig'[i] = dnBytes[dnStart + 1 + i]
  <2>1. i \in 0..(dnLen - 1)
    BY <1>a, <1>1, <1>2
  <2>2. i \in DOMAIN cbig
    BY <1>3, <2>1
  <2>3. Copy(cbig, cRead, dnBytes, dnRcvd, n)[i] =
          IF i \in cRead..(cRead + n - 1) THEN dnBytes[dnRcvd + 1 + i - cRead]
                                          ELSE cbig[i]
    BY <2>2, CopyReads
  <2>4. CASE i \in cRead..(cRead + n - 1)
    <3>1. dnRcvd + 1 + i - cRead = dnStart + 1 + i
      BY <1>a, <1>2
    <3>2. QED
      BY <1>1, <2>3, <2>4, <3>1
  <2>5. CASE i \notin cRead..(cRead + n - 1)
    <3>1. i \in 0..(cRead - 1)
      BY <1>a, <1>1, <2>5
    <3>2. QED
      BY <1>1, <1>3, <2>3, <2>5, <3>1
  <2>6. QED
    BY <2>4, <2>5
<1>7. QED
  BY <1>1, <1>2, <1>5, <1>6

LEMMA NextGather ==
  ControlType /\ CountsInv /\ BlocksType /\ PlaceInv /\ GatherInv
    /\ [TNext]_tvars /\ whole' => GatherInv'
<1> SUFFICES ASSUME ControlType, CountsInv, BlocksType, PlaceInv, GatherInv,
                    [TNext]_tvars, whole'
             PROVE  GatherInv'
  OBVIOUS
<1>a. /\ BUFSIZE \in Nat /\ dnSent \in Nat /\ dnRcvd \in Nat /\ dnStart \in Nat
      /\ dnLen \in Nat /\ cRead \in Nat /\ cLeft \in Int /\ sIdx \in Nat
      /\ dnSent + sIdx = dnStart + dnLen /\ dnRcvd <= dnSent
  BY FramingAssumption DEF ControlType, CountsInv
<1>1. ASSUME cpc' # "more" PROVE GatherInv'
  BY <1>1 DEF GatherInv
<1>2. ASSUME UNCHANGED <<cpc, cbig, dnLen, dnStart, cRead, dnBytes>>
      PROVE  GatherInv'
  BY <1>2 DEF GatherInv
<1>3. ASSUME NEW n \in ReqSizes, NEW kind, BuildRequest(n, kind)
      PROVE  GatherInv'
  BY <1>1, <1>3 DEF BuildRequest, Call
<1>4. ASSUME NEW n \in 1..cIdx, SendRequest(n) PROVE GatherInv'
  BY <1>1, <1>4 DEF SendRequest, ClientSend
<1>5. ASSUME NEW n \in 1..BUFSIZE, FirstRecvReply(n), cpc' = "more"
      PROVE  GatherInv'
  <2>1. /\ n \in Nat /\ n <= dnSent - dnStart
        /\ cRead' = n /\ cLeft' = dnLen - n
        /\ \A i \in 0..(n - 1) : cbuf'[i] = dnBytes[dnStart + 1 + i]
    BY <1>5, FirstRecvFacts
  <2>2. cLeft' > 0
    BY <1>5 DEF FirstRecvReply, ClientRecvFirst, ClientGot, Missing
  <2>3. PICK len \in Nat : len = dnLen
    BY <1>a
  <2>4. len - n > 0 /\ n + cLeft' = len
    BY <1>a, <2>1, <2>2, <2>3
  <2>5. cbig' = FreshBlock(len, cbuf', n)
    <3>1. cFrag'
      BY <1>5, <2>2 DEF FirstRecvReply
    <3>2. QED
      BY <1>5, <2>4, <3>1 DEF FirstRecvReply
  <2>6. PICK buf \in Buffer : buf = cbuf'
    BY NextBlocks DEF BlocksType
  <2>7. DOMAIN buf = 0..(BUFSIZE - 1) /\ buf \in Blocks
    BY BufferIsBlock DEF Buffer
  <2>8. FreshBlock(len, buf, n) \in [0..(len - 1) -> Byte]
    <3>1. n \in Int
      BY <2>1
    <3>2. QED
      BY <2>7, <3>1, FreshType, Zenon
  <2>9. ASSUME NEW i \in 0..(n - 1)
        PROVE  FreshBlock(len, buf, n)[i] = dnBytes[dnStart + 1 + i]
    <3>a. PICK size \in Nat : size = BUFSIZE
      BY <1>a
    <3>b. n <= size /\ DOMAIN buf = 0..(size - 1)
      BY <1>5, <2>1, <2>7, <3>a
    <3>1. i \in 0..(len - 1) /\ i < n /\ i \in DOMAIN buf
      BY <2>1, <2>3, <2>4, <3>a, <3>b
    <3>2. FreshBlock(len, buf, n)[i] = buf[i]
      BY <3>1 DEF FreshBlock
    <3>3. QED
      BY <2>1, <2>6, <3>2
  <2>10. dnLen' = len /\ dnStart' = dnStart /\ dnBytes' = dnBytes
    BY <1>5, <2>3 DEF FirstRecvReply, ClientRecvFirst, bytes
  <2>11. QED
    BY <2>1, <2>5, <2>6, <2>8, <2>9, <2>10 DEF GatherInv
<1>6. ASSUME NEW n \in 1..BUFSIZE, MoreRecvReply(n)
      PROVE  GatherInv'
  <2>1. /\ cRead' = cRead + n /\ n \in Nat
        /\ cbig' \in [0..(dnLen - 1) -> Byte]
        /\ \A i \in 0..(cRead + n - 1) : cbig'[i] = dnBytes[dnStart + 1 + i]
    BY <1>6, MoreRecvFacts
  <2>2. dnLen' = dnLen /\ dnStart' = dnStart /\ dnBytes' = dnBytes
    BY <1>6 DEF MoreRecvReply, ClientRecvMore, bytes
  <2>3. PICK total \in Nat : total = cRead + n
    BY <1>a, <2>1
  <2>4. \A i \in 0..(total - 1) : cbig'[i] = dnBytes[dnStart + 1 + i]
    BY <1>a, <2>1, <2>3
  <2>5. cRead' = total
    BY <2>1, <2>3
  <2>6. QED
    BY <2>1, <2>2, <2>4, <2>5 DEF GatherInv
<1>7. ASSUME NEW n \in RepSizes, NEW enough \in BOOLEAN, RunHandler(n, enough)
      PROVE  GatherInv'
  <2>1. spc = "exec" /\ cpc' = cpc
    BY <1>7 DEF RunHandler, ServerExec, client
  <2>2. execs + 1 = calls /\ execs \in Nat
    BY <2>1, AtExec DEF Executing, ControlType
  <2>3. cpc # "more"
    BY <2>2, AtMoreRecv
  <2>4. QED
    BY <1>1, <2>1, <2>3
<1>8. ASSUME NEW n \in 1..sIdx, SendReply(n) PROVE GatherInv'
  <2> DEFINE more == [j \in 1..n |->
                        LET i == dnLen - sIdx + j - 1
                        IN IF i \in DOMAIN sMsg THEN sMsg[i] ELSE Junk]
  <2>1. /\ dnBytes' = dnBytes \o more
        /\ UNCHANGED <<cpc, cbig, dnLen, dnStart, cRead>>
    BY <1>8 DEF SendReply, ServerSend, client, cmem
  <2>2. n \in Nat /\ dnBytes \in Seq(Byte) /\ Len(dnBytes) = dnSent
    BY <1>a DEF BlocksType
  <2>3. more \in Seq(Byte)
    <3>1. PICK m \in Nat : sMsg \in [0..(m - 1) -> Byte]
      BY DEF BlocksType, Blocks
    <3>2. \A j \in 1..n : (LET i == dnLen - sIdx + j - 1
                           IN IF i \in DOMAIN sMsg THEN sMsg[i] ELSE Junk) \in Byte
      BY <3>1, JunkIsByte
    <3>3. QED
      BY <2>2, <3>2
  <2> HIDE DEF more
  <2>4. \A i \in 1..dnSent : (dnBytes \o more)[i] = dnBytes[i]
    <3>1. \A i \in 1..(Len(dnBytes) + Len(more)) :
            (dnBytes \o more)[i] =
              IF i <= Len(dnBytes) THEN dnBytes[i] ELSE more[i - Len(dnBytes)]
      BY <2>2, <2>3, ConcatProperties
    <3>2. Len(more) \in Nat
      BY <2>3
    <3>3. QED
      BY <1>a, <2>2, <3>1, <3>2
  <2>5. ASSUME cpc = "more", NEW i \in 0..(cRead - 1)
        PROVE  dnStart + 1 + i \in 1..dnSent
    <3>1. cRead = dnRcvd - dnStart
      BY <2>5, AtMoreRecv
    <3>2. QED
      BY <1>a, <3>1
  <2>6. ASSUME cpc = "more"
        PROVE  /\ cbig \in [0..(dnLen - 1) -> Byte]
               /\ \A i \in 0..(cRead - 1) :
                    cbig[i] = (dnBytes \o more)[dnStart + 1 + i]
    BY <2>4, <2>5, <2>6 DEF GatherInv
  <2>7. QED
    BY <2>1, <2>6 DEF GatherInv
<1>9. ASSUME NEW n \in RepSizes, NEW enough \in BOOLEAN,
             HandlerOverruns(n, enough)
      PROVE  GatherInv'
  BY <1>2, <1>9 DEF HandlerOverruns, client, dn, cmem, bytes
<1>10. ASSUME NEW n \in 1..BUFSIZE, FirstRecvRequest(n) \/ MoreRecvRequest(n)
      PROVE  GatherInv'
  BY <1>2, <1>10 DEF FirstRecvRequest, MoreRecvRequest, ServerRecvFirst,
     ServerRecvMore, client, dn, cmem, bytes
<1>11. CASE ClientLosesServer \/ ClientExit
  BY <1>1, <1>11 DEF ClientLosesServer, ClientExit
<1>12. CASE ServerSeesClose \/ ReplyRefused \/ ServerExit
  BY <1>2, <1>12 DEF ServerSeesClose, ReplyRefused, ServerExit, client, dn,
     cmem, bytes
<1>13. CASE UNCHANGED tvars
  BY <1>2, <1>13 DEF tvars, vars, client, dn, cmem, bytes
<1>14. QED
  BY <1>1, <1>3, <1>4, <1>5, <1>6, <1>7, <1>8, <1>9, <1>10, <1>11, <1>12, <1>13
  DEF TNext, TClient, TServer

-----------------------------------------------------------------------------
(* What a call that returns has made of the reply *)

\* A source that holds the image the handler wrote is decoded right.
LEMMA WrittenIsRight ==
  ASSUME NEW src, dnLen \in Nat, H_OFFSET < dnLen, log[calls].rep = dnLen,
         \A i \in H_OFFSET..(dnLen - 1) :
           i \in DOMAIN src /\ src[i] = <<"r", calls, i>>
  PROVE  Verdict(src) = "right"
<1>1. H_OFFSET \in H_OFFSET..(dnLen - 1) /\ dnLen - 1 \in H_OFFSET..(dnLen - 1)
  BY OffsetType
<1>2. H_OFFSET \in DOMAIN src /\ src[H_OFFSET] = <<"r", calls, H_OFFSET>>
      /\ dnLen - 1 \in DOMAIN src
  BY <1>1
<1>3. Accepts(src)
  BY <1>2 DEF Accepts
<1>4. HoldsReply(src)
  BY DEF HoldsReply
<1>5. QED
  BY <1>3, <1>4 DEF Verdict

\* One that begins with a byte of the request is not taken for a reply.
LEMMA RefusedIsRejected ==
  ASSUME NEW src, src[H_OFFSET] = <<"q", calls, H_OFFSET>>
  PROVE  Verdict(src) = "rejected"
BY DEF Verdict, Accepts

\* What the block of the reply was sent as: the bytes of the reply in the
\* stream, once all of them are there.
LEMMA ReplyBytes ==
  ASSUME ControlType, CountsInv, StreamsInv, dnSent = dnStart + dnLen,
         NEW i \in 0..(dnLen - 1), i \in DOMAIN sMsg
  PROVE  dnBytes[dnStart + 1 + i] = sMsg[i]
<1>1. dnStart \in Nat /\ dnSent \in Nat /\ dnLen \in Nat
  BY DEF ControlType
<1>2. PICK p \in (dnStart + 1)..dnSent : p = dnStart + 1 + i
  BY <1>1
<1>3. p - dnStart - 1 = i
  BY <1>1, <1>2
<1>4. dnBytes[p] = IF p - dnStart - 1 \in DOMAIN sMsg
                     THEN sMsg[p - dnStart - 1] ELSE Junk
  BY DEF StreamsInv
<1>5. QED
  BY <1>2, <1>3, <1>4

\* A source that holds the whole reply as it was sent.
Received(src) == \A i \in 0..(dnLen - 1) :
                   i \in DOMAIN src /\ src[i] = dnBytes[dnStart + 1 + i]

LEMMA ReceivedVerdict ==
  ASSUME ControlType, CountsInv, StreamsInv, ReplyInv, execs = calls, calls > 0,
         dnSent = dnStart + dnLen, NEW src, Received(src)
  PROVE  /\ Written => Verdict(src) = "right"
         /\ Refused => Verdict(src) = "rejected"
<1>1. dnLen \in Nat /\ execs > 0
  BY DEF ControlType
<1>2. H_OFFSET < dnLen /\ H_OFFSET \in Nat
  BY <1>1, OffsetType, TransportAssumption DEF CountsInv
<1>3. ASSUME Written PROVE Verdict(src) = "right"
  <2>1. ASSUME NEW i \in H_OFFSET..(dnLen - 1)
        PROVE  i \in DOMAIN src /\ src[i] = <<"r", calls, i>>
    <3>1. i \in 0..(dnLen - 1)
      BY <1>1, <1>2
    <3>2. i \in DOMAIN sMsg /\ sMsg[i] = <<"r", calls, i>>
      BY <1>3 DEF Written
    <3>3. dnBytes[dnStart + 1 + i] = sMsg[i]
      BY <3>1, <3>2, ReplyBytes
    <3>4. QED
      BY <3>1, <3>2, <3>3 DEF Received
  <2>2. log[calls].rep = dnLen
    BY DEF ReplyInv
  <2>3. QED
    BY <1>1, <1>2, <2>1, <2>2, WrittenIsRight
<1>4. ASSUME Refused PROVE Verdict(src) = "rejected"
  <2>1. H_OFFSET \in 0..(dnLen - 1)
    BY <1>1, <1>2
  <2>2. H_OFFSET \in DOMAIN sMsg /\ sMsg[H_OFFSET] = <<"q", calls, H_OFFSET>>
    BY <1>4 DEF Refused
  <2>3. dnBytes[dnStart + 1 + H_OFFSET] = sMsg[H_OFFSET]
    BY <2>1, <2>2, ReplyBytes
  <2>4. src[H_OFFSET] = <<"q", calls, H_OFFSET>>
    BY <2>1, <2>2, <2>3 DEF Received
  <2>5. QED
    BY <2>4, RefusedIsRejected
<1>5. QED
  BY <1>3, <1>4

\* The three things a call relies on when it returns, with the last recv.
LEMMA Returning ==
  ASSUME ControlType, CountsInv, BlocksType, StreamsInv, ReplyInv,
         execs = calls, calls > 0, dnSent = dnStart + dnLen,
         NEW big, Deliver(dnLen, big), cpc' = "idle", cFrag' \in BOOLEAN,
         cFrag' => Received(big),
         ~cFrag' => Received(cbuf') /\ dnLen <= BUFSIZE,
         UNCHANGED <<log, calls, dnLen, sFrag, argsOk>>
  PROVE  ReturnInv'
<1> DEFINE src == IF DecodesBig(dnLen) THEN big ELSE cbuf'
           h == IF cFrag' THEN "live" ELSE heap
           frees == FreesBig(dnLen, Verdict(src))
<1>1. out' = Verdict(src) /\ heap' = IF frees THEN AfterFree[h] ELSE h
  BY DEF Deliver
<1>2. /\ BUFSIZE \in Nat /\ LenBytes \in Nat /\ dnLen \in Nat
  BY FramingAssumption DEF ControlType
<1>3. (Written \/ Refused) /\ (sFrag \/ argsOk)
      /\ (log[calls].kind = "plain" => dnLen <= BUFSIZE)
  BY DEF ReplyInv
<1>4. DecodesBig(dnLen) => cFrag'
  BY <1>2 DEF DecodesBig
<1>5. (cFrag' => DecodesBig(dnLen)) => Received(src)
  BY <1>4
<1>6. Received(src) => /\ Written => Verdict(src) = "right"
                       /\ Refused => Verdict(src) = "rejected"
  BY ReceivedVerdict
<1>7. DecodesBig(dnLen)' <=> DecodesBig(dnLen)
  BY DEF DecodesBig
<1> HIDE DEF src
<1>8. CallDecodesItsReply'
  <2> SUFFICES ASSUME ~sFrag, cFrag' => DecodesBig(dnLen)
               PROVE  out' = "right" /\ argsOk'
    BY <1>7 DEF CallDecodesItsReply
  <2>1. Written
    BY <1>3 DEF Refused
  <2>2. QED
    BY <1>1, <1>3, <1>5, <1>6, <2>1
<1>9. WrongOnlyInPieces'
  <2> SUFFICES ASSUME ~cFrag' PROVE out' # "wrong"
    BY DEF WrongOnlyInPieces
  <2>1. Verdict(src) = "right" \/ Verdict(src) = "rejected"
    BY <1>3, <1>5, <1>6
  <2>2. QED
    BY <1>1, <2>1
<1>10. BigReplyFreed'
  <2> SUFFICES ASSUME DecodesBig(dnLen) PROVE heap' = "freed"
    BY <1>7 DEF BigReplyFreed
  <2>1. log[calls].kind = "array" /\ dnLen > BUFSIZE
    BY DEF DecodesBig
  <2>2. Written
    BY <1>3, <2>1 DEF Refused
  <2>3. Verdict(src) = "right"
    BY <1>5, <1>6, <2>2
  <2>4. frees
    BY <1>2, <2>1, <2>3 DEF FreesBig
  <2>5. h = "live"
    BY <1>4
  <2>6. QED
    BY <1>1, <2>4, <2>5, AfterFreeValues
<1>11. QED
  BY <1>8, <1>9, <1>10 DEF ReturnInv

LEMMA NextReturn ==
  ControlType /\ CountsInv /\ BlocksType /\ StreamsInv /\ PlaceInv /\ ReplyInv
    /\ GatherInv /\ ReturnInv /\ [TNext]_tvars /\ whole' => ReturnInv'
<1> SUFFICES ASSUME ControlType, CountsInv, BlocksType, StreamsInv, PlaceInv,
                    ReplyInv, GatherInv, ReturnInv, [TNext]_tvars, whole'
             PROVE  ReturnInv'
  OBVIOUS
<1>a. /\ BUFSIZE \in Nat /\ dnSent \in Nat /\ dnRcvd \in Nat /\ dnStart \in Nat
      /\ dnLen \in Nat /\ cRead \in Nat /\ cLeft \in Int /\ sIdx \in Nat
      /\ dnSent + sIdx = dnStart + dnLen /\ dnRcvd <= dnSent
  BY FramingAssumption DEF ControlType, CountsInv
<1>1. ASSUME cpc' # "idle" PROVE ReturnInv'
  BY <1>1 DEF ReturnInv, CallDecodesItsReply, WrongOnlyInPieces, BigReplyFreed
<1>2. ASSUME UNCHANGED <<cpc, returns, sFrag, cFrag, log, calls, dnLen, out,
                         argsOk, heap>>
      PROVE  ReturnInv'
  BY <1>2 DEF ReturnInv, CallDecodesItsReply, WrongOnlyInPieces, BigReplyFreed,
     DecodesBig
<1>3. ASSUME NEW n \in ReqSizes, NEW kind, BuildRequest(n, kind)
      PROVE  ReturnInv'
  BY <1>1, <1>3 DEF BuildRequest, Call
<1>4. ASSUME NEW n \in 1..cIdx, SendRequest(n) PROVE ReturnInv'
  BY <1>1, <1>4 DEF SendRequest, ClientSend, Unsent
<1>5. ASSUME NEW n \in 1..BUFSIZE, FirstRecvReply(n), cpc' = "idle"
      PROVE  ReturnInv'
  <2>1. /\ execs = calls /\ calls > 0 /\ n \in Nat /\ n <= dnSent - dnStart
        /\ cLeft' = dnLen - n
        /\ \A i \in 0..(n - 1) : cbuf'[i] = dnBytes[dnStart + 1 + i]
    BY <1>5, FirstRecvFacts
  <2>2. ~(cLeft' > 0)
    BY <1>5 DEF FirstRecvReply, ClientRecvFirst, ClientGot, Missing
  <2>3. ~(dnLen - n > 0)
    BY <2>1, <2>2
  <2>4. n = dnLen /\ dnSent = dnStart + dnLen /\ dnLen <= BUFSIZE
    BY <1>a, <2>1, <2>3
  <2>5. ~cFrag'
    BY <1>5, <2>2 DEF FirstRecvReply
  <2>6. Deliver(dnLen, cbig)
    BY <1>5, <2>4, <2>5 DEF FirstRecvReply
  <2>7. Received(cbuf')
    <3>1. DOMAIN cbuf' = 0..(BUFSIZE - 1)
      BY NextBlocks DEF BlocksType, Buffer
    <3>2. \A i \in 0..(dnLen - 1) : i \in 0..(BUFSIZE - 1)
      BY <1>a, <2>4
    <3>3. QED
      BY <2>1, <2>4, <3>1, <3>2 DEF Received
  <2>8. UNCHANGED <<log, calls, dnLen, sFrag, argsOk>>
    BY <1>5 DEF FirstRecvReply, ClientRecvFirst, smem, bytes
  <2>9. QED
    <3>1. cFrag' \in BOOLEAN
      BY NextControl DEF ControlType
    <3>2. cFrag' => Received(cbig)
      BY <2>5
    <3>3. QED
      BY <1>5, <2>1, <2>4, <2>6, <2>7, <2>8, <3>1, <3>2, Returning
<1>6. ASSUME NEW n \in 1..BUFSIZE, MoreRecvReply(n), cpc' = "idle"
      PROVE  ReturnInv'
  <2>1. /\ execs = calls /\ calls > 0 /\ n \in Nat /\ n <= cLeft
        /\ n <= dnSent - dnRcvd
        /\ cRead = dnRcvd - dnStart /\ cLeft = dnLen - cRead
        /\ cLeft' = cLeft - n
        /\ cbig' \in [0..(dnLen - 1) -> Byte]
        /\ \A i \in 0..(cRead + n - 1) : cbig'[i] = dnBytes[dnStart + 1 + i]
    BY <1>6, MoreRecvFacts
  <2>2. ~(cLeft - n > 0)
    BY <1>6 DEF MoreRecvReply, ClientRecvMore, ClientGot, Missing
  <2>3. cRead + n = dnLen /\ dnSent = dnStart + dnLen
    BY <1>a, <2>1, <2>2
  <2>4. cFrag' /\ cFrag' \in BOOLEAN
    BY <1>6 DEF MoreRecvReply, ClientRecvMore, CountsInv, ControlType
  <2>5. Deliver(dnLen, cbig')
    BY <1>6, <2>3 DEF MoreRecvReply
  <2>6. Received(cbig')
    BY <2>1, <2>3 DEF Received
  <2>7. UNCHANGED <<log, calls, dnLen, sFrag, argsOk>>
    BY <1>6 DEF MoreRecvReply, ClientRecvMore, smem, bytes
  <2>8. QED
    BY <1>6, <2>1, <2>3, <2>4, <2>5, <2>6, <2>7, Returning
<1>7. ASSUME NEW n \in 1..BUFSIZE, FirstRecvRequest(n) \/ MoreRecvRequest(n)
      PROVE  ReturnInv'
  <2>1. spc \in {"recv", "more"} /\ upRcvd < upSent /\ cpc' = cpc
    <3>1. n >= 1 /\ n \in Nat /\ upSent \in Nat /\ upRcvd \in Nat
      BY <1>a DEF ControlType
    <3>2. CASE FirstRecvRequest(n)
      BY <3>1, <3>2 DEF FirstRecvRequest, ServerRecvFirst, Recv, client
    <3>3. CASE MoreRecvRequest(n)
      BY <3>1, <3>3 DEF MoreRecvRequest, ServerRecvMore, Recv, client
    <3>4. QED
      BY <1>7, <3>2, <3>3
  <2>2. cpc # "idle"
    BY <2>1 DEF PlaceInv, Place, AtRest, ControlType
  <2>3. QED
    BY <1>1, <2>1, <2>2
<1>8. ASSUME spc \in {"exec", "send"}, cpc' = cpc PROVE ReturnInv'
  <2>1. cpc # "idle"
    BY <1>8 DEF PlaceInv, Place, AtRest, Stopped
  <2>2. QED
    BY <1>1, <1>8, <2>1
<1>9. ASSUME NEW n \in RepSizes, NEW enough \in BOOLEAN,
             RunHandler(n, enough) \/ HandlerOverruns(n, enough)
      PROVE  ReturnInv'
  BY <1>8, <1>9 DEF RunHandler, HandlerOverruns, ServerExec, client
<1>10. ASSUME NEW n \in 1..sIdx, SendReply(n) PROVE ReturnInv'
  BY <1>8, <1>10 DEF SendReply, ServerSend, client
<1>11. CASE ClientLosesServer \/ ClientExit
  BY <1>1, <1>11 DEF ClientLosesServer, ClientExit
<1>12. CASE ServerSeesClose \/ ReplyRefused \/ ServerExit
  BY <1>2, <1>12 DEF ServerSeesClose, ReplyRefused, ServerExit, client, dn,
     count, cmem, smem, bytes
<1>13. CASE UNCHANGED tvars
  BY <1>2, <1>13 DEF tvars, vars, client, dn, count, cmem, smem, bytes
<1>14. QED
  BY <1>1, <1>3, <1>4, <1>5, <1>6, <1>7, <1>9, <1>10, <1>11, <1>12, <1>13
  DEF TNext, TClient, TServer

-----------------------------------------------------------------------------
(* What brings the server down *)

LEMMA NextEnd ==
  ControlType /\ CountsInv /\ BlocksType /\ PlaceInv /\ RequestInv /\ EndInv
    /\ [TNext]_tvars /\ whole' => EndInv'
<1> SUFFICES ASSUME ControlType, CountsInv, BlocksType, PlaceInv, RequestInv,
                    EndInv, [TNext]_tvars, whole'
             PROVE  EndInv'
  OBVIOUS
<1>a. /\ BUFSIZE \in Nat /\ upLen \in Nat /\ dnSent \in Nat /\ dnRcvd \in Nat
  BY FramingAssumption DEF ControlType
<1> DEFINE Down == spc \in {"dead", "undefined"}
<1>1. ASSUME ~Down' PROVE EndInv'
  BY <1>1 DEF EndInv, ServerSurvivesIdleExit
<1>2. ASSUME UNCHANGED <<cpc, leftIn, spc, sFrag, upLen, dnSent, dnRcvd, log,
                         calls>>
      PROVE  EndInv'
  BY <1>2 DEF EndInv, ServerSurvivesIdleExit, ReplySizes, ClientLost
<1>3. ASSUME NEW n \in ReqSizes, NEW kind, BuildRequest(n, kind)
      PROVE  EndInv'
  <2>1. cpc = "idle" /\ spc' = spc
    BY <1>3 DEF BuildRequest, Call, server
  <2>2. ~Down
    BY <2>1 DEF EndInv, ClientLost
  <2>3. QED
    BY <1>1, <2>1, <2>2
<1>4. ASSUME NEW n \in 1..cIdx, SendRequest(n) PROVE EndInv'
  <2>1. cpc = "send" /\ spc' = spc
    BY <1>4 DEF SendRequest, ClientSend, server
  <2>2. ~Down
    BY <2>1 DEF EndInv, ClientLost
  <2>3. QED
    BY <1>1, <2>1, <2>2
<1>5. ASSUME NEW n \in 1..BUFSIZE, FirstRecvReply(n) \/ MoreRecvReply(n)
      PROVE  EndInv'
  <2>1. cpc \in {"recv", "more"} /\ spc' = spc /\ dnRcvd < dnSent
    <3>1. n >= 1 /\ n \in Nat
      BY <1>a
    <3>2. CASE FirstRecvReply(n)
      BY <1>a, <3>1, <3>2 DEF FirstRecvReply, ClientRecvFirst, Recv, server
    <3>3. CASE MoreRecvReply(n)
      BY <1>a, <3>1, <3>3 DEF MoreRecvReply, ClientRecvMore, Recv, server
    <3>4. QED
      BY <1>5, <3>2, <3>3
  <2>2. ~Down
    BY <1>a, <2>1 DEF EndInv, ClientLost
  <2>3. QED
    BY <1>1, <2>1, <2>2
<1>6. CASE ClientLosesServer
  <2>1. cpc' = "undefined" /\ spc' = spc /\ sFrag' = sFrag /\ upLen' = upLen
        /\ cpc \in {"send", "recv", "more"}
    BY <1>6 DEF ClientLosesServer, server, up, smem
  <2>2. QED
    BY <2>1 DEF EndInv, ServerSurvivesIdleExit, ClientLost
<1>7. CASE ClientExit
  <2>1. cpc' = "gone" /\ leftIn' = cpc /\ ~ClientLost /\ spc' = spc
    BY <1>7 DEF ClientExit, server
  <2>2. QED
    BY <2>1 DEF EndInv, ServerSurvivesIdleExit, ClientLost
<1>8. ASSUME NEW n \in 1..BUFSIZE, FirstRecvRequest(n) \/ MoreRecvRequest(n)
      PROVE  EndInv'
  <2>1. spc' \in {"more", "exec"}
    BY <1>8 DEF FirstRecvRequest, MoreRecvRequest, ServerRecvFirst,
       ServerRecvMore, ServerGot
  <2>2. QED
    BY <1>1, <2>1
<1>9. ASSUME NEW n \in RepSizes, NEW enough \in BOOLEAN, RunHandler(n, enough)
      PROVE  EndInv'
  BY <1>1, <1>9 DEF RunHandler, ServerExec
<1>10. ASSUME NEW n \in RepSizes, NEW enough \in BOOLEAN,
              HandlerOverruns(n, enough)
       PROVE  EndInv'
  <2>1. /\ spc = "exec" /\ n \in ReplySizes /\ n - 1 \notin DOMAIN ReplyBlock(n)
        /\ spc' = "undefined"
        /\ UNCHANGED <<cpc, leftIn, sFrag, upLen, dnSent, dnRcvd, log, calls>>
    BY <1>10 DEF HandlerOverruns, client, up, dn, count, smem, bytes, past
  <2>2. n \in Nat /\ n > LenBytes /\ n >= 1 /\ LenBytes \in Nat
    BY FramingAssumption
  <2>3. n <= BUFSIZE
    <3> SUFFICES ASSUME n > BUFSIZE PROVE FALSE
      BY <1>a, <2>2
    <3>1. ReplyBlock(n) = FreshBlock(n, RequestBlock, H_OFFSET)
      BY DEF ReplyBlock
    <3>2. DOMAIN ReplyBlock(n) = 0..(n - 1)
      BY <3>1 DEF FreshBlock
    <3>3. n - 1 \in 0..(n - 1)
      BY <2>2
    <3>4. QED
      BY <2>1, <3>2, <3>3
  <2>4. n - 1 \notin DOMAIN RequestBlock
    BY <1>a, <2>1, <2>2, <2>3 DEF ReplyBlock
  <2>5. sFrag
    <3> SUFFICES ASSUME ~sFrag PROVE FALSE
      OBVIOUS
    <3>1. DOMAIN RequestBlock = 0..(BUFSIZE - 1)
      BY DEF RequestBlock, BlocksType, Buffer
    <3>2. n - 1 \in 0..(BUFSIZE - 1)
      BY <1>a, <2>2, <2>3
    <3>3. QED
      BY <2>4, <3>1, <3>2
  <2>6. n > upLen
    <3>1. DOMAIN RequestBlock = 0..(upLen - 1)
      BY <2>1, <2>5 DEF RequestBlock, RequestInv
    <3>2. n - 1 \notin 0..(upLen - 1)
      BY <2>4, <3>1
    <3>3. QED
      BY <1>a, <2>2, <3>2
  <2>7. \E k \in ReplySizes : k > upLen
    BY <2>1, <2>6
  <2>8. (\E k \in ReplySizes : k > upLen)'
    BY <2>1, <2>7 DEF ReplySizes
  <2>9. upLen < BUFSIZE
    BY <1>a, <2>2, <2>3, <2>6
  <2>10. ~ClientLost => cpc = "recv" /\ dnSent = dnRcvd
    <3>1. Executing
      BY <2>1, AtExec
    <3>2. QED
      BY <3>1 DEF Executing, ClientLost, PlaceInv, Place, AtRest, ReadingRequest,
         Replying, Stopped, ControlType
  <2>11. QED
    BY <2>1, <2>5, <2>8, <2>9, <2>10 DEF EndInv, ServerSurvivesIdleExit,
       ClientLost
<1>11. ASSUME NEW n \in 1..sIdx, SendReply(n) PROVE EndInv'
  BY <1>1, <1>11 DEF SendReply, ServerSend
<1>12. CASE ServerSeesClose
  <2>1. /\ ClientLost /\ spc \in {"recv", "more"} /\ cpc' = cpc
        /\ leftIn' = leftIn
        /\ spc' = IF spc = "recv" /\ ~Reset THEN "ended" ELSE "undefined"
    BY <1>12 DEF ServerSeesClose, client, past
  <2>2. cpc = "gone"
    BY <2>1 DEF PlaceInv, ServerLost, ClientLost
  <2>3. ASSUME leftIn = "idle" PROVE spc' = "ended"
    <3>1. AtRest
      BY <2>2, <2>3 DEF PlaceInv, Place
    <3>2. spc = "recv" /\ dnSent = dnRcvd
      BY <2>1, <3>1 DEF AtRest, Stopped
    <3>3. ~Reset
      BY <1>a, <3>2 DEF Reset
    <3>4. QED
      BY <2>1, <3>2, <3>3
  <2>4. QED
    BY <2>1, <2>2, <2>3 DEF EndInv, ServerSurvivesIdleExit, ClientLost
<1>13. CASE ReplyRefused
  <2>1. ClientLost /\ spc = "send" /\ cpc' = cpc /\ leftIn' = leftIn
    BY <1>13 DEF ReplyRefused, client, past
  <2>2. cpc = "gone"
    BY <2>1 DEF PlaceInv, ServerLost, ClientLost
  <2>3. leftIn # "idle"
    BY <2>1, <2>2 DEF PlaceInv, Place, AtRest, Stopped
  <2>4. QED
    BY <2>1, <2>2, <2>3 DEF EndInv, ServerSurvivesIdleExit, ClientLost
<1>14. CASE ServerExit
  BY <1>1, <1>14 DEF ServerExit
<1>15. CASE UNCHANGED tvars
  BY <1>2, <1>15 DEF tvars, vars, client, server, up, dn, count, smem, bytes,
     past
<1>16. QED
  BY <1>3, <1>4, <1>5, <1>6, <1>7, <1>8, <1>9, <1>10, <1>11, <1>12, <1>13,
     <1>14, <1>15 DEF TNext, TClient, TServer

-----------------------------------------------------------------------------
(* The invariant, and what follows from it *)

LEMMA NextTInv == TInv /\ [TNext]_tvars => TInv'
<1> SUFFICES ASSUME TInv, [TNext]_tvars PROVE TInv'
  OBVIOUS
<1>1. ControlType /\ BlocksType /\ CountsInv /\ StreamsInv
  BY DEF TInv
<1>2. ControlType' /\ BlocksType' /\ CountsInv' /\ StreamsInv'
  BY <1>1, NextControl, NextBlocks, NextCounts, NextStreams
<1>3. ASSUME whole'
      PROVE  /\ PlaceInv' /\ RequestInv' /\ ReplyInv' /\ GatherInv'
             /\ ReturnInv' /\ EndInv'
  <2>1. whole
    BY <1>1, <1>3, WholeBefore
  <2>2. /\ PlaceInv /\ RequestInv /\ ReplyInv /\ GatherInv /\ ReturnInv
        /\ EndInv
    BY <2>1 DEF TInv
  <2>3. QED
    BY <1>1, <1>3, <2>2, NextPlace, NextRequest, NextReply, NextGather,
       NextReturn, NextEnd
<1>4. QED
  BY <1>2, <1>3 DEF TInv

LEMMA TInvariance == TSpec => []TInv
BY InitTInv, NextTInv, PTL DEF TSpec

LEMMA TypesFollow == TInv => TransportTypeOK
<1> SUFFICES ASSUME TInv PROVE TransportTypeOK
  OBVIOUS
<1>1. ControlType /\ BlocksType /\ CountsInv
  BY DEF TInv
<1>2. DOMAIN cbuf = 0..(BUFSIZE - 1) /\ DOMAIN sbuf = 0..(BUFSIZE - 1)
  BY <1>1 DEF BlocksType, Buffer
<1>3. heap \in DOMAIN AfterFree
  BY <1>1 DEF ControlType, AfterFree
<1>4. leaks \in 0..calls
  BY <1>1 DEF ControlType, CountsInv
<1>5. QED
  BY <1>1, <1>2, <1>3, <1>4 DEF TransportTypeOK, ControlType, BlocksType

(* While every first recv returned the whole length word, a handler is     *)
(* given the request it was sent, a call that may rely on it decodes the   *)
(* reply that was written, and the block a large array was gathered in is  *)
(* freed; for every buffer and message size, any number of calls, any      *)
(* chunking, sends that take less than they are given, and processes that  *)
(* exit anywhere.                                                          *)
THEOREM BytesKept == TSpec => []CallsKeepTheirBytes
<1>1. TInv => CallsKeepTheirBytes
  <2> SUFFICES ASSUME TInv PROVE CallsKeepTheirBytes
    OBVIOUS
  <2>1. TransportTypeOK
    BY TypesFollow
  <2>2. whole => HandlerSeesRequest
    BY HandlerIsGiven DEF TInv, HandlerSeesRequest
  <2>3. whole => CallDecodesItsReply /\ WrongOnlyInPieces /\ BigReplyFreed
    BY DEF TInv, ReturnInv
  <2>4. QED
    BY <2>1, <2>2, <2>3 DEF CallsKeepTheirBytes
<1>2. QED
  BY TInvariance, <1>1, PTL

(* The server is brought down only by a handler whose request came in      *)
(* pieces, whose block the reply does not fit, or by a client that exited  *)
(* in the middle of a call; never by one that exits between two calls.     *)
THEOREM ServerFalls == TSpec => []ServerFallsForAReason
<1>1. TInv => ServerFallsForAReason
  BY DEF TInv, EndInv, ServerFallsForAReason, OverrunOnlyInPieces
<1>2. QED
  BY TInvariance, <1>1, PTL

(* The block of a large array is freed a second time only by a call whose  *)
(* reply, of 1021 to 1024 bytes, came in one piece.                        *)
THEOREM FreedTwice == TSpec => FreedTwiceOnlyInWindow
<1> DEFINE Window == whole' /\ heap' = "corrupt" /\ heap # "corrupt" =>
                       ~cFrag' /\ BUFSIZE - LenBytes < dnLen /\ dnLen <= BUFSIZE
<1>1. TInv /\ [TNext]_tvars => [Window]_tvars
  <2> SUFFICES ASSUME TInv, [TNext]_tvars, whole', heap' = "corrupt",
                      heap # "corrupt"
               PROVE  ~cFrag' /\ BUFSIZE - LenBytes < dnLen /\ dnLen <= BUFSIZE
    OBVIOUS
  <2>a. /\ ControlType /\ BlocksType /\ CountsInv /\ StreamsInv /\ PlaceInv
        /\ GatherInv
    BY WholeBefore DEF TInv
  <2>b. /\ BUFSIZE \in Nat /\ LenBytes \in Nat /\ dnSent \in Nat
        /\ dnStart \in Nat /\ dnLen \in Nat /\ sIdx \in Nat
        /\ dnSent + sIdx = dnStart + dnLen
    BY <2>a, FramingAssumption DEF ControlType, CountsInv
  <2>1. ASSUME NEW n \in 1..BUFSIZE, FirstRecvReply(n)
        PROVE  ~cFrag' /\ BUFSIZE - LenBytes < dnLen /\ dnLen <= BUFSIZE
    <3>1. ~cFrag' /\ Deliver(n, cbig)
      BY <2>1 DEF FirstRecvReply
    <3>2. cpc' # "more" /\ FreesBig(n, out')
      BY <3>1 DEF Deliver
    <3>3. n > BUFSIZE - LenBytes
      BY <3>2 DEF FreesBig
    <3>4. ~(cLeft' > 0)
      BY <2>1, <3>2 DEF FirstRecvReply, ClientRecvFirst, ClientGot, Missing
    <3>5. /\ n \in Nat /\ n <= dnSent - dnStart
          /\ cLeft' = dnLen - n
      BY <2>a, <2>1, FirstRecvFacts
    <3>6. ~(dnLen - n > 0)
      BY <3>4, <3>5
    <3>7. n = dnLen
      BY <2>b, <3>5, <3>6
    <3>8. QED
      BY <2>b, <3>1, <3>3, <3>7
  <2>2. ASSUME NEW n \in 1..BUFSIZE, MoreRecvReply(n) PROVE FALSE
    <3>1. cFrag' /\ heap = "live" /\ Deliver(cRead + n, cbig')
      BY <2>a, <2>2 DEF MoreRecvReply, ClientRecvMore, CountsInv
    <3>2. heap' \in {"live", "freed"}
      BY <3>1, AfterFreeValues DEF Deliver
    <3>3. QED
      BY <3>2
  <2>3. ASSUME UNCHANGED heap PROVE FALSE
    BY <2>3
  <2>4. ASSUME NEW n \in ReqSizes, NEW kind, BuildRequest(n, kind) PROVE FALSE
    BY <2>3, <2>4 DEF BuildRequest
  <2>5. ASSUME NEW n \in Nat, \/ SendRequest(n) \/ SendReply(n)
                              \/ FirstRecvRequest(n) \/ MoreRecvRequest(n)
        PROVE  FALSE
    BY <2>3, <2>5 DEF SendRequest, SendReply, FirstRecvRequest,
       MoreRecvRequest, cmem
  <2>6. ASSUME NEW n \in RepSizes, NEW enough \in BOOLEAN,
               RunHandler(n, enough) \/ HandlerOverruns(n, enough)
        PROVE  FALSE
    BY <2>3, <2>6 DEF RunHandler, HandlerOverruns, cmem
  <2>7. CASE \/ ClientLosesServer \/ ClientExit \/ ServerSeesClose
             \/ ReplyRefused \/ ServerExit
    BY <2>3, <2>7 DEF ClientLosesServer, ClientExit, ServerSeesClose,
       ReplyRefused, ServerExit, cmem
  <2>8. CASE UNCHANGED tvars
    BY <2>3, <2>8 DEF tvars, cmem
  <2>9. /\ 1..cIdx \subseteq Nat /\ 1..sIdx \subseteq Nat
        /\ 1..BUFSIZE \subseteq Nat
    BY <2>a, <2>b DEF ControlType
  <2>10. QED
    BY <2>1, <2>2, <2>4, <2>5, <2>6, <2>7, <2>8, <2>9
    DEF TNext, TClient, TServer
<1>2. QED
  BY TInvariance, <1>1, PTL DEF TSpec, FreedTwiceOnlyInWindow
-----------------------------------------------------------------------------
(* The first call, whatever its first recvs return *)

\* What holds of a first call from its request to the end of its reply, of
\* which a first recv may take less than the length word.
FirstCall ==
  /\ calls = 0 =>
       upSent = 0 /\ execs = 0 /\ spc \notin {"more", "exec", "send"}
       /\ cpc \notin {"send", "recv", "more"}
  /\ execs = 0 => dnSent = 0 /\ spc # "send"
  /\ execs = 1 => dnStart = 0
  /\ calls = 0 \/ (calls = 1 /\ cpc \in {"send", "recv"}) => dnRcvd = 0
  /\ cpc = "more" => execs > 0
  /\ spc \in {"more", "exec"} /\ sFrag => 0 \in DOMAIN sbig

FirstCallBytes ==
  calls = 1 =>
    /\ log[1].req = upLen
    /\ execs = 1 =>
         log[1].rep = dnLen /\ 0 \in DOMAIN sMsg /\ sMsg[0] = <<"r", 1, 0>>
    /\ cpc \in {"send", "recv"} /\ BuildsInBuf(upLen) => cbuf[1] = <<"q", 1, 1>>

ShortInv == FirstCall /\ FirstCallBytes /\ ShortReadHarmless

LEMMA InitShort == TInit => ShortInv
BY DEF TInit, Init, ShortInv, FirstCall, FirstCallBytes, ShortReadHarmless

LEMMA NextFirstCall ==
  TInv /\ FirstCall /\ [TNext]_tvars => FirstCall'
<1> SUFFICES ASSUME TInv, FirstCall, [TNext]_tvars PROVE FirstCall'
  OBVIOUS
<1>0. ControlType /\ BlocksType /\ CountsInv
  BY DEF TInv
<1>t. /\ upSent \in Nat /\ upRcvd \in Nat /\ dnSent \in Nat /\ dnRcvd \in Nat
      /\ dnRcvd <= dnSent /\ upRcvd <= upSent /\ calls \in Nat
      /\ execs \in Nat /\ BUFSIZE \in Nat /\ BUFSIZE >= 1
  BY <1>0, FramingAssumption, OffsetType DEF ControlType, CountsInv
<1> USE DEF FirstCall
<1>1. ASSUME NEW n \in ReqSizes, NEW kind, BuildRequest(n, kind)
      PROVE  FirstCall'
  BY <1>t, <1>1 DEF BuildRequest, Call, server, dn, smem
<1>2. ASSUME NEW n \in 1..cIdx, SendRequest(n) PROVE FirstCall'
  BY <1>t, <1>2 DEF SendRequest, ClientSend, Unsent, server, dn, count, smem
<1>3. ASSUME NEW n \in 1..BUFSIZE, FirstRecvReply(n) PROVE FirstCall'
  BY <1>t, <1>3 DEF FirstRecvReply, ClientRecvFirst, ClientGot, Recv, server,
     up, smem
<1>4. ASSUME NEW n \in 1..BUFSIZE, MoreRecvReply(n) PROVE FirstCall'
  BY <1>t, <1>4 DEF MoreRecvReply, ClientRecvMore, ClientGot, Recv, server,
     up, smem
<1>5. ASSUME NEW n \in 1..BUFSIZE, FirstRecvRequest(n) PROVE FirstCall'
  <2>1. /\ upSent # 0 /\ spc = "recv" /\ spc' \in {"more", "exec"}
        /\ UNCHANGED <<upSent, dnSent, dnRcvd, dnStart, calls, execs, cpc>>
    BY <1>t, <1>5 DEF FirstRecvRequest, ServerRecvFirst, ServerGot, Recv,
       client, dn, count
  <2>2. ASSUME sFrag' PROVE 0 \in DOMAIN sbig'
    <3>1. /\ sbig' = FreshBlock(n + sLeft', sbuf', n) /\ sLeft' > 0
      BY <1>5, <2>2 DEF FirstRecvRequest
    <3>2. sLeft' \in Int
      BY <1>0, NextControl DEF ControlType
    <3>3. PICK left \in Int : left = sLeft'
      BY <3>2
    <3>4. left > 0
      BY <3>1, <3>3
    <3>5. 0 \in 0..(n + left - 1)
      BY <3>4
    <3>6. sbig' = FreshBlock(n + left, sbuf', n)
      BY <3>1, <3>3
    <3>7. QED
      BY <3>5, <3>6 DEF FreshBlock
  <2>3. QED
    BY <2>1, <2>2
<1>6. ASSUME NEW n \in 1..BUFSIZE, MoreRecvRequest(n) PROVE FirstCall'
  <2>1. /\ DOMAIN sbig' = DOMAIN sbig /\ sFrag' = sFrag
    BY <1>6 DEF MoreRecvRequest, Copy
  <2>2. /\ spc = "more" /\ spc' \in {"more", "exec"}
        /\ UNCHANGED <<upSent, dnSent, dnRcvd, dnStart, calls, execs, cpc>>
    BY <1>6 DEF MoreRecvRequest, ServerRecvMore, ServerGot, client, dn, count
  <2>3. QED
    BY <2>1, <2>2
<1>7. ASSUME NEW n \in RepSizes, NEW enough \in BOOLEAN, RunHandler(n, enough)
      PROVE  FirstCall'
  BY <1>t, <1>7 DEF RunHandler, ServerExec, client, up
<1>8. ASSUME NEW n \in RepSizes, NEW enough \in BOOLEAN,
             HandlerOverruns(n, enough)
      PROVE  FirstCall'
  BY <1>8 DEF HandlerOverruns, client, up, dn, count, smem
<1>9. ASSUME NEW n \in 1..sIdx, SendReply(n) PROVE FirstCall'
  BY <1>t, <1>9 DEF SendReply, ServerSend, Unsent, client, up, count, smem
<1>10. CASE ClientLosesServer \/ ClientExit
  BY <1>10 DEF ClientLosesServer, ClientExit, server, up, dn, count, smem
<1>11. CASE ServerSeesClose \/ ReplyRefused \/ ServerExit
  BY <1>11 DEF ServerSeesClose, ReplyRefused, ServerExit, client, up, dn,
     count, smem
<1>12. CASE UNCHANGED tvars
  BY <1>12 DEF tvars, vars, client, server, up, dn, count, smem
<1>13. QED
  BY <1>1, <1>2, <1>3, <1>4, <1>5, <1>6, <1>7, <1>8, <1>9, <1>10, <1>11,
     <1>12 DEF TNext, TClient, TServer

LEMMA NextFirstCallBytes ==
  TInv /\ FirstCall /\ FirstCallBytes /\ [TNext]_tvars => FirstCallBytes'
<1> SUFFICES ASSUME TInv, FirstCall, FirstCallBytes, [TNext]_tvars, calls' = 1
             PROVE  /\ log'[1].req = upLen'
                    /\ execs' = 1 => /\ log'[1].rep = dnLen'
                                     /\ 0 \in DOMAIN sMsg'
                                     /\ sMsg'[0] = <<"r", 1, 0>>
                    /\ cpc' \in {"send", "recv"} /\ BuildsInBuf(upLen)'
                         => cbuf'[1] = <<"q", 1, 1>>
  BY DEF FirstCallBytes
<1> DEFINE Goal == /\ log'[1].req = upLen'
                   /\ execs' = 1 => /\ log'[1].rep = dnLen'
                                    /\ 0 \in DOMAIN sMsg'
                                    /\ sMsg'[0] = <<"r", 1, 0>>
                   /\ cpc' \in {"send", "recv"} /\ BuildsInBuf(upLen)'
                        => cbuf'[1] = <<"q", 1, 1>>
<1> SUFFICES Goal
  OBVIOUS
<1>0. ControlType /\ BlocksType /\ CountsInv
  BY DEF TInv
<1>t. calls \in Nat /\ execs \in Nat /\ BUFSIZE \in Nat /\ BUFSIZE >= 2
  BY <1>0, FramingAssumption, OffsetType DEF ControlType
<1>1. ASSUME UNCHANGED <<calls, log, upLen, execs, dnLen, sMsg>>,
             cpc' \in {"send", "recv"} =>
               cpc \in {"send", "recv"} /\ cbuf' = cbuf
      PROVE  Goal
  BY <1>1 DEF FirstCallBytes, BuildsInBuf
<1>2. ASSUME NEW n \in ReqSizes, NEW kind, BuildRequest(n, kind) PROVE Goal
  <2>1. calls = 0 /\ execs' = 0
    BY <1>t, <1>2 DEF BuildRequest, Call, FirstCall
  <2>2. log = <<>>
    BY <1>0, <2>1 DEF BlocksType
  <2>3. log' = <<[kind |-> kind, req |-> n, rep |-> 0]>> /\ upLen' = n
    BY <1>2, <2>2 DEF BuildRequest, Call
  <2>4. BuildsInBuf(n) => cbuf'[1] = <<"q", 1, 1>>
    <3>1. n > 2 /\ n \in Nat
      BY FramingAssumption, OffsetType
    <3>2. 1 \in DOMAIN cbuf
      BY <1>0, <1>t DEF BlocksType, Buffer
    <3>3. QED
      BY <1>2, <2>1, <3>1, <3>2 DEF BuildRequest
  <2>5. QED
    BY <2>1, <2>3, <2>4 DEF BuildsInBuf
<1>3. ASSUME NEW n \in 1..cIdx, SendRequest(n) PROVE Goal
  BY <1>1, <1>3 DEF SendRequest, ClientSend, dn, count, cmem, smem
<1>4. ASSUME NEW n \in 1..BUFSIZE, FirstRecvReply(n) PROVE Goal
  BY <1>1, <1>4 DEF FirstRecvReply, ClientRecvFirst, ClientGot, up, smem, bytes
<1>5. ASSUME NEW n \in 1..BUFSIZE, MoreRecvReply(n) PROVE Goal
  BY <1>1, <1>5 DEF MoreRecvReply, ClientRecvMore, ClientGot, up, smem, bytes
<1>6. ASSUME NEW n \in 1..BUFSIZE, FirstRecvRequest(n) PROVE Goal
  BY <1>1, <1>6 DEF FirstRecvRequest, ServerRecvFirst, client, dn, count, cmem,
     bytes
<1>7. ASSUME NEW n \in 1..BUFSIZE, MoreRecvRequest(n) PROVE Goal
  BY <1>1, <1>7 DEF MoreRecvRequest, ServerRecvMore, client, dn, count, cmem,
     bytes
<1>8. ASSUME NEW n \in RepSizes, NEW enough \in BOOLEAN, RunHandler(n, enough)
      PROVE  Goal
  <2>1. /\ calls = 1 /\ spc = "exec"
        /\ UNCHANGED <<upLen, cpc, cbuf>> /\ dnLen' = n
        /\ log' = [log EXCEPT ![1].rep = n]
        /\ sMsg' = Filled(ReplyBlock(n), n, Dumps(enough))
    BY <1>8 DEF RunHandler, ServerExec, client, up, cmem
  <2>2. log'[1].req = log[1].req /\ log'[1].rep = n
    <3>1. log \in Seq(Entry) /\ 1 \in DOMAIN log
      BY <1>0, <2>1 DEF BlocksType
    <3>2. log[1] \in Entry
      BY <3>1
    <3>3. QED
      BY <2>1, <3>1, <3>2 DEF Entry
  <2>3. 0 \in DOMAIN ReplyBlock(n)
    <3>1. 0 \in DOMAIN RequestBlock
      BY <1>0, <1>t, <2>1 DEF RequestBlock, FirstCall, BlocksType, Buffer
    <3>2. n \in Nat /\ n > 0
      BY FramingAssumption
    <3>3. 0 \in DOMAIN FreshBlock(n, RequestBlock, H_OFFSET)
      BY <3>2 DEF FreshBlock
    <3>4. QED
      BY <3>1, <3>3 DEF ReplyBlock
  <2>4. 0 \in DOMAIN sMsg' /\ sMsg'[0] = <<"r", 1, 0>>
    BY <2>1, <2>3, OffsetType DEF Filled
  <2>5. QED
    BY <2>1, <2>2, <2>4 DEF FirstCallBytes, BuildsInBuf
<1>9. ASSUME NEW n \in RepSizes, NEW enough \in BOOLEAN,
             HandlerOverruns(n, enough)
      PROVE  Goal
  BY <1>1, <1>9 DEF HandlerOverruns, client, up, dn, count, cmem, smem, bytes
<1>10. ASSUME NEW n \in 1..sIdx, SendReply(n) PROVE Goal
  BY <1>1, <1>10 DEF SendReply, ServerSend, client, up, count, cmem, smem
<1>11. CASE ClientLosesServer \/ ClientExit
  BY <1>1, <1>11 DEF ClientLosesServer, ClientExit, server, up, dn, count,
     cmem, smem, bytes
<1>12. CASE ServerSeesClose \/ ReplyRefused \/ ServerExit
  BY <1>1, <1>12 DEF ServerSeesClose, ReplyRefused, ServerExit, client, up, dn,
     count, cmem, smem, bytes
<1>13. CASE UNCHANGED tvars
  BY <1>1, <1>13 DEF tvars, vars, client, up, dn, count, cmem, smem, bytes
<1>14. QED
  BY <1>2, <1>3, <1>4, <1>5, <1>6, <1>7, <1>8, <1>9, <1>10, <1>11, <1>12,
     <1>13 DEF TNext, TClient, TServer

\* The word that a byte of the reply and a byte of the request spell.
LEMMA ShortWord ==
  ASSUME NEW buf, buf[0] = <<"r", 1, 0>>, buf[1] = <<"q", 1, 1>>,
         NEW rep \in Nat, NEW req \in Nat, log[1].rep = rep, log[1].req = req,
         req \div Base = rep \div Base
  PROVE  WordsIn(buf) = {rep}
<1>1. Digits(buf[0]) = {rep % Base}
  BY OffsetType DEF Digits
<1>2. Digits(buf[1]) = {req \div Base}
  BY OffsetType DEF Digits
<1>3. Base \in Nat /\ Base > 0
  BY TransportAssumption
<1>4. rep = (rep % Base) + Base * (rep \div Base)
  BY <1>3
<1>5. QED
  BY <1>1, <1>2, <1>4 DEF WordsIn

LEMMA NextShort ==
  ASSUME TInv, FirstCall, FirstCallBytes, ShortReadHarmless, [TNext]_tvars,
         ControlType'
  PROVE  ShortReadHarmless'
<1> SUFFICES ASSUME cpc' = "more", calls' = 1, execs' = 1, BuildsInBuf(upLen'),
                    upLen' \div Base = dnLen' \div Base
             PROVE  cRead' + cLeft' = dnLen'
  BY DEF ShortReadHarmless, BuildsInBuf
<1>0. ControlType /\ BlocksType /\ CountsInv /\ StreamsInv
  BY DEF TInv
<1>t. /\ BUFSIZE \in Nat /\ BUFSIZE >= 2 /\ LenBytes = 2 /\ calls \in Nat
      /\ upLen \in Nat /\ dnLen \in Nat /\ dnSent \in Nat /\ dnRcvd \in Nat
      /\ cRead \in Nat /\ cLeft \in Int /\ execs \in Nat
  BY <1>0, FramingAssumption, OffsetType DEF ControlType
<1>1. ASSUME UNCHANGED <<cpc, cRead, cLeft, calls, execs, upLen, dnLen>>
      PROVE  cRead' + cLeft' = dnLen'
  BY <1>1 DEF ShortReadHarmless
<1>2. ASSUME NEW n \in 1..BUFSIZE, FirstRecvReply(n)
      PROVE  cRead' + cLeft' = dnLen'
  <2>1. /\ cpc = "recv" /\ calls = 1 /\ execs = 1 /\ cRead' = n
        /\ upLen' = upLen /\ dnLen' = dnLen /\ n \in Nat /\ n >= 1
        /\ n <= dnSent - dnRcvd
        /\ cbuf' = Copy(cbuf, 0, dnBytes, dnRcvd, n)
        /\ n + cLeft' \in WordsIn(cbuf')
    BY <1>t, <1>2 DEF FirstRecvReply, ClientRecvFirst, ClientGot, Recv, up
  <2>2. dnStart = 0 /\ dnRcvd = 0
    BY <2>1 DEF FirstCall
  <2>3. PICK left \in Int : left = cLeft'
    BY DEF ControlType
  <2>4. CASE n >= LenBytes
    <3>1. PICK len \in {dnLen} : cLeft' = len - n
      BY <1>2, <2>2, <2>4
      DEF FirstRecvReply, ClientRecvFirst, ClientGot, WordsRead
    <3>2. QED
      BY <1>t, <2>1, <3>1
  <2>5. CASE ~(n >= LenBytes)
    <3>1. n = 1
      BY <1>t, <2>1, <2>5
    <3>2. cbuf'[0] = <<"r", 1, 0>>
      <4>1. dnBytes[1] = <<"r", 1, 0>>
        <5>1. 1 \in (dnStart + 1)..dnSent
          BY <1>t, <2>1, <2>2, <3>1
        <5>2. dnBytes[1] = sMsg[0]
          BY <1>0, <2>1, <2>2, <5>1 DEF StreamsInv, FirstCallBytes
        <5>3. QED
          BY <2>1, <5>2 DEF FirstCallBytes
      <4>2. 0 \in DOMAIN cbuf
        BY <1>0, <1>t DEF BlocksType, Buffer
      <4>3. QED
        BY <2>1, <2>2, <3>1, <4>1, <4>2 DEF Copy
    <3>3. cbuf'[1] = <<"q", 1, 1>>
      <4>1. cbuf[1] = <<"q", 1, 1>>
        BY <2>1 DEF FirstCallBytes
      <4>2. 1 \in DOMAIN cbuf
        BY <1>0, <1>t DEF BlocksType, Buffer
      <4>3. QED
        BY <2>1, <2>2, <3>1, <4>1, <4>2 DEF Copy
    <3>4. log[1].req = upLen /\ log[1].rep = dnLen
      BY <2>1 DEF FirstCallBytes
    <3>5. upLen \div Base = dnLen \div Base
      BY <2>1
    <3>6. WordsIn(cbuf') = {dnLen}
      BY <1>t, <3>2, <3>3, <3>4, <3>5, ShortWord
    <3>7. n + left = dnLen
      BY <2>1, <2>3, <3>6
    <3>8. QED
      BY <2>1, <2>3, <3>7
  <2>6. QED
    BY <2>4, <2>5
<1>3. ASSUME NEW n \in 1..BUFSIZE, MoreRecvReply(n)
      PROVE  cRead' + cLeft' = dnLen'
  <2>1. /\ cpc = "more" /\ calls = 1 /\ execs = 1
        /\ cRead' = cRead + n /\ cLeft' = cLeft - n
        /\ upLen' = upLen /\ dnLen' = dnLen /\ n \in Nat
    BY <1>t, <1>3 DEF MoreRecvReply, ClientRecvMore, ClientGot, up
  <2>2. cRead + cLeft = dnLen
    BY <2>1 DEF ShortReadHarmless
  <2>3. (cRead + n) + (cLeft - n) = dnLen
    BY <1>t, <2>1, <2>2
  <2>4. QED
    BY <2>1, <2>3
<1>4. ASSUME NEW n \in ReqSizes, NEW kind, BuildRequest(n, kind) PROVE FALSE
  BY <1>4 DEF BuildRequest, Call
<1>5. ASSUME NEW n \in 1..cIdx, SendRequest(n) PROVE FALSE
  BY <1>5 DEF SendRequest, ClientSend
<1>6. ASSUME NEW n \in 1..BUFSIZE, FirstRecvRequest(n) \/ MoreRecvRequest(n)
      PROVE  cRead' + cLeft' = dnLen'
  BY <1>1, <1>6 DEF FirstRecvRequest, MoreRecvRequest, ServerRecvFirst,
     ServerRecvMore, client, dn, count
<1>7. ASSUME NEW n \in RepSizes, NEW enough \in BOOLEAN, RunHandler(n, enough)
      PROVE  FALSE
  <2>1. execs = 0 /\ cpc = "more" /\ calls = 1
    BY <1>t, <1>7 DEF RunHandler, ServerExec, client
  <2>2. QED
    BY <2>1 DEF FirstCall
<1>8. ASSUME NEW n \in RepSizes, NEW enough \in BOOLEAN,
             HandlerOverruns(n, enough)
      PROVE  cRead' + cLeft' = dnLen'
  BY <1>1, <1>8 DEF HandlerOverruns, client, up, dn, count
<1>9. ASSUME NEW n \in 1..sIdx, SendReply(n) PROVE cRead' + cLeft' = dnLen'
  BY <1>1, <1>9 DEF SendReply, ServerSend, client, up, count
<1>10. CASE ClientLosesServer \/ ClientExit
  BY <1>10 DEF ClientLosesServer, ClientExit
<1>11. CASE ServerSeesClose \/ ReplyRefused \/ ServerExit
  BY <1>1, <1>11 DEF ServerSeesClose, ReplyRefused, ServerExit, client, up, dn,
     count
<1>12. CASE UNCHANGED tvars
  BY <1>1, <1>12 DEF tvars, vars, client, up, dn, count
<1>13. QED
  BY <1>2, <1>3, <1>4, <1>5, <1>6, <1>7, <1>8, <1>9, <1>10, <1>11, <1>12
  DEF TNext, TClient, TServer

(* In a first call, a first recv that ends inside the length word still    *)
(* finds the length of the reply when the bytes the request left behind it *)
(* are those of the reply's length.                                        *)
THEOREM ShortReads == TSpec => []ShortReadHarmless
<1>1. TInv /\ ShortInv /\ [TNext]_tvars => TInv' /\ ShortInv'
  BY NextTInv, NextFirstCall, NextFirstCallBytes, NextShort DEF ShortInv, TInv
<1>2. TInit => TInv /\ ShortInv
  BY InitTInv, InitShort
<1>3. TInv /\ ShortInv => ShortReadHarmless
  BY DEF ShortInv
<1>4. QED
  BY <1>1, <1>2, <1>3, PTL DEF TSpec
=============================================================================
