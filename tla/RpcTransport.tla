---------------------------- MODULE RpcTransport -----------------------------
(***************************************************************************)
(* RpcFraming with what the two loops do to memory, and with processes     *)
(* that exit.  Each action is the framing action of the same place in the  *)
(* code together with its effect on the client's static _buf and _big_buf, *)
(* on the server thread's buff and big_buf, and on the bytes of the two    *)
(* streams.  A length word is no longer given: it is what the first bytes  *)
(* of the buffer spell, bytes left there by an earlier message included.   *)
(*                                                                         *)
(* A byte is <<dir, call, index>>: byte `index` of the request ("q") or of *)
(* the reply ("r") of the call, or junk ("x").  The length word is scaled  *)
(* to two bytes, least significant first, of Base values each.             *)
(***************************************************************************)
EXTENDS RpcFraming, Sequences

CONSTANTS
  H_OFFSET,     \* length word and method byte in front of the tpl image
  Base,         \* values of a byte of the length word
  PartialSends, \* may send() take fewer bytes than it is given?
  PlainSizes,   \* sizes of replies decoded by tpl_deserialize
  Exits         \* which processes may exit: subset of {"client", "server"}

ASSUME TransportAssumption ==
  /\ LenBytes = 2 /\ H_OFFSET = LenBytes + 1
  /\ Base \in Nat /\ Base > 0
  /\ \A n \in ReqSizes \cup RepSizes : H_OFFSET < n /\ n < Base * Base
  /\ PlainSizes \subseteq RepSizes
  /\ \A n \in PlainSizes : n <= BUFSIZE
  /\ Words = 0..(Base * Base - 1)
  /\ PartialSends \in BOOLEAN
  /\ Exits \subseteq {"client", "server"}

VARIABLES
  log,       \* per call: its kind and the sizes of its request and reply
  cbuf,      \* contents of the client's static _buf
  cbig,      \* contents of the block _big_buf points to
  heap,      \* that block: "null", "live", "freed" (the pointer dangles),
             \* or "corrupt" (freed twice)
  leaks,     \* blocks _big_buf pointed to that nothing points to any more
  cFrag,     \* the reply of this call needed more than one recv
  out,       \* last decode: "none", "right", "wrong", "rejected"
  sbuf,      \* contents of the server thread's buff
  sFrag,     \* the request needed more than one recv (buf = big_buf)
  sbig,      \* contents of that big_buf
  sMsg,      \* contents of the block the reply is sent from
  argsOk,    \* the handler of the last request got its arguments
  upBytes, dnBytes,   \* every byte ever put into the streams
  leftIn,    \* cpc when the client exited
  whole      \* every first recv so far returned the whole length word

cmem  == <<cbuf, cbig, heap, leaks, cFrag, out>>
smem  == <<sbuf, sFrag, sbig, sMsg, argsOk>>
bytes == <<log, upBytes, dnBytes>>
past  == <<leftIn, whole>>
tvars == <<vars, cmem, smem, bytes, past>>

Junk == <<"x", 0, 0>>

TInit ==
  /\ Init
  /\ log = <<>> /\ upBytes = <<>> /\ dnBytes = <<>>
  /\ cbuf = [i \in 0..(BUFSIZE - 1) |-> Junk] /\ cbig = <<>>
  /\ heap = "null" /\ leaks = 0 /\ cFrag = FALSE /\ out = "none"
  /\ sbuf = [i \in 0..(BUFSIZE - 1) |-> Junk] /\ sbig = <<>>
  /\ sFrag = FALSE /\ sMsg = <<>> /\ argsOk = TRUE
  /\ leftIn = "none" /\ whole = TRUE

-----------------------------------------------------------------------------
(* Bytes and blocks *)

(* Put n bytes of a stream, starting at position pos, into a block at off. *)
Copy(block, off, stream, pos, n) ==
  [i \in DOMAIN block |->
     IF i \in off..(off + n - 1) THEN stream[pos + 1 + i - off] ELSE block[i]]

(* malloc(len) followed by a copy of the first n bytes of buf.             *)
FreshBlock(len, buf, n) ==
  [i \in 0..(len - 1) |-> IF i < n /\ i \in DOMAIN buf THEN buf[i] ELSE Junk]

(* The values a byte can have where a length word is expected.             *)
Digits(b) ==
  IF b[1] # "x" /\ b[3] < LenBytes
    THEN LET size == IF b[1] = "q" THEN log[b[2]].req ELSE log[b[2]].rep
         IN {IF b[3] = 0 THEN size % Base ELSE size \div Base}
    ELSE 0..(Base - 1)

(* The length word at the start of a buffer.                              *)
WordsIn(buf) == {lo + Base * hi : lo \in Digits(buf[0]), hi \in Digits(buf[1])}

-----------------------------------------------------------------------------
(* Client *)

(* sz > 1020 sends from a malloc'd block and puts only the method byte     *)
(* into _buf; a smaller request is built in _buf itself.                   *)
BuildsInBuf(n) == n <= BUFSIZE - LenBytes

BuildRequestM1(n, kind) ==
  /\ Call(n)
  /\ log' = Append(log, [kind |-> kind, req |-> n, rep |-> 0])
  /\ cbuf' = [cbuf EXCEPT ![LenBytes] = <<"q", calls + 1, LenBytes>>]
  /\ cFrag' = FALSE
  /\ UNCHANGED <<cbig, heap, leaks, out, smem, upBytes, dnBytes, past>>

BuildRequest(n, kind) ==
  /\ Call(n)
  /\ LET c == calls + 1
     IN /\ log' = Append(log, [kind |-> kind, req |-> n, rep |-> 0])
        /\ cbuf' = [i \in DOMAIN cbuf |->
             IF i = LenBytes \/ (BuildsInBuf(n) /\ i < n)
               THEN <<"q", c, i>> ELSE cbuf[i]]
  /\ cFrag' = FALSE
  /\ UNCHANGED <<cbig, heap, leaks, out, smem, upBytes, dnBytes, past>>

SendRequest(n) ==
  /\ n < cIdx => PartialSends
  /\ ClientSend(n)
  /\ upBytes' = upBytes \o [j \in 1..n |-> <<"q", calls, upLen - cIdx + j - 1>>]
  /\ UNCHANGED <<cmem, smem, log, dnBytes, past>>

(* tpl_load accepts an image that starts like a reply of the same format   *)
(* and is no longer than the block.                                        *)
Accepts(src) ==
  /\ H_OFFSET \in DOMAIN src
  /\ LET b == src[H_OFFSET]
     IN /\ b[1] = "r" /\ b[3] = H_OFFSET
        /\ log[b[2]].kind = log[calls].kind
        /\ log[b[2]].rep - 1 \in DOMAIN src

HoldsReply(src) ==
  \A i \in H_OFFSET..(dnLen - 1) : i \in DOMAIN src /\ src[i] = <<"r", calls, i>>

Verdict(src) ==
  IF ~Accepts(src) THEN "rejected"
  ELSE IF HoldsReply(src) THEN "right" ELSE "wrong"

(* tpl_deserialize reads _buf; tpl_deserialize_array reads _big_buf when   *)
(* the call reported more than 1024 bytes.                                 *)
DecodesBigM1(n) == log[calls].kind = "array" /\ n > BUFSIZE - LenBytes
DecodesBig(n) == log[calls].kind = "array" /\ n > BUFSIZE

(* free(_big_buf) once the image was loaded, if more than 1020 bytes.      *)
FreesBigM2(n, verdict) == log[calls].kind = "array" /\ verdict # "rejected"
FreesBig(n, verdict) ==
  log[calls].kind = "array" /\ verdict # "rejected" /\ n > BUFSIZE - LenBytes

AfterFree == [null |-> "null", live |-> "freed",
              freed |-> "corrupt", corrupt |-> "corrupt"]

(* The end of a recv: go on reading, or decode what n bytes left behind.   *)
Deliver(n, big) ==
  IF cpc' = "more"
    THEN UNCHANGED <<heap, leaks, out>>
    ELSE LET src == IF DecodesBig(n) THEN big ELSE cbuf'
             frees == FreesBig(n, Verdict(src))
             h == IF cFrag' THEN "live" ELSE heap
         IN /\ out' = Verdict(src)
            /\ heap' = IF frees THEN AfterFree[h] ELSE h
            /\ leaks' = leaks

FirstRecvReply(n) ==
  /\ ClientRecvFirst(n)
  /\ cbuf' = Copy(cbuf, 0, dnBytes, dnRcvd, n)
  /\ n + cLeft' \in WordsIn(cbuf')
  /\ cFrag' = (cLeft' > 0)
  /\ cbig' = IF cFrag' THEN FreshBlock(n + cLeft', cbuf', n) ELSE cbig
  /\ IF cFrag'
       THEN /\ heap' = "live" /\ out' = out
            /\ leaks' = IF heap = "live" THEN leaks + 1 ELSE leaks
       ELSE Deliver(n, cbig)
  /\ whole' = (whole /\ n >= LenBytes)
  /\ UNCHANGED <<smem, bytes, leftIn>>

MoreRecvReply(n) ==
  /\ n <= cLeft
  /\ ClientRecvMore(n)
  /\ cbuf' = Copy(cbuf, 0, dnBytes, dnRcvd, n)
  /\ cbig' = Copy(cbig, cRead, dnBytes, dnRcvd, n)
  /\ cFrag' = cFrag
  /\ Deliver(cRead + n, cbig')
  /\ UNCHANGED <<smem, bytes, past>>

-----------------------------------------------------------------------------
(* Server thread *)

FirstRecvRequest(n) ==
  /\ ServerRecvFirst(n)
  /\ sbuf' = Copy(sbuf, 0, upBytes, upRcvd, n)
  /\ n + sLeft' \in WordsIn(sbuf')
  /\ sFrag' = (sLeft' > 0)
  /\ sbig' = IF sFrag' THEN FreshBlock(n + sLeft', sbuf', n) ELSE sbig
  /\ whole' = (whole /\ n >= LenBytes)
  /\ UNCHANGED <<cmem, sMsg, argsOk, bytes, leftIn>>

MoreRecvRequest(n) ==
  /\ n <= sLeft
  /\ ServerRecvMore(n)
  /\ sbuf' = Copy(sbuf, 0, upBytes, upRcvd, n)
  /\ sbig' = Copy(sbig, sRead, upBytes, upRcvd, n)
  /\ UNCHANGED <<cmem, sFrag, sMsg, argsOk, bytes, past>>

\* The block the handler is given, and whether it holds the whole request.
RequestBlock == IF sFrag THEN sbig ELSE sbuf

HoldsRequest ==
  \A i \in LenBytes..(upLen - 1) :
    i \in DOMAIN RequestBlock /\ RequestBlock[i] = <<"q", calls, i>>

(* The handler is passed sizeof(buff), or, for a request that came in      *)
(* pieces, an int that was never initialised: large enough or not.         *)
SizeIsEnough == IF sFrag THEN BOOLEAN ELSE {TRUE}

(* Where the reply of n bytes is written: do_enq_read_buf and              *)
(* do_enq_map_buf move to a block of its size when it exceeds the buffer.  *)
ReplyBlockM1(n) ==
  IF n - H_OFFSET > BUFSIZE
    THEN FreshBlock(n, RequestBlock, H_OFFSET) ELSE RequestBlock
ReplyBlock(n) ==
  IF n > BUFSIZE THEN FreshBlock(n, RequestBlock, H_OFFSET) ELSE RequestBlock

(* tpl_dump writes the image unless the size it was told is too small; the *)
(* two array handlers tell it the size of the image itself.                *)
Dumps(enough) == enough \/ log[calls].kind = "array"

\* The reply in its block, and then its length over the first bytes.
Filled(block, n, dumped) ==
  [i \in DOMAIN block |->
     IF i < LenBytes \/ (dumped /\ i \in H_OFFSET..(n - 1))
       THEN <<"r", calls, i>> ELSE block[i]]

ReplySizes ==
  IF log[calls].kind = "plain" THEN PlainSizes ELSE RepSizes

RunHandler(n, enough) ==
  /\ spc = "exec"
  /\ n \in ReplySizes /\ enough \in SizeIsEnough
  /\ Dumps(enough) => n - 1 \in DOMAIN ReplyBlock(n)
  /\ ServerExec(n)
  /\ LET full == Filled(ReplyBlock(n), n, Dumps(enough))
     IN /\ sMsg' = full
        /\ sbuf' = IF sFrag \/ n > BUFSIZE THEN sbuf ELSE full
  /\ argsOk' = (enough /\ HoldsRequest)
  /\ log' = [log EXCEPT ![calls].rep = n]
  /\ UNCHANGED <<cmem, sFrag, sbig, upBytes, dnBytes, past>>

(* The image does not fit the block malloc'd for the request.              *)
HandlerOverruns(n, enough) ==
  /\ spc = "exec" /\ n \in ReplySizes /\ enough \in SizeIsEnough
  /\ Dumps(enough) /\ n - 1 \notin DOMAIN ReplyBlock(n)
  /\ spc' = "undefined"
  /\ UNCHANGED <<client, sIdx, sRead, sLeft, up, dn, count, cmem, smem, bytes,
                 past>>

(* The bytes sent are those of the block, and whatever lies after it.      *)
SendReply(n) ==
  /\ n < sIdx => PartialSends
  /\ ServerSend(n)
  /\ dnBytes' = dnBytes \o
       [j \in 1..n |-> LET i == dnLen - sIdx + j - 1
                       IN IF i \in DOMAIN sMsg THEN sMsg[i] ELSE Junk]
  /\ UNCHANGED <<cmem, smem, log, upBytes, past>>

-----------------------------------------------------------------------------
(* Processes that exit, and what the other side's calls then return *)

ServerLost == spc \in {"gone", "dead", "undefined"}
ClientLost == cpc \in {"gone", "undefined"}

ClientExit ==
  /\ "client" \in Exits /\ ~ClientLost
  /\ cpc' = "gone" /\ leftIn' = cpc /\ whole' = whole
  /\ UNCHANGED <<cIdx, cRead, cLeft, server, up, dn, count, cmem, smem, bytes>>

ServerExit ==
  /\ "server" \in Exits /\ ~ServerLost
  /\ spc' = "gone"
  /\ UNCHANGED <<client, sIdx, sRead, sLeft, up, dn, count, cmem, smem, bytes,
                 past>>

(* A recv or send of the client fails: tpl_rpc_call frees stn and its      *)
(* caller decodes and frees it again, or (recv returned -1 into a size_t)  *)
(* copies SIZE_MAX bytes.  Neither has a defined outcome.                  *)
ClientLosesServer ==
  /\ ServerLost
  /\ \/ cpc = "send"
     \/ cpc \in {"recv", "more"} /\ dnSent = dnRcvd
  /\ cpc' = "undefined"
  /\ UNCHANGED <<cIdx, cRead, cLeft, server, up, dn, count, cmem, smem, bytes,
                 past>>

(* The client left reply bytes unread, so its connection is reset.         *)
Reset == dnSent > dnRcvd

(* The server thread's recv finds the connection closed: 0 between two     *)
(* requests ends the thread.  Reset, recv returns -1 into a size_t, which  *)
(* `< 1` does not catch; inside a request, the 0 is followed by a recv on  *)
(* the descriptor just closed, with the same end: memcpy of SIZE_MAX.      *)
ServerSeesCloseM2 ==
  /\ ClientLost /\ upSent = upRcvd /\ spc = "more"
  /\ spc' = "undefined"
  /\ UNCHANGED <<client, sIdx, sRead, sLeft, up, dn, count, cmem, smem, bytes,
                 past>>

ServerSeesClose ==
  /\ ClientLost /\ upSent = upRcvd /\ spc \in {"recv", "more"}
  /\ spc' = IF spc = "recv" /\ ~Reset THEN "ended" ELSE "undefined"
  /\ UNCHANGED <<client, sIdx, sRead, sLeft, up, dn, count, cmem, smem, bytes,
                 past>>

(* A send to a client that is gone fails: the thread ends, or SIGPIPE,     *)
(* which nothing handles, ends the server.                                 *)
ReplyRefused ==
  /\ ClientLost /\ spc = "send"
  /\ spc' \in {"ended", "dead"}
  /\ UNCHANGED <<client, sIdx, sRead, sLeft, up, dn, count, cmem, smem, bytes,
                 past>>

-----------------------------------------------------------------------------
TClient ==
  \/ \E n \in ReqSizes, kind \in {"plain", "array"} : BuildRequest(n, kind)
  \/ \E n \in 1..cIdx : SendRequest(n)
  \/ \E n \in 1..BUFSIZE : FirstRecvReply(n) \/ MoreRecvReply(n)
  \/ ClientLosesServer

TServer ==
  \/ \E n \in 1..BUFSIZE : FirstRecvRequest(n) \/ MoreRecvRequest(n)
  \/ \E n \in RepSizes, enough \in BOOLEAN :
       RunHandler(n, enough) \/ HandlerOverruns(n, enough)
  \/ \E n \in 1..sIdx : SendReply(n)
  \/ ServerSeesClose \/ ReplyRefused

TNext == TClient \/ TServer \/ ClientExit \/ ServerExit

TSpec == TInit /\ [][TNext]_tvars

TFairSpec == TSpec /\ WF_tvars(TServer)

-----------------------------------------------------------------------------
(* Properties *)

TransportTypeOK ==
  /\ cpc \in {"idle", "send", "recv", "more", "gone", "undefined"}
  /\ spc \in {"recv", "more", "exec", "send", "gone", "ended", "dead",
             "undefined"}
  /\ Len(log) = calls
  /\ DOMAIN cbuf = 0..(BUFSIZE - 1) /\ DOMAIN sbuf = 0..(BUFSIZE - 1)
  /\ Len(upBytes) = upSent /\ Len(dnBytes) = dnSent
  /\ heap \in DOMAIN AfterFree /\ leaks \in 0..calls
  /\ cFrag \in BOOLEAN /\ sFrag \in BOOLEAN /\ argsOk \in BOOLEAN
  /\ out \in {"none", "right", "wrong", "rejected"}

(* The block a handler is given holds every byte of the request in its     *)
(* place, whether it came in one piece or was gathered in big_buf.         *)
HandlerSeesRequest == spc = "exec" => HoldsRequest

(* What an API call relies on: the handler got the arguments and the       *)
(* caller decodes the bytes the handler wrote.  It holds for a request     *)
(* that came in one piece and a reply that came in one piece, or in any    *)
(* number of them when it is an array of more than 1024 bytes: the caller  *)
(* reads _buf for all others, where only the last piece is left            *)
(* (and_rpc_clnt.c:256, 274).                                              *)
CallDecodesItsReply ==
  cpc = "idle" /\ returns > 0 /\ ~sFrag /\ (cFrag => DecodesBig(dnLen))
    => out = "right" /\ argsOk

(* A reply is taken for what it is not (loaded, but with bytes of another  *)
(* message in it) only if it came in pieces.                               *)
WrongOnlyInPieces == cpc = "idle" /\ out = "wrong" => cFrag

(* The block gathered for a large array is freed by the call it was        *)
(* allocated for.                                                          *)
BigReplyFreed ==
  cpc = "idle" /\ returns > 0 /\ DecodesBig(dnLen) => heap = "freed"

(* As long as every first recv returned the whole length word, the client  *)
(* and the server thread of a connection find their bytes where they look  *)
(* for them, except for what _buf cannot keep of a message in pieces; that *)
(* the sends take less than they are given, or that a process exits,       *)
(* changes nothing for a call that returns.                                *)
CallsKeepTheirBytes ==
  /\ TransportTypeOK
  /\ whole => /\ HandlerSeesRequest /\ CallDecodesItsReply
              /\ WrongOnlyInPieces /\ BigReplyFreed

(* `if (cb > 1020) free(_big_buf)` (and_rpc_clnt.c:304) frees a block that *)
(* is already free only for an array of 1021 to 1024 bytes that came in    *)
(* one piece.                                                              *)
FreedTwiceOnlyInWindow ==
  [][whole' /\ heap' = "corrupt" /\ heap # "corrupt" =>
       ~cFrag' /\ BUFSIZE - LenBytes < dnLen /\ dnLen <= BUFSIZE]_tvars

(* A handler writes past its block only for a request that came in pieces, *)
(* whose block has the size of the request and not of the buffer, and a    *)
(* reply that is longer than that.                                         *)
OverrunOnlyInPieces ==
  spc = "undefined" /\ ~ClientLost => sFrag /\ \E n \in ReplySizes : n > upLen

(* The server process ends because of a client only if the client exited   *)
(* in the middle of a call (or a handler overran its block).               *)
ServerSurvivesIdleExit ==
  spc \in {"dead", "undefined"} =>
    \/ cpc = "gone" /\ leftIn # "idle"
    \/ sFrag /\ upLen < BUFSIZE

(* The two together: what can bring the server down while every first recv *)
(* returned the whole length word.                                         *)
ServerFallsForAReason ==
  whole => OverrunOnlyInPieces /\ ServerSurvivesIdleExit

(* The thread of a client that exits between two calls ends (unless the    *)
(* whole server exits first).                                              *)
IdleExitEndsThread == (cpc = "gone" /\ leftIn = "idle") ~> (spc \in {"ended", "gone"})

(* A first recv that ends inside the length word leaves the high bytes of  *)
(* the request in _buf.  In the first call the client still gets the       *)
(* length right when they are those of the reply, as they are for messages *)
(* below 256 bytes.                                                        *)
ShortReadHarmless ==
  cpc = "more" /\ calls = 1 /\ execs = 1 /\ BuildsInBuf(upLen)
    /\ upLen \div Base = dnLen \div Base
    => cRead + cLeft = dnLen
==============================================================================
