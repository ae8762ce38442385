---------------------------- MODULE ServerThreads ----------------------------
(***************************************************************************)
(* The handlers of and_rpc_handler.c as the threads of and_rpc_server.c    *)
(* run them.  A handler learns the size of its reply image by having       *)
(* tpl_dump store it into `gsz`, which is one static int for the whole     *)
(* process (and_rpc_handler.c:11), and reads it back from there when it    *)
(* has to decide where the image goes, how large a block to allocate, how  *)
(* much tpl_dump may write, and how many bytes are the reply.  Every read  *)
(* is a step of its own: no lock is held and each one is separated from    *)
(* the previous by a library call.                                         *)
(*                                                                         *)
(* Requests arrive in one piece (RpcTransport has the others), so the      *)
(* buffer a handler starts with is the thread's buff of BUFSIZE bytes.     *)
(***************************************************************************)
EXTENDS Integers

CONSTANTS
  Threads,      \* the handle_client threads
  BUFSIZE,      \* sizeof(buff)
  H_OFFSET,     \* bytes in front of the image
  FixedSizes,   \* image sizes of the replies of fixed format
  ArraySizes    \* image sizes of the replies that carry an array

ASSUME ThreadsAssumption ==
  /\ BUFSIZE \in Nat /\ H_OFFSET \in Nat /\ H_OFFSET < BUFSIZE
  /\ FixedSizes \subseteq 1..(BUFSIZE - H_OFFSET)
  /\ ArraySizes \subseteq Nat \ {0}

VARIABLES
  gsz,      \* the shared size
  pc,       \* of a thread: where it is in its handler
  kind,     \* of a thread: "fixed" or "array" reply
  own,      \* of a thread: size of the reply image it has packed
  cap,      \* of a thread: size of the block *buf points to
  body,     \* what the block holds after the header: the "request" image,
            \* "nothing" (a fresh block), or the "reply" image
  ret,      \* of a thread: what process_request returned
  raced,    \* of a thread: another thread stored into gsz since this one did
  corrupt,  \* an image was written past the end of its block
  large     \* a handler has packed an image that buff has no room for

vars == <<gsz, pc, kind, own, cap, body, ret, raced, corrupt, large>>

Kinds == {"fixed", "array"}
SizesOf(k) == IF k = "fixed" THEN FixedSizes ELSE ArraySizes

Init ==
  /\ gsz = 0 /\ corrupt = FALSE /\ large = FALSE
  /\ pc = [t \in Threads |-> "recv"]
  /\ kind = [t \in Threads |-> "fixed"]
  /\ own = [t \in Threads |-> 1]
  /\ cap = [t \in Threads |-> BUFSIZE]
  /\ body = [t \in Threads |-> "request"]
  /\ ret = [t \in Threads |-> 0]
  /\ raced = [t \in Threads |-> FALSE]

At(t, label) == ~corrupt /\ pc[t] = label
Goto(t, label) == pc' = [pc EXCEPT ![t] = label]

(* A request is received, loaded and carried out, and the reply packed:    *)
(* nothing of this is shared.                                              *)
Carry(t, k, n) ==
  /\ At(t, "recv")
  /\ n \in SizesOf(k)
  /\ kind' = [kind EXCEPT ![t] = k] /\ own' = [own EXCEPT ![t] = n]
  /\ cap' = [cap EXCEPT ![t] = BUFSIZE]
  /\ body' = [body EXCEPT ![t] = "request"]
  /\ large' = (large \/ n + H_OFFSET > BUFSIZE)
  /\ Goto(t, "getsize")
  /\ UNCHANGED <<gsz, ret, raced, corrupt>>

(* tpl_dump(rtn, TPL_GETSIZE, &gsz)                                        *)
GetSize(t) ==
  /\ At(t, "getsize")
  /\ gsz' = own[t]
  /\ raced' = [u \in Threads |-> u # t]
  /\ Goto(t, IF kind[t] = "array" THEN "check" ELSE "dump")
  /\ UNCHANGED <<kind, own, cap, body, ret, corrupt, large>>

(* if (gsz > BUFSIZE - H_OFFSET)                                           *)
TooLargeM1(n) == n > BUFSIZE
TooLargeM2(n) == n >= BUFSIZE - H_OFFSET
TooLarge(n) == n > BUFSIZE - H_OFFSET

CheckSize(t) ==
  /\ At(t, "check")
  /\ Goto(t, IF TooLarge(gsz) THEN "malloc" ELSE "dump")
  /\ UNCHANGED <<gsz, kind, own, cap, body, ret, raced, corrupt, large>>

(* tmp_buf = malloc(gsz + H_OFFSET), and the header copied into it         *)
Malloc(t) ==
  /\ At(t, "malloc")
  /\ cap' = [cap EXCEPT ![t] = gsz + H_OFFSET]
  /\ body' = [body EXCEPT ![t] = "nothing"]
  /\ Goto(t, "dump")
  /\ UNCHANGED <<gsz, kind, own, ret, raced, corrupt, large>>

(* The size tpl_dump is told: gsz by the two array handlers, the room left *)
(* in the buffer by all others.                                            *)
DumpRoom(t) == IF kind[t] = "array" THEN gsz ELSE BUFSIZE - H_OFFSET

(* tpl_dump(rtn, TPL_MEM|TPL_PREALLOCD, *buf + H_OFFSET, ...) writes the   *)
(* whole image, or nothing when the image is larger than it was told.      *)
Dump(t) ==
  /\ At(t, "dump")
  /\ IF own[t] > DumpRoom(t)
       THEN UNCHANGED <<body, corrupt>>
       ELSE /\ body' = [body EXCEPT ![t] = "reply"]
            /\ IF own[t] + H_OFFSET > cap[t]
                 THEN corrupt' = TRUE ELSE UNCHANGED corrupt
  /\ Goto(t, "return")
  /\ UNCHANGED <<gsz, kind, own, cap, ret, raced, large>>

(* return gsz; process_request adds the header.                            *)
ReturnM1(t) ==
  /\ At(t, "return")
  /\ ret' = [ret EXCEPT ![t] = cap[t]]
  /\ Goto(t, "send")
  /\ UNCHANGED <<gsz, kind, own, cap, body, raced, corrupt, large>>
Return(t) ==
  /\ At(t, "return")
  /\ ret' = [ret EXCEPT ![t] = gsz + H_OFFSET]
  /\ Goto(t, "send")
  /\ UNCHANGED <<gsz, kind, own, cap, body, raced, corrupt, large>>

(* handle_client stores the length over the first bytes and sends as many; *)
(* then it goes back to its own buff.                                      *)
Send(t) ==
  /\ At(t, "send")
  /\ Goto(t, "recv")
  /\ UNCHANGED <<gsz, kind, own, cap, body, ret, raced, corrupt, large>>

Step(t) ==
  \/ \E k \in Kinds : \E n \in SizesOf(k) : Carry(t, k, n)
  \/ GetSize(t) \/ CheckSize(t) \/ Malloc(t) \/ Dump(t) \/ Return(t) \/ Send(t)

Next == \E t \in Threads : Step(t)

Spec == Init /\ [][Next]_vars

-----------------------------------------------------------------------------
(* Properties *)

TypeOK ==
  /\ gsz \in Nat /\ corrupt \in BOOLEAN /\ large \in BOOLEAN
  /\ pc \in [Threads -> {"recv", "getsize", "check", "malloc", "dump",
                         "return", "send"}]
  /\ kind \in [Threads -> Kinds]
  /\ own \in [Threads -> Nat]
  /\ cap \in [Threads -> Nat]
  /\ body \in [Threads -> {"request", "nothing", "reply"}]
  /\ ret \in [Threads -> Nat]
  /\ raced \in [Threads -> BOOLEAN]

(* What a handler owes its client: the image it packed, complete, inside   *)
(* its block, and announced with its own size.                             *)
ExactReply(t) ==
  body[t] = "reply" /\ ret[t] = own[t] + H_OFFSET /\ ret[t] <= cap[t]

(* A reply is exact whenever no other thread stored its size between this  *)
(* thread's GETSIZE and the end of its handler.                            *)
UnracedReplyIsExact ==
  \A t \in Threads : pc[t] = "send" /\ ~raced[t] => ExactReply(t)

(* A write past the end of a block happens only in a handler with an array *)
(* reply, and only when another thread stored its size in between.         *)
CorruptionNeedsRacedArray ==
  corrupt => \E t \in Threads :
    pc[t] = "return" /\ kind[t] = "array" /\ raced[t] /\ own[t] + H_OFFSET > cap[t]

(* Until some handler packs an image that exceeds the buffer, no handler   *)
(* leaves it, no block is overrun, and no reply reaches past its end,      *)
(* whatever the race.                                                      *)
SmallRepliesAreSafe ==
  ~large =>
    /\ ~corrupt
    /\ \A t \in Threads : cap[t] = BUFSIZE
    /\ \A t \in Threads : pc[t] = "send" => ret[t] <= BUFSIZE

(* A handler with a reply of fixed format always gets its image into the   *)
(* buffer, however it is raced: only the size it reports can be wrong.     *)
FixedImageAlwaysWritten ==
  \A t \in Threads :
    pc[t] \in {"return", "send"} /\ kind[t] = "fixed"
      => body[t] = "reply" /\ cap[t] = BUFSIZE

(* The size reported is always that of a reply some handler packs: the     *)
(* race mixes sizes up, it does not invent them.                           *)
ReportsSomeReply ==
  \A t \in Threads : pc[t] = "send" =>
    ret[t] - H_OFFSET \in FixedSizes \cup ArraySizes

(* With one client there is nobody to race.                                *)
EveryReplyIsExact == \A t \in Threads : pc[t] = "send" => ExactReply(t)
==============================================================================
