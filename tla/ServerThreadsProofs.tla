------------------------- MODULE ServerThreadsProofs -------------------------
(***************************************************************************)
(* Proofs about the race on gsz, for any set of threads, any buffer and    *)
(* any reply sizes.                                                        *)
(***************************************************************************)
EXTENDS ServerThreads, TLAPS

\* What a thread has of its reply once it has passed GETSIZE.
Packed == {"check", "malloc", "dump", "return", "send"}

(* While nobody raced a thread, gsz is the size of its own image, and the  *)
(* block it has is the one this size calls for.                            *)
UnracedInv ==
  \A t \in Threads : ~raced[t] =>
    /\ pc[t] \in Packed \ {"send"} => gsz = own[t]
    /\ pc[t] = "check" => cap[t] = BUFSIZE
    /\ pc[t] \in {"dump", "return", "send"} => own[t] + H_OFFSET <= cap[t]
    /\ pc[t] \in {"return", "send"} => body[t] = "reply"
    /\ pc[t] = "send" => ret[t] = own[t] + H_OFFSET

(* A handler with a fixed reply stays in buff, whoever races it.           *)
FixedInv ==
  \A t \in Threads :
    /\ pc[t] = "getsize" => cap[t] = BUFSIZE
    /\ kind[t] = "fixed" /\ pc[t] # "recv" =>
         /\ pc[t] \notin {"check", "malloc"}
         /\ own[t] <= BUFSIZE - H_OFFSET /\ cap[t] = BUFSIZE
         /\ pc[t] \in {"return", "send"} => body[t] = "reply"

(* gsz holds a size some handler packed, once any handler has stored one.  *)
SizeInv ==
  /\ \A t \in Threads : pc[t] # "recv" => own[t] \in FixedSizes \cup ArraySizes
  /\ \A t \in Threads : pc[t] \in Packed => gsz \in FixedSizes \cup ArraySizes
  /\ ReportsSomeReply

IInv ==
  TypeOK /\ UnracedInv /\ FixedInv /\ SizeInv /\ CorruptionNeedsRacedArray

-----------------------------------------------------------------------------
LEMMA SizesAreNat ==
  ASSUME NEW k \in Kinds, NEW n \in SizesOf(k)
  PROVE  /\ n \in Nat /\ n \in FixedSizes \cup ArraySizes
         /\ k = "fixed" => n <= BUFSIZE - H_OFFSET
BY ThreadsAssumption DEF Kinds, SizesOf

LEMMA InitIInv == Init => IInv
<1> SUFFICES ASSUME Init PROVE IInv
  OBVIOUS
<1>1. TypeOK
  BY ThreadsAssumption DEF Init, TypeOK, Kinds
<1>2. CorruptionNeedsRacedArray
  BY DEF Init, CorruptionNeedsRacedArray
<1>3. UnracedInv /\ FixedInv
  BY DEF Init, UnracedInv, FixedInv, Packed
<1>4. SizeInv
  BY DEF Init, SizeInv, ReportsSomeReply, Packed
<1>5. QED
  BY <1>1, <1>2, <1>3, <1>4 DEF IInv

LEMMA NextType == TypeOK /\ [Next]_vars => TypeOK'
<1> SUFFICES ASSUME TypeOK, [Next]_vars PROVE TypeOK'
  OBVIOUS
<1> USE ThreadsAssumption DEF TypeOK, Kinds, At, Goto
<1>1. ASSUME NEW t \in Threads, NEW k \in Kinds, NEW n \in SizesOf(k),
             Carry(t, k, n)
      PROVE  TypeOK'
  BY <1>1, SizesAreNat DEF Carry
<1>2. ASSUME NEW t \in Threads, GetSize(t) PROVE TypeOK'
  BY <1>2 DEF GetSize
<1>3. ASSUME NEW t \in Threads, CheckSize(t) PROVE TypeOK'
  BY <1>3 DEF CheckSize
<1>4. ASSUME NEW t \in Threads, Malloc(t) PROVE TypeOK'
  BY <1>4 DEF Malloc
<1>5. ASSUME NEW t \in Threads, Dump(t) PROVE TypeOK'
  BY <1>5 DEF Dump
<1>6. ASSUME NEW t \in Threads, Return(t) PROVE TypeOK'
  BY <1>6 DEF Return
<1>7. ASSUME NEW t \in Threads, Send(t) PROVE TypeOK'
  BY <1>7 DEF Send
<1>8. CASE UNCHANGED vars
  BY <1>8 DEF vars
<1>9. QED
  BY <1>1, <1>2, <1>3, <1>4, <1>5, <1>6, <1>7, <1>8 DEF Next, Step

LEMMA NextIInv == IInv /\ [Next]_vars => IInv'
<1> SUFFICES ASSUME IInv, [Next]_vars PROVE IInv'
  OBVIOUS
<1>0. TypeOK'
  BY NextType DEF IInv
<1> USE <1>0, ThreadsAssumption
    DEF IInv, TypeOK, Kinds, UnracedInv, FixedInv, SizeInv, ReportsSomeReply,
        CorruptionNeedsRacedArray, Packed, At, Goto
<1>1. ASSUME NEW t \in Threads, NEW k \in Kinds, NEW n \in SizesOf(k),
             Carry(t, k, n)
      PROVE  IInv'
  <2>1. UnracedInv'
    BY <1>1 DEF Carry
  <2>2. FixedInv'
    BY <1>1, SizesAreNat DEF Carry
  <2>3. SizeInv'
    BY <1>1, SizesAreNat DEF Carry
  <2>4. CorruptionNeedsRacedArray'
    BY <1>1 DEF Carry
  <2>5. QED
    BY <2>1, <2>2, <2>3, <2>4
<1>2. ASSUME NEW t \in Threads, GetSize(t) PROVE IInv'
  <2>1. ~raced'[t] /\ \A u \in Threads \ {t} : raced'[u]
    BY <1>2 DEF GetSize
  <2>2. UnracedInv'
    BY <1>2, <2>1 DEF GetSize
  <2>3. FixedInv'
    BY <1>2 DEF GetSize
  <2>4. SizeInv'
    BY <1>2 DEF GetSize
  <2>5. CorruptionNeedsRacedArray'
    BY <1>2 DEF GetSize
  <2>6. QED
    BY <2>2, <2>3, <2>4, <2>5
<1>3. ASSUME NEW t \in Threads, CheckSize(t) PROVE IInv'
  BY <1>3 DEF CheckSize, TooLarge
<1>4. ASSUME NEW t \in Threads, Malloc(t) PROVE IInv'
  BY <1>4 DEF Malloc
<1>5. ASSUME NEW t \in Threads, Dump(t) PROVE IInv'
  BY <1>5 DEF Dump, DumpRoom
<1>6. ASSUME NEW t \in Threads, Return(t) PROVE IInv'
  BY <1>6 DEF Return
<1>7. ASSUME NEW t \in Threads, Send(t) PROVE IInv'
  BY <1>7 DEF Send
<1>8. CASE UNCHANGED vars
  BY <1>8 DEF vars
<1>9. QED
  BY <1>1, <1>2, <1>3, <1>4, <1>5, <1>6, <1>7, <1>8 DEF Next, Step

LEMMA Invariance == Spec => []IInv
BY InitIInv, NextIInv, PTL DEF Spec

-----------------------------------------------------------------------------
THEOREM TypeCorrect == Spec => []TypeOK
BY Invariance, PTL DEF IInv

(* A handler nobody raced sends its own image, whole, in its block, under  *)
(* its own size: without interference the shared gsz does no harm.         *)
THEOREM UnracedSafe == Spec => []UnracedReplyIsExact
<1>1. IInv => UnracedReplyIsExact
  BY DEF IInv, TypeOK, UnracedInv, UnracedReplyIsExact, ExactReply, Packed
<1>2. QED
  BY Invariance, <1>1, PTL

(* Writing past a block takes an array reply and a race.                   *)
THEOREM CorruptionCause == Spec => []CorruptionNeedsRacedArray
BY Invariance, PTL DEF IInv

(* The handlers with a fixed reply are never kept from writing it.         *)
THEOREM FixedSafe == Spec => []FixedImageAlwaysWritten
<1>1. IInv => FixedImageAlwaysWritten
  BY DEF IInv, FixedInv, FixedImageAlwaysWritten
<1>2. QED
  BY Invariance, <1>1, PTL

(* A reply is never announced with a size no handler ever packed.          *)
THEOREM SizesAreReal == Spec => []ReportsSomeReply
BY Invariance, PTL DEF IInv, SizeInv

-----------------------------------------------------------------------------
(* With a single client every reply is exact: the race needs a second one. *)
THEOREM SingleClientSafe ==
  ASSUME NEW c, Threads = {c}
  PROVE  Spec => []EveryReplyIsExact
<1> DEFINE Alone == \A t \in Threads : ~raced[t]
<1>1. Init => Alone
  BY DEF Init
<1>2. IInv /\ Alone /\ [Next]_vars => Alone'
  <2> SUFFICES ASSUME IInv, Alone, [Next]_vars PROVE Alone'
    OBVIOUS
  <2>1. ASSUME NEW t \in Threads, GetSize(t) PROVE Alone'
    BY <2>1, Threads = {c} DEF GetSize
  <2>2. ASSUME NEW t \in Threads, Step(t), ~GetSize(t) PROVE Alone'
    BY <2>2 DEF Step, Carry, CheckSize, Malloc, Dump, Return, Send
  <2>3. QED
    BY <2>1, <2>2 DEF Next, vars
<1>3. IInv /\ Alone => EveryReplyIsExact
  BY DEF IInv, TypeOK, UnracedInv, EveryReplyIsExact, ExactReply, Packed
<1>4. QED
  BY Invariance, <1>1, <1>2, <1>3, PTL DEF Spec

(* Until an array is packed that the buffer has no room for, the server    *)
(* never writes or sends past a buffer, whatever its threads do to gsz.    *)
THEOREM SmallRepliesSafe == Spec => []SmallRepliesAreSafe
<1> DEFINE Room  == BUFSIZE - H_OFFSET
           Small == ~large =>
                      /\ ~corrupt /\ gsz <= Room
                      /\ \A t \in Threads :
                           /\ pc[t] # "malloc" /\ cap[t] = BUFSIZE
                           /\ pc[t] # "recv" => own[t] <= Room
                           /\ pc[t] = "send" => ret[t] <= BUFSIZE
<1> USE ThreadsAssumption
<1>1. Init => Small
  BY DEF Init
<1>2. IInv /\ Small /\ [Next]_vars => Small'
  <2> SUFFICES ASSUME IInv, Small, [Next]_vars PROVE Small'
    OBVIOUS
  <2> USE DEF IInv, TypeOK, At, Goto
  <2>1. ASSUME NEW t \in Threads, NEW k \in Kinds, NEW n \in SizesOf(k),
               Carry(t, k, n)
        PROVE  Small'
    <3>1. n \in Nat
      BY SizesAreNat
    <3>2. ~large' => ~large /\ ~(n + H_OFFSET > BUFSIZE)
      BY <2>1 DEF Carry
    <3>3. QED
      BY <2>1, <3>1, <3>2 DEF Carry
  <2>2. ASSUME NEW t \in Threads, GetSize(t) PROVE Small'
    BY <2>2 DEF GetSize
  <2>3. ASSUME NEW t \in Threads, CheckSize(t) PROVE Small'
    BY <2>3 DEF CheckSize, TooLarge
  <2>4. ASSUME NEW t \in Threads, Malloc(t) PROVE Small'
    BY <2>4 DEF Malloc
  <2>5. ASSUME NEW t \in Threads, Dump(t) PROVE Small'
    BY <2>5 DEF Dump
  <2>6. ASSUME NEW t \in Threads, Return(t) PROVE Small'
    BY <2>6 DEF Return
  <2>7. ASSUME NEW t \in Threads, Send(t) PROVE Small'
    BY <2>7 DEF Send
  <2>8. CASE UNCHANGED vars
    BY <2>8 DEF vars
  <2>9. QED
    BY <2>1, <2>2, <2>3, <2>4, <2>5, <2>6, <2>7, <2>8 DEF Next, Step
<1>3. Small => SmallRepliesAreSafe
  BY DEF SmallRepliesAreSafe
<1>4. QED
  BY Invariance, <1>1, <1>2, <1>3, PTL DEF Spec
==============================================================================
