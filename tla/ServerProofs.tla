----------------------------- MODULE ServerProofs -----------------------------
(***************************************************************************)
(* Proofs about the parts of the server around the framing, for any        *)
(* clients, descriptors, buffers, contents and objects.  First the         *)
(* connections and their threads.                                          *)
(***************************************************************************)
EXTENDS Server, FiniteSetTheorems, SequenceTheorems, WellFoundedInduction, TLAPS

-------------------------------------------------------------------------------
(* The lowest descriptor exists.                                           *)

LEMMA LeastNatural ==
  ASSUME NEW S \in SUBSET Nat, S # {}
  PROVE  \E x \in S : \A y \in S : x <= y
<1> DEFINE T == {0..x : x \in S}
<1>1. T \subseteq FiniteSubsetsOf(Nat) /\ T # {}
  <2>1. \A x \in S : 0..x \in SUBSET Nat /\ IsFiniteSet(0..x)
    BY FS_Interval
  <2>2. QED
    BY <2>1 DEF FiniteSubsetsOf
<1>2. \E s \in T : \A u \in T : <<u, s>> \notin StrictSubsetOrdering(Nat)
  <2>1. IsWellFoundedOn(StrictSubsetOrdering(Nat), FiniteSubsetsOf(Nat))
    BY FS_StrictSubsetOrderingWellFounded
  <2> HIDE DEF T
  <2>2. QED
    BY <1>1, <2>1, WFMin
<1>3. PICK x \in S : \A y \in S : <<0..y, 0..x>> \notin StrictSubsetOrdering(Nat)
  BY <1>2
<1>4. ASSUME NEW y \in S, ~(x <= y) PROVE FALSE
  <2>1. 0..y \in SUBSET Nat /\ 0..x \in SUBSET Nat /\ 0..y \subseteq 0..x
    BY <1>4
  <2>2. x \in 0..x /\ x \notin 0..y
    BY <1>4
  <2>3. <<0..y, 0..x>> \in StrictSubsetOrdering(Nat)
    BY <2>1, <2>2 DEF StrictSubsetOrdering
  <2>4. QED
    BY <1>3, <2>3
<1>5. QED
  BY <1>4

LEMMA MinIn ==
  ASSUME NEW S \in SUBSET Nat, S # {} PROVE Min(S) \in S
BY LeastNatural DEF Min

-------------------------------------------------------------------------------
(* The connections.                                                        *)

Pieces == Seq(Clients \X Nat)

ConnsType ==
  /\ link \in [Clients -> {"none", "connected", "left"}]
  /\ sent \in [Clients -> Nat] /\ read \in [Clients -> Nat] /\ replies \in [Clients -> Nat]
  /\ backlog \in Seq(Clients) /\ loop \in BOOLEAN /\ up \in BOOLEAN
  /\ file \in [Fds -> Clients \cup {Free}]
  /\ thread \in [Clients -> [pc: {"none", "recv", "more", "run", "ended"},
                             fd: Fds, got: Pieces]]

\* What the threads hold of a request, and how far each stream is read.
BoundsInv ==
  /\ \A c \in Clients : read[c] <= sent[c] /\ sent[c] <= 2 * MaxCalls
  /\ \A t \in Clients : Len(thread[t].got) =
       IF thread[t].pc = "more" THEN 1 ELSE IF thread[t].pc = "run" THEN 2 ELSE 0

(* A working thread's number stands for its client's connection; an open   *)
(* connection is that of the working thread with its number; a connection  *)
(* waits once, and has no thread before it is accepted.                    *)
OwnInv ==
  /\ \A t \in Clients : Working(t) => Conn(t) = t
  /\ \A f \in Fds : file[f] # Free => Working(file[f]) /\ thread[file[f]].fd = f
  /\ \A x, y \in 1..Len(backlog) : x # y => backlog[x] # backlog[y]
  /\ \A x \in 1..Len(backlog) :
       link[backlog[x]] # "none" /\ thread[backlog[x]].pc = "none"
  /\ \A c \in Clients : link[c] = "none" => thread[c].pc = "none"

(* What a thread has read is its client's stream up to the request it is   *)
(* at, and it has answered all before that.                                *)
InCall(t) ==
  /\ thread[t].pc = "none" => read[t] = 0 /\ replies[t] = 0
  /\ thread[t].pc = "recv" => read[t] = 2 * replies[t]
  /\ thread[t].pc = "more" => /\ read[t] = 2 * replies[t] + 1
                              /\ thread[t].got = <<<<t, read[t]>>>>
  /\ thread[t].pc = "run"  => /\ read[t] = 2 * replies[t] + 2
                              /\ thread[t].got = <<<<t, read[t] - 1>>, <<t, read[t]>>>>

CallInv == \A t \in Clients : InCall(t)

ConnsInv ==
  /\ ConnsType /\ BoundsInv
  /\ ~HalfSent => OwnInv /\ CallInv
  /\ RequestsAreWhole /\ DiesOfCutCall

LEMMA FreeIsNoClient == Free \notin Clients
BY ConnsAssumption

LEMMA FdsMin == Min(Fds) \in Fds
BY ConnsAssumption, MinIn

LEMMA ConnsInit == Init => ConnsInv
<1> SUFFICES ASSUME Init PROVE ConnsInv
  OBVIOUS
<1>1. NoThread \in [pc: {"none", "recv", "more", "run", "ended"}, fd: Fds, got: Pieces]
  BY FdsMin DEF NoThread, Pieces
<1>2. ConnsType
  BY <1>1 DEF Init, ConnsType
<1>3. BoundsInv
  BY ConnsAssumption DEF Init, BoundsInv, NoThread
<1>4. OwnInv /\ CallInv
  BY DEF Init, OwnInv, CallInv, InCall, NoThread, Working
<1>5. RequestsAreWhole /\ DiesOfCutCall
  BY DEF Init, RequestsAreWhole, DiesOfCutCall
<1>6. QED
  BY <1>2, <1>3, <1>4, <1>5 DEF ConnsInv

\* A client that has left inside a request stays so.
LEMMA HalfSentStays ==
  ASSUME ConnsType, NEW c \in Clients,
         sent' = sent \/ (link[c] = "connected" /\ sent' = [sent EXCEPT ![c] = @ + 1]),
         link' = link \/ \E d \in Clients, l \in {"connected", "left"} :
                           link[d] # "left" /\ link' = [link EXCEPT ![d] = l]
  PROVE  HalfSent => HalfSent'
BY DEF HalfSent, ConnsType

LEMMA CutShortStays ==
  ASSUME ConnsType, UNCHANGED replies, NEW c \in Clients,
         sent' = sent \/ (link[c] = "connected" /\ sent' = [sent EXCEPT ![c] = @ + 1]),
         link' = link \/ \E d \in Clients, l \in {"connected", "left"} :
                           link[d] # "left" /\ link' = [link EXCEPT ![d] = l]
  PROVE  CutShort => CutShort'
BY HalfSentStays DEF CutShort, ConnsType

-------------------------------------------------------------------------------
(* What the clients do.                                                    *)

\* The clients' steps leave all but the streams and the backlog.
LEMMA PeerStep ==
  ASSUME ConnsInv, ConnsType', NEW c \in Clients,
         \/ UNCHANGED sent
         \/ link[c] = "connected" /\ sent[c] < 2 * MaxCalls
            /\ sent' = [sent EXCEPT ![c] = @ + 1],
         link' = link \/ \E d \in Clients, l \in {"connected", "left"} :
                           link[d] # "left" /\ link' = [link EXCEPT ![d] = l],
         ~HalfSent' => OwnInv',
         UNCHANGED <<read, replies, thread, done, up>>
  PROVE  ConnsInv'
<1>1. HalfSent => HalfSent'
  BY HalfSentStays DEF ConnsInv
<1>2. BoundsInv'
  <2>1. sent \in [Clients -> Nat] /\ read \in [Clients -> Nat] /\ MaxCalls \in Nat
    BY ConnsAssumption DEF ConnsInv, ConnsType
  <2>2. ASSUME NEW d \in Clients PROVE read'[d] <= sent'[d] /\ sent'[d] <= 2 * MaxCalls
    <3>1. read[d] <= sent[d] /\ sent[d] <= 2 * MaxCalls /\ read'[d] = read[d]
      BY DEF ConnsInv, BoundsInv
    <3>2. sent'[d] = sent[d] \/ (d = c /\ sent'[d] = sent[d] + 1 /\ sent[d] < 2 * MaxCalls)
      BY <2>1
    <3>3. QED
      BY <2>1, <3>1, <3>2
  <2>3. QED
    BY <2>2 DEF ConnsInv, BoundsInv
<1>3. CallInv => CallInv'
  BY DEF CallInv, InCall
<1>4. RequestsAreWhole' /\ DiesOfCutCall'
  BY <1>1, CutShortStays DEF ConnsInv, RequestsAreWhole, DiesOfCutCall
<1>5. QED
  BY <1>1, <1>2, <1>3, <1>4 DEF ConnsInv

LEMMA ConnectStep ==
  ASSUME ConnsInv, NEW c \in Clients, Connect(c) PROVE ConnsInv'
<1>1. /\ link[c] = "none" /\ link' = [link EXCEPT ![c] = "connected"]
      /\ backlog' = Append(backlog, c)
      /\ UNCHANGED <<sent, read, replies, loop, file, thread, done, up>>
  BY DEF Connect
<1>2. ConnsType'
  BY <1>1 DEF ConnsInv, ConnsType
<1>3. HalfSent => HalfSent'
  BY <1>1, HalfSentStays DEF ConnsInv
<1>4. OwnInv => OwnInv'
  <2> SUFFICES ASSUME OwnInv PROVE OwnInv'
    OBVIOUS
  <2>1. /\ Len(backlog') = Len(backlog) + 1 /\ Len(backlog) \in Nat
        /\ \A x \in 1..Len(backlog) : backlog'[x] = backlog[x] /\ backlog[x] # c
        /\ backlog'[Len(backlog) + 1] = c
    BY <1>1 DEF ConnsInv, ConnsType, OwnInv
  <2>2. \A x \in 1..Len(backlog') : x \in 1..Len(backlog) \/ x = Len(backlog) + 1
    BY <2>1
  <2>3. \A x, y \in 1..Len(backlog') : x # y => backlog'[x] # backlog'[y]
    BY <2>1, <2>2 DEF OwnInv
  <2>4. thread[c].pc = "none"
    BY <1>1 DEF OwnInv
  <2>5. \A x \in 1..Len(backlog') :
          link'[backlog'[x]] # "none" /\ thread'[backlog'[x]].pc = "none"
    <3>1. \A d \in Clients : link[d] # "none" => link'[d] # "none"
      BY <1>1 DEF ConnsInv, ConnsType
    <3>2. link'[c] # "none"
      BY <1>1 DEF ConnsInv, ConnsType
    <3>3. \A x \in 1..Len(backlog) : backlog[x] \in Clients
      BY DEF ConnsInv, ConnsType
    <3>4. QED
      BY <1>1, <2>1, <2>2, <2>4, <3>1, <3>2, <3>3 DEF OwnInv
  <2>6. \A d \in Clients : link'[d] = "none" => link[d] = "none"
    BY <1>1 DEF ConnsInv, ConnsType
  <2>7. QED
    BY <1>1, <2>3, <2>5, <2>6 DEF OwnInv, Working, Conn
<1>5. QED
  BY <1>1, <1>2, <1>3, <1>4, PeerStep DEF ConnsInv

LEMMA SendStep ==
  ASSUME ConnsInv, NEW c \in Clients, Send(c) PROVE ConnsInv'
<1>1. /\ link[c] = "connected" /\ sent[c] < 2 * MaxCalls
      /\ sent' = [sent EXCEPT ![c] = @ + 1]
      /\ UNCHANGED <<link, read, replies, backlog, loop, file, thread, done, up>>
  BY DEF Send
<1>2. ConnsType'
  BY <1>1 DEF ConnsInv, ConnsType
<1>3. HalfSent => HalfSent'
  BY <1>1, HalfSentStays DEF ConnsInv
<1>4. OwnInv => OwnInv'
  BY <1>1 DEF OwnInv, Working, Conn
<1>5. QED
  BY <1>1, <1>2, <1>3, <1>4, PeerStep DEF ConnsInv

LEMMA LeaveStep ==
  ASSUME ConnsInv, NEW c \in Clients, Leave(c) PROVE ConnsInv'
<1>1. /\ link[c] = "connected" /\ link' = [link EXCEPT ![c] = "left"]
      /\ UNCHANGED <<sent, read, replies, backlog, loop, file, thread, done, up>>
  BY DEF Leave
<1>2. ConnsType'
  BY <1>1 DEF ConnsInv, ConnsType
<1>3. HalfSent => HalfSent'
  BY <1>1, HalfSentStays DEF ConnsInv
<1>4. OwnInv => OwnInv'
  BY <1>1, SMTT(30) DEF OwnInv, Working, Conn, ConnsInv, ConnsType
<1>5. QED
  BY <1>1, <1>2, <1>3, <1>4, PeerStep DEF ConnsInv

-------------------------------------------------------------------------------
(* The accept loop.                                                        *)

LEMMA AcceptStep ==
  ASSUME ConnsInv, Accept PROVE ConnsInv'
<1>0. /\ backlog # <<>> /\ Len(backlog) \in Nat /\ Len(backlog) > 0
      /\ Head(backlog) \in Clients /\ Head(backlog) = backlog[1]
  BY DEF Accept, ConnsInv, ConnsType
<1> PICK c \in Clients : c = Head(backlog)
  BY <1>0
<1>2. PICK f \in Fds : f = Min(FreeFds) /\ file[f] = Free
  <2>1. FreeFds \in SUBSET Nat /\ FreeFds # {}
    BY ConnsAssumption DEF Accept, FreeFds
  <2>2. Min(FreeFds) \in FreeFds
    BY <2>1, MinIn
  <2>3. QED
    BY <2>2 DEF FreeFds
<1> DEFINE new == [pc |-> "recv", fd |-> f, got |-> <<>>]
<1>1. /\ file' = [file EXCEPT ![f] = c] /\ thread' = [thread EXCEPT ![c] = new]
      /\ backlog' = Tail(backlog)
      /\ UNCHANGED <<link, sent, read, replies, loop, done, up>>
  BY <1>2 DEF Accept, peers
<1>3. /\ c = backlog[1] /\ Len(backlog) \in Nat /\ Len(backlog) > 0
      /\ Len(backlog') = Len(backlog) - 1
      /\ \A x \in 1..Len(backlog') : backlog'[x] = backlog[x + 1] /\ x + 1 \in 1..Len(backlog)
  BY <1>0, <1>1 DEF ConnsInv, ConnsType
<1>4. ConnsType'
  <2>1. new \in [pc: {"none", "recv", "more", "run", "ended"}, fd: Fds, got: Pieces]
    BY <1>2 DEF Pieces
  <2>2. backlog' \in Seq(Clients)
    BY <1>0, <1>1, HeadTailProperties DEF ConnsInv, ConnsType
  <2>3. QED
    BY <1>1, <1>2, <1>3, <2>1, <2>2 DEF ConnsInv, ConnsType
<1>5. thread'[c] = new /\ \A d \in Clients : d # c => thread'[d] = thread[d]
  BY <1>1, <1>3 DEF ConnsInv, ConnsType
<1>6. file'[f] = c /\ \A g \in Fds : g # f => file'[g] = file[g]
  BY <1>1, <1>2 DEF ConnsInv, ConnsType
<1>7. BoundsInv'
  BY <1>1, <1>5 DEF ConnsInv, BoundsInv
<1>8. (HalfSent' <=> HalfSent) /\ (CutShort' <=> CutShort)
  BY <1>1 DEF HalfSent, CutShort
<1>9. ASSUME OwnInv, CallInv PROVE OwnInv' /\ CallInv'
  <2>1. thread[c].pc = "none" /\ link[c] # "none"
    BY <1>3, <1>9 DEF OwnInv
  <2>2. \A t \in Clients : Working(t)' => Conn(t)' = t
    <3>1. ASSUME NEW t \in Clients, t # c, Working(t) PROVE thread[t].fd # f /\ thread[t].fd \in Fds
      BY <1>2, <1>9, <3>1, FreeIsNoClient DEF OwnInv, Conn, ConnsInv, ConnsType
    <3>2. QED
      BY <1>5, <1>6, <1>9, <3>1 DEF OwnInv, Working, Conn
  <2>3. \A g \in Fds : file'[g] # Free => /\ thread'[file'[g]].pc \in {"recv", "more", "run"}
                                          /\ thread'[file'[g]].fd = g
    <3>1. ASSUME NEW g \in Fds, g # f, file[g] # Free
          PROVE  file[g] # c /\ file[g] \in Clients
      <4>1. file[g] \in Clients
        BY <3>1 DEF ConnsInv, ConnsType
      <4>2. Working(file[g])
        BY <1>9, <3>1 DEF OwnInv
      <4>3. QED
        BY <2>1, <4>1, <4>2 DEF Working
    <3>2. thread'[c].pc = "recv" /\ thread'[c].fd = f
      BY <1>5
    <3>3. ASSUME NEW g \in Fds, g # f, file[g] # Free
          PROVE  /\ thread'[file'[g]].pc \in {"recv", "more", "run"}
                 /\ thread'[file'[g]].fd = g
      <4>1. thread'[file[g]] = thread[file[g]] /\ file'[g] = file[g]
        BY <1>5, <1>6, <3>1, <3>3
      <4>2. Working(file[g]) /\ thread[file[g]].fd = g
        BY <1>9, <3>3 DEF OwnInv
      <4>3. QED
        BY <4>1, <4>2 DEF Working
    <3>4. QED
      BY <1>6, <3>2, <3>3
  <2>4. \A x, y \in 1..Len(backlog') : x # y => backlog'[x] # backlog'[y]
    <3>1. ASSUME NEW x \in 1..Len(backlog'), NEW y \in 1..Len(backlog'), x # y
          PROVE  backlog'[x] # backlog'[y]
      <4>1. x + 1 \in 1..Len(backlog) /\ y + 1 \in 1..Len(backlog) /\ x + 1 # y + 1
        BY <1>3, <3>1
      <4>2. QED
        BY <1>3, <1>9, <4>1 DEF OwnInv
    <3>2. QED
      BY <3>1
  <2>5. \A x \in 1..Len(backlog') : link'[backlog'[x]] # "none" /\ thread'[backlog'[x]].pc = "none"
    <3>1. ASSUME NEW x \in 1..Len(backlog') PROVE backlog'[x] # c /\ backlog'[x] \in Clients
      <4>1. 1 \in 1..Len(backlog) /\ x + 1 # 1
        BY <1>3
      <4>2. backlog[x + 1] # backlog[1]
        BY <1>3, <1>9, <4>1 DEF OwnInv
      <4>3. backlog[x + 1] \in Clients
        BY <1>3 DEF ConnsInv, ConnsType
      <4>4. QED
        BY <1>3, <4>2, <4>3
    <3>2. QED
      BY <1>1, <1>3, <1>5, <1>9, <3>1 DEF OwnInv
  <2>6. CallInv'
    BY <1>1, <1>5, <1>9, <2>1 DEF CallInv, InCall, ConnsInv, ConnsType
  <2>7. QED
    <3>1. \A d \in Clients : link'[d] = "none" => thread'[d].pc = "none"
      BY <1>1, <1>5, <1>9, <2>1 DEF OwnInv
    <3>2. QED
      BY <2>2, <2>3, <2>4, <2>5, <2>6, <3>1 DEF OwnInv, Working
<1>10. RequestsAreWhole' /\ DiesOfCutCall'
  BY <1>1, <1>8 DEF ConnsInv, RequestsAreWhole, DiesOfCutCall
<1>11. QED
  BY <1>4, <1>7, <1>8, <1>9, <1>10 DEF ConnsInv

LEMMA AcceptFailsStep ==
  ASSUME ConnsInv, AcceptFails PROVE ConnsInv'
<1>1. /\ backlog # <<>> /\ loop' = FALSE /\ backlog' \in {backlog, Tail(backlog)}
      /\ UNCHANGED <<link, sent, read, replies, file, thread, done, up>>
  BY DEF AcceptFails, peers
<1>2. /\ backlog' \in Seq(Clients)
      /\ \/ backlog' = backlog
         \/ /\ Len(backlog') = Len(backlog) - 1 /\ Len(backlog) \in Nat
            /\ \A x \in 1..Len(backlog') :
                 backlog'[x] = backlog[x + 1] /\ x + 1 \in 1..Len(backlog)
  <2>1. backlog \in Seq(Clients)
    BY DEF ConnsInv, ConnsType
  <2>2. QED
    BY <1>1, <2>1, HeadTailProperties
<1>3. ConnsType'
  BY <1>1, <1>2 DEF ConnsInv, ConnsType
<1>4. OwnInv => OwnInv'
  <2>1. ASSUME OwnInv, NEW x \in 1..Len(backlog')
        PROVE  /\ \A y \in 1..Len(backlog') : x # y => backlog'[x] # backlog'[y]
               /\ link'[backlog'[x]] # "none" /\ thread'[backlog'[x]].pc = "none"
    <3>1. CASE backlog' = backlog
      BY <1>1, <2>1, <3>1 DEF OwnInv
    <3>2. CASE Len(backlog') = Len(backlog) - 1 /\ backlog' # backlog
      <4>1. /\ x + 1 \in 1..Len(backlog) /\ backlog'[x] = backlog[x + 1]
            /\ \A y \in 1..Len(backlog') : /\ y + 1 \in 1..Len(backlog)
                                           /\ backlog'[y] = backlog[y + 1]
        BY <1>2, <3>2
      <4>2. \A y \in 1..Len(backlog') : x # y => x + 1 # y + 1
        BY <1>2, <3>2
      <4>3. QED
        BY <1>1, <2>1, <4>1, <4>2 DEF OwnInv
    <3>3. QED
      BY <1>2, <3>1, <3>2
  <2>2. QED
    BY <1>1, <2>1 DEF OwnInv, Working, Conn
<1>5. (HalfSent' <=> HalfSent) /\ (CutShort' <=> CutShort)
  BY <1>1 DEF HalfSent, CutShort
<1>6. QED
  BY <1>1, <1>3, <1>4, <1>5
     DEF ConnsInv, BoundsInv, CallInv, InCall, RequestsAreWhole, DiesOfCutCall

-------------------------------------------------------------------------------
(* The threads.                                                            *)

\* What Becomes makes of the threads.
LEMMA BecomesEffect ==
  ASSUME ConnsType, NEW t \in Clients, NEW pc \in {"recv", "more", "run", "ended"},
         NEW got \in Pieces, Becomes(t, pc, got)
  PROVE  /\ thread'[t] = [pc |-> pc, fd |-> thread[t].fd, got |-> got]
         /\ \A u \in Clients : u # t => thread'[u] = thread[u]
         /\ thread' \in [Clients -> [pc: {"none", "recv", "more", "run", "ended"},
                                     fd: Fds, got: Pieces]]
BY ZenonT(40) DEF Becomes, ConnsType

\* Unless a client has left inside a request, a working thread has its own
\* client's connection behind its number.
LEMMA OwnConn ==
  ASSUME ConnsInv, ~HalfSent, NEW t \in Clients, Working(t)
  PROVE  Conn(t) = t /\ t # Free
BY FreeIsNoClient DEF ConnsInv, OwnInv

LEMMA AppendToOne == ASSUME NEW a, NEW b PROVE Append(<<a>>, b) = <<a, b>>
<1>1. <<a>> \in Seq({a, b}) /\ <<a, b>> \in Seq({a, b}) /\ b \in {a, b}
  OBVIOUS
<1>2. /\ Append(<<a>>, b) \in Seq({a, b}) /\ Len(Append(<<a>>, b)) = 2
      /\ Append(<<a>>, b)[1] = a /\ Append(<<a>>, b)[2] = b
  BY <1>1, AppendProperties
<1>3. Len(<<a, b>>) = 2 /\ \A x \in 1..2 : Append(<<a>>, b)[x] = <<a, b>>[x]
  BY <1>2
<1>4. QED
  BY <1>1, <1>2, <1>3, SeqEqual

LEMMA ReceiveStep ==
  ASSUME ConnsInv, NEW t \in Clients, Receive(t) PROVE ConnsInv'
<1>1. PICK c \in Clients : c = Conn(t)
  BY DEF Receive, Unread, Conn, ConnsInv, ConnsType
<1> DEFINE next == IF thread[t].pc = "recv" THEN "more" ELSE "run"
           all  == Append(thread[t].got, <<c, read[c] + 1>>)
<1>2. /\ thread[t].pc \in {"recv", "more"} /\ read[c] < sent[c]
      /\ read' = [read EXCEPT ![c] = @ + 1] /\ Becomes(t, next, all)
      /\ UNCHANGED <<link, sent, replies, backlog, loop, file, done, up>>
  BY <1>1 DEF Receive, Unread, peers
<1>3. thread[t].got \in Pieces /\ read[c] \in Nat /\ all \in Pieces
  BY DEF Pieces, ConnsInv, ConnsType
<1>4. /\ thread'[t] = [pc |-> next, fd |-> thread[t].fd, got |-> all]
      /\ \A u \in Clients : u # t => thread'[u] = thread[u]
      /\ ConnsType'
  <2>1. next \in {"recv", "more", "run", "ended"} /\ ConnsType
    BY DEF ConnsInv
  <2>2. read' \in [Clients -> Nat]
    BY <1>2, <1>3 DEF ConnsType, ConnsInv
  <2> HIDE DEF next, all
  <2>3. /\ thread'[t] = [pc |-> next, fd |-> thread[t].fd, got |-> all]
        /\ \A u \in Clients : u # t => thread'[u] = thread[u]
        /\ thread' \in [Clients -> [pc: {"none", "recv", "more", "run", "ended"},
                                    fd: Fds, got: Pieces]]
    BY <1>2, <1>3, <2>1, BecomesEffect
  <2>4. ConnsType'
    BY <1>2, <2>1, <2>2, <2>3 DEF ConnsType
  <2>5. QED
    BY <2>3, <2>4
<1>5. BoundsInv'
  <2>1. Len(all) = Len(thread[t].got) + 1
    BY <1>3 DEF Pieces
  <2>2. \A u \in Clients : Len(thread'[u].got) =
          IF thread'[u].pc = "more" THEN 1 ELSE IF thread'[u].pc = "run" THEN 2 ELSE 0
    BY <1>2, <1>4, <2>1 DEF ConnsInv, BoundsInv
  <2>3. \A d \in Clients : read'[d] <= sent'[d] /\ sent'[d] <= 2 * MaxCalls
    BY <1>2 DEF ConnsInv, ConnsType, BoundsInv
  <2>4. QED
    BY <2>2, <2>3 DEF BoundsInv
<1>6. (HalfSent' <=> HalfSent) /\ (CutShort' <=> CutShort)
  BY <1>2 DEF HalfSent, CutShort
<1>7. ASSUME ~HalfSent, OwnInv, CallInv PROVE OwnInv' /\ CallInv'
  <2>1. c = t
    BY <1>1, <1>2, <1>7, OwnConn DEF Working
  <2>2. \A u \in Clients : (Working(u)' <=> Working(u)) /\ thread'[u].fd = thread[u].fd
    BY <1>2, <1>4 DEF Working
  <2>3. \A u \in Clients : thread'[u].pc = "none" <=> thread[u].pc = "none"
    BY <1>2, <1>4
  <2>4. OwnInv'
    <3>1. \A f \in Fds : file[f] # Free => file[f] \in Clients
      BY DEF ConnsInv, ConnsType
    <3>2. \A x \in 1..Len(backlog) : backlog[x] \in Clients
      BY DEF ConnsInv, ConnsType
    <3>3. QED
      BY <1>2, <1>7, <2>2, <2>3, <3>1, <3>2 DEF OwnInv, Conn, Working
  <2>5. /\ read'[t] = read[t] + 1 /\ replies'[t] = replies[t]
        /\ \A u \in Clients : u # t => read'[u] = read[u] /\ replies'[u] = replies[u]
    BY <1>2, <2>1 DEF ConnsInv, ConnsType
  <2>6. CASE thread[t].pc = "recv"
    <3>1. thread[t].got = <<>>
      BY <1>3, <2>6 DEF ConnsInv, BoundsInv, Pieces
    <3>2. thread'[t].pc = "more" /\ thread'[t].got = <<<<t, read[t] + 1>>>>
      BY <1>4, <2>1, <2>6, <3>1
    <3>3. read'[t] = 2 * replies'[t] + 1 /\ read'[t] = read[t] + 1
      BY <1>3, <1>7, <2>1, <2>5, <2>6 DEF CallInv, InCall, ConnsInv, ConnsType
    <3>4. QED
      <4>1. ASSUME NEW u \in Clients, u # t PROVE InCall(u)'
        <5>1. InCall(u) /\ thread'[u] = thread[u]
          BY <1>4, <1>7, <4>1 DEF CallInv
        <5>2. QED
          BY <2>5, <4>1, <5>1 DEF InCall
      <4>2. InCall(t)'
        BY <3>2, <3>3 DEF InCall
      <4>3. QED
        BY <2>4, <4>1, <4>2 DEF CallInv
  <2>7. CASE thread[t].pc = "more"
    <3>1. read[t] = 2 * replies[t] + 1 /\ thread[t].got = <<<<t, read[t]>>>>
      BY <1>7, <2>7 DEF CallInv, InCall
    <3>2. /\ thread'[t].pc = "run"
          /\ thread'[t].got = <<<<t, read[t]>>, <<t, read[t] + 1>>>>
      <4>1. thread'[t].pc = "run" /\ thread'[t].got = Append(thread[t].got, <<t, read[t] + 1>>)
        BY <1>4, <2>1, <2>7
      <4>2. QED
        BY <3>1, <4>1, AppendToOne
    <3>3. read'[t] - 1 = read[t] /\ read'[t] = 2 * replies'[t] + 2
      BY <1>3, <2>1, <2>5, <3>1 DEF ConnsInv, ConnsType
    <3>4. QED
      <4>1. ASSUME NEW u \in Clients, u # t PROVE InCall(u)'
        <5>1. InCall(u) /\ thread'[u] = thread[u]
          BY <1>4, <1>7, <4>1 DEF CallInv
        <5>2. QED
          BY <2>5, <4>1, <5>1 DEF InCall
      <4>2. thread'[t].got = <<<<t, read'[t] - 1>>, <<t, read'[t]>>>>
        BY <2>5, <3>2, <3>3
      <4>3. InCall(t)'
        BY <3>2, <3>3, <4>2 DEF InCall
      <4>4. QED
        BY <2>4, <4>1, <4>3 DEF CallInv
  <2>8. QED
    BY <1>2, <2>6, <2>7
<1>8. RequestsAreWhole' /\ DiesOfCutCall'
  BY <1>2, <1>6 DEF ConnsInv, RequestsAreWhole, DiesOfCutCall
<1>9. QED
  BY <1>4, <1>5, <1>6, <1>7, <1>8 DEF ConnsInv

\* A thread ends and closes the connection that is its own.
LEMMA EndKeepsOwn ==
  ASSUME ConnsType, OwnInv, NEW t \in Clients, Working(t), Conn(t) = t,
         Close(t), thread'[t].pc = "ended",
         \A u \in Clients : u # t => thread'[u] = thread[u],
         UNCHANGED <<link, backlog>>
  PROVE  OwnInv'
<1>1. thread[t].fd \in Fds
  BY DEF ConnsType
<1>2. file'[thread[t].fd] = Free /\ \A f \in Fds : f # thread[t].fd => file'[f] = file[f]
  BY <1>1 DEF Close, ConnsType
<1>3. ASSUME NEW u \in Clients, u # t, Working(u)
      PROVE  thread[u].fd \in Fds /\ thread[u].fd # thread[t].fd /\ file[thread[u].fd] = u
  BY <1>3 DEF OwnInv, Conn, ConnsType
<1>4. \A u \in Clients : thread'[u].pc \in {"recv", "more", "run"} => file'[thread'[u].fd] = u
  BY <1>2, <1>3 DEF Working
<1>5. ASSUME NEW f \in Fds, file'[f] # Free
      PROVE  thread'[file'[f]].pc \in {"recv", "more", "run"} /\ thread'[file'[f]].fd = f
  <2>1. f # thread[t].fd /\ file'[f] = file[f] /\ file[f] \in Clients
    BY <1>2, <1>5 DEF ConnsType
  <2>2. Working(file[f]) /\ thread[file[f]].fd = f
    BY <1>5, <2>1 DEF OwnInv
  <2>3. thread'[file[f]] = thread[file[f]]
    BY <2>1, <2>2
  <2>4. QED
    BY <2>1, <2>2, <2>3 DEF Working
<1>6. \A x \in 1..Len(backlog) : backlog[x] # t /\ backlog[x] \in Clients
  BY SMTT(30) DEF ConnsType, OwnInv, Working
<1>7. \A c \in Clients : link'[c] = "none" => thread'[c].pc = "none"
  BY DEF OwnInv, Working
<1>8. QED
  BY <1>4, <1>5, <1>6, <1>7 DEF OwnInv, Working, Conn

LEMMA SeesEndStep ==
  ASSUME ConnsInv, NEW t \in Clients, SeesEnd(t) PROVE ConnsInv'
<1> DEFINE next == IF thread[t].pc = "recv" THEN "ended" ELSE "more"
<1>1. /\ up /\ thread[t].pc \in {"recv", "more"} /\ Conn(t) # Free
      /\ read[Conn(t)] = sent[Conn(t)] /\ link[Conn(t)] = "left"
      /\ Close(t) /\ Becomes(t, next, thread[t].got)
      /\ UNCHANGED <<link, sent, read, replies, backlog, loop, done, up>>
  BY DEF SeesEnd, AtEnd, peers
<1>2. /\ thread'[t] = [pc |-> next, fd |-> thread[t].fd, got |-> thread[t].got]
      /\ \A u \in Clients : u # t => thread'[u] = thread[u]
      /\ ConnsType'
  <2>1. /\ next \in {"recv", "more", "run", "ended"} /\ ConnsType
        /\ thread[t].got \in Pieces /\ thread[t].fd \in Fds
    BY DEF ConnsInv, ConnsType
  <2>2. file' \in [Fds -> Clients \cup {Free}]
    BY <1>1, <2>1 DEF ConnsType, Close
  <2> HIDE DEF next
  <2>3. /\ thread'[t] = [pc |-> next, fd |-> thread[t].fd, got |-> thread[t].got]
        /\ \A u \in Clients : u # t => thread'[u] = thread[u]
        /\ thread' \in [Clients -> [pc: {"none", "recv", "more", "run", "ended"},
                                    fd: Fds, got: Pieces]]
    BY <1>1, <2>1, BecomesEffect
  <2>4. ConnsType'
    BY <1>1, <2>1, <2>2, <2>3 DEF ConnsType
  <2>5. QED
    BY <2>3, <2>4
<1>3. BoundsInv'
  BY <1>1, <1>2 DEF ConnsInv, BoundsInv
<1>4. (HalfSent' <=> HalfSent) /\ (CutShort' <=> CutShort)
  BY <1>1 DEF HalfSent, CutShort
<1>5. ASSUME ~HalfSent, OwnInv, CallInv PROVE OwnInv' /\ CallInv'
  <2>1. Conn(t) = t /\ Working(t)
    BY <1>1, <1>5, OwnConn DEF Working
  <2>2. thread[t].pc = "recv"
    <3>1. ASSUME thread[t].pc = "more" PROVE FALSE
      <4>1. sent[t] = 2 * replies[t] + 1 /\ link[t] = "left" /\ replies[t] \in Nat
        BY <1>1, <1>5, <2>1, <3>1 DEF CallInv, InCall, ConnsInv, ConnsType
      <4>2. sent[t] % 2 = 1
        BY <4>1
      <4>3. QED
        BY <1>5, <4>1, <4>2 DEF HalfSent
    <3>2. QED
      BY <1>1, <3>1
  <2>3. thread'[t].pc = "ended"
    BY <1>2, <2>2
  <2>4. OwnInv'
    BY <1>1, <1>2, <1>5, <2>1, <2>3, EndKeepsOwn DEF ConnsInv
  <2>5. CallInv'
    BY <1>1, <1>2, <1>5, <2>3 DEF CallInv, InCall
  <2>6. QED
    BY <2>4, <2>5
<1>6. QED
  BY <1>1, <1>2, <1>3, <1>4, <1>5 DEF ConnsInv, RequestsAreWhole, DiesOfCutCall

LEMMA ReceiveFailsStep ==
  ASSUME ConnsInv, NEW t \in Clients, ReceiveFails(t) PROVE ConnsInv'
<1>1. /\ Working(t) /\ Conn(t) = Free /\ up' = FALSE
      /\ UNCHANGED <<link, sent, read, replies, backlog, loop, file, thread, done>>
  BY DEF ReceiveFails, Working, peers
<1>2. HalfSent /\ HalfSent'
  BY <1>1, OwnConn DEF HalfSent
<1>3. ConnsType' /\ BoundsInv'
  BY <1>1 DEF ConnsInv, ConnsType, BoundsInv
<1>4. QED
  BY <1>2, <1>3 DEF ConnsInv, RequestsAreWhole, DiesOfCutCall, CutShort

LEMMA RunStep ==
  ASSUME ConnsInv, NEW t \in Clients, Run(t) PROVE ConnsInv'
<1>1. /\ up /\ thread[t].pc = "run" /\ Working(t) /\ done' = done \cup {thread[t].got}
      /\ UNCHANGED <<link, sent, read, backlog, loop>>
  BY DEF Run, Working, peers
<1>2. HalfSent' <=> HalfSent
  BY <1>1 DEF HalfSent
<1>3. ASSUME ~HalfSent
      PROVE  /\ Conn(t) = t /\ t # Free /\ OwnInv /\ CallInv
             /\ read[t] = 2 * replies[t] + 2 /\ read[t] <= sent[t]
             /\ replies[t] \in Nat /\ read[t] \in Nat /\ sent[t] \in Nat
             /\ thread[t].got = <<<<t, read[t] - 1>>, <<t, read[t]>>>>
  BY <1>1, <1>3, OwnConn DEF ConnsInv, ConnsType, BoundsInv, CallInv, InCall
<1>4. RequestsAreWhole'
  <2>1. ASSUME ~HalfSent PROVE
          \E c \in Clients, k \in 1..MaxCalls : thread[t].got = <<<<c, 2 * k - 1>>, <<c, 2 * k>>>>
    <3>1. replies[t] + 1 \in 1..MaxCalls
      BY <1>3, <2>1, ConnsAssumption, SMTT(30) DEF ConnsInv, BoundsInv
    <3>2. read[t] = 2 * (replies[t] + 1) /\ read[t] - 1 = 2 * (replies[t] + 1) - 1
      BY <1>3, <2>1
    <3>3. QED
      BY <1>3, <2>1, <3>1, <3>2
  <2>2. QED
    BY <1>1, <1>2, <2>1 DEF ConnsInv, RequestsAreWhole
<1>5. CASE Conn(t) = Free \/ link[Conn(t)] = "left"
  <2>1. /\ Close(t) /\ Becomes(t, "ended", <<>>) /\ UNCHANGED replies
        /\ up' \in {TRUE, Conn(t) = Free}
    BY <1>5 DEF Run
  <2>2. /\ thread'[t] = [pc |-> "ended", fd |-> thread[t].fd, got |-> <<>>]
        /\ \A u \in Clients : u # t => thread'[u] = thread[u]
        /\ thread' \in [Clients -> [pc: {"none", "recv", "more", "run", "ended"},
                                    fd: Fds, got: Pieces]]
    <3>1. ConnsType /\ <<>> \in Pieces /\ "ended" \in {"recv", "more", "run", "ended"}
      BY DEF ConnsInv, Pieces
    <3>2. QED
      BY <2>1, <3>1, BecomesEffect
  <2>3. ConnsType'
    BY <1>1, <2>1, <2>2 DEF ConnsInv, ConnsType, Close
  <2>4. BoundsInv'
    BY <1>1, <2>2 DEF ConnsInv, BoundsInv
  <2>5. ASSUME ~HalfSent PROVE OwnInv' /\ CallInv'
    <3>1. OwnInv'
      BY <1>1, <1>3, <2>1, <2>2, <2>5, EndKeepsOwn DEF ConnsInv
    <3>2. CallInv'
      BY <1>1, <1>3, <2>1, <2>2, <2>5 DEF CallInv, InCall
    <3>3. QED
      BY <3>1, <3>2
  <2>6. CutShort'
    <3>1. ASSUME ~HalfSent PROVE link'[t] = "left" /\ sent'[t] > 2 * replies'[t]
      BY <1>1, <1>3, <1>5, <2>1, <3>1
    <3>2. QED
      BY <1>2, <3>1 DEF CutShort
  <2>7. QED
    BY <1>2, <1>4, <2>3, <2>4, <2>5, <2>6 DEF ConnsInv, DiesOfCutCall
<1>6. CASE ~(Conn(t) = Free \/ link[Conn(t)] = "left")
  <2>1. PICK c \in Clients : c = Conn(t)
    BY <1>6 DEF Conn, ConnsInv, ConnsType
  <2>2. /\ replies' = [replies EXCEPT ![c] = @ + 1] /\ Becomes(t, "recv", <<>>)
        /\ UNCHANGED <<file, up>>
    BY <1>6, <2>1 DEF Run
  <2>3. /\ thread'[t] = [pc |-> "recv", fd |-> thread[t].fd, got |-> <<>>]
        /\ \A u \in Clients : u # t => thread'[u] = thread[u]
        /\ thread' \in [Clients -> [pc: {"none", "recv", "more", "run", "ended"},
                                    fd: Fds, got: Pieces]]
    <3>1. ConnsType /\ <<>> \in Pieces /\ "recv" \in {"recv", "more", "run", "ended"}
      BY DEF ConnsInv, Pieces
    <3>2. QED
      BY <2>2, <3>1, BecomesEffect
  <2>4. ConnsType'
    <3>1. replies' \in [Clients -> Nat]
      BY <2>2 DEF ConnsInv, ConnsType
    <3>2. QED
      BY <1>1, <2>2, <2>3, <3>1 DEF ConnsInv, ConnsType
  <2>5. BoundsInv'
    BY <1>1, <2>3 DEF ConnsInv, BoundsInv
  <2>6. ASSUME ~HalfSent PROVE OwnInv' /\ CallInv'
    <3>1. \A u \in Clients : (Working(u)' <=> Working(u)) /\ thread'[u].fd = thread[u].fd
                              /\ (thread'[u].pc = "none" <=> thread[u].pc = "none")
      BY <1>1, <2>3 DEF Working
    <3>2. OwnInv'
      <4>1. \A f \in Fds : file[f] # Free => file[f] \in Clients
        BY DEF ConnsInv, ConnsType
      <4>2. \A x \in 1..Len(backlog) : backlog[x] \in Clients
        BY DEF ConnsInv, ConnsType
      <4>3. QED
        BY <1>1, <1>3, <2>2, <2>6, <3>1, <4>1, <4>2, SMTT(30) DEF OwnInv, Conn, Working
    <3>3. /\ replies'[t] = replies[t] + 1
          /\ \A u \in Clients : u # t => replies'[u] = replies[u]
      BY <1>3, <2>1, <2>2, <2>6 DEF ConnsInv, ConnsType
    <3>4. read'[t] = 2 * replies'[t]
      BY <1>1, <1>3, <2>6, <3>3
    <3>5. CallInv'
      <4>1. thread'[t].pc = "recv"
        BY <2>3
      <4>2. CallInv /\ read' = read
        BY <1>1, <1>3, <2>6
      <4>3. QED
        BY <2>3, <3>3, <3>4, <4>1, <4>2 DEF CallInv, InCall
    <3>6. QED
      BY <3>2, <3>5
  <2>7. QED
    BY <1>1, <1>2, <1>4, <2>2, <2>4, <2>5, <2>6 DEF ConnsInv, DiesOfCutCall
<1>7. QED
  BY <1>5, <1>6

-------------------------------------------------------------------------------
LEMMA ConnsNext == ConnsInv /\ [Next]_vars => ConnsInv'
<1> SUFFICES ASSUME ConnsInv, [Next]_vars PROVE ConnsInv'
  OBVIOUS
<1>1. CASE UNCHANGED vars
  <2>1. UNCHANGED <<link, sent, read, replies, backlog, loop, file, thread, done, up>>
    BY <1>1 DEF vars
  <2>2. ConnsType' /\ BoundsInv'
    BY <2>1 DEF ConnsInv, ConnsType, BoundsInv
  <2>3. (OwnInv => OwnInv') /\ (CallInv => CallInv')
    BY <2>1 DEF OwnInv, CallInv, InCall, Working, Conn
  <2>4. (HalfSent' <=> HalfSent) /\ (CutShort' <=> CutShort)
    BY <2>1 DEF HalfSent, CutShort
  <2>5. QED
    BY <2>1, <2>2, <2>3, <2>4 DEF ConnsInv, RequestsAreWhole, DiesOfCutCall
<1>2. CASE Next
  BY <1>2, ConnectStep, SendStep, LeaveStep, AcceptStep, AcceptFailsStep, ReceiveStep,
     SeesEndStep, ReceiveFailsStep, RunStep DEF Next, Step
<1>3. QED
  BY <1>1, <1>2

LEMMA ConnsInvariance == Spec => []ConnsInv
BY ConnsInit, ConnsNext, PTL DEF Spec

LEMMA ConnsInvImplies == ConnsInv => ThreadsKeepApart
<1> SUFFICES ASSUME ConnsInv PROVE ThreadsKeepApart
  OBVIOUS
<1>1. TypeOK
  BY DEF ConnsInv, ConnsType, BoundsInv, TypeOK
<1>2. OwnDescriptor
  BY DEF ConnsInv, OwnInv, OwnDescriptor
<1>3. QED
  BY <1>1, <1>2 DEF ConnsInv, ThreadsKeepApart

(* For any number of clients, calls and descriptors, accepted and closed   *)
(* in any order: a thread works on its own client's connection, executes   *)
(* the requests that client sent, and only a client that leaves inside a   *)
(* request or a call can change that, or end the process.                  *)
THEOREM ConnectionsSafe == Spec => []ThreadsKeepApart
BY ConnsInvariance, ConnsInvImplies, PTL

-------------------------------------------------------------------------------
(* The objects of the driver (Lifetimes).                                  *)

Kinds   == Objects!Kinds
Parent  == Objects!Parent
Records == Objects!Records
IsThere(o, a) == a \in Addrs /\ o[a] # None

ObjectsType ==
  /\ obj \in [Addrs -> Records \cup {None}]
  /\ slot \in [Apps -> [Kinds -> Addrs \cup {None}]]
  /\ held \in [Apps -> SUBSET Kinds]
  /\ created \in [Apps -> Nat] /\ \A c \in Apps : created[c] <= MaxMade[c]
  /\ stale \in BOOLEAN /\ alive \in BOOLEAN

\* What an object was made from is there as long as it is.
Family(o) ==
  \A a \in Addrs : o[a] # None =>
    IF o[a].kind = "context" THEN o[a].from = None
    ELSE IsThere(o, o[a].from) /\ o[o[a].from].kind = Parent[o[a].kind]

\* A client's slots name objects of its own that are not released.
HeldInv ==
  \A c \in Apps : \A k \in held[c] :
    LET a == slot[c][k] IN
    IsThere(obj, a) /\ obj[a].kind = k /\ obj[a].owner = c /\ ~obj[a].released

\* What is not released is held by the client that made it.
OwnerInv ==
  \A a \in Addrs : obj[a] # None /\ ~obj[a].released =>
    /\ obj[a].kind \in held[obj[a].owner]
    /\ slot[obj[a].owner][obj[a].kind] = a

\* An object is there for one that is not released.
NeededInv(o) ==
  \A a \in Addrs : o[a] # None =>
    \E b \in Addrs : o[b] # None /\ ~o[b].released /\ a \in Objects!Lineage(o, b)

ObjectsInv ==
  /\ ObjectsType /\ Family(obj) /\ NeededInv(obj)
  /\ ~stale => HeldInv /\ OwnerInv /\ alive

LEMMA NoneIsNone == None \notin Addrs /\ None \notin Records
BY PartsAssumption DEF Objects!LifetimesAssumption, Records

LEMMA ParentKinds ==
  /\ Kinds = {"context", "queue", "program", "kernel"}
  /\ Parent["queue"] = "context" /\ Parent["program"] = "context"
  /\ Parent["kernel"] = "program"
  /\ \A k \in Kinds : k # "context" => Parent[k] \in Kinds
BY DEF Kinds, Parent, Objects!Kinds, Objects!Parent

\* An object's lineage: itself, its parent, its parent's parent.
LEMMA LineageIs ==
  ASSUME NEW o \in [Addrs -> Records \cup {None}], Family(o), NEW a, IsThere(o, a)
  PROVE  /\ a \in Objects!Lineage(o, a)
         /\ \A b \in Objects!Lineage(o, a) :
              /\ IsThere(o, b)
              /\ o[b].from = None \/ o[b].from \in Objects!Lineage(o, a)
<1> DEFINE p == o[a].from
<1>1. a # None /\ o[a] \in Records /\ p \in Addrs \cup {None} /\ o[a].kind \in Kinds
  BY NoneIsNone DEF IsThere, Records, Objects!Records, Kinds
<1>2. CASE o[a].kind = "context"
  <2>1. p = None /\ Objects!Lineage(o, a) = {a}
    BY <1>1, <1>2 DEF Family, Objects!Lineage, Objects!From, IsThere
  <2>2. QED
    BY <2>1
<1>3. CASE o[a].kind # "context"
  <2>1. IsThere(o, p) /\ o[p].kind = Parent[o[a].kind] /\ p # None
    BY <1>3, NoneIsNone DEF Family, IsThere
  <2>2. CASE o[p].kind = "context"
    <3>1. o[p].from = None
      BY <2>1, <2>2 DEF Family, IsThere
    <3>2. Objects!Lineage(o, a) = {a, p}
      BY <1>1, <2>1, <3>1 DEF Objects!Lineage, Objects!From
    <3>3. QED
      BY <2>1, <3>1, <3>2
  <2>3. CASE o[p].kind # "context"
    <3> DEFINE q == o[p].from
    <3>1. o[p].kind = "program"
      BY <1>1, <1>3, <2>1, <2>3, ParentKinds
    <3>2. IsThere(o, q) /\ o[q].kind = "context" /\ q # None
      BY <2>1, <2>3, <3>1, ParentKinds, NoneIsNone DEF Family, IsThere
    <3>3. o[q].from = None
      BY <3>2 DEF Family, IsThere
    <3>4. Objects!Lineage(o, a) = {a, p, q}
      BY <1>1, <2>1, <3>2 DEF Objects!Lineage, Objects!From
    <3>5. QED
      BY <2>1, <3>2, <3>3, <3>4
  <2>4. QED
    BY <2>2, <2>3
<1>4. QED
  BY <1>2, <1>3

\* The lineage of an object depends on its own members only.
LEMMA LineageSame ==
  ASSUME NEW o \in [Addrs -> Records \cup {None}], Family(o), NEW a, IsThere(o, a),
         NEW p, \A b \in Objects!Lineage(o, a) : p[b].from = o[b].from
  PROVE  Objects!Lineage(p, a) = Objects!Lineage(o, a)
<1>1. a # None /\ a \in Objects!Lineage(o, a)
  BY LineageIs, NoneIsNone DEF IsThere
<1>2. Objects!From(p, a) = Objects!From(o, a)
  BY <1>1 DEF Objects!From
<1>3. CASE Objects!From(o, a) = None
  BY <1>2, <1>3 DEF Objects!Lineage, Objects!From
<1>4. CASE Objects!From(o, a) # None
  <2>1. Objects!From(o, a) \in Objects!Lineage(o, a)
    BY <1>4 DEF Objects!Lineage
  <2>2. QED
    BY <1>2, <1>4, <2>1 DEF Objects!Lineage, Objects!From
<1>5. QED
  BY <1>3, <1>4

LEMMA ObjectsInit == Objects!Init => ObjectsInv
<1> SUFFICES ASSUME Objects!Init PROVE ObjectsInv
  OBVIOUS
<1>1. ObjectsType
  <2>1. \A c \in Apps : created[c] <= MaxMade[c]
    BY PartsAssumption DEF Objects!Init, Objects!LifetimesAssumption
  <2>2. QED
    BY <2>1 DEF Objects!Init, ObjectsType, Kinds
<1>2. \A a \in Addrs : obj[a] = None
  BY DEF Objects!Init
<1>3. \A c \in Apps : held[c] = {}
  BY DEF Objects!Init
<1>4. QED
  BY <1>1, <1>2, <1>3
  DEF ObjectsInv, Family, NeededInv, HeldInv, OwnerInv, Objects!Init

\* What remains when an object's count is dropped.
LEMMA KeptEffect ==
  ASSUME NEW o \in [Addrs -> Records \cup {None}], Family(o),
         NEW p, p = Objects!Kept(o)
  PROVE  /\ p \in [Addrs -> Records \cup {None}] /\ Family(p) /\ NeededInv(p)
         /\ \A a \in Addrs : p[a] # None => p[a] = o[a]
         /\ \A a \in Addrs : o[a] # None /\ ~o[a].released => p[a] = o[a]
<1> DEFINE live == {a \in Addrs : o[a] # None}
           kept == UNION {Objects!Lineage(o, a) : a \in {b \in live : ~o[b].released}}
<1>1. p = [a \in Addrs |-> IF a \in kept THEN o[a] ELSE None]
  BY DEF Objects!Kept
<1>2. \A b \in Addrs : o[b] # None /\ ~o[b].released =>
        \A a \in Objects!Lineage(o, b) : a \in kept
  OBVIOUS
<1>3. \A a \in kept : \E b \in Addrs :
        o[b] # None /\ ~o[b].released /\ a \in Objects!Lineage(o, b)
  OBVIOUS
<1> HIDE DEF kept, live
<1>4. \A a \in kept : IsThere(o, a) /\ (o[a].from = None \/ o[a].from \in kept)
  <2> TAKE a \in kept
  <2>1. PICK b \in Addrs : o[b] # None /\ ~o[b].released /\ a \in Objects!Lineage(o, b)
    BY <1>3
  <2>2. IsThere(o, b)
    BY <2>1 DEF IsThere
  <2>3. IsThere(o, a) /\ (o[a].from = None \/ o[a].from \in Objects!Lineage(o, b))
    BY <2>1, <2>2, LineageIs
  <2>4. QED
    BY <2>1, <2>3, <1>2
<1>5. \A a \in kept : a \in Addrs /\ p[a] = o[a]
  BY <1>1, <1>4 DEF IsThere
<1>6. \A a \in Addrs : p[a] # None => a \in kept
  BY <1>1
<1>7. p \in [Addrs -> Records \cup {None}]
  BY <1>1
<1>8. Family(p)
  <2> SUFFICES ASSUME NEW a \in Addrs, p[a] # None
               PROVE  IF p[a].kind = "context" THEN p[a].from = None
                      ELSE IsThere(p, p[a].from) /\ p[p[a].from].kind = Parent[p[a].kind]
    BY DEF Family
  <2>1. a \in kept /\ p[a] = o[a] /\ o[a] # None
    BY <1>5, <1>6
  <2>2. CASE o[a].kind = "context"
    BY <2>1, <2>2 DEF Family
  <2>3. CASE o[a].kind # "context"
    <3>1. IsThere(o, o[a].from) /\ o[o[a].from].kind = Parent[o[a].kind]
      BY <2>1, <2>3 DEF Family
    <3>2. o[a].from \in kept
      BY <3>1, <2>1, <1>4, NoneIsNone DEF IsThere
    <3>3. p[o[a].from] = o[o[a].from]
      BY <3>2, <1>5
    <3>4. QED
      BY <3>1, <3>3, <2>1, <2>3 DEF IsThere
  <2>4. QED
    BY <2>2, <2>3
<1>9. \A b \in Addrs : o[b] # None /\ ~o[b].released =>
        b \in kept /\ Objects!Lineage(p, b) = Objects!Lineage(o, b)
  <2> SUFFICES ASSUME NEW b \in Addrs, o[b] # None, ~o[b].released
               PROVE  b \in kept /\ Objects!Lineage(p, b) = Objects!Lineage(o, b)
    OBVIOUS
  <2>1. IsThere(o, b)
    BY DEF IsThere
  <2>2. b \in kept
    BY <2>1, <1>2, LineageIs
  <2>3. \A c \in Objects!Lineage(o, b) : p[c].from = o[c].from
    BY <1>2, <1>5
  <2>4. QED
    BY <2>1, <2>2, <2>3, LineageSame
<1>10. NeededInv(p)
  <2> SUFFICES ASSUME NEW a \in Addrs, p[a] # None
               PROVE  \E b \in Addrs : p[b] # None /\ ~p[b].released
                                      /\ a \in Objects!Lineage(p, b)
    BY DEF NeededInv
  <2>1. PICK b \in Addrs : o[b] # None /\ ~o[b].released /\ a \in Objects!Lineage(o, b)
    BY <1>3, <1>6
  <2>2. QED
    BY <2>1, <1>9, <1>5
<1>11. QED
  BY <1>5, <1>6, <1>7, <1>8, <1>9, <1>10

LEMMA ObjectsLeave ==
  ASSUME ObjectsInv, NEW c \in Apps, Objects!Leave(c) PROVE ObjectsInv'
BY DEF ObjectsInv, ObjectsType, Family, NeededInv, HeldInv, OwnerInv, IsThere,
       Objects!Leave, Objects!Lineage, Objects!From

\* clCreate...: the driver made one, of a parent that is there, or refused.
LEMMA ObjectsCreate ==
  ASSUME ObjectsInv, NEW c \in Apps, NEW k \in Kinds, Objects!Create(c, k)
  PROVE  ObjectsInv'
<1> DEFINE from == IF k = "context" THEN None ELSE slot[c][Parent[k]]
<1>0. /\ ObjectsType /\ Family(obj) /\ NeededInv(obj)
      /\ ~stale => HeldInv /\ OwnerInv /\ alive
  BY DEF ObjectsInv
<1>1. /\ k \notin held[c] /\ created[c] < MaxMade[c]
      /\ created' = [created EXCEPT ![c] = @ + 1]
      /\ stale' = (stale \/ (k # "context" /\ Parent[k] \notin held[c]))
  BY DEF Objects!Create, Parent
<1>2. created' \in [Apps -> Nat] /\ (\A d \in Apps : created'[d] <= MaxMade'[d])
      /\ stale' \in BOOLEAN
  <2>1. created \in [Apps -> Nat] /\ \A d \in Apps : created[d] <= MaxMade[d]
    BY <1>0 DEF ObjectsType
  <2>2. created' \in [Apps -> Nat] /\ MaxMade[c] \in Nat
    BY <1>1, <2>1, PartsAssumption DEF Objects!LifetimesAssumption
  <2>3. \A d \in Apps : created'[d] <= MaxMade[d]
    BY <1>1, <2>1, <2>2
  <2>4. QED
    BY <1>0, <1>1, <2>2, <2>3 DEF ObjectsType
<1>3. ASSUME NEW a \in Addrs, k = "context" \/ Objects!IsA(from, Parent[k]),
             obj[a] = None, obj' = [obj EXCEPT ![a] = Objects!Object(k, c, from)],
             slot' = [slot EXCEPT ![c][k] = a],
             held' = [held EXCEPT ![c] = @ \cup {k}], alive' = alive
      PROVE  ObjectsInv'
  <2> DEFINE new == Objects!Object(k, c, from)
  <2>1. /\ from \in Addrs \cup {None}
        /\ k # "context" => IsThere(obj, from) /\ obj[from].kind = Parent[k]
    BY <1>0, <1>3, ParentKinds, NoneIsNone DEF ObjectsType, Objects!IsA, IsThere
  <2>2. new \in Records /\ new.kind = k /\ new.owner = c /\ new.from = from
        /\ new.released = FALSE
    BY <2>1 DEF Objects!Object, Records, Objects!Records, Kinds
  <2> HIDE DEF new
  <2>3. new # None
    BY <2>2, NoneIsNone
  <2>4. obj' \in [Addrs -> Records \cup {None}] /\ obj'[a] = new
        /\ \A b \in Addrs : b # a => obj'[b] = obj[b]
    BY <1>0, <1>3, <2>2 DEF ObjectsType, new
  <2>5. ObjectsType'
    <3>1. slot' \in [Apps -> [Kinds -> Addrs \cup {None}]]
      BY <1>0, <1>3 DEF ObjectsType
    <3>2. held' \in [Apps -> SUBSET Kinds] /\ alive' \in BOOLEAN
      BY <1>0, <1>3 DEF ObjectsType
    <3>3. QED
      BY <1>2, <2>4, <3>1, <3>2 DEF ObjectsType, Kinds, Records
  <2>6. \A b \in Addrs : obj[b] # None => b # a /\ obj'[b] = obj[b]
    BY <1>3, <2>4
  <2>7. Family(obj')
    <3> SUFFICES ASSUME NEW b \in Addrs, obj'[b] # None
                 PROVE  IF obj'[b].kind = "context" THEN obj'[b].from = None
                        ELSE IsThere(obj', obj'[b].from)
                             /\ obj'[obj'[b].from].kind = Parent[obj'[b].kind]
      BY DEF Family
    <3>1. CASE b = a
      BY <3>1, <2>1, <2>2, <2>3, <2>4, <2>6 DEF IsThere
    <3>2. CASE b # a
      <4>1. obj'[b] = obj[b] /\ obj[b] # None
        BY <3>2, <2>4
      <4>2. CASE obj[b].kind = "context"
        BY <4>1, <4>2, <1>0 DEF Family
      <4>3. CASE obj[b].kind # "context"
        <5>1. IsThere(obj, obj[b].from) /\ obj[obj[b].from].kind = Parent[obj[b].kind]
          BY <4>1, <4>3, <1>0 DEF Family
        <5>2. QED
          BY <4>1, <4>3, <5>1, <2>6 DEF IsThere
      <4>4. QED
        BY <4>2, <4>3
    <3>3. QED
      BY <3>1, <3>2
  <2>8. NeededInv(obj')
    <3> SUFFICES ASSUME NEW b \in Addrs, obj'[b] # None
                 PROVE  \E d \in Addrs : obj'[d] # None /\ ~obj'[d].released
                                        /\ b \in Objects!Lineage(obj', d)
      BY DEF NeededInv
    <3>1. CASE b = a
      <4>1. IsThere(obj', a)
        BY <2>3, <2>4 DEF IsThere
      <4>2. a \in Objects!Lineage(obj', a)
        BY <4>1, <2>4, <2>7, LineageIs
      <4>3. QED
        BY <3>1, <4>2, <2>2, <2>3, <2>4
    <3>2. CASE b # a
      <4>1. PICK d \in Addrs : obj[d] # None /\ ~obj[d].released /\ b \in Objects!Lineage(obj, d)
        BY <3>2, <2>4, <1>0 DEF NeededInv
      <4>2. IsThere(obj, d) /\ obj \in [Addrs -> Records \cup {None}]
        BY <4>1, <1>0 DEF IsThere, ObjectsType
      <4>3. \A e \in Objects!Lineage(obj, d) : obj'[e].from = obj[e].from
        BY <4>2, <1>0, <2>6, LineageIs DEF IsThere
      <4>4. Objects!Lineage(obj', d) = Objects!Lineage(obj, d)
        BY <4>2, <4>3, <1>0, LineageSame
      <4>5. QED
        BY <4>1, <4>4, <2>6
    <3>3. QED
      BY <3>1, <3>2
  <2>9. ASSUME ~stale' PROVE HeldInv' /\ OwnerInv' /\ alive'
    <3>1. ~stale /\ HeldInv /\ OwnerInv /\ alive
      BY <2>9, <1>0, <1>1
    <3>2. slot'[c][k] = a /\ \A d \in Apps, j \in Kinds :
            d # c \/ j # k => slot'[d][j] = slot[d][j]
      BY <1>0, <1>3 DEF ObjectsType
    <3>3. \A d \in Apps, j \in Kinds :
            j \in held'[d] <=> (j \in held[d] \/ (d = c /\ j = k))
      BY <1>0, <1>3 DEF ObjectsType
    <3>4. HeldInv'
      <4> SUFFICES ASSUME NEW d \in Apps, NEW j \in held'[d]
                   PROVE  LET e == slot'[d][j] IN
                          IsThere(obj', e) /\ obj'[e].kind = j
                          /\ obj'[e].owner = d /\ ~obj'[e].released
        BY DEF HeldInv, IsThere
      <4>1. j \in Kinds
        BY <2>5 DEF ObjectsType, Kinds
      <4>2. CASE d = c /\ j = k
        BY <4>2, <3>2, <2>2, <2>3, <2>4 DEF IsThere
      <4>3. CASE d # c \/ j # k
        <5>1. j \in held[d] /\ slot'[d][j] = slot[d][j]
          BY <4>1, <4>3, <3>2, <3>3
        <5>2. QED
          BY <5>1, <3>1, <2>6 DEF HeldInv, IsThere
      <4>4. QED
        BY <4>2, <4>3
    <3>5. OwnerInv'
      <4> SUFFICES ASSUME NEW b \in Addrs, obj'[b] # None, ~obj'[b].released
                   PROVE  /\ obj'[b].kind \in held'[obj'[b].owner]
                          /\ slot'[obj'[b].owner][obj'[b].kind] = b
        BY DEF OwnerInv
      <4>1. CASE b = a
        BY <4>1, <3>2, <3>3, <2>2, <2>4
      <4>2. CASE b # a
        <5>1. obj'[b] = obj[b] /\ obj[b] # None /\ obj[b] \in Records
          BY <4>2, <2>4, <1>0 DEF ObjectsType
        <5>2. obj[b].kind \in Kinds /\ obj[b].owner \in Apps
          BY <5>1 DEF Records, Objects!Records, Kinds
        <5>3. obj[b].kind \in held[obj[b].owner] /\ slot[obj[b].owner][obj[b].kind] = b
          BY <5>1, <3>1 DEF OwnerInv
        <5>4. obj[b].owner # c \/ obj[b].kind # k
          BY <5>3, <1>1
        <5>5. QED
          BY <5>1, <5>2, <5>3, <5>4, <3>2, <3>3
      <4>3. QED
        BY <4>1, <4>2
    <3>6. QED
      BY <1>3, <3>1, <3>4, <3>5
  <2>10. QED
    BY <2>5, <2>7, <2>8, <2>9 DEF ObjectsInv, Family, NeededInv, IsThere,
       Objects!Lineage, Objects!From
<1>4. ASSUME k # "context", ~Objects!IsA(from, Parent[k]), alive' \in BOOLEAN,
             slot' = [slot EXCEPT ![c][k] = None], obj' = obj, held' = held
      PROVE  ObjectsInv'
  <2>1. stale'
    <3>1. SUFFICES ASSUME ~stale, Parent[k] \in held[c] PROVE FALSE
      BY <1>1, <1>4
    <3>2. QED
      BY <3>1, <1>0, <1>4, NoneIsNone DEF HeldInv, Objects!IsA, IsThere
  <2>2. ObjectsType'
    <3>1. slot' \in [Apps -> [Kinds -> Addrs \cup {None}]]
      BY <1>0, <1>4 DEF ObjectsType
    <3>2. QED
      BY <1>0, <1>2, <1>4, <3>1 DEF ObjectsType, Kinds, Records
  <2>3. QED
    BY <1>0, <1>4, <2>1, <2>2 DEF ObjectsInv
<1>5. \/ /\ k = "context" \/ Objects!IsA(from, Parent[k])
         /\ \E a \in Addrs : /\ obj[a] = None
                            /\ obj' = [obj EXCEPT ![a] = Objects!Object(k, c, from)]
                            /\ slot' = [slot EXCEPT ![c][k] = a]
         /\ held' = [held EXCEPT ![c] = @ \cup {k}] /\ alive' = alive
      \/ /\ k # "context" /\ ~Objects!IsA(from, Parent[k]) /\ alive' \in BOOLEAN
         /\ slot' = [slot EXCEPT ![c][k] = None] /\ obj' = obj /\ held' = held
  BY DEF Objects!Create, Parent
<1> HIDE DEF from
<1>6. QED
  BY <1>3, <1>4, <1>5

\* clRelease...: of what the client holds, or of a handle used again.
LEMMA ObjectsRelease ==
  ASSUME ObjectsInv, NEW c \in Apps, NEW k \in Kinds, Objects!Release(c, k)
  PROVE  ObjectsInv'
<1> DEFINE a == slot[c][k]
           o == [obj EXCEPT ![a].released = TRUE]
<1>0. /\ ObjectsType /\ Family(obj) /\ NeededInv(obj)
      /\ ~stale => HeldInv /\ OwnerInv /\ alive
  BY DEF ObjectsInv
<1>1. /\ held' = [held EXCEPT ![c] = @ \ {k}] /\ stale' = (stale \/ k \notin held[c])
      /\ slot' = slot /\ created' = created /\ stale' \in BOOLEAN
  BY <1>0 DEF Objects!Release, ObjectsType
<1>2. held' \in [Apps -> SUBSET Kinds]
  BY <1>0, <1>1 DEF ObjectsType
<1>3. \A d \in Apps, j \in Kinds : j \in held'[d] <=> j \in held[d] /\ (d # c \/ j # k)
  BY <1>0, <1>1 DEF ObjectsType
<1>4. CASE Objects!IsA(a, k) /\ ~obj[a].released
  <2>1. obj' = Objects!Kept(o) /\ alive' = alive
    BY <1>4 DEF Objects!Release, Objects!Released, Objects!Sent
  <2>2. a \in Addrs /\ obj[a] \in Records /\ obj[a].kind = k
    BY <1>0, <1>4 DEF ObjectsType, Objects!IsA, Kinds
  <2>3. /\ o \in [Addrs -> Records \cup {None}] /\ o[a] # None /\ o[a].released
        /\ o[a].kind = obj[a].kind /\ o[a].from = obj[a].from
        /\ \A b \in Addrs : b # a => o[b] = obj[b]
    <3>1. [obj[a] EXCEPT !.released = TRUE] \in Records
      BY <2>2 DEF Records, Objects!Records
    <3>2. o = [obj EXCEPT ![a] = [obj[a] EXCEPT !.released = TRUE]]
      BY <1>0 DEF ObjectsType
    <3>3. QED
      BY <1>0, <2>2, <3>1, <3>2, NoneIsNone DEF ObjectsType, Records, Objects!Records
  <2> HIDE DEF o
  <2>4. Family(o)
    BY <1>0, <1>4, <2>2, <2>3 DEF Family, IsThere, Objects!IsA
  <2>5. /\ obj' \in [Addrs -> Records \cup {None}] /\ Family(obj') /\ NeededInv(obj')
        /\ \A b \in Addrs : obj'[b] # None => obj'[b] = o[b]
        /\ \A b \in Addrs : o[b] # None /\ ~o[b].released => obj'[b] = o[b]
    BY <2>1, <2>3, <2>4, KeptEffect
  <2>6. ObjectsType'
    BY <1>0, <1>1, <1>2, <2>1, <2>5 DEF ObjectsType, Kinds, Records
  <2>7. ASSUME ~stale' PROVE HeldInv' /\ OwnerInv' /\ alive'
    <3>1. ~stale /\ HeldInv /\ OwnerInv /\ alive /\ k \in held[c]
      BY <2>7, <1>0, <1>1
    <3>2. obj[a].owner = c
      BY <3>1 DEF HeldInv
    <3>3. HeldInv'
      <4> SUFFICES ASSUME NEW d \in Apps, NEW j \in held'[d]
                   PROVE  LET e == slot'[d][j] IN
                          IsThere(obj', e) /\ obj'[e].kind = j
                          /\ obj'[e].owner = d /\ ~obj'[e].released
        BY DEF HeldInv, IsThere
      <4> DEFINE e == slot[d][j]
      <4>1. j \in Kinds /\ j \in held[d] /\ (d # c \/ j # k)
        BY <1>2, <1>3
      <4>2. IsThere(obj, e) /\ obj[e].kind = j /\ obj[e].owner = d /\ ~obj[e].released
        BY <4>1, <3>1 DEF HeldInv
      <4>3. e # a
        BY <4>1, <4>2, <3>2, <2>2
      <4>4. obj'[e] = obj[e]
        BY <4>2, <4>3, <2>3, <2>5 DEF IsThere
      <4>5. QED
        BY <4>2, <4>4, <1>1 DEF IsThere
    <3>4. OwnerInv'
      <4> SUFFICES ASSUME NEW b \in Addrs, obj'[b] # None, ~obj'[b].released
                   PROVE  /\ obj'[b].kind \in held'[obj'[b].owner]
                          /\ slot'[obj'[b].owner][obj'[b].kind] = b
        BY DEF OwnerInv
      <4>1. b # a /\ obj'[b] = obj[b] /\ obj[b] \in Records
        BY <2>3, <2>5, <1>0 DEF ObjectsType
      <4>2. obj[b].kind \in Kinds /\ obj[b].owner \in Apps
        BY <4>1 DEF Records, Objects!Records, Kinds
      <4>3. obj[b] # None /\ ~obj[b].released
        BY <4>1
      <4>4. obj[b].kind \in held[obj[b].owner] /\ slot[obj[b].owner][obj[b].kind] = b
        BY <4>3, <3>1 DEF OwnerInv
      <4>5. obj[b].owner # c \/ obj[b].kind # k
        BY <4>1, <4>4
      <4>6. QED
        BY <4>1, <4>2, <4>4, <4>5, <1>1, <1>3
    <3>5. QED
      BY <2>1, <3>1, <3>3, <3>4
  <2>8. QED
    BY <2>5, <2>6, <2>7 DEF ObjectsInv, Family, NeededInv, IsThere,
       Objects!Lineage, Objects!From
<1>5. CASE ~(Objects!IsA(a, k) /\ ~obj[a].released)
  <2>1. obj' = obj /\ alive' \in BOOLEAN
    BY <1>5 DEF Objects!Release, Objects!Released, Objects!Sent
  <2>2. stale'
    <3>1. SUFFICES ASSUME ~stale, k \in held[c] PROVE FALSE
      BY <1>1
    <3>2. QED
      BY <3>1, <1>0, <1>5, NoneIsNone DEF HeldInv, Objects!IsA, IsThere
  <2>3. QED
    BY <1>0, <1>1, <1>2, <2>1, <2>2 DEF ObjectsInv, ObjectsType, Kinds, Records
<1>6. QED
  BY <1>4, <1>5

LEMMA ObjectsNext == ObjectsInv /\ [Objects!Next]_(Objects!vars) => ObjectsInv'
<1> SUFFICES ASSUME ObjectsInv, [Objects!Next]_(Objects!vars) PROVE ObjectsInv'
  OBVIOUS
<1>1. ASSUME NEW c \in Apps, Objects!Leave(c) PROVE ObjectsInv'
  BY <1>1, ObjectsLeave
<1>2. ASSUME NEW c \in Apps, NEW k \in Kinds, Objects!Create(c, k) PROVE ObjectsInv'
  BY <1>2, ObjectsCreate
<1>3. ASSUME NEW c \in Apps, NEW k \in Kinds, Objects!Release(c, k) PROVE ObjectsInv'
  BY <1>3, ObjectsRelease
<1>4. CASE UNCHANGED Objects!vars
  BY <1>4 DEF Objects!vars, ObjectsInv, ObjectsType, Family, NeededInv, HeldInv, OwnerInv,
     IsThere, Objects!Lineage, Objects!From
<1>5. QED
  BY <1>1, <1>2, <1>3, <1>4 DEF Objects!Next, Kinds

LEMMA ObjectsInvImplies == ObjectsInv => ObjectsLiveAsHeld
<1> SUFFICES ASSUME ObjectsInv PROVE ObjectsLiveAsHeld
  OBVIOUS
<1>1. Objects!TypeOK
  BY NoneIsNone DEF ObjectsInv, ObjectsType, Objects!TypeOK, Objects!Live, Kinds, Records
<1>2. Objects!HeldIsThere
  BY NoneIsNone DEF ObjectsInv, HeldInv, Objects!HeldIsThere, Objects!IsA, IsThere
<1>3. Objects!OnlyForgottenRemains
  <2> SUFFICES ASSUME ~stale, NEW a \in Addrs, obj[a] # None
               PROVE  \E c \in Apps : \E k \in held[c] :
                        a \in Objects!Lineage(obj, slot[c][k])
    BY DEF Objects!OnlyForgottenRemains, Objects!Live
  <2>1. PICK b \in Addrs : obj[b] # None /\ ~obj[b].released /\ a \in Objects!Lineage(obj, b)
    BY DEF ObjectsInv, NeededInv
  <2>2. obj[b].owner \in Apps
    BY <2>1 DEF ObjectsInv, ObjectsType, Records, Objects!Records
  <2>3. obj[b].kind \in held[obj[b].owner] /\ slot[obj[b].owner][obj[b].kind] = b
    BY <2>1 DEF ObjectsInv, OwnerInv
  <2>4. QED
    BY <2>1, <2>2, <2>3
<1>4. Objects!DiesOfStaleHandle
  BY DEF ObjectsInv, Objects!DiesOfStaleHandle
<1>5. QED
  BY <1>1, <1>2, <1>3, <1>4 DEF ObjectsLiveAsHeld

\* With any number of clients that create, release in any order and leave:
\* what a client holds is there and its own until one uses a released handle,
\* nothing outlives its use but what a client forgot, and the process ends by
\* a stale handle only.
THEOREM ObjectsSafe == Objects!Spec => []ObjectsLiveAsHeld
BY ObjectsInit, ObjectsNext, ObjectsInvImplies, PTL DEF Objects!Spec
-------------------------------------------------------------------------------
(* What the transfers carry (Payloads).                                    *)

Value    == Transfers!Value
Long(b)  == Transfers!Long(b)
Commands == [op: {"write"}, buf: Buffers, data: Contents]
            \cup [op: {"read"}, buf: Buffers, freed: BOOLEAN]
            \cup [op: {"map"}, buf: Buffers]
Calls    == [op: {"write", "read", "map"}, buf: Buffers, wait: BOOLEAN, block: Value]

TransfersType ==
  /\ host \in [Buffers -> Value] /\ dev \in [Buffers -> Value]
  /\ local \in [Buffers -> Value] /\ want = local
  /\ made \subseteq Buffers /\ unread \subseteq made /\ early \subseteq made
  /\ queue \in Seq(Commands) /\ Len(queue) <= MaxQueue
  /\ \A i \in 1..Len(queue) : queue[i].buf \in made
  /\ call \in Calls \cup {Transfers!NoCall}
  /\ call.op # "none" => call.buf \in made
  /\ client \in {"ok", "undefined"} /\ server \in {"ok", "undefined"}

Writes(i, b) == queue[i].op = "write" /\ queue[i].buf = b

\* What a buffer holds, or is to hold by the last write queued for it.
PendingInv ==
  server = "ok" => \A b \in Buffers :
    /\ (\A i \in 1..Len(queue) : ~Writes(i, b)) =>
         dev[b] = local[b] \/ (~Long(b) /\ dev[b] = JUNK)
    /\ \A i \in 1..Len(queue) :
         Writes(i, b) /\ (\A j \in 1..Len(queue) : j > i => ~Writes(j, b)) =>
           queue[i].data = local[b]

\* The call's own read is the last command, or done and in its block.
CallsRead ==
  server = "ok" /\ call.op = "read" =>
    IF queue = <<>> THEN Long(call.buf) => call.block = local[call.buf]
    ELSE /\ queue[Len(queue)].op = "read" /\ queue[Len(queue)].buf = call.buf
         /\ ~queue[Len(queue)].freed

ArraysInv ==
  client = "ok" /\ server = "ok" => \A b \in Buffers :
    Long(b) /\ b \notin early /\ (call.op \in {"read", "map"} => b # call.buf) =>
      host[b] = local[b]

HarmInv ==
  /\ client # "ok" => \E b \in made : ~Long(b)
  /\ server # "ok" => \E b \in made : ~Long(b) \/ host[b] \in Incompressible

\* Reads whose call has returned are of arrays the application leaves alone.
ReadsInv ==
  /\ call.op \in {"read", "map"} => call.buf \notin unread
  /\ \A i \in 1..Len(queue) : queue[i].op = "read" =>
       /\ queue[i].buf \in unread \/ (call.op = "read" /\ i = Len(queue))
       /\ queue[i].freed => ~Long(queue[i].buf) /\ queue[i].buf \in unread \cap early
  /\ \A i, j \in 1..Len(queue) :
       queue[i].op = "read" /\ queue[j].op = "read" /\ i # j => queue[i].buf # queue[j].buf

TransfersInv ==
  /\ TransfersType /\ PendingInv /\ CallsRead /\ ArraysInv /\ HarmInv /\ ReadsInv

LEMMA CommandIs ==
  \A q \in Commands :
    /\ q.op \in {"write", "read", "map"} /\ q.buf \in Buffers
    /\ q.op = "write" => q.data \in Contents
    /\ q.op = "read" => q.freed \in BOOLEAN
BY DEF Commands

LEMMA NoCallIs == Transfers!NoCall.op = "none" /\ Transfers!NoCall \notin Calls
BY DEF Transfers!NoCall, Calls

LEMMA CallIs ==
  ASSUME TransfersType
  PROVE  /\ call.op = "none" => call = Transfers!NoCall
         /\ call.op # "none" => /\ call \in Calls /\ call.op \in {"write", "read", "map"}
                               /\ call.buf \in made /\ call.buf \in Buffers
                               /\ call.wait \in BOOLEAN /\ call.block \in Value
<1>1. call = Transfers!NoCall \/ call \in Calls
  BY DEF TransfersType
<1>2. call \in Calls => /\ call.op \in {"write", "read", "map"} /\ call.op # "none"
                        /\ call.buf \in Buffers
                        /\ call.wait \in BOOLEAN /\ call.block \in Value
  BY DEF Calls
<1>3. call.op # "none" => call.buf \in made
  BY DEF TransfersType
<1>4. QED
  BY <1>1, <1>2, <1>3, NoCallIs

LEMMA SentLengths ==
  ASSUME NEW b \in Buffers, NEW c \in Contents, Transfers!SentLen(b, c) > Size[b]
  PROVE  Long(b) /\ c \in Incompressible
<1>1. Size[b] \in Nat
  BY PartsAssumption DEF Transfers!PayloadsAssumption
<1>2. QED
  BY <1>1 DEF Transfers!SentLen, Transfers!Compressed, Long

LEMMA TransfersInit == Transfers!Init => TransfersInv
<1> SUFFICES ASSUME Transfers!Init PROVE TransfersInv
  OBVIOUS
<1>1. queue = <<>> /\ Len(queue) = 0 /\ queue \in Seq(Commands) /\ 0 <= MaxQueue
  BY PartsAssumption DEF Transfers!Init, Transfers!PayloadsAssumption
<1>2. JUNK \in Value
  BY DEF Value, Transfers!Value
<1>3. TransfersType
  BY <1>1, <1>2, NoCallIs DEF Transfers!Init, TransfersType
<1>4. PendingInv /\ CallsRead /\ ArraysInv /\ HarmInv /\ ReadsInv
  BY <1>1, NoCallIs DEF Transfers!Init, PendingInv, CallsRead, ArraysInv, HarmInv, ReadsInv
<1>5. QED
  BY <1>3, <1>4 DEF TransfersInv

LEMMA TransfersStutter == TransfersInv /\ UNCHANGED Transfers!vars => TransfersInv'
BY DEF TransfersInv, Transfers!vars, TransfersType, PendingInv, Writes, CallsRead, ArraysInv,
       HarmInv, ReadsInv

LEMMA CreateEmptyStep ==
  ASSUME TransfersInv, NEW b \in Buffers, Transfers!CreateEmpty(b) PROVE TransfersInv'
<1> USE DEF TransfersInv, Transfers!CreateEmpty, Transfers!ghosts
<1>1. TransfersType'
  BY DEF TransfersType
<1>2. PendingInv' /\ CallsRead' /\ ArraysInv' /\ ReadsInv'
  BY DEF PendingInv, Writes, CallsRead, ArraysInv, ReadsInv
<1>3. HarmInv'
  BY DEF HarmInv
<1>4. QED
  BY <1>1, <1>2, <1>3

LEMMA CreateCopyStep ==
  ASSUME TransfersInv, NEW b \in Buffers, NEW c \in Contents, Transfers!CreateCopy(b, c)
  PROVE  TransfersInv'
<1>1. /\ TransfersType /\ PendingInv /\ CallsRead /\ ArraysInv /\ HarmInv /\ ReadsInv
      /\ client = "ok" /\ server = "ok" /\ call = Transfers!NoCall /\ call.op = "none"
  BY NoCallIs DEF TransfersInv, Transfers!CreateCopy, Transfers!Ready
<1>2. /\ b \notin made /\ b \notin unread /\ made' = made \cup {b}
      /\ host' = [host EXCEPT ![b] = c] /\ want' = [want EXCEPT ![b] = c]
      /\ local' = [local EXCEPT ![b] = c]
      /\ queue' = queue /\ call' = call /\ unread' = unread /\ early' = early
  BY DEF Transfers!CreateCopy
<1>3. c \in Value /\ JUNK \in Value
  BY DEF Value, Transfers!Value
<1>4. \/ /\ ~Long(b) /\ dev' = [dev EXCEPT ![b] = JUNK]
         /\ client' \in {"ok", "undefined"} /\ server' = server
      \/ Long(b) /\ dev' = [dev EXCEPT ![b] = c] /\ client' = client /\ server' = server
      \/ c \in Incompressible /\ server' = "undefined" /\ dev' = dev /\ client' = client
  BY SentLengths DEF Transfers!CreateCopy, Long
<1>5. TransfersType'
  <2>1. dev' \in [Buffers -> Value]
    BY <1>1, <1>3, <1>4 DEF TransfersType
  <2>2. client' \in {"ok", "undefined"} /\ server' \in {"ok", "undefined"}
    BY <1>1, <1>4
  <2>3. QED
    BY <1>1, <1>2, <1>3, <2>1, <2>2 DEF TransfersType, Value, Calls, Commands
<1>6. PendingInv'
  <2> SUFFICES ASSUME server' = "ok", NEW d \in Buffers
               PROVE  /\ (\A i \in 1..Len(queue) : ~Writes(i, d)) =>
                           dev'[d] = local'[d] \/ (~Long(d) /\ dev'[d] = JUNK)
                      /\ \A i \in 1..Len(queue) :
                           Writes(i, d) /\ (\A j \in 1..Len(queue) : j > i => ~Writes(j, d)) =>
                             queue[i].data = local'[d]
    BY <1>2 DEF PendingInv, Writes, Long
  <2>1. CASE d = b
    <3>1. \A i \in 1..Len(queue) : ~Writes(i, b)
      BY <1>1, <1>2 DEF TransfersType, Writes
    <3>2. dev'[b] = local'[b] \/ (~Long(b) /\ dev'[b] = JUNK)
      BY <1>1, <1>2, <1>4 DEF TransfersType
    <3>3. QED
      BY <2>1, <3>1, <3>2
  <2>2. CASE d # b
    <3>1. dev'[d] = dev[d] /\ local'[d] = local[d]
      BY <1>1, <1>2, <1>4, <2>2 DEF TransfersType
    <3>2. QED
      BY <1>1, <3>1 DEF PendingInv
  <2>3. QED
    BY <2>1, <2>2
<1>7. CallsRead' /\ ReadsInv'
  BY <1>1, <1>2 DEF CallsRead, ReadsInv
<1>8. ArraysInv'
  BY <1>1, <1>2 DEF ArraysInv, TransfersType, Long
<1>9. HarmInv'
  BY <1>1, <1>2, <1>4 DEF HarmInv, TransfersType, Long
<1>10. QED
  BY <1>5, <1>6, <1>7, <1>8, <1>9 DEF TransfersInv

\* A command is queued behind the others.
LEMMA Queued ==
  ASSUME TransfersType, Transfers!Room, NEW q \in Commands, q.buf \in made,
         queue' = Append(queue, q)
  PROVE  /\ queue' \in Seq(Commands) /\ Len(queue') = Len(queue) + 1
         /\ Len(queue) \in Nat /\ Len(queue') <= MaxQueue /\ queue' # <<>>
         /\ queue'[Len(queue')] = q
         /\ \A i \in 1..Len(queue) : queue'[i] = queue[i]
         /\ \A i \in 1..Len(queue') : i = Len(queue') \/ i \in 1..Len(queue)
         /\ \A i \in 1..Len(queue') : queue'[i].buf \in made
<1>1. queue \in Seq(Commands) /\ Len(queue) \in Nat /\ Len(queue) < MaxQueue /\ MaxQueue \in Nat
  BY PartsAssumption DEF TransfersType, Transfers!Room, Transfers!PayloadsAssumption
<1>2. queue' \in Seq(Commands) /\ Len(queue') = Len(queue) + 1
      /\ queue'[Len(queue) + 1] = q /\ \A i \in 1..Len(queue) : queue'[i] = queue[i]
  BY <1>1, AppendProperties
<1>3. \A i \in 1..Len(queue') : i = Len(queue') \/ i \in 1..Len(queue)
  BY <1>1, <1>2
<1>4. queue' # <<>>
  BY <1>1, <1>2
<1>5. \A i \in 1..Len(queue') : queue'[i].buf \in made
  BY <1>2, <1>3 DEF TransfersType
<1>6. QED
  BY <1>1, <1>2, <1>3, <1>4, <1>5

LEMMA WriteStep ==
  ASSUME TransfersInv, NEW b \in made, NEW c \in Contents, NEW blocking \in BOOLEAN,
         Transfers!Write(b, c, blocking)
  PROVE  TransfersInv'
<1> DEFINE q == Transfers!WriteCommand(b, c)
<1>1. /\ TransfersType /\ PendingInv /\ CallsRead /\ ArraysInv /\ HarmInv /\ ReadsInv
      /\ client = "ok" /\ server = "ok" /\ call = Transfers!NoCall /\ call.op = "none"
      /\ Transfers!Room /\ b \in Buffers
  BY NoCallIs DEF TransfersInv, Transfers!Write, Transfers!Ready, TransfersType
<1>2. /\ b \notin unread /\ made' = made /\ dev' = dev /\ unread' = unread /\ client' = client
      /\ host' = [host EXCEPT ![b] = c] /\ want' = [want EXCEPT ![b] = c]
      /\ local' = [local EXCEPT ![b] = c] /\ early' = early \ {b}
  BY DEF Transfers!Write
<1>3. c \in Value /\ JUNK \in Value
  BY DEF Value, Transfers!Value
<1>4. host' \in [Buffers -> Value] /\ local' \in [Buffers -> Value] /\ want' = local'
      /\ early' \subseteq made
  BY <1>1, <1>2, <1>3 DEF TransfersType
<1>5. ArraysInv' \/ server' # "ok"
  <2>1. SUFFICES ASSUME NEW d \in Buffers, Long(d), d \notin early'
                 PROVE  host'[d] = local'[d]
    BY DEF ArraysInv, Long
  <2>2. CASE d = b
    BY <2>2, <1>1, <1>2 DEF TransfersType
  <2>3. CASE d # b
    BY <2>1, <2>3, <1>1, <1>2 DEF TransfersType, ArraysInv
  <2>4. QED
    BY <2>2, <2>3
<1>6. CASE Transfers!SentLen(b, c) > Size[b]
  <2>1. server' = "undefined" /\ queue' = queue /\ call' = call /\ c \in Incompressible
    BY <1>6, <1>1, SentLengths DEF Transfers!Write
  <2>2. TransfersType'
    BY <1>1, <1>2, <1>4, <2>1 DEF TransfersType, Value, Calls, Commands
  <2>3. PendingInv' /\ CallsRead' /\ ArraysInv'
    BY <2>1 DEF PendingInv, CallsRead, ArraysInv
  <2>4. HarmInv'
    BY <1>1, <1>2, <2>1 DEF HarmInv, TransfersType
  <2>5. ReadsInv'
    BY <1>1, <1>2, <2>1 DEF ReadsInv, Long
  <2>6. QED
    BY <2>2, <2>3, <2>4, <2>5 DEF TransfersInv
<1>7. CASE ~(Transfers!SentLen(b, c) > Size[b])
  <2>1. /\ queue' = Append(queue, q) /\ server' = server
        /\ call' = Transfers!Call("write", b, blocking, JUNK)
    BY <1>7 DEF Transfers!Write
  <2>2. q \in Commands /\ q.op = "write" /\ q.buf = b /\ q.data = c
    BY <1>1 DEF Transfers!WriteCommand, Commands
  <2>3. call' \in Calls /\ call'.op = "write" /\ call'.buf = b
    BY <1>1, <1>3, <2>1 DEF Transfers!Call, Calls
  <2> HIDE DEF q
  <2>4. /\ queue' \in Seq(Commands) /\ Len(queue') = Len(queue) + 1
        /\ Len(queue) \in Nat /\ Len(queue') <= MaxQueue /\ queue' # <<>>
        /\ queue'[Len(queue')] = q
        /\ \A i \in 1..Len(queue) : queue'[i] = queue[i]
        /\ \A i \in 1..Len(queue') : i = Len(queue') \/ i \in 1..Len(queue)
        /\ \A i \in 1..Len(queue') : queue'[i].buf \in made
    BY <1>1, <2>1, <2>2, Queued
  <2>5. TransfersType'
    BY <1>1, <1>2, <1>4, <2>1, <2>3, <2>4 DEF TransfersType, Value, Calls, Commands
  <2>6. PendingInv'
    <3> SUFFICES ASSUME NEW d \in Buffers
                 PROVE  /\ (\A i \in 1..Len(queue') : ~Writes(i, d)') =>
                             dev'[d] = local'[d] \/ (~Long(d) /\ dev'[d] = JUNK)
                        /\ \A i \in 1..Len(queue') :
                             Writes(i, d)' /\ (\A j \in 1..Len(queue') : j > i => ~Writes(j, d)') =>
                               queue'[i].data = local'[d]
      BY DEF PendingInv, Long
    <3>1. \A i \in 1..Len(queue) : Writes(i, d)' <=> Writes(i, d)
      BY <2>4 DEF Writes
    <3>0. PICK n \in Nat : n = Len(queue) + 1 /\ Len(queue') = n /\ queue'[n] = q
      BY <2>4
    <3>2. Writes(n, d)' <=> d = b
      BY <2>2, <3>0 DEF Writes
    <3>3. n \in 1..Len(queue') /\ \A i \in 1..Len(queue) : i \in 1..Len(queue') /\ n > i
      BY <2>4, <3>0
    <3>4. CASE d = b
      <4>1. Writes(n, d)' /\ local'[d] = c /\ queue'[n].data = c
        BY <3>0, <3>2, <3>4, <2>2, <1>1, <1>2 DEF TransfersType
      <4>2. \A i \in 1..Len(queue') : i = n \/ n > i
        BY <2>4, <3>0
      <4>3. QED
        BY <4>1, <4>2, <3>3
    <3>5. CASE d # b
      <4>1. dev'[d] = dev[d] /\ local'[d] = local[d]
        BY <3>5, <1>1, <1>2 DEF TransfersType
      <4>2. ~Writes(n, d)'
        BY <3>2, <3>5
      <4>3. (\A i \in 1..Len(queue') : ~Writes(i, d)') => \A i \in 1..Len(queue) : ~Writes(i, d)
        BY <3>1, <3>3
      <4>4. ASSUME NEW i \in 1..Len(queue'), Writes(i, d)',
                   \A j \in 1..Len(queue') : j > i => ~Writes(j, d)'
            PROVE  i \in 1..Len(queue) /\ Writes(i, d)
                   /\ \A j \in 1..Len(queue) : j > i => ~Writes(j, d)
        BY <4>4, <4>2, <3>0, <3>1, <3>3, <2>4
      <4>5. (\A i \in 1..Len(queue) : ~Writes(i, d)) =>
              dev[d] = local[d] \/ (~Long(d) /\ dev[d] = JUNK)
        BY <1>1 DEF PendingInv
      <4>6. ASSUME NEW i \in 1..Len(queue), Writes(i, d),
                   \A j \in 1..Len(queue) : j > i => ~Writes(j, d)
            PROVE  queue'[i].data = local[d]
        BY <4>6, <1>1, <2>4 DEF PendingInv
      <4>7. QED
        BY <4>1, <4>3, <4>4, <4>5, <4>6
    <3>6. QED
      BY <3>4, <3>5
  <2>7. CallsRead'
    BY <2>3 DEF CallsRead
  <2>8. HarmInv'
    BY <1>1, <1>2, <2>1 DEF HarmInv
  <2>9. ReadsInv'
    <3>1. \A i \in 1..Len(queue') : queue'[i].op = "read" =>
            i \in 1..Len(queue) /\ queue'[i] = queue[i]
      BY <2>2, <2>4
    <3>2. QED
      BY <3>1, <1>1, <1>2, <2>3 DEF ReadsInv, Long
  <2>10. QED
    BY <2>1, <1>1, <1>5, <2>5, <2>6, <2>7, <2>8, <2>9 DEF TransfersInv
<1>8. QED
  BY <1>6, <1>7

LEMMA WriteReturnsStep ==
  ASSUME TransfersInv, Transfers!WriteReturns PROVE TransfersInv'
<1>1. call'.op = "none" /\ call' = Transfers!NoCall /\ call.op = "write"
  BY NoCallIs DEF Transfers!WriteReturns
<1>2. QED
  BY <1>1 DEF TransfersInv, Transfers!WriteReturns, Transfers!ghosts, TransfersType,
     PendingInv, Writes, CallsRead, ArraysInv, HarmInv, ReadsInv

LEMMA FinishStep ==
  ASSUME TransfersInv, Transfers!Finish PROVE TransfersInv'
<1>1. /\ queue = <<>> /\ Len(queue) = 0 /\ call.op = "none" /\ unread' = {}
  BY NoCallIs DEF Transfers!Finish, Transfers!Ready
<1>2. QED
  BY <1>1 DEF TransfersInv, Transfers!Finish, Transfers!ghosts, TransfersType,
     PendingInv, Writes, CallsRead, ArraysInv, HarmInv, ReadsInv

\* A read or a map: what a command with no data leaves as it was.
LEMMA ReadOrMapStep ==
  ASSUME TransfersInv, NEW b \in made, NEW blocking \in BOOLEAN,
         Transfers!Read(b, blocking) \/ Transfers!Map(b, blocking)
  PROVE  TransfersInv'
<1>1. /\ TransfersType /\ PendingInv /\ CallsRead /\ ArraysInv /\ HarmInv /\ ReadsInv
      /\ client = "ok" /\ server = "ok" /\ call = Transfers!NoCall /\ call.op = "none"
      /\ Transfers!Room /\ b \in Buffers
  BY NoCallIs DEF TransfersInv, Transfers!Read, Transfers!Map, Transfers!Ready, TransfersType
<1>2. /\ b \notin unread /\ host' = host /\ dev' = dev /\ made' = made /\ local' = local
      /\ unread' = unread /\ early' = early /\ client' = client /\ server' = server
      /\ want' = [want EXCEPT ![b] = local[b]]
  BY DEF Transfers!Read, Transfers!Map
<1>3. want' = local'
  BY <1>1, <1>2 DEF TransfersType
<1>4. PICK q \in Commands :
        /\ q.op \in {"read", "map"} /\ q.buf = b
        /\ q.op = "read" => ~q.freed
        /\ queue' = Append(queue, q) /\ call' = Transfers!Call(q.op, b, blocking, JUNK)
  <2>1. CASE Transfers!Read(b, blocking)
    <3> DEFINE q == [op |-> "read", buf |-> b, freed |-> FALSE]
    <3>1. q \in Commands /\ q.op = "read" /\ q.buf = b /\ ~q.freed
      BY <1>1 DEF Commands
    <3>2. queue' = Append(queue, q) /\ call' = Transfers!Call(q.op, b, blocking, JUNK)
      BY <2>1 DEF Transfers!Read
    <3> HIDE DEF q
    <3>3. QED
      BY <3>1, <3>2
  <2>2. CASE Transfers!Map(b, blocking)
    <3> DEFINE q == [op |-> "map", buf |-> b]
    <3>1. q \in Commands /\ q.op = "map" /\ q.buf = b
      BY <1>1 DEF Commands
    <3>2. queue' = Append(queue, q) /\ call' = Transfers!Call(q.op, b, blocking, JUNK)
      BY <2>2 DEF Transfers!Map
    <3> HIDE DEF q
    <3>3. QED
      BY <3>1, <3>2
  <2>3. QED
    BY <2>1, <2>2
<1>5. call' \in Calls /\ call'.op = q.op /\ call'.buf = b
  BY <1>1, <1>4 DEF Transfers!Call, Calls, Value, Transfers!Value
<1>6. /\ queue' \in Seq(Commands) /\ Len(queue') = Len(queue) + 1
      /\ Len(queue) \in Nat /\ Len(queue') <= MaxQueue /\ queue' # <<>>
      /\ queue'[Len(queue')] = q
      /\ \A i \in 1..Len(queue) : queue'[i] = queue[i]
      /\ \A i \in 1..Len(queue') : i = Len(queue') \/ i \in 1..Len(queue)
      /\ \A i \in 1..Len(queue') : queue'[i].buf \in made
  BY <1>1, <1>4, Queued
<1>7. TransfersType'
  BY <1>1, <1>2, <1>3, <1>5, <1>6 DEF TransfersType, Value, Calls, Commands
<1>8. PendingInv'
  <2>1. \A i \in 1..Len(queue') : queue'[i].op = "write" =>
          i \in 1..Len(queue) /\ queue'[i] = queue[i]
    BY <1>4, <1>6
  <2>2. \A i \in 1..Len(queue) : i \in 1..Len(queue')
    BY <1>6
  <2>3. QED
    BY <2>1, <2>2, <1>1, <1>2, <1>6 DEF PendingInv, Writes, Long
<1>9. CallsRead'
  BY <1>4, <1>5, <1>6 DEF CallsRead
<1>10. ArraysInv' /\ HarmInv'
  BY <1>1, <1>2 DEF ArraysInv, HarmInv
<1>11. ReadsInv'
  <2>1. \A i \in 1..Len(queue) : queue[i].op = "read" => queue[i].buf \in unread
    BY <1>1 DEF ReadsInv
  <2>2. \A i \in 1..Len(queue) : queue[i].op = "read" => queue[i].buf # b
    BY <1>2, <2>1
  <2>3. call'.buf \notin unread'
    BY <1>2, <1>5
  <2>4. ASSUME NEW i \in 1..Len(queue'), queue'[i].op = "read"
        PROVE  /\ queue'[i].buf \in unread \/ (call'.op = "read" /\ i = Len(queue'))
               /\ queue'[i].freed => ~Long(queue'[i].buf) /\ queue'[i].buf \in unread \cap early
    BY <2>1, <2>4, <1>1, <1>4, <1>5, <1>6 DEF ReadsInv
  <2>5. ASSUME NEW i \in 1..Len(queue'), NEW j \in 1..Len(queue'),
               queue'[i].op = "read", queue'[j].op = "read", i # j
        PROVE  queue'[i].buf # queue'[j].buf
    BY <2>2, <2>5, <1>1, <1>4, <1>6 DEF ReadsInv
  <2>6. QED
    BY <2>3, <2>4, <2>5, <1>2 DEF ReadsInv, Long
<1>12. QED
  BY <1>7, <1>8, <1>9, <1>10, <1>11 DEF TransfersInv

\* What a read or map that returns notes of its array.
LEMMA NoteEffect ==
  ASSUME TransfersInv, call.op \in {"read", "map"}, Transfers!Answered,
         NEW b, b = call.buf, Transfers!Note(b)
  PROVE  /\ b \in made /\ b \in Buffers /\ b \notin unread
         /\ unread' \subseteq made /\ early' \subseteq made
         /\ \A d : d \in unread => d \in unread'
         /\ \A d : d # b => (d \in early' <=> d \in early)
         /\ queue # <<>> => b \in unread' /\ b \in early'
<1>1. b \in made /\ b \in Buffers /\ b \notin unread /\ call.wait \in BOOLEAN
  BY CallIs DEF TransfersInv, ReadsInv
<1>2. CASE queue # <<>>
  <2>1. unread' = unread \cup {b} /\ early' = early \cup {b}
    BY <1>1, <1>2 DEF Transfers!Note, Transfers!Answered
  <2>2. QED
    BY <1>1, <2>1 DEF TransfersInv, TransfersType
<1>3. CASE queue = <<>>
  <2>1. (unread' = unread \/ unread' = unread \cup {b}) /\ early' = early \ {b}
    BY <1>1, <1>3 DEF Transfers!Note
  <2>2. QED
    BY <1>1, <1>3, <2>1 DEF TransfersInv, TransfersType
<1>4. QED
  BY <1>2, <1>3

LEMMA MapReturnsStep ==
  ASSUME TransfersInv, Transfers!MapReturns PROVE TransfersInv'
<1>1. /\ TransfersType /\ PendingInv /\ CallsRead /\ ArraysInv /\ HarmInv /\ ReadsInv
      /\ server = "ok" /\ call.op = "map" /\ call' = Transfers!NoCall /\ call'.op = "none"
  BY NoCallIs DEF TransfersInv, Transfers!MapReturns
<1>2. PICK b \in Buffers : b = call.buf
  BY <1>1, CallIs
<1>3. /\ host' = [host EXCEPT ![b] = dev[b]] /\ dev' = dev /\ made' = made /\ queue' = queue
      /\ local' = local /\ want' = want /\ client' = client /\ server' = server
  BY <1>2 DEF Transfers!MapReturns, Transfers!ghosts
<1>4. /\ b \in made /\ b \notin unread
      /\ unread' \subseteq made /\ early' \subseteq made
      /\ \A d : d \in unread => d \in unread'
      /\ \A d : d # b => (d \in early' <=> d \in early)
      /\ queue # <<>> => b \in unread' /\ b \in early'
  BY <1>1, <1>2, NoteEffect DEF Transfers!MapReturns
<1>5. TransfersType'
  BY <1>1, <1>3, <1>4 DEF TransfersType, Value, Calls, Commands
<1>6. PendingInv' /\ CallsRead'
  BY <1>1, <1>3 DEF PendingInv, Writes, CallsRead, Long
<1>7. ArraysInv'
  <2> SUFFICES ASSUME client = "ok", NEW d \in Buffers, Long(d), d \notin early'
               PROVE  host'[d] = local[d]
    BY <1>3 DEF ArraysInv, Long
  <2>1. CASE d = b
    <3>1. queue = <<>>
      BY <2>1, <1>4
    <3>2. \A i \in 1..Len(queue) : ~Writes(i, d)
      BY <3>1
    <3>3. dev[d] = local[d]
      BY <3>2, <1>1 DEF PendingInv
    <3>4. QED
      BY <3>3, <2>1, <1>1, <1>3 DEF TransfersType
  <2>2. CASE d # b
    BY <2>2, <1>1, <1>2, <1>3, <1>4 DEF ArraysInv, TransfersType
  <2>3. QED
    BY <2>1, <2>2
<1>8. HarmInv'
  BY <1>1, <1>3 DEF HarmInv, Long
<1>9. ReadsInv'
  <2>1. \A i \in 1..Len(queue) : queue[i].op = "read" => queue[i].buf \in unread
    BY <1>1 DEF ReadsInv
  <2>2. \A i \in 1..Len(queue) : queue[i].op = "read" => queue[i].buf \in unread'
    BY <1>4, <2>1
  <2>3. ASSUME NEW i \in 1..Len(queue), queue[i].op = "read", queue[i].freed
        PROVE  ~Long(queue[i].buf) /\ queue[i].buf \in unread' \cap early'
    <3>1. ~Long(queue[i].buf) /\ queue[i].buf \in unread /\ queue[i].buf \in early
      BY <2>3, <1>1 DEF ReadsInv
    <3>2. queue[i].buf # b
      BY <3>1, <1>4
    <3>3. QED
      BY <3>1, <3>2, <1>4
  <2>4. QED
    BY <2>2, <2>3, <1>1, <1>3 DEF ReadsInv, Long
<1>10. QED
  BY <1>5, <1>6, <1>7, <1>8, <1>9 DEF TransfersInv

LEMMA FreedIs ==
  ASSUME NEW q \in Seq(Commands), NEW f, f = Transfers!Freed(q)
  PROVE  /\ f \in Seq(Commands) /\ Len(f) = Len(q)
         /\ \A i \in 1..Len(q) :
              /\ f[i].op = q[i].op /\ f[i].buf = q[i].buf
              /\ q[i].op # "read" => f[i] = q[i]
              /\ q[i].op = "read" /\ f[i].freed =>
                   q[i].freed \/ (i = Len(q) /\ ~Long(q[i].buf))
<1>1. Len(q) \in Nat /\ DOMAIN q = 1..Len(q) /\ \A i \in 1..Len(q) : q[i] \in Commands
  OBVIOUS
<1>2. \A c \in Commands : c.op = "read" =>
        LET e == [c EXCEPT !.freed = TRUE] IN
        e \in Commands /\ e.op = c.op /\ e.buf = c.buf
  BY DEF Commands
<1>3. DOMAIN f = 1..Len(q) /\ \A i \in 1..Len(q) :
        f[i] = IF q[i].op = "read" /\ i = Len(q) /\ ~Long(q[i].buf)
               THEN [q[i] EXCEPT !.freed = TRUE] ELSE q[i]
  BY <1>1 DEF Transfers!Freed, Long
<1>4. \A i \in 1..Len(q) :
        /\ f[i] \in Commands /\ f[i].op = q[i].op /\ f[i].buf = q[i].buf
        /\ q[i].op # "read" => f[i] = q[i]
        /\ q[i].op = "read" /\ f[i].freed => q[i].freed \/ (i = Len(q) /\ ~Long(q[i].buf))
  BY <1>1, <1>2, <1>3
<1>5. f = [i \in 1..Len(q) |-> f[i]]
  BY <1>3 DEF Transfers!Freed
<1>6. f \in Seq(Commands) /\ Len(f) = Len(q)
  <2>1. f \in [1..Len(q) -> Commands]
    BY <1>4, <1>5
  <2>2. QED
    BY <2>1, <1>1
<1>7. QED
  BY <1>4, <1>6

LEMMA ReadReturnsStep ==
  ASSUME TransfersInv, Transfers!ReadReturns PROVE TransfersInv'
<1>1. /\ TransfersType /\ PendingInv /\ CallsRead /\ ArraysInv /\ HarmInv /\ ReadsInv
      /\ server = "ok" /\ call.op = "read" /\ call' = Transfers!NoCall /\ call'.op = "none"
  BY NoCallIs DEF TransfersInv, Transfers!ReadReturns
<1>2. PICK b \in Buffers : b = call.buf
  BY <1>1, CallIs
<1>3. /\ dev' = dev /\ made' = made /\ local' = local /\ want' = want
      /\ queue' = Transfers!Freed(queue)
  BY DEF Transfers!ReadReturns, Transfers!ghosts
<1>4. PICK n :
        /\ host' = [host EXCEPT ![b] = IF Long(b) \/ n >= Size[b] THEN call.block ELSE JUNK]
        /\ IF ~Long(b) /\ n > Size[b]
           THEN client' = "undefined" /\ server' \in {"ok", "undefined"}
           ELSE client' = client /\ server' = server
  BY <1>2 DEF Transfers!ReadReturns, Long
<1>5. /\ b \in made /\ b \notin unread
      /\ unread' \subseteq made /\ early' \subseteq made
      /\ \A d : d \in unread => d \in unread'
      /\ \A d : d # b => (d \in early' <=> d \in early)
      /\ queue # <<>> => b \in unread' /\ b \in early'
  BY <1>1, <1>2, NoteEffect DEF Transfers!ReadReturns
<1>6. call.block \in Value /\ JUNK \in Value
  BY <1>1, CallIs DEF Value, Transfers!Value
<1>7. /\ host' \in [Buffers -> Value] /\ \A d \in Buffers : d # b => host'[d] = host[d]
      /\ Long(b) => host'[b] = call.block
  BY <1>1, <1>4, <1>6 DEF TransfersType
<1>8. /\ client' \in {"ok", "undefined"} /\ server' \in {"ok", "undefined"}
      /\ (client' = client /\ server' = server) \/ ~Long(b)
      /\ client' = "ok" => client = "ok" /\ server' = "ok"
  BY <1>1, <1>4 DEF TransfersType
<1>9. /\ queue' \in Seq(Commands) /\ Len(queue') = Len(queue)
      /\ \A i \in 1..Len(queue) :
           /\ queue'[i].op = queue[i].op /\ queue'[i].buf = queue[i].buf
           /\ queue[i].op # "read" => queue'[i] = queue[i]
           /\ queue[i].op = "read" /\ queue'[i].freed =>
                queue[i].freed \/ (i = Len(queue) /\ ~Long(queue[i].buf))
  BY <1>1, <1>3, FreedIs DEF TransfersType
<1>10. TransfersType'
  BY <1>1, <1>3, <1>5, <1>7, <1>8, <1>9 DEF TransfersType, Value, Calls, Commands
<1>11. PendingInv'
  <2>1. \A i \in 1..Len(queue), d \in Buffers : Writes(i, d)' <=> Writes(i, d)
    BY <1>9 DEF Writes
  <2>2. \A i \in 1..Len(queue), d \in Buffers : Writes(i, d) => queue'[i] = queue[i]
    BY <1>9 DEF Writes
  <2>3. QED
    BY <2>1, <2>2, <1>1, <1>3, <1>9, SMTT(30) DEF PendingInv, Long
<1>12. CallsRead'
  BY <1>1 DEF CallsRead
<1>13. ArraysInv'
  <2> SUFFICES ASSUME client' = "ok", server' = "ok",
                      NEW d \in Buffers, Long(d), d \notin early'
               PROVE  host'[d] = local[d]
    BY <1>3 DEF ArraysInv, Long
  <2>1. CASE d = b
    BY <2>1, <1>1, <1>2, <1>5, <1>7 DEF CallsRead
  <2>2. CASE d # b
    BY <2>2, <1>1, <1>2, <1>5, <1>7, <1>8 DEF ArraysInv
  <2>3. QED
    BY <2>1, <2>2
<1>14. HarmInv'
  <2>1. CASE ~Long(b)
    BY <2>1, <1>3, <1>5 DEF HarmInv, Long
  <2>2. CASE Long(b)
    BY <2>2, <1>1, <1>3, <1>8 DEF HarmInv, Long
  <2>3. QED
    BY <2>1, <2>2
<1>15. ReadsInv'
  <2>1. ASSUME NEW i \in 1..Len(queue), queue[i].op = "read"
        PROVE  /\ queue[i].buf \in unread \/ (i = Len(queue) /\ queue[i].buf = b)
               /\ queue[i].buf \in unread'
    <3>1. queue # <<>>
      BY <2>1
    <3>2. i = Len(queue) => queue[i].buf = b
      BY <3>1, <1>1, <1>2 DEF CallsRead
    <3>3. queue[i].buf \in unread \/ i = Len(queue)
      BY <2>1, <1>1 DEF ReadsInv
    <3>4. QED
      BY <3>1, <3>2, <3>3, <1>5
  <2>2. ASSUME NEW i \in 1..Len(queue), queue[i].op = "read", queue'[i].freed
        PROVE  ~Long(queue[i].buf) /\ queue[i].buf \in unread' \cap early'
    <3>1. queue[i].freed \/ (i = Len(queue) /\ ~Long(queue[i].buf))
      BY <2>2, <1>9
    <3>2. queue # <<>>
      BY <2>2
    <3>3. CASE queue[i].freed
      <4>1. ~Long(queue[i].buf) /\ queue[i].buf \in unread \cap early
        BY <3>3, <2>2, <1>1 DEF ReadsInv
      <4>2. queue[i].buf # b
        BY <4>1, <1>5
      <4>3. QED
        BY <4>1, <4>2, <1>5
    <3>4. CASE i = Len(queue) /\ ~Long(queue[i].buf)
      <4>1. queue[i].buf = b
        BY <3>2, <3>4, <1>1, <1>2 DEF CallsRead
      <4>2. QED
        BY <3>2, <3>4, <4>1, <1>5
    <3>5. QED
      BY <3>1, <3>3, <3>4
  <2>3. \A i, j \in 1..Len(queue) :
          queue[i].op = "read" /\ queue[j].op = "read" /\ i # j => queue[i].buf # queue[j].buf
    BY <1>1 DEF ReadsInv
  <2>4. QED
    BY <2>1, <2>2, <2>3, <1>1, <1>9 DEF ReadsInv, Long
<1>16. QED
  BY <1>10, <1>11, <1>12, <1>13, <1>14, <1>15 DEF TransfersInv

\* The driver takes the first command.
LEMMA ExecuteStep ==
  ASSUME TransfersInv, Transfers!ExecuteCommand PROVE TransfersInv'
<1>1. /\ TransfersType /\ PendingInv /\ CallsRead /\ ArraysInv /\ HarmInv /\ ReadsInv
      /\ server = "ok" /\ queue # <<>> /\ queue' = Tail(queue)
      /\ host' = host /\ made' = made /\ local' = local /\ want' = want
      /\ unread' = unread /\ early' = early /\ client' = client
  BY DEF TransfersInv, Transfers!ExecuteCommand, Transfers!ghosts
<1>2. PICK n \in Nat : n = Len(queue)
  BY <1>1 DEF TransfersType
<1>3. PICK q \in Commands : q = queue[1] /\ q = Head(queue)
  <2>1. queue \in Seq(Commands) /\ queue # <<>>
    BY <1>1 DEF TransfersType
  <2>2. Head(queue) \in Commands /\ Head(queue) = queue[1]
    BY <2>1
  <2>3. QED
    BY <2>2
<1>4. /\ n >= 1 /\ Len(queue') = n - 1 /\ queue' \in Seq(Commands)
      /\ \A i \in 1..(n-1) : queue'[i] = queue[i+1] /\ i+1 \in 1..n
      /\ n = 1 => queue' = <<>>
  <2>1. queue \in Seq(Commands) /\ queue # <<>>
    BY <1>1 DEF TransfersType
  <2>2. n >= 1 /\ Len(queue') = n - 1 /\ queue' \in Seq(Commands)
    BY <2>1, <1>1, <1>2
  <2>3. \A i \in 1..(n-1) : queue'[i] = queue[i+1] /\ i+1 \in 1..n
    BY <2>1, <2>2, <1>1, <1>2
  <2>4. n = 1 => queue' = <<>>
    BY <2>2
  <2>5. QED
    BY <2>2, <2>3, <2>4
<1>5. \A j \in 1..n : j = 1 \/ (j - 1 \in 1..(n-1) /\ queue'[j-1] = queue[j])
  BY <1>4
<1>6. /\ q.op \in {"write", "read", "map"} /\ q.buf \in Buffers
      /\ q.op = "write" => q.data \in Contents
      /\ q.op = "read" => q.freed \in BOOLEAN
  BY <1>3, CommandIs
<1>7. dev' = IF q.op = "write" THEN [dev EXCEPT ![q.buf] = q.data] ELSE dev
  BY <1>3, <1>6 DEF Transfers!ExecuteCommand
<1>8. /\ server' \in {"ok", "undefined"}
      /\ server' # "ok" => q.op = "read" /\ q.freed
  BY <1>1, <1>3, <1>6 DEF Transfers!ExecuteCommand
<1>9. call' = IF q.op = "read" /\ call.op = "read" /\ n = 1
              THEN [call EXCEPT !.block = dev[q.buf]] ELSE call
  BY <1>2, <1>3, <1>6 DEF Transfers!ExecuteCommand
<1>10. dev' \in [Buffers -> Value]
  BY <1>1, <1>6, <1>7 DEF TransfersType, Value, Transfers!Value
<1>11. /\ call' \in Calls \cup {Transfers!NoCall} /\ call'.op = call.op
       /\ call.op # "none" => call'.buf = call.buf
       /\ q.op = "read" /\ call.op = "read" /\ n = 1 => call'.block = dev[q.buf]
  <2>1. CASE q.op = "read" /\ call.op = "read" /\ n = 1
    <3>1. call \in Calls /\ dev[q.buf] \in Value
      BY <2>1, <1>1, <1>6, CallIs DEF TransfersType
    <3>2. [call EXCEPT !.block = dev[q.buf]] \in Calls
      BY <3>1 DEF Calls
    <3>3. QED
      BY <2>1, <3>1, <3>2, <1>9 DEF Calls
  <2>2. CASE ~(q.op = "read" /\ call.op = "read" /\ n = 1)
    BY <2>2, <1>1, <1>9 DEF TransfersType
  <2>3. QED
    BY <2>1, <2>2
<1>12. TransfersType'
  <2>1. Len(queue') <= MaxQueue
    BY <1>1, <1>2, <1>4, PartsAssumption DEF TransfersType, Transfers!PayloadsAssumption
  <2>2. \A i \in 1..Len(queue') : queue'[i].buf \in made
    BY <1>1, <1>2, <1>4 DEF TransfersType
  <2>3. QED
    BY <1>1, <1>4, <1>8, <1>10, <1>11, <2>1, <2>2 DEF TransfersType, Value, Calls, Commands
<1>13. PendingInv'
  <2> SUFFICES ASSUME NEW d \in Buffers
               PROVE  /\ (\A i \in 1..(n-1) : ~Writes(i, d)') =>
                           dev'[d] = local[d] \/ (~Long(d) /\ dev'[d] = JUNK)
                      /\ \A i \in 1..(n-1) :
                           Writes(i, d)' /\ (\A j \in 1..(n-1) : j > i => ~Writes(j, d)') =>
                             queue'[i].data = local[d]
    BY <1>1, <1>4 DEF PendingInv, Long
  <2>1. \A i \in 1..(n-1) : Writes(i, d)' <=> Writes(i+1, d)
    BY <1>4 DEF Writes
  <2>2. ASSUME \A i \in 1..(n-1) : ~Writes(i, d)'
        PROVE  dev'[d] = local[d] \/ (~Long(d) /\ dev'[d] = JUNK)
    <3>1. \A j \in 1..n : j > 1 => ~Writes(j, d)
      <4> SUFFICES ASSUME NEW j \in 1..n, j > 1 PROVE ~Writes(j, d)
        OBVIOUS
      <4>1. j - 1 \in 1..(n-1) /\ (j - 1) + 1 = j
        OBVIOUS
      <4>2. QED
        BY <4>1, <2>1, <2>2
    <3>2. 1 \in 1..n
      BY <1>4
    <3>3. CASE Writes(1, d)
      <4>1. queue[1].data = local[d]
        BY <3>1, <3>2, <3>3, <1>1, <1>2 DEF PendingInv
      <4>2. dev'[d] = local[d]
        BY <4>1, <3>3, <1>1, <1>3, <1>7 DEF Writes, TransfersType
      <4>3. QED
        BY <4>2
    <3>4. CASE ~Writes(1, d)
      <4>1. dev[d] = local[d] \/ (~Long(d) /\ dev[d] = JUNK)
        <5>1. \A j \in 1..n : ~Writes(j, d)
          BY <3>1, <3>4
        <5>2. QED
          BY <5>1, <1>1, <1>2 DEF PendingInv
      <4>2. dev'[d] = dev[d]
        BY <3>4, <1>1, <1>3, <1>7 DEF Writes, TransfersType
      <4>3. QED
        BY <4>1, <4>2
    <3>5. QED
      BY <3>3, <3>4
  <2>3. ASSUME NEW i \in 1..(n-1), Writes(i, d)',
               \A j \in 1..(n-1) : j > i => ~Writes(j, d)'
        PROVE  queue'[i].data = local[d]
    <3>1. i+1 \in 1..n /\ Writes(i+1, d) /\ queue'[i] = queue[i+1]
      BY <2>1, <2>3, <1>4
    <3>2. \A j \in 1..n : j > i+1 => ~Writes(j, d)
      <4> SUFFICES ASSUME NEW j \in 1..n, j > i+1 PROVE ~Writes(j, d)
        OBVIOUS
      <4>1. j - 1 \in 1..(n-1) /\ (j - 1) + 1 = j /\ j - 1 > i
        OBVIOUS
      <4>2. QED
        BY <4>1, <2>1, <2>3
    <3>3. QED
      BY <3>1, <3>2, <1>1, <1>2 DEF PendingInv
  <2>4. QED
    BY <2>2, <2>3
<1>14. CallsRead'
  <2> SUFFICES ASSUME call.op = "read"
               PROVE  IF queue' = <<>> THEN Long(call.buf) => call'.block = local[call.buf]
                      ELSE /\ queue'[n-1].op = "read" /\ queue'[n-1].buf = call.buf
                           /\ ~queue'[n-1].freed
    BY <1>1, <1>4, <1>11 DEF CallsRead, Long
  <2>1. queue[n].op = "read" /\ queue[n].buf = call.buf /\ ~queue[n].freed
    BY <1>1, <1>2 DEF CallsRead
  <2>2. CASE n = 1
    <3>1. q.op = "read" /\ q.buf = call.buf /\ call.buf \in Buffers /\ queue' = <<>>
      BY <2>1, <2>2, <1>1, <1>3, <1>4, CallIs
    <3>2. \A i \in 1..n : ~Writes(i, call.buf)
      BY <2>2, <3>1, <1>3 DEF Writes
    <3>3. Long(call.buf) => dev[call.buf] = local[call.buf]
      BY <3>1, <3>2, <1>1, <1>2 DEF PendingInv
    <3>4. QED
      BY <2>2, <3>1, <3>3, <1>11
  <2>3. CASE n # 1
    <3>1. n - 1 \in 1..(n-1) /\ (n - 1) + 1 = n /\ queue' # <<>>
      BY <2>3, <1>4
    <3>2. queue'[n-1] = queue[n]
      BY <3>1, <1>4
    <3>3. QED
      BY <2>1, <3>1, <3>2
  <2>4. QED
    BY <2>2, <2>3
<1>15. ArraysInv'
  BY <1>1, <1>11 DEF ArraysInv, Long
<1>16. HarmInv'
  <2>1. CASE server' = "ok"
    BY <2>1, <1>1 DEF HarmInv, Long
  <2>2. CASE server' # "ok"
    <3>1. 1 \in 1..n /\ queue[1].op = "read" /\ queue[1].freed
      BY <2>2, <1>3, <1>4, <1>8
    <3>2. ~Long(queue[1].buf) /\ queue[1].buf \in made
      BY <3>1, <1>1, <1>2 DEF ReadsInv, TransfersType
    <3>3. QED
      BY <3>2, <2>2, <1>1 DEF HarmInv, Long
  <2>3. QED
    BY <2>1, <2>2
<1>17. ReadsInv'
  <2>1. call'.op \in {"read", "map"} => call'.buf \notin unread'
    BY <1>1, <1>11 DEF ReadsInv
  <2>2. ASSUME NEW i \in 1..(n-1), queue'[i].op = "read"
        PROVE  /\ queue'[i].buf \in unread' \/ (call'.op = "read" /\ i = n - 1)
               /\ queue'[i].freed => ~Long(queue'[i].buf) /\ queue'[i].buf \in unread' \cap early'
    <3>1. i+1 \in 1..n /\ queue'[i] = queue[i+1]
      BY <1>4
    <3>2. queue[i+1].buf \in unread \/ (call.op = "read" /\ i+1 = n)
      BY <2>2, <3>1, <1>1, <1>2 DEF ReadsInv
    <3>3. queue[i+1].freed => ~Long(queue[i+1].buf) /\ queue[i+1].buf \in unread \cap early
      BY <2>2, <3>1, <1>1, <1>2 DEF ReadsInv
    <3>4. i+1 = n => i = n - 1
      OBVIOUS
    <3>5. QED
      BY <3>1, <3>2, <3>3, <3>4, <1>1, <1>11
  <2>3. ASSUME NEW i \in 1..(n-1), NEW j \in 1..(n-1),
               queue'[i].op = "read", queue'[j].op = "read", i # j
        PROVE  queue'[i].buf # queue'[j].buf
    <3>1. i+1 \in 1..n /\ queue'[i] = queue[i+1] /\ j+1 \in 1..n /\ queue'[j] = queue[j+1]
          /\ i+1 # j+1
      BY <2>3, <1>4
    <3>2. QED
      BY <3>1, <2>3, <1>1, <1>2 DEF ReadsInv
  <2>4. QED
    BY <2>1, <2>2, <2>3, <1>4 DEF ReadsInv, Long
<1>18. QED
  BY <1>12, <1>13, <1>14, <1>15, <1>16, <1>17 DEF TransfersInv

LEMMA TransfersNext == TransfersInv /\ [Transfers!Next]_(Transfers!vars) => TransfersInv'
<1> SUFFICES ASSUME TransfersInv, [Transfers!Next]_(Transfers!vars) PROVE TransfersInv'
  OBVIOUS
<1>1. ASSUME NEW b \in Buffers, Transfers!CreateEmpty(b) PROVE TransfersInv'
  BY <1>1, CreateEmptyStep
<1>2. ASSUME NEW b \in Buffers, NEW c \in Contents, Transfers!CreateCopy(b, c)
      PROVE  TransfersInv'
  BY <1>2, CreateCopyStep
<1>3. ASSUME NEW b \in made, NEW c \in Contents, NEW blocking \in BOOLEAN,
             Transfers!Write(b, c, blocking)
      PROVE  TransfersInv'
  BY <1>3, WriteStep
<1>4. ASSUME NEW b \in made, NEW blocking \in BOOLEAN,
             Transfers!Read(b, blocking) \/ Transfers!Map(b, blocking)
      PROVE  TransfersInv'
  BY <1>4, ReadOrMapStep
<1>5. CASE Transfers!WriteReturns
  BY <1>5, WriteReturnsStep
<1>6. CASE Transfers!ReadReturns
  BY <1>6, ReadReturnsStep
<1>7. CASE Transfers!MapReturns
  BY <1>7, MapReturnsStep
<1>8. CASE Transfers!ExecuteCommand
  BY <1>8, ExecuteStep
<1>9. CASE Transfers!Finish
  BY <1>9, FinishStep
<1>10. CASE UNCHANGED Transfers!vars
  BY <1>10, TransfersStutter
<1>11. QED
  BY <1>1, <1>2, <1>3, <1>4, <1>5, <1>6, <1>7, <1>8, <1>9, <1>10 DEF Transfers!Next

LEMMA TransfersInvImplies == TransfersInv => TransfersKeepContents
<1> SUFFICES ASSUME TransfersInv PROVE TransfersKeepContents
  OBVIOUS
<1>1. Transfers!TypeOK
  BY DEF TransfersInv, TransfersType, Transfers!TypeOK, Value
<1>2. Transfers!LargeArraysRight
  BY NoCallIs DEF TransfersInv, TransfersType, ArraysInv, Transfers!LargeArraysRight,
     Transfers!Running, Long
<1>3. Transfers!BuffersHoldWhatWasWritten
  <2> SUFFICES ASSUME server = "ok", queue = <<>>, NEW b \in made
               PROVE  dev[b] = local[b] \/ (~Long(b) /\ dev[b] = JUNK)
    BY DEF Transfers!BuffersHoldWhatWasWritten, Transfers!Running, Long
  <2>1. b \in Buffers /\ \A i \in 1..Len(queue) : ~Writes(i, b)
    BY DEF TransfersInv, TransfersType
  <2>2. QED
    BY <2>1 DEF TransfersInv, PendingInv
<1>4. Transfers!HarmNeedsSmallOrIncompressible
  BY DEF TransfersInv, HarmInv, Transfers!HarmNeedsSmallOrIncompressible, Transfers!Running, Long
<1>5. Transfers!DanglingReads
  <2>1. DOMAIN queue = 1..Len(queue)
    BY DEF TransfersInv, TransfersType
  <2>2. QED
    BY <2>1 DEF TransfersInv, ReadsInv, Transfers!DanglingReads, Long
<1>6. QED
  BY <1>1, <1>2, <1>3, <1>4, <1>5 DEF TransfersKeepContents

\* For any buffers, sizes and contents, and a driver's queue of any length:
\* above CMP_LIM nothing is lost but by reads answered early, buffers hold
\* what was last written, only small or incompressible arrays do harm.
THEOREM TransfersSafe == Transfers!Spec => []TransfersKeepContents
BY TransfersInit, TransfersNext, TransfersInvImplies, PTL DEF Transfers!Spec

\* The server as a whole, whatever the connections, transfers and objects.
THEOREM ServerSafe ==
  ServerSpec => [](ThreadsKeepApart /\ TransfersKeepContents /\ ObjectsLiveAsHeld)
<1> DEFINE AllInv == ConnsInv /\ TransfersInv /\ ObjectsInv
<1>1. ServerInit => AllInv
  BY ConnsInit, TransfersInit, ObjectsInit DEF ServerInit
<1>2. AllInv /\ [ServerNext]_everything => AllInv'
  <2>1. [ServerNext]_everything =>
          [Next]_vars /\ [Transfers!Next]_(Transfers!vars) /\ [Objects!Next]_(Objects!vars)
    BY DEF ServerNext, ConnsStep, TransfersStep, ObjectsStep, everything, transfers, objects,
       Transfers!vars, Objects!vars
  <2>2. QED
    BY <2>1, ConnsNext, TransfersNext, ObjectsNext
<1>3. AllInv => ThreadsKeepApart /\ TransfersKeepContents /\ ObjectsLiveAsHeld
  BY ConnsInvImplies, TransfersInvImplies, ObjectsInvImplies
<1> HIDE DEF AllInv
<1>4. QED
  BY <1>1, <1>2, <1>3, PTL DEF ServerSpec

==============================================================================
