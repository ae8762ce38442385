--------------------------- MODULE ServicesProofs ---------------------------
(***************************************************************************)
(* Proofs about the parts of Services, for any values of their constants:  *)
(* the SunRPC variant's calls (the inductive invariant of the one server   *)
(* thread, what a read brings, what a failed call leaves behind, and that  *)
(* they implement SunCalls), discovery, the MAR service, the web service,  *)
(* and the SunRPC messages, whose routines are shown to be inverses.       *)
(***************************************************************************)
EXTENDS Services, SequenceTheorems, WellFoundedInduction, TLAPS

(* Types *)

Contents == Values \cup {Unset, JUNK, Echo}
Names    == (Clients \X Nat) \cup {NULL}
Entry    == [op : Ops, blocking : BOOLEAN, val : Values \cup {Unset},
             object : Names, outcome : {"none", "ok", "error", "failed"},
             got : Contents]
Reply    == [xid : Nat, object : Names, got : Contents, code : {"ok", "error"}]
Command  == [xid : Nat, freed : BOOLEAN]
Request  == [stage : {"idle", "handled", "answered"}, client : Clients \cup {NULL},
             xid : Nat, object : Names, block : Contents]

SunType ==
  /\ log \in [Clients -> Seq(Entry)] /\ handle \in [Clients -> Names]
  /\ toServer \in [Clients -> Seq(Nat)] /\ toClient \in [Clients -> Seq(Reply)]
  /\ queue \in [Clients -> Seq(Command)] /\ executed \in [Clients -> Nat]
  /\ server \in Request /\ up \in BOOLEAN /\ corrupt \in BOOLEAN
  /\ DOMAIN store \subseteq Clients \X Nat
  /\ \A o \in DOMAIN store : store[o] \in Contents

Calls(c) == DOMAIN log[c]
Busy(c)  == server.stage # "idle" /\ server.client = c

(* Requests reach the server in the order they were made; the one it is    *)
(* busy with is the last of its client that it took up.                    *)
WireInv ==
  /\ \A c \in Clients :
       /\ executed[c] + Len(toServer[c]) = Len(log[c])
       /\ \A j \in 1..Len(toServer[c]) : toServer[c][j] = executed[c] + j
  /\ server.stage # "idle" =>
       /\ server.client \in Clients
       /\ server.xid = executed[server.client] /\ server.xid >= 1

(* What a client's calls can be: it creates first, once, and releases      *)
(* last; its calls name the object its create brought.                     *)
Lawful(c, i) ==
  /\ log[c][i].object \in {NULL, handle[c]}
  /\ log[c][i].op = "create" => log[c][i].object = NULL /\ log[c][i].outcome # "error"
  /\ log[c][i].op \notin {"create", "finish"} =>
       \E k \in Calls(c) : k < i /\ log[c][k].op = "create"
  /\ \A j \in Calls(c) : j < i =>
       /\ log[c][j].op = "create" => log[c][i].op # "create"
       /\ log[c][j].op = "release" => log[c][i].op = "finish"
       /\ log[c][j].outcome # "none"
  /\ log[c][i].op \notin Transfers => log[c][i].blocking
  /\ log[c][i].outcome \in {"ok", "error"} => i <= executed[c]

LogInv == \A c \in Clients : \A i \in Calls(c) : Lawful(c, i)

\* The release of the client's object was executed.
Released(c) == \E j \in Calls(c) : j <= executed[c] /\ log[c][j].op = "release"

HandleInv ==
  \A c \in Clients : handle[c] # NULL =>
    /\ \E k \in Calls(c) : /\ handle[c] = <<c, k>> /\ log[c][k].op = "create"
                           /\ log[c][k].outcome = "ok"
    /\ handle[c] \in DOMAIN store \/ Released(c)

\* What the create i of client c brings when it brings o.
Brings(c, i, o) ==
  /\ o \in {NULL, <<c, i>>}
  /\ <<c, i>> \in DOMAIN store => o = <<c, i>>
  /\ o # NULL => o \in DOMAIN store \/ Released(c)

ObjectsInv ==
  /\ \A o \in DOMAIN store :
       /\ o[2] \in Calls(o[1]) /\ o[2] <= executed[o[1]]
       /\ log[o[1]][o[2]].op = "create"
       /\ log[o[1]][o[2]].outcome = "ok" => handle[o[1]] = o
  /\ server.stage # "idle" =>
       IF Now.op = "create" THEN Brings(server.client, server.xid, server.object)
                            ELSE server.object = Now.object

(* The driver's queue: in order, and only the request the server is busy   *)
(* with has its blocks.                                                    *)
Writes == {"write", "ndrange"}

Listed(c, a) ==
  /\ queue[c][a].xid \in Calls(c) /\ queue[c][a].xid <= executed[c]
  /\ log[c][queue[c][a].xid].op \in Writes \cup {"read", "map"}
  /\ log[c][queue[c][a].xid].object # NULL
  /\ \A b \in DOMAIN queue[c] : a < b => queue[c][a].xid < queue[c][b].xid

HasBlocks(c, a) ==
  /\ queue[c][a].freed <=> ~(Busy(c) /\ server.xid = queue[c][a].xid)
  /\ queue[c][a].freed \/ server.stage = "answered" =>
       ~Blocks(log[c][queue[c][a].xid])

\* No write behind the oldest command is missing from the queue.
NotLost(c, j) ==
  /\ log[c][j].op \in Writes /\ log[c][j].object # NULL /\ j <= executed[c]
  /\ queue[c] # <<>> /\ j >= queue[c][1].xid
  => \E a \in DOMAIN queue[c] : queue[c][a].xid = j

QueueInv ==
  \A c \in Clients :
    /\ \A a \in DOMAIN queue[c] : Listed(c, a) /\ HasBlocks(c, a)
    /\ \A j \in Calls(c) : NotLost(c, j)

\* The call up to which the driver ran the client's commands.
Frontier(c) == IF queue[c] = <<>> THEN executed[c] + 1 ELSE queue[c][1].xid

\* The writes to object o that client c made before its call m.
WritesTo(c, o, m) ==
  {j \in Calls(c) : j < m /\ log[c][j].op \in Writes /\ log[c][j].object = o}

\* v is what object o may hold once the calls before m were carried out.
Left(c, o, m, v) ==
  LET W == WritesTo(c, o, m)
  IN \/ W = {} /\ v = Unset
     \/ \E w \in W :
          /\ \A k \in W : k <= w
          /\ \/ v = log[c][w].val
             \/ v = JUNK /\ log[c][w].op = "write" /\ ~log[c][w].blocking

Queued(c, i) == \E a \in DOMAIN queue[c] : queue[c][a].xid = i

ContentsInv ==
  /\ \A o \in DOMAIN store : Left(o[1], o, Frontier(o[1]), store[o])
  /\ server.stage # "idle" /\ Now.op \in {"read", "map"} /\ Now.object # NULL =>
       IF Queued(server.client, server.xid) THEN server.block = Echo
       ELSE Left(server.client, Now.object, server.xid, server.block)

\* What a call may bring.
Sees(c, i, v) ==
  Left(c, log[c][i].object, i, v) \/ (v = Echo /\ ~log[c][i].blocking)

\* Replies on the way, and those that came.
TrueReply(c, r) ==
  /\ r.xid \in Calls(c) /\ r.xid <= executed[c]
  /\ log[c][r.xid].op = "create" => r.code = "ok" /\ Brings(c, r.xid, r.object)
  /\ log[c][r.xid].op \in {"read", "map"} /\ r.code = "ok" => Sees(c, r.xid, r.got)

RepliesInv ==
  \A c \in Clients :
    /\ \A a \in DOMAIN toClient[c] : TrueReply(c, toClient[c][a])
    /\ \A i \in Calls(c) :
         log[c][i].op \in {"read", "map"} /\ log[c][i].outcome = "ok" =>
           Sees(c, i, log[c][i].got)

HarmInv ==
  /\ corrupt => \E c \in Clients : \E i \in Calls(c) :
       log[c][i].op = "read" /\ ~log[c][i].blocking
  /\ DiesOfLostObject

SInv ==
  /\ SunType /\ WireInv /\ LogInv /\ HandleInv /\ ObjectsInv /\ QueueInv
  /\ ContentsInv /\ RepliesInv /\ HarmInv
-----------------------------------------------------------------------------
(* What the actions do *)

\* No step takes a call back, or changes what it asked for or its outcome.
Keeps ==
  \A c \in Clients : \A i \in Calls(c) :
    /\ i \in DOMAIN log'[c]
    /\ log'[c][i].op = log[c][i].op /\ log'[c][i].blocking = log[c][i].blocking
    /\ log'[c][i].val = log[c][i].val /\ log'[c][i].object = log[c][i].object
    /\ log[c][i].outcome # "none" => log'[c][i] = log[c][i]

LEMMA CallsAre ==
  ASSUME SunType, NEW c \in Clients
  PROVE  /\ Calls(c) = 1..Len(log[c]) /\ Len(log[c]) \in Nat
         /\ \A i \in Calls(c) : i \in Nat /\ i >= 1 /\ log[c][i] \in Entry
BY DEF SunType, Calls

LEMMA CallEffect ==
  ASSUME SunType, NEW c \in Clients, Call(c)
  PROVE  \E e \in Entry :
           /\ log' = [log EXCEPT ![c] = Append(log[c], e)]
           /\ e.outcome = "none" /\ e.object = handle[c] /\ Legal(c, e.op)
           /\ e.op \notin Transfers => e.blocking
           /\ ~Waiting(c)
<1>1. PICK op \in Ops, b \in Blocking, v \in Values \cup {Unset} :
        /\ Legal(c, op) /\ (op \in Transfers \/ b)
        /\ log' = [log EXCEPT ![c] = Append(@,
                    [op |-> op, blocking |-> b, val |-> v, object |-> handle[c],
                     outcome |-> "none", got |-> Echo])]
  BY DEF Call
<1> DEFINE e == [op |-> op, blocking |-> b, val |-> v, object |-> handle[c],
                 outcome |-> "none", got |-> Echo]
<1>2. b \in BOOLEAN
  BY SunAssumption
<1>3. handle[c] \in Names
  BY DEF SunType
<1>4. e \in Entry
  BY <1>1, <1>2, <1>3 DEF Entry, Contents
<1>5. ~Waiting(c)
  BY DEF Call
<1>6. e.op \notin Transfers => e.blocking
  BY <1>1, Zenon
<1>7. QED
  BY <1>1, <1>4, <1>5, <1>6

LEMMA CallLog ==
  ASSUME SunType, NEW c \in Clients, NEW e \in Entry,
         log' = [log EXCEPT ![c] = Append(log[c], e)]
  PROVE  /\ log' \in [Clients -> Seq(Entry)]
         /\ Len(log'[c]) = Len(log[c]) + 1 /\ log'[c][Len(log[c]) + 1] = e
         /\ DOMAIN log'[c] = 1..(Len(log[c]) + 1)
         /\ \A d \in Clients : d # c => log'[d] = log[d]
         /\ \A i \in Calls(c) : log'[c][i] = log[c][i]
         /\ Keeps
<1>1. log[c] \in Seq(Entry)
  BY DEF SunType
<1>2. log'[c] = Append(log[c], e) /\ log' \in [Clients -> Seq(Entry)]
      /\ \A d \in Clients : d # c => log'[d] = log[d]
  BY <1>1 DEF SunType
<1>3. /\ Len(log'[c]) = Len(log[c]) + 1 /\ log'[c][Len(log[c]) + 1] = e
      /\ DOMAIN log'[c] = 1..(Len(log[c]) + 1)
      /\ \A i \in 1..Len(log[c]) : log'[c][i] = log[c][i]
  BY <1>1, <1>2, AppendProperties
<1>4. Calls(c) = 1..Len(log[c])
  BY CallsAre
<1>5. ASSUME NEW d \in Clients, NEW i \in Calls(d)
      PROVE  i \in DOMAIN log'[d] /\ log'[d][i] = log[d][i]
  BY <1>2, <1>3, <1>4, <1>5 DEF Calls, SunType
<1>6. Keeps
  BY <1>5 DEF Keeps
<1>7. QED
  BY <1>2, <1>3, <1>4, <1>6

LEMMA EndsLog ==
  ASSUME SunType, NEW c \in Clients, Waiting(c), NEW how \in {"ok", "error", "failed"},
         NEW got \in Contents, Ends(c, how, got)
  PROVE  /\ log' \in [Clients -> Seq(Entry)]
         /\ Len(log[c]) \in Calls(c) /\ log[c][Len(log[c])].outcome = "none"
         /\ log'[c][Len(log[c])].outcome = how /\ log'[c][Len(log[c])].got = got
         /\ \A d \in Clients : DOMAIN log'[d] = Calls(d) /\ Len(log'[d]) = Len(log[d])
         /\ \A d \in Clients : d # c => log'[d] = log[d]
         /\ \A i \in Calls(c) : i # Len(log[c]) => log'[c][i] = log[c][i]
         /\ Keeps
<1> DEFINE n == Len(log[c])
           e == [[log[c][n] EXCEPT !.outcome = how] EXCEPT !.got = got]
<1>1. log[c] \in Seq(Entry) /\ log \in [Clients -> Seq(Entry)]
  BY DEF SunType
<1>2. n \in 1..Len(log[c]) /\ n \in Calls(c) /\ log[c][n].outcome = "none"
  BY <1>1 DEF Waiting, Last, Calls
<1>3. log[c][n] \in Entry
  BY <1>1, <1>2
<1>4. e \in Entry /\ e.outcome = how /\ e.got = got /\ e.op = log[c][n].op
      /\ e.blocking = log[c][n].blocking /\ e.val = log[c][n].val
      /\ e.object = log[c][n].object
  BY <1>3 DEF Entry
<1> HIDE DEF e
<1>5. log' = [log EXCEPT ![c] = [log[c] EXCEPT ![n] = e]]
  BY <1>1, <1>2 DEF Ends, e
<1> HIDE DEF n
<1>6. log'[c] = [log[c] EXCEPT ![n] = e]
      /\ \A d \in Clients : d # c => log'[d] = log[d]
  BY <1>1, <1>5
<1>7. log'[c] \in Seq(Entry) /\ Len(log'[c]) = Len(log[c])
      /\ DOMAIN log'[c] = Calls(c)
      /\ \A i \in Calls(c) : log'[c][i] = IF i = n THEN e ELSE log[c][i]
  BY <1>1, <1>2, <1>4, <1>6, ExceptSeq DEF Calls
<1>8. log' \in [Clients -> Seq(Entry)]
  BY <1>1, <1>5, <1>6, <1>7
<1>9. \A d \in Clients : DOMAIN log'[d] = Calls(d) /\ Len(log'[d]) = Len(log[d])
  BY <1>6, <1>7 DEF Calls
<1>10. Keeps
  BY <1>2, <1>4, <1>6, <1>7, <1>9 DEF Keeps
<1>11. QED
  BY <1>2, <1>4, <1>6, <1>7, <1>8, <1>9, <1>10 DEF n

LEMMA ReceiveEffect ==
  ASSUME SunType, NEW c \in Clients, Receive(c)
  PROVE  /\ Waiting(c) /\ toClient[c] # <<>>
         /\ toClient' = [toClient EXCEPT ![c] = Tail(@)]
         /\ UNCHANGED <<toServer, server, queue, store, executed, up, corrupt>>
         /\ LET r == toClient[c][1] IN
            /\ r \in Reply
            /\ \/ UNCHANGED <<log, handle>>
               \/ /\ r.xid = Len(log[c]) /\ Ends(c, r.code, r.got)
                  /\ handle' = IF log[c][Len(log[c])].op = "create"
                               THEN [handle EXCEPT ![c] = r.object] ELSE handle
<1>1. toClient[c] \in Seq(Reply) /\ toClient[c] # <<>>
  BY DEF SunType, Receive
<1>2. toClient[c][1] \in Reply
  BY <1>1
<1>3. QED
  BY <1>1, <1>2 DEF Receive, Last

LEMMA HandleEffect ==
  ASSUME SunType, WireInv, NEW c \in Clients, Handle(c),
         NEW i, i = executed[c] + 1
  PROVE  /\ Alive /\ server.stage = "idle" /\ i \in Calls(c) /\ i \in Nat
         /\ log[c][i] \in Entry /\ Len(toServer[c]) >= 1
         /\ toServer' = [toServer EXCEPT ![c] = Tail(@)]
         /\ executed' = [executed EXCEPT ![c] = i]
         /\ UNCHANGED <<log, handle, toClient, up, corrupt>>
         /\ \/ /\ log[c][i].op = "create" /\ queue' = queue
               /\ \E made \in {<<c, i>>, NULL} :
                    /\ server' = [stage |-> "handled", client |-> c, xid |-> i,
                                  object |-> made, block |-> Echo]
                    /\ store' = IF made = NULL THEN store
                                ELSE [x \in DOMAIN store \cup {<<c, i>>} |->
                                        IF x = <<c, i>> THEN Unset ELSE store[x]]
            \/ /\ log[c][i].op # "create"
               /\ server' = [stage |-> "handled", client |-> c, xid |-> i,
                             object |-> log[c][i].object, block |-> Echo]
               /\ \/ /\ log[c][i].op = "release" /\ log[c][i].object # NULL
                     /\ store' = [x \in DOMAIN store \ {log[c][i].object} |-> store[x]]
                     /\ queue' = queue
                  \/ /\ log[c][i].op = "finish" \/ log[c][i].object = NULL
                     /\ UNCHANGED <<store, queue>>
                  \/ /\ log[c][i].op \notin {"create", "release", "finish"}
                     /\ log[c][i].object # NULL /\ store' = store
                     /\ queue' = [queue EXCEPT ![c] =
                                    Append(@, [xid |-> i, freed |-> FALSE])]
<1>1. toServer[c] \in Seq(Nat) /\ toServer[c] # <<>>
  BY DEF SunType, Handle
<1>2. Len(toServer[c]) >= 1 /\ Head(toServer[c]) = toServer[c][1]
  BY <1>1
<1>3. Head(toServer[c]) = i
  BY <1>1, <1>2 DEF WireInv
<1>4. i \in Calls(c) /\ i \in Nat
  <2>1. executed[c] \in Nat /\ Len(toServer[c]) \in Nat
    BY <1>1 DEF SunType
  <2>2. executed[c] + Len(toServer[c]) = Len(log[c])
    BY DEF WireInv
  <2>3. i \in 1..Len(log[c])
    BY <1>2, <2>1, <2>2
  <2>4. QED
    BY <2>3, CallsAre
<1>5. log[c][i] \in Entry
  BY <1>4, CallsAre
<1>6. /\ Alive /\ server.stage = "idle"
      /\ toServer' = [toServer EXCEPT ![c] = Tail(@)]
      /\ executed' = [executed EXCEPT ![c] = i]
      /\ UNCHANGED <<log, handle, toClient, up, corrupt>>
  BY <1>3 DEF Handle, SunType
<1>7. CASE log[c][i].op = "create"
  <2>1. /\ queue' = queue
        /\ \E made \in {<<c, i>>, NULL} :
             /\ server' = [stage |-> "handled", client |-> c, xid |-> i,
                           object |-> made, block |-> Echo]
             /\ store' = IF made = NULL THEN store
                         ELSE [z \in DOMAIN store \cup {<<c, i>>} |->
                                 IF z = <<c, i>> THEN Unset ELSE store[z]]
    BY <1>3, <1>7 DEF Handle
  <2>2. QED
    BY <1>2, <1>4, <1>5, <1>6, <1>7, <2>1
<1>8. CASE log[c][i].op = "release" /\ log[c][i].object # NULL
  BY <1>2, <1>3, <1>4, <1>5, <1>6, <1>8 DEF Handle
<1>9. CASE /\ log[c][i].op # "create"
           /\ ~(log[c][i].op = "release" /\ log[c][i].object # NULL)
  BY <1>2, <1>3, <1>4, <1>5, <1>6, <1>9 DEF Handle
<1>10. QED
  BY <1>7, <1>8, <1>9

\* What the driver does to the objects when it runs a call.
Runs(call, freed) ==
  \/ call.object \notin DOMAIN store /\ store' = store
  \/ call.op \notin Writes /\ store' = store
  \/ /\ call.object \in DOMAIN store /\ call.op \in Writes
     /\ \E v : /\ store' = [store EXCEPT ![call.object] = v]
               /\ v = call.val \/ (v = JUNK /\ call.op = "write" /\ freed)

LEMMA DriveEffect ==
  ASSUME SunType, QueueInv, NEW c \in Clients, Drive(c),
         NEW x, x = queue[c][1].xid, NEW call, call = log[c][x]
  PROVE  /\ Alive /\ queue[c] # <<>> /\ queue[c][1] \in Command
         /\ x \in Calls(c) /\ call \in Entry
         /\ queue' = [queue EXCEPT ![c] = Tail(@)]
         /\ UNCHANGED <<log, handle, toServer, toClient, executed, up>>
         /\ Runs(call, queue[c][1].freed)
         /\ corrupt' = (call.op = "read" /\ queue[c][1].freed)
         /\ server' = IF call.op \in {"read", "map"} /\ ~queue[c][1].freed
                      THEN [server EXCEPT !.block =
                              IF call.object \in DOMAIN store
                              THEN store[call.object] ELSE Echo]
                      ELSE server
<1>1. queue[c] \in Seq(Command) /\ queue[c] # <<>>
  BY DEF SunType, Drive
<1>2. queue[c][1] \in Command /\ Head(queue[c]) = queue[c][1] /\ 1 \in DOMAIN queue[c]
  BY <1>1
<1>3. x \in Calls(c) /\ call.op \in Writes \cup {"read", "map"}
  BY <1>2 DEF QueueInv, Listed
<1>4. call \in Entry
  BY <1>3, CallsAre
<1>5. /\ Alive /\ queue' = [queue EXCEPT ![c] = Tail(@)]
      /\ UNCHANGED <<log, handle, toServer, toClient, executed, up>>
  BY DEF Drive
<1>6. corrupt' = (call.op = "read" /\ queue[c][1].freed)
  BY <1>2, Zenon DEF Drive
<1>7. server' = IF call.op \in {"read", "map"} /\ ~queue[c][1].freed
                THEN [server EXCEPT !.block = IF call.object \in DOMAIN store
                                              THEN store[call.object] ELSE Echo]
                ELSE server
  BY <1>2 DEF Drive, Runs
<1>8. Runs(call, queue[c][1].freed)
  <2>1. CASE call.object \notin DOMAIN store
    BY <1>2, <2>1 DEF Drive, Runs
  <2>2. CASE call.object \in DOMAIN store /\ call.op = "ndrange"
    BY <1>2, <2>2 DEF Drive, Runs, Writes
  <2>3. CASE call.object \in DOMAIN store /\ call.op = "write"
    BY <1>2, <2>3, ZenonT(40) DEF Drive, Runs, Writes
  <2>4. CASE call.object \in DOMAIN store /\ call.op \notin Writes
    BY <1>2, <2>4 DEF Drive, Runs, Writes
  <2>5. QED
    BY <2>1, <2>2, <2>3, <2>4 DEF Writes
<1>9. QED
  BY <1>1, <1>2, <1>3, <1>4, <1>5, <1>6, <1>7, <1>8

LEMMA AnswerEffect ==
  ASSUME SunType, WireInv, Answer, NEW c, c = server.client
  PROVE  /\ Alive /\ server.stage = "handled" /\ c \in Clients
         /\ server.xid \in Calls(c) /\ Now \in Entry
         /\ Blocks(Now) => queue[c] = <<>>
         /\ UNCHANGED <<log, handle, toServer, queue, store, executed, corrupt>>
         /\ Fatal => up' = FALSE /\ UNCHANGED <<server, toClient>>
         /\ ~Fatal =>
              \E r \in Reply :
                 /\ r.xid = server.xid /\ r.object = server.object
                 /\ r.got = server.block
                 /\ r.code = IF Now.op \in {"create", "finish"} \/ server.object # NULL
                             THEN "ok" ELSE "error"
                 /\ toClient' = [toClient EXCEPT ![c] = Append(toClient[c], r)]
                 /\ server' = [server EXCEPT !.stage = "answered"]
                 /\ up' = up
<1>1. /\ Alive /\ server.stage = "handled" /\ (Blocks(Now) => queue[c] = <<>>)
      /\ UNCHANGED <<log, handle, toServer, queue, store, executed, corrupt>>
  BY DEF Answer
<1>2. c \in Clients /\ server.xid = executed[c] /\ server.xid >= 1
  BY <1>1 DEF WireInv
<1>3. server.xid \in Calls(c)
  BY <1>2, CallsAre DEF WireInv, SunType
<1>4. Now \in Entry
  BY <1>2, <1>3, CallsAre DEF Now
<1>5. CASE Fatal
  BY <1>1, <1>2, <1>3, <1>4, <1>5 DEF Answer
<1>6. CASE ~Fatal
  <2> DEFINE r == [xid |-> server.xid, object |-> server.object, got |-> server.block,
                   code |-> IF Now.op \in {"create", "finish"} \/ server.object # NULL
                            THEN "ok" ELSE "error"]
  <2>1. r \in Reply
    BY DEF SunType, Request, Reply
  <2>2. /\ toClient' = [toClient EXCEPT ![c] = Append(@, r)]
        /\ server' = [server EXCEPT !.stage = "answered"] /\ up' = up
    BY <1>6 DEF Answer
  <2>3. QED
    BY <1>1, <1>2, <1>3, <1>4, <1>6, <2>1, <2>2
<1>7. QED
  BY <1>5, <1>6

LEMMA FreeArgsEffect ==
  ASSUME SunType, WireInv, FreeArgs, NEW c, c = server.client
  PROVE  /\ Alive /\ server.stage = "answered" /\ c \in Clients
         /\ server' = Idle
         /\ UNCHANGED <<log, handle, toServer, toClient, store, executed, up, corrupt>>
         /\ queue' \in [Clients -> Seq(Command)]
         /\ \A d \in Clients : d # c => queue'[d] = queue[d]
         /\ DOMAIN queue'[c] = DOMAIN queue[c] /\ Len(queue'[c]) = Len(queue[c])
         /\ \A a \in DOMAIN queue[c] :
              /\ queue'[c][a].xid = queue[c][a].xid
              /\ queue'[c][a].freed =
                   (queue[c][a].freed \/ queue[c][a].xid = server.xid)
<1>1. /\ Alive /\ server.stage = "answered" /\ server' = Idle
      /\ UNCHANGED <<log, handle, toServer, toClient, store, executed, up, corrupt>>
  BY DEF FreeArgs
<1>2. c \in Clients /\ queue[c] \in Seq(Command)
  BY <1>1 DEF WireInv, SunType
<1> DEFINE f(k) == IF queue[c][k].xid = server.xid
                   THEN [queue[c][k] EXCEPT !.freed = TRUE] ELSE queue[c][k]
           q == [k \in 1..Len(queue[c]) |-> f(k)]
<1>3. queue' = [queue EXCEPT ![c] = q]
  BY DEF FreeArgs
<1>4. ASSUME NEW k \in 1..Len(queue[c])
      PROVE  /\ f(k) \in Command /\ f(k).xid = queue[c][k].xid
             /\ f(k).freed = (queue[c][k].freed \/ queue[c][k].xid = server.xid)
  <2>1. queue[c][k] \in Command
    BY <1>2
  <2>2. CASE queue[c][k].xid = server.xid
    BY <2>1, <2>2 DEF Command
  <2>3. CASE queue[c][k].xid # server.xid
    BY <2>1, <2>3 DEF Command
  <2>4. QED
    BY <2>2, <2>3
<1>5. q \in Seq(Command) /\ Len(q) = Len(queue[c]) /\ DOMAIN q = DOMAIN queue[c]
      /\ \A k \in DOMAIN queue[c] : q[k] = f(k)
  <2>1. Len(queue[c]) \in Nat /\ DOMAIN queue[c] = 1..Len(queue[c])
    BY <1>2
  <2>2. q \in [1..Len(queue[c]) -> Command]
    BY <1>4
  <2>3. q \in Seq(Command)
    BY <2>1, <2>2
  <2>4. QED
    BY <2>1, <2>2, <2>3
<1> HIDE DEF f, q
<1>6. /\ queue'[c] = q /\ queue' \in [Clients -> Seq(Command)]
      /\ \A d \in Clients : d # c => queue'[d] = queue[d]
  BY <1>2, <1>3, <1>5 DEF SunType
<1>7. DOMAIN queue[c] = 1..Len(queue[c])
  BY <1>2
<1>8. QED
  BY <1>1, <1>2, <1>4, <1>5, <1>6, <1>7

-----------------------------------------------------------------------------
(* Types *)

LEMMA NextTypes ==
  SunType /\ WireInv /\ QueueInv /\ [Next]_vars => SunType'
<1> SUFFICES ASSUME SunType, WireInv, QueueInv, [Next]_vars PROVE SunType'
  OBVIOUS
<1>1. ASSUME NEW c \in Clients, Call(c) PROVE SunType'
  <2>1. PICK e \in Entry : log' = [log EXCEPT ![c] = Append(log[c], e)]
    BY <1>1, CallEffect
  <2>2. log' \in [Clients -> Seq(Entry)]
    BY <2>1, CallLog
  <2>3. toServer' \in [Clients -> Seq(Nat)]
    <3>1. toServer[c] \in Seq(Nat) /\ Len(log[c]) + 1 \in Nat
      BY CallsAre DEF SunType
    <3>2. Append(toServer[c], Len(log[c]) + 1) \in Seq(Nat)
      BY <3>1, AppendProperties
    <3>3. QED
      BY <1>1, <3>2 DEF Call, SunType
  <2>4. QED
    BY <1>1, <2>2, <2>3 DEF Call, SunType
<1>2. ASSUME NEW c \in Clients, Receive(c) PROVE SunType'
  <2> DEFINE r == toClient[c][1]
  <2>1. /\ Waiting(c) /\ toClient[c] # <<>> /\ r \in Reply
        /\ toClient' = [toClient EXCEPT ![c] = Tail(@)]
        /\ UNCHANGED <<toServer, server, queue, store, executed, up, corrupt>>
        /\ \/ UNCHANGED <<log, handle>>
           \/ /\ r.xid = Len(log[c]) /\ Ends(c, r.code, r.got)
              /\ handle' = IF log[c][Len(log[c])].op = "create"
                           THEN [handle EXCEPT ![c] = r.object] ELSE handle
    BY <1>2, ReceiveEffect
  <2> HIDE DEF r
  <2>2. r.code \in {"ok", "error", "failed"} /\ r.got \in Contents /\ r.object \in Names
    BY <2>1 DEF Reply
  <2>3. log' \in [Clients -> Seq(Entry)] /\ handle' \in [Clients -> Names]
    BY <2>1, <2>2, EndsLog DEF SunType
  <2>4. toClient' \in [Clients -> Seq(Reply)]
    <3>1. toClient[c] \in Seq(Reply)
      BY DEF SunType
    <3>2. Tail(toClient[c]) \in Seq(Reply)
      BY <2>1, <3>1
    <3>3. QED
      BY <2>1, <3>2 DEF SunType
  <2>5. QED
    BY <2>1, <2>3, <2>4 DEF SunType
<1>3. ASSUME NEW c \in Clients, CallFails(c) PROVE SunType'
  <2>1. Waiting(c) /\ Ends(c, "failed", Echo)
    BY <1>3 DEF CallFails
  <2>2. log' \in [Clients -> Seq(Entry)]
    BY <2>1, EndsLog DEF Contents
  <2>3. handle' \in [Clients -> Names]
    BY <1>3 DEF CallFails, SunType, Names
  <2>4. QED
    BY <1>3, <2>2, <2>3 DEF CallFails, SunType
<1>4. ASSUME NEW c \in Clients, Handle(c) PROVE SunType'
  <2> DEFINE i == executed[c] + 1
             call == log[c][i]
  <2>1. /\ i \in Nat /\ call \in Entry /\ Len(toServer[c]) >= 1
        /\ toServer' = [toServer EXCEPT ![c] = Tail(@)]
        /\ executed' = [executed EXCEPT ![c] = i]
        /\ UNCHANGED <<log, handle, toClient, up, corrupt>>
    BY <1>4, HandleEffect
  <2>2. /\ \/ server' = [stage |-> "handled", client |-> c, xid |-> i,
                         object |-> <<c, i>>, block |-> Echo]
           \/ server' = [stage |-> "handled", client |-> c, xid |-> i,
                         object |-> NULL, block |-> Echo]
           \/ server' = [stage |-> "handled", client |-> c, xid |-> i,
                         object |-> call.object, block |-> Echo]
        /\ \/ queue' = queue
           \/ queue' = [queue EXCEPT ![c] = Append(@, [xid |-> i, freed |-> FALSE])]
    BY <1>4, HandleEffect
  <2>3. \/ store' = store
        \/ store' = [x \in DOMAIN store \cup {<<c, i>>} |->
                       IF x = <<c, i>> THEN Unset ELSE store[x]]
        \/ store' = [x \in DOMAIN store \ {call.object} |-> store[x]]
    BY <1>4, HandleEffect
  <2> HIDE DEF i, call
  <2>4. toServer' \in [Clients -> Seq(Nat)] /\ executed' \in [Clients -> Nat]
    <3>1. toServer[c] \in Seq(Nat) /\ toServer[c] # <<>>
      BY <2>1 DEF SunType
    <3>2. Tail(toServer[c]) \in Seq(Nat)
      BY <3>1
    <3>3. QED
      BY <2>1, <3>2 DEF SunType
  <2>5. server' \in Request
    <3>1. <<c, i>> \in Names /\ NULL \in Names /\ call.object \in Names
      BY <2>1 DEF Names, Entry
    <3>2. QED
      BY <2>1, <2>2, <3>1, SMTT(30) DEF Request, Contents
  <2>6. queue' \in [Clients -> Seq(Command)]
    <3>1. queue[c] \in Seq(Command) /\ [xid |-> i, freed |-> FALSE] \in Command
      BY <2>1 DEF SunType, Command
    <3>2. Append(queue[c], [xid |-> i, freed |-> FALSE]) \in Seq(Command)
      BY <3>1, AppendProperties
    <3>3. QED
      BY <2>2, <3>2 DEF SunType
  <2>7. /\ DOMAIN store' \subseteq Clients \X Nat
        /\ \A o \in DOMAIN store' : store'[o] \in Contents
    BY <2>1, <2>3 DEF SunType, Contents
  <2>8. QED
    BY <2>1, <2>4, <2>5, <2>6, <2>7 DEF SunType
<1>5. ASSUME NEW c \in Clients, Drive(c) PROVE SunType'
  <2> DEFINE x == queue[c][1].xid
             call == log[c][x]
  <2>1. /\ queue[c] # <<>> /\ queue[c][1] \in Command /\ call \in Entry
        /\ queue' = [queue EXCEPT ![c] = Tail(@)]
        /\ UNCHANGED <<log, handle, toServer, toClient, executed, up>>
        /\ corrupt' = (call.op = "read" /\ queue[c][1].freed)
    BY <1>5, DriveEffect
  <2>2. \/ store' = store
        \/ store' = [store EXCEPT ![call.object] = call.val]
        \/ store' = [store EXCEPT ![call.object] = JUNK]
    <3>1. Runs(call, queue[c][1].freed)
      BY <1>5, DriveEffect
    <3>2. QED
      BY <3>1 DEF Runs
  <2>3. \/ server' = server
        \/ server' = [server EXCEPT !.block = IF call.object \in DOMAIN store
                                              THEN store[call.object] ELSE Echo]
    BY <1>5, DriveEffect
  <2> HIDE DEF x, call
  <2>4. corrupt' \in BOOLEAN
    BY <2>1, Zenon
  <2>5. queue' \in [Clients -> Seq(Command)]
    <3>1. queue[c] \in Seq(Command)
      BY DEF SunType
    <3>2. Tail(queue[c]) \in Seq(Command)
      BY <2>1, <3>1
    <3>3. QED
      BY <2>1, <3>2 DEF SunType
  <2>6. server' \in Request
    BY <2>3 DEF SunType, Request, Contents
  <2>7. /\ DOMAIN store' \subseteq Clients \X Nat
        /\ \A o \in DOMAIN store' : store'[o] \in Contents
    <3>1. call.val \in Contents /\ JUNK \in Contents
      BY <2>1 DEF Entry, Contents
    <3>2. QED
      BY <2>2, <3>1 DEF SunType
  <2>8. QED
    BY <2>1, <2>4, <2>5, <2>6, <2>7 DEF SunType
<1>6. CASE Answer
  <2> DEFINE c == server.client
  <2>1. /\ c \in Clients
        /\ UNCHANGED <<log, handle, toServer, queue, store, executed, corrupt>>
    BY <1>6, AnswerEffect
  <2>2. CASE Fatal
    <3>1. up' = FALSE /\ UNCHANGED <<server, toClient>>
      BY <1>6, <2>2, AnswerEffect
    <3>2. up' \in BOOLEAN
      BY <3>1, Zenon
    <3>3. QED
      BY <2>1, <3>1, <3>2 DEF SunType
  <2>3. CASE ~Fatal
    <3> HIDE DEF c
    <3>0. c = server.client
      BY DEF c
    <3>1. PICK r \in Reply :
            /\ toClient' = [toClient EXCEPT ![c] = Append(toClient[c], r)]
            /\ server' = [server EXCEPT !.stage = "answered"] /\ up' = up
      BY <3>0, <1>6, <2>3, AnswerEffect, ZenonT(40)
    <3>2. server' \in Request
      BY <3>1 DEF SunType, Request
    <3>3. Append(toClient[c], r) \in Seq(Reply)
      BY <2>1, AppendProperties DEF SunType
    <3>4. toClient' \in [Clients -> Seq(Reply)]
      BY <2>1, <3>1, <3>3 DEF SunType
    <3>5. QED
      BY <2>1, <3>1, <3>2, <3>4 DEF SunType
  <2>4. QED
    BY <2>2, <2>3
<1>7. CASE FreeArgs
  <2>1. /\ server' = Idle /\ queue' \in [Clients -> Seq(Command)]
        /\ UNCHANGED <<log, handle, toServer, toClient, store, executed, up, corrupt>>
    BY <1>7, FreeArgsEffect
  <2>2. server' \in Request
    BY <2>1 DEF Idle, Request, Names, Contents
  <2>3. QED
    BY <2>1, <2>2 DEF SunType
<1>8. CASE UNCHANGED vars
  BY <1>8 DEF vars, SunType
<1>9. QED
  BY <1>1, <1>2, <1>3, <1>4, <1>5, <1>6, <1>7, <1>8 DEF Next

-----------------------------------------------------------------------------
(* The wire *)

LEMMA NextWire ==
  SunType /\ WireInv /\ QueueInv /\ [Next]_vars => WireInv'
<1> SUFFICES ASSUME SunType, WireInv, QueueInv, [Next]_vars PROVE WireInv'
  OBVIOUS
<1>a. ASSUME \A d \in Clients : Len(log'[d]) = Len(log[d]), UNCHANGED <<toServer, executed>>,
             server'.stage # "idle" =>
               /\ server.stage # "idle" /\ server'.client = server.client
               /\ server'.xid = server.xid
      PROVE  WireInv'
  BY <1>a DEF WireInv
<1>1. ASSUME NEW c \in Clients, Call(c) PROVE WireInv'
  <2>1. PICK e \in Entry : log' = [log EXCEPT ![c] = Append(log[c], e)]
    BY <1>1, CallEffect
  <2>2. /\ Len(log'[c]) = Len(log[c]) + 1
        /\ \A d \in Clients : d # c => log'[d] = log[d]
    BY <2>1, CallLog
  <2>3. /\ toServer[c] \in Seq(Nat) /\ Len(log[c]) \in Nat /\ executed[c] \in Nat
    BY CallsAre DEF SunType
  <2>4. /\ toServer' = [toServer EXCEPT ![c] = Append(@, Len(log[c]) + 1)]
        /\ UNCHANGED <<executed, server>>
    BY <1>1 DEF Call
  <2>5. /\ toServer'[c] = Append(toServer[c], Len(log[c]) + 1)
        /\ \A d \in Clients : d # c => toServer'[d] = toServer[d]
    BY <2>4 DEF SunType
  <2>6. /\ Len(toServer'[c]) = Len(toServer[c]) + 1
        /\ toServer'[c][Len(toServer[c]) + 1] = Len(log[c]) + 1
        /\ \A j \in 1..Len(toServer[c]) : toServer'[c][j] = toServer[c][j]
    BY <2>3, <2>5, AppendProperties
  <2>7. executed[c] + Len(toServer[c]) = Len(log[c])
        /\ \A j \in 1..Len(toServer[c]) : toServer[c][j] = executed[c] + j
    BY DEF WireInv
  <2>8. PICK n \in Nat, m \in Nat : n = Len(log[c]) /\ m = Len(toServer[c])
    BY <2>3
  <2>9. /\ executed'[c] + Len(toServer'[c]) = Len(log'[c])
        /\ \A j \in 1..Len(toServer'[c]) : toServer'[c][j] = executed'[c] + j
    <3>1. executed[c] + m = n
      BY <2>7, <2>8
    <3>2. executed[c] + (m + 1) = n + 1
      BY <2>3, <3>1
    <3>3. ASSUME NEW j \in 1..(m + 1) PROVE toServer'[c][j] = executed[c] + j
      <4>1. CASE j = m + 1
        BY <2>6, <2>8, <3>2, <4>1
      <4>2. CASE j # m + 1
        <5>1. j \in 1..m
          BY <4>2
        <5>2. QED
          BY <2>6, <2>7, <2>8, <5>1
      <4>3. QED
        BY <4>1, <4>2
    <3>4. QED
      BY <2>2, <2>4, <2>6, <2>8, <3>2, <3>3
  <2>10. QED
    BY <2>2, <2>4, <2>5, <2>9 DEF WireInv
<1>2. ASSUME NEW c \in Clients, Receive(c) PROVE WireInv'
  <2> DEFINE r == toClient[c][1]
  <2>1. /\ Waiting(c) /\ r \in Reply /\ UNCHANGED <<toServer, server, executed>>
        /\ UNCHANGED log \/ Ends(c, r.code, r.got)
    BY <1>2, ReceiveEffect
  <2>2. r.code \in {"ok", "error", "failed"} /\ r.got \in Contents
    BY <2>1 DEF Reply
  <2>3. \A d \in Clients : Len(log'[d]) = Len(log[d])
    BY <2>1, <2>2, EndsLog
  <2>4. QED
    BY <1>a, <2>1, <2>3
<1>3. ASSUME NEW c \in Clients, CallFails(c) PROVE WireInv'
  <2>1. /\ Waiting(c) /\ Ends(c, "failed", Echo)
        /\ UNCHANGED <<toServer, server, executed>>
    BY <1>3 DEF CallFails
  <2>2. \A d \in Clients : Len(log'[d]) = Len(log[d])
    BY <2>1, EndsLog DEF Contents
  <2>3. QED
    BY <1>a, <2>1, <2>2
<1>4. ASSUME NEW c \in Clients, Handle(c) PROVE WireInv'
  <2> DEFINE i == executed[c] + 1
  <2>1. /\ i \in Nat /\ Len(toServer[c]) >= 1
        /\ toServer' = [toServer EXCEPT ![c] = Tail(@)]
        /\ executed' = [executed EXCEPT ![c] = i] /\ log' = log
    BY <1>4, HandleEffect
  <2>2. server'.client = c /\ server'.xid = i
    <3>1. \E o : server' = [stage |-> "handled", client |-> c, xid |-> i,
                            object |-> o, block |-> Echo]
      BY <1>4, HandleEffect
    <3>2. QED
      BY <3>1
  <2>3. /\ toServer[c] \in Seq(Nat) /\ executed[c] \in Nat /\ Len(log[c]) \in Nat
        /\ executed[c] + Len(toServer[c]) = Len(log[c])
        /\ \A j \in 1..Len(toServer[c]) : toServer[c][j] = executed[c] + j
    BY CallsAre DEF SunType, WireInv
  <2>4. /\ toServer'[c] = Tail(toServer[c]) /\ executed'[c] = i
        /\ \A d \in Clients : d # c => toServer'[d] = toServer[d]
                                       /\ executed'[d] = executed[d]
    BY <2>1 DEF SunType
  <2>5. /\ Len(Tail(toServer[c])) = Len(toServer[c]) - 1
        /\ \A j \in 1..(Len(toServer[c]) - 1) : Tail(toServer[c])[j] = toServer[c][j + 1]
    BY <2>1, <2>3
  <2>6. PICK m \in Nat, e \in Nat, n \in Nat :
          m = Len(toServer[c]) /\ e = executed[c] /\ n = Len(log[c])
    BY <2>3
  <2>7. e + m = n /\ i = e + 1
    BY <2>3, <2>6
  <2> HIDE DEF i
  <2>8. ASSUME NEW j \in 1..(m - 1) PROVE Tail(toServer[c])[j] = i + j
    <3>1. j + 1 \in 1..m /\ e + (j + 1) = i + j
      BY <2>7
    <3>2. toServer[c][j + 1] = e + (j + 1)
      BY <2>3, <2>6, <3>1
    <3>3. QED
      BY <2>5, <2>6, <3>1, <3>2
  <2>9. i + (m - 1) = Len(log[c])
    <3>1. i + (m - 1) = n
      BY <2>7
    <3>2. QED
      BY <2>6, <3>1
  <2>10. /\ executed'[c] + Len(toServer'[c]) = Len(log'[c])
         /\ \A j \in 1..Len(toServer'[c]) : toServer'[c][j] = executed'[c] + j
    BY <2>1, <2>4, <2>5, <2>6, <2>8, <2>9
  <2>11. i >= 1
    BY <2>7
  <2>12. \A d \in Clients :
           /\ executed'[d] + Len(toServer'[d]) = Len(log'[d])
           /\ \A j \in 1..Len(toServer'[d]) : toServer'[d][j] = executed'[d] + j
    BY <2>1, <2>4, <2>10, SMTT(30) DEF WireInv
  <2>13. QED
    BY <2>2, <2>4, <2>11, <2>12 DEF WireInv
<1>5. ASSUME NEW c \in Clients, Drive(c) PROVE WireInv'
  <2>1. /\ UNCHANGED <<log, toServer, executed>>
        /\ \/ server' = server
           \/ \E b : server' = [server EXCEPT !.block = b]
    BY <1>5, DriveEffect
  <2>2. server'.stage = server.stage /\ server'.client = server.client
        /\ server'.xid = server.xid
    BY <2>1 DEF SunType, Request
  <2>3. QED
    BY <1>a, <2>1, <2>2
<1>6. CASE Answer
  <2>1. /\ UNCHANGED <<log, toServer, executed>> /\ server.stage = "handled"
        /\ server' = server \/ server' = [server EXCEPT !.stage = "answered"]
    BY <1>6 DEF Answer
  <2>2. server'.client = server.client /\ server'.xid = server.xid
    BY <2>1 DEF SunType, Request
  <2>3. QED
    BY <1>a, <2>1, <2>2
<1>7. CASE FreeArgs
  BY <1>7, <1>a DEF FreeArgs, Idle
<1>8. CASE UNCHANGED vars
  BY <1>8, <1>a DEF vars
<1>9. QED
  BY <1>1, <1>2, <1>3, <1>4, <1>5, <1>6, <1>7, <1>8 DEF Next

-----------------------------------------------------------------------------
(* The clients' calls *)

\* What an answer on its way says of the call it ends.
LEMMA ReceiveEnds ==
  ASSUME SunType, RepliesInv, NEW c \in Clients, Receive(c), ~UNCHANGED <<log, handle>>
  PROVE  \E r \in Reply :
           /\ Waiting(c) /\ r.xid = Len(log[c]) /\ r.xid <= executed[c]
           /\ Ends(c, r.code, r.got)
           /\ r.code \in {"ok", "error", "failed"} /\ r.got \in Contents
           /\ handle' = IF log[c][Len(log[c])].op = "create"
                        THEN [handle EXCEPT ![c] = r.object] ELSE handle
           /\ log[c][Len(log[c])].op = "create" =>
                r.code = "ok" /\ Brings(c, r.xid, r.object)
           /\ log[c][Len(log[c])].op \in {"read", "map"} /\ r.code = "ok" =>
                Sees(c, r.xid, r.got)
<1> DEFINE r == toClient[c][1]
<1>1. /\ Waiting(c) /\ r \in Reply /\ toClient[c] # <<>>
      /\ r.xid = Len(log[c]) /\ Ends(c, r.code, r.got)
      /\ handle' = IF log[c][Len(log[c])].op = "create"
                   THEN [handle EXCEPT ![c] = r.object] ELSE handle
  BY ReceiveEffect
<1>2. 1 \in DOMAIN toClient[c]
  BY <1>1 DEF SunType
<1>3. /\ r.xid <= executed[c]
      /\ log[c][r.xid].op = "create" => r.code = "ok" /\ Brings(c, r.xid, r.object)
      /\ log[c][r.xid].op \in {"read", "map"} /\ r.code = "ok" => Sees(c, r.xid, r.got)
  BY <1>2 DEF RepliesInv, TrueReply
<1>4. r.code \in {"ok", "error", "failed"} /\ r.got \in Contents
  BY <1>1 DEF Reply
<1> HIDE DEF r
<1>5. QED
  BY <1>1, <1>3, <1>4

LEMMA NextKeeps ==
  SunType /\ WireInv /\ QueueInv /\ [Next]_vars =>
    Keeps /\ \A c \in Clients : executed[c] \in Nat /\ executed'[c] >= executed[c]
<1> SUFFICES ASSUME SunType, WireInv, QueueInv, [Next]_vars
             PROVE  Keeps /\ \A c \in Clients : executed[c] \in Nat /\ executed'[c] >= executed[c]
  OBVIOUS
<1>a. \A c \in Clients : executed[c] \in Nat
  BY DEF SunType
<1>b. ASSUME log' = log PROVE Keeps
  BY <1>b DEF Keeps, Calls
<1>1. ASSUME NEW c \in Clients, Call(c) PROVE Keeps /\ executed' = executed
  BY <1>1, CallEffect, CallLog, ZenonT(40) DEF Call
<1>2. ASSUME NEW c \in Clients, Receive(c) PROVE Keeps /\ executed' = executed
  <2> DEFINE r == toClient[c][1]
  <2>1. /\ Waiting(c) /\ r \in Reply /\ UNCHANGED executed
        /\ UNCHANGED log \/ Ends(c, r.code, r.got)
    BY <1>2, ReceiveEffect
  <2>2. r.code \in {"ok", "error", "failed"} /\ r.got \in Contents
    BY <2>1 DEF Reply
  <2>3. QED
    BY <1>b, <2>1, <2>2, EndsLog
<1>3. ASSUME NEW c \in Clients, CallFails(c) PROVE Keeps /\ executed' = executed
  BY <1>3, EndsLog DEF CallFails, Contents
<1>4. ASSUME NEW c \in Clients, Handle(c)
      PROVE  /\ Keeps
             /\ \A d \in Clients : executed'[d] >= executed[d]
  <2>1. log' = log /\ executed' = [executed EXCEPT ![c] = executed[c] + 1]
    BY <1>4, HandleEffect
  <2>2. QED
    BY <1>a, <1>b, <2>1 DEF SunType
<1>5. ASSUME NEW c \in Clients, Drive(c) PROVE Keeps /\ executed' = executed
  BY <1>5, <1>b DEF Drive
<1>6. CASE Answer \/ FreeArgs
  BY <1>6, <1>a, <1>b DEF Answer, FreeArgs
<1>7. CASE UNCHANGED vars
  BY <1>7, <1>a, <1>b DEF vars
<1>8. QED
  BY <1>a, <1>1, <1>2, <1>3, <1>4, <1>5, <1>6, <1>7 DEF Next

LEMMA ReleasedStays ==
  ASSUME SunType, Keeps, NEW c \in Clients, executed'[c] >= executed[c],
         executed'[c] \in Nat, Released(c)
  PROVE  Released(c)'
<1>1. PICK j \in Calls(c) : j <= executed[c] /\ log[c][j].op = "release"
  BY DEF Released
<1>2. j \in DOMAIN log'[c] /\ log'[c][j].op = "release" /\ j \in Nat
      /\ executed[c] \in Nat
  BY <1>1, CallsAre DEF Keeps, SunType
<1>3. j <= executed'[c]
  BY <1>1, <1>2
<1>4. QED
  BY <1>2, <1>3 DEF Released, Calls

\* A client whose create has not been answered holds nothing, and its calls
\* name nothing.
LEMMA CreateAlone ==
  ASSUME SunType, LogInv, HandleInv, NEW c \in Clients, NEW i \in Calls(c),
         log[c][i].op = "create", log[c][i].outcome # "ok"
  PROVE  handle[c] = NULL /\ \A j \in Calls(c) : log[c][j].object = NULL
<1>1. handle[c] = NULL
  <2> SUFFICES ASSUME handle[c] # NULL PROVE FALSE
    OBVIOUS
  <2>1. PICK k \in Calls(c) : log[c][k].op = "create" /\ log[c][k].outcome = "ok"
    BY DEF HandleInv
  <2>2. k # i /\ k \in Nat /\ i \in Nat
    BY <2>1, CallsAre
  <2>3. (k < i \/ i < k) /\ Lawful(c, i) /\ Lawful(c, k)
    BY <2>2 DEF LogInv
  <2>4. QED
    BY <2>1, <2>3 DEF Lawful
<1>2. QED
  BY <1>1 DEF LogInv, Lawful

LEMMA NextLog ==
  SunType /\ WireInv /\ LogInv /\ HandleInv /\ QueueInv /\ RepliesInv /\ [Next]_vars
    => LogInv'
<1> SUFFICES ASSUME SunType, WireInv, LogInv, HandleInv, QueueInv, RepliesInv, [Next]_vars
             PROVE  LogInv'
  OBVIOUS
<1>k. Keeps /\ \A d \in Clients : executed[d] \in Nat /\ executed'[d] >= executed[d]
  BY NextKeeps
<1>n. \A d \in Clients : \A i \in Calls(d) : i \in Nat /\ i >= 1
  BY CallsAre
<1>t. \A d \in Clients : executed'[d] \in Nat
  BY NextTypes DEF SunType
<1>u. ASSUME NEW d \in Clients, log'[d] = log[d], handle'[d] = handle[d], NEW i \in DOMAIN log'[d]
      PROVE  Lawful(d, i)'
  <2>1. i \in Calls(d) /\ Lawful(d, i) /\ i \in Nat
    BY <1>u, <1>n DEF LogInv, Calls
  <2>2. i <= executed[d] => i <= executed'[d]
    BY <1>k, <1>t, <2>1
  <2>3. QED
    BY <1>u, <2>1, <2>2 DEF Lawful, Calls
\* A call that ends, and what its client holds then.
<1>e. ASSUME NEW c \in Clients, Waiting(c), NEW how \in {"ok", "error", "failed"},
             NEW got \in Contents, Ends(c, how, got), NEW o, executed' = executed,
             handle' = IF log[c][Len(log[c])].op = "create"
                       THEN [handle EXCEPT ![c] = o] ELSE handle,
             how \in {"ok", "error"} => Len(log[c]) <= executed[c],
             log[c][Len(log[c])].op = "create" => how # "error"
      PROVE  LogInv'
  <2>1. /\ Len(log[c]) \in Calls(c) /\ log[c][Len(log[c])].outcome = "none"
        /\ log'[c][Len(log[c])].outcome = how
        /\ \A d \in Clients : DOMAIN log'[d] = Calls(d)
        /\ \A d \in Clients : d # c => log'[d] = log[d]
        /\ \A i \in Calls(c) : i # Len(log[c]) => log'[c][i] = log[c][i]
    BY <1>e, EndsLog
  <2>2. PICK n \in Nat : n = Len(log[c])
    BY CallsAre
  <2>3. \A d \in Clients : d # c => handle'[d] = handle[d]
    BY <1>e DEF SunType
  <2>4. \A i \in Calls(c) : log[c][i].object \in {NULL, handle'[c]}
    <3>1. CASE log[c][n].op = "create"
      BY <2>1, <2>2, <3>1, CreateAlone
    <3>2. CASE log[c][n].op # "create"
      BY <1>e, <2>2, <3>2 DEF LogInv, Lawful
    <3>3. QED
      BY <3>1, <3>2
  <2>5. \A i \in Calls(c) : i <= n
    BY <2>2, CallsAre
  <2>6. ASSUME NEW i \in Calls(c) PROVE Lawful(c, i)'
    <3>1. Lawful(c, i) /\ i \in Nat /\ i <= n
      BY <1>n, <2>5 DEF LogInv
    <3>2. \A j \in Calls(c) : /\ j \in DOMAIN log'[c] /\ log'[c][j].op = log[c][j].op
                              /\ log'[c][j].blocking = log[c][j].blocking
                              /\ log'[c][j].object = log[c][j].object
      BY <1>k DEF Keeps
    <3>3. ASSUME NEW j \in Calls(c), j < i PROVE log'[c][j] = log[c][j]
      <4>1. j # n
        BY <1>n, <2>2, <3>1, <3>3
      <4>2. QED
        BY <2>1, <2>2, <4>1
    <3>4. log'[c][i].outcome \in {"ok", "error"} => i <= executed'[c]
      <4>1. CASE i = n
        BY <1>e, <2>1, <2>2, <4>1
      <4>2. CASE i # n
        BY <1>e, <2>1, <2>2, <3>1, <4>2 DEF Lawful
      <4>3. QED
        BY <4>1, <4>2
    <3>5. log'[c][i].op = "create" => log'[c][i].outcome # "error"
      <4>1. CASE i = n
        BY <1>e, <2>1, <2>2, <3>2, <4>1
      <4>2. CASE i # n
        BY <2>1, <2>2, <3>1, <4>2 DEF Lawful
      <4>3. QED
        BY <4>1, <4>2
    <3>6. DOMAIN log'[c] = Calls(c)
      BY <2>1
    <3>7. QED
      BY <2>4, <3>1, <3>2, <3>3, <3>4, <3>5, <3>6 DEF Lawful, Calls
  <2>7. QED
    BY <1>u, <2>1, <2>3, <2>6 DEF LogInv, Calls
<1>1. ASSUME NEW c \in Clients, Call(c) PROVE LogInv'
  <2>1. PICK e \in Entry :
          /\ log' = [log EXCEPT ![c] = Append(log[c], e)]
          /\ e.outcome = "none" /\ e.object = handle[c] /\ Legal(c, e.op)
          /\ e.op \notin Transfers => e.blocking
          /\ ~Waiting(c)
    BY <1>1, CallEffect
  <2>2. PICK n \in Nat : n = Len(log[c])
    BY CallsAre
  <2>3. /\ DOMAIN log'[c] = 1..(n + 1) /\ log'[c][n + 1] = e
        /\ \A i \in Calls(c) : log'[c][i] = log[c][i]
        /\ \A d \in Clients : d # c => log'[d] = log[d]
    BY <2>1, <2>2, CallLog
  <2>4. Calls(c) = 1..n
    BY <2>2, CallsAre
  <2>5. handle' = handle /\ executed' = executed
    BY <1>1 DEF Call
  <2>6. \A j \in Calls(c) : log[c][j].outcome # "none"
    <3>1. ASSUME NEW j \in Calls(c), j < n PROVE log[c][j].outcome # "none"
      <4>1. n \in Calls(c)
        BY <2>4, <3>1
      <4>2. QED
        BY <3>1, <4>1 DEF LogInv, Lawful
    <3>2. n \in Calls(c) => log[c][n].outcome # "none"
      BY <2>1, <2>2, <2>4 DEF Waiting, Last, Calls
    <3>3. QED
      BY <2>4, <3>1, <3>2
  <2>7. ASSUME NEW i \in Calls(c) PROVE Lawful(c, i)'
    <3>1. Lawful(c, i) /\ i \in Nat
      BY <1>n DEF LogInv
    <3>2. i \in 1..n /\ log'[c][i] = log[c][i]
      BY <2>3, <2>4
    <3>3. \A j \in DOMAIN log'[c] : j < i => j \in Calls(c) /\ log'[c][j] = log[c][j]
      BY <2>3, <2>4, <3>2
    <3>4. ASSUME log[c][i].op \notin {"create", "finish"}
          PROVE  \E k \in DOMAIN log'[c] : k < i /\ log'[c][k].op = "create"
      <4>1. PICK k \in Calls(c) : k < i /\ log[c][k].op = "create"
        BY <3>1, <3>4 DEF Lawful
      <4>2. k \in DOMAIN log'[c]
        BY <2>3, <2>4, <4>1
      <4>3. QED
        BY <2>3, <4>1, <4>2
    <3>5. QED
      BY <2>5, <3>1, <3>2, <3>3, <3>4 DEF Lawful, Calls
  <2>8. Lawful(c, n + 1)'
    <3>1. log'[c][n + 1] = e
      BY <2>3
    <3>2. Made(c, "create") => \E k \in Calls(c) : log[c][k].op = "create"
      BY <2>2, <2>4 DEF Made
    <3>3. \A k \in Calls(c) : /\ log[c][k].op = "create" => Made(c, "create")
                              /\ log[c][k].op = "release" => Made(c, "release")
      BY <2>2, <2>4 DEF Made
    <3>4. \A k \in Calls(c) : log[c][k].op = "release" => Made(c, "create")
      BY <3>3 DEF LogInv, Lawful
    <3>5. e.op = "create" => handle[c] = NULL
      <4>1. ASSUME e.op = "create", handle[c] # NULL PROVE FALSE
        <5>1. PICK k \in Calls(c) : log[c][k].op = "create"
          BY <4>1 DEF HandleInv
        <5>2. QED
          BY <2>1, <3>3, <4>1, <5>1 DEF Legal
      <4>2. QED
        BY <4>1
    <3>6. ASSUME e.op \notin {"create", "finish"}
          PROVE  \E k \in DOMAIN log'[c] : k < n + 1 /\ log'[c][k].op = "create"
      <4>1. Made(c, "create")
        BY <2>1, <3>6 DEF Legal
      <4>2. PICK k \in Calls(c) : log[c][k].op = "create"
        BY <3>2, <4>1
      <4>3. k \in DOMAIN log'[c] /\ k < n + 1
        BY <2>3, <2>4, <4>2
      <4>4. QED
        BY <2>3, <4>2, <4>3
    <3>7. \A j \in DOMAIN log'[c] : j < n + 1 => j \in Calls(c) /\ log'[c][j] = log[c][j]
      BY <2>3, <2>4
    <3>8. \A j \in Calls(c) :
            /\ log[c][j].op = "create" => e.op # "create"
            /\ log[c][j].op = "release" => e.op = "finish"
      BY <2>1, <3>3, <3>4 DEF Legal
    <3>9. \A j \in Calls(c)' : j < n + 1 =>
            /\ log'[c][j].op = "create" => e.op # "create"
            /\ log'[c][j].op = "release" => e.op = "finish"
            /\ log'[c][j].outcome # "none"
      BY <2>6, <3>7, <3>8 DEF Calls
    <3>10. e.op \notin {"create", "finish"} =>
             \E k \in Calls(c)' : k < n + 1 /\ log'[c][k].op = "create"
      BY <3>6 DEF Calls
    <3>11. QED
      BY <2>1, <2>5, <3>1, <3>5, <3>9, <3>10 DEF Lawful
  <2>9. DOMAIN log'[c] = Calls(c) \cup {n + 1}
    BY <2>3, <2>4
  <2>10. QED
    BY <1>u, <2>3, <2>5, <2>7, <2>8, <2>9 DEF LogInv, Calls
<1>2. ASSUME NEW c \in Clients, Receive(c) PROVE LogInv'
  <2>1. CASE UNCHANGED <<log, handle>>
    BY <1>u, <2>1 DEF LogInv, Calls
  <2>2. CASE ~UNCHANGED <<log, handle>>
    <3>1. PICK r \in Reply :
            /\ Waiting(c) /\ r.xid = Len(log[c]) /\ r.xid <= executed[c]
            /\ Ends(c, r.code, r.got)
            /\ r.code \in {"ok", "error", "failed"} /\ r.got \in Contents
            /\ handle' = IF log[c][Len(log[c])].op = "create"
                         THEN [handle EXCEPT ![c] = r.object] ELSE handle
            /\ log[c][Len(log[c])].op = "create" => r.code = "ok"
      BY <1>2, <2>2, ReceiveEnds
    <3>2. executed' = executed
      BY <1>2 DEF Receive
    <3>3. QED
      BY <1>e, <3>1, <3>2
  <2>3. QED
    BY <2>1, <2>2
<1>3. ASSUME NEW c \in Clients, CallFails(c) PROVE LogInv'
  <2>1. /\ Waiting(c) /\ Ends(c, "failed", Echo) /\ executed' = executed
        /\ handle' = IF log[c][Len(log[c])].op = "create"
                     THEN [handle EXCEPT ![c] = NULL] ELSE handle
    BY <1>3 DEF CallFails, Last
  <2>2. Echo \in Contents
    BY DEF Contents
  <2>3. QED
    BY <1>e, <2>1, <2>2
<1>4. ASSUME UNCHANGED <<log, handle>> PROVE LogInv'
  BY <1>u, <1>4 DEF LogInv, Calls
<1>5. QED
  BY <1>1, <1>2, <1>3, <1>4 DEF Next, Handle, Drive, Answer, FreeArgs, vars

-----------------------------------------------------------------------------
(* Objects *)

\* Only an executed release takes an object from the driver, and only an
\* executed create adds one.
LEMMA NextStore ==
  ASSUME SunType, WireInv, LogInv, HandleInv, QueueInv, [Next]_vars
  PROVE  /\ \A o \in DOMAIN store : o \in DOMAIN store' \/ Released(o[1])'
         /\ \A o \in DOMAIN store' \ DOMAIN store :
              /\ o \in Clients \X Nat /\ o[2] = executed[o[1]] + 1
              /\ o[2] \in Calls(o[1]) /\ log[o[1]][o[2]].op = "create"
              /\ executed'[o[1]] = o[2] /\ UNCHANGED <<log, handle>>
              /\ store'[o] = Unset
<1> DEFINE Goal == /\ \A o \in DOMAIN store : o \in DOMAIN store' \/ Released(o[1])'
                   /\ \A o \in DOMAIN store' \ DOMAIN store :
                        /\ o \in Clients \X Nat /\ o[2] = executed[o[1]] + 1
                        /\ o[2] \in Calls(o[1]) /\ log[o[1]][o[2]].op = "create"
                        /\ executed'[o[1]] = o[2] /\ UNCHANGED <<log, handle>>
                        /\ store'[o] = Unset
<1>0. DOMAIN store' = DOMAIN store => Goal
  OBVIOUS
<1>1. ASSUME NEW c \in Clients, Handle(c) PROVE Goal
  <2> DEFINE i == executed[c] + 1
  <2>1. /\ i \in Calls(c) /\ i \in Nat /\ UNCHANGED <<log, handle>>
        /\ executed' = [executed EXCEPT ![c] = i]
    BY <1>1, HandleEffect
  <2>2. executed'[c] = i
    BY <2>1 DEF SunType
  <2>3. \/ store' = store
        \/ /\ log[c][i].op = "create"
           /\ store' = [x \in DOMAIN store \cup {<<c, i>>} |->
                          IF x = <<c, i>> THEN Unset ELSE store[x]]
        \/ /\ log[c][i].op = "release" /\ log[c][i].object # NULL
           /\ store' = [x \in DOMAIN store \ {log[c][i].object} |-> store[x]]
    BY <1>1, HandleEffect
  <2>4. CASE store' = store
    BY <1>0, <2>4
  <2>5. CASE /\ log[c][i].op = "create"
             /\ store' = [x \in DOMAIN store \cup {<<c, i>>} |->
                            IF x = <<c, i>> THEN Unset ELSE store[x]]
    <3> HIDE DEF i
    <3>1. /\ DOMAIN store' = DOMAIN store \cup {<<c, i>>}
          /\ store'[<<c, i>>] = Unset
      BY <2>5
    <3>2. i = executed[c] + 1
      BY DEF i
    <3>3. <<c, i>> \in Clients \X Nat /\ <<c, i>>[1] = c /\ <<c, i>>[2] = i
      BY <2>1
    <3>4. QED
      BY <2>1, <2>2, <2>5, <3>1, <3>2, <3>3
  <2>6. CASE /\ log[c][i].op = "release" /\ log[c][i].object # NULL
             /\ store' = [x \in DOMAIN store \ {log[c][i].object} |-> store[x]]
    <3> HIDE DEF i
    <3>1. DOMAIN store' = DOMAIN store \ {log[c][i].object}
      BY <2>6
    <3>2. log[c][i].object = handle[c]
      BY <2>1, <2>6 DEF LogInv, Lawful
    <3>3. PICK k : handle[c] = <<c, k>>
      BY <2>6, <3>2 DEF HandleInv
    <3>4. Released(c)'
      BY <2>1, <2>2, <2>6 DEF Released, Calls
    <3>5. ASSUME NEW o \in DOMAIN store, o \notin DOMAIN store'
          PROVE  Released(o[1])'
      <4>1. o[1] = c
        BY <3>1, <3>2, <3>3, <3>5
      <4>2. QED
        BY <3>4, <4>1
    <3>6. QED
      BY <3>1, <3>5
  <2>7. QED
    BY <2>3, <2>4, <2>5, <2>6
<1>2. ASSUME NEW c \in Clients, Drive(c) PROVE Goal
  <2>1. \/ store' = store
        \/ \E o, v : store' = [store EXCEPT ![o] = v]
    BY <1>2, DriveEffect, ZenonT(40) DEF Runs
  <2>2. QED
    BY <1>0, <2>1
<1>3. CASE UNCHANGED store
  BY <1>0, <1>3
<1>4. QED
  BY <1>1, <1>2, <1>3 DEF Next, Call, Receive, CallFails, Answer, FreeArgs, vars

LEMMA BringsStays ==
  ASSUME SunType, WireInv, LogInv, HandleInv, QueueInv, [Next]_vars,
         NEW c \in Clients, NEW i \in Nat, i <= executed[c], NEW o, Brings(c, i, o)
  PROVE  Brings(c, i, o)'
<1>1. /\ Keeps /\ executed[c] \in Nat /\ executed'[c] >= executed[c]
      /\ executed'[c] \in Nat
  BY NextKeeps, NextTypes DEF SunType
<1>2. Released(c) => Released(c)'
  BY <1>1, ReleasedStays
<1>3. <<c, i>> \in DOMAIN store' => <<c, i>> \in DOMAIN store
  <2>1. ASSUME <<c, i>> \in DOMAIN store' \ DOMAIN store PROVE FALSE
    <3>1. <<c, i>>[2] = executed[<<c, i>>[1]] + 1
      BY <2>1, NextStore
    <3>2. i = executed[c] + 1
      BY <3>1
    <3>3. QED
      BY <1>1, <3>2
  <2>2. QED
    BY <2>1
<1>4. o # NULL => o \in DOMAIN store' \/ Released(c)'
  <2>1. ASSUME o # NULL, o \in DOMAIN store PROVE o \in DOMAIN store' \/ Released(c)'
    <3>1. o[1] = c
      BY <2>1 DEF Brings
    <3>2. QED
      BY <2>1, <3>1, NextStore
  <2>2. QED
    BY <1>2, <2>1 DEF Brings
<1>5. QED
  BY <1>3, <1>4 DEF Brings

\* What a step can do to what a client holds.
LEMMA HandleChange ==
  ASSUME SunType, RepliesInv, [Next]_vars, NEW c \in Clients, handle'[c] # handle[c]
  PROVE  /\ Len(log[c]) \in Calls(c) /\ log[c][Len(log[c])].op = "create"
         /\ log[c][Len(log[c])].outcome = "none" /\ UNCHANGED <<store, executed>>
         /\ \/ handle'[c] = NULL /\ log'[c][Len(log[c])].outcome = "failed"
            \/ /\ log'[c][Len(log[c])].outcome = "ok"
               /\ Brings(c, Len(log[c]), handle'[c])
<1> DEFINE n == Len(log[c])
           Goal == /\ n \in Calls(c) /\ log[c][n].op = "create"
                   /\ log[c][n].outcome = "none" /\ UNCHANGED <<store, executed>>
                   /\ \/ handle'[c] = NULL /\ log'[c][n].outcome = "failed"
                      \/ /\ log'[c][n].outcome = "ok"
                         /\ Brings(c, n, handle'[c])
<1>1. ASSUME NEW d \in Clients, Receive(d) PROVE Goal
  <2>1. ~UNCHANGED <<log, handle>>
    OBVIOUS
  <2>2. PICK r \in Reply :
          /\ Waiting(d) /\ r.xid = Len(log[d]) /\ Ends(d, r.code, r.got)
          /\ r.code \in {"ok", "error", "failed"} /\ r.got \in Contents
          /\ handle' = IF log[d][Len(log[d])].op = "create"
                       THEN [handle EXCEPT ![d] = r.object] ELSE handle
          /\ log[d][Len(log[d])].op = "create" =>
               r.code = "ok" /\ Brings(d, r.xid, r.object)
    BY <1>1, <2>1, ReceiveEnds
  <2>3. d = c /\ log[c][n].op = "create" /\ handle'[c] = r.object
    BY <2>2 DEF SunType
  <2>4. /\ n \in Calls(c) /\ log[c][n].outcome = "none"
        /\ log'[c][n].outcome = r.code
    BY <2>2, <2>3, EndsLog
  <2>5. UNCHANGED <<store, executed>>
    BY <1>1 DEF Receive
  <2>6. QED
    BY <2>2, <2>3, <2>4, <2>5
<1>2. ASSUME NEW d \in Clients, CallFails(d) PROVE Goal
  <2>1. /\ Waiting(d) /\ Ends(d, "failed", Echo) /\ UNCHANGED <<store, executed>>
        /\ handle' = IF log[d][Len(log[d])].op = "create"
                     THEN [handle EXCEPT ![d] = NULL] ELSE handle
    BY <1>2 DEF CallFails, Last
  <2>2. d = c /\ log[c][n].op = "create" /\ handle'[c] = NULL
    BY <2>1 DEF SunType
  <2>3. Echo \in Contents
    BY DEF Contents
  <2>4. /\ n \in Calls(c) /\ log[c][n].outcome = "none"
        /\ log'[c][n].outcome = "failed"
    BY <2>1, <2>2, <2>3, EndsLog
  <2>5. QED
    BY <2>1, <2>2, <2>4
<1>3. CASE UNCHANGED handle
  BY <1>3
<1>4. QED
  BY <1>1, <1>2, <1>3 DEF Next, Call, Handle, Drive, Answer, FreeArgs, vars

LEMMA NextHandle ==
  SunType /\ WireInv /\ LogInv /\ HandleInv /\ QueueInv /\ RepliesInv /\ [Next]_vars
    => HandleInv'
<1> SUFFICES ASSUME SunType, WireInv, LogInv, HandleInv, QueueInv, RepliesInv,
                    [Next]_vars, NEW c \in Clients, handle'[c] # NULL
             PROVE  /\ \E k \in Calls(c)' : /\ handle'[c] = <<c, k>>
                                            /\ log'[c][k].op = "create"
                                            /\ log'[c][k].outcome = "ok"
                    /\ handle'[c] \in DOMAIN store' \/ Released(c)'
  BY DEF HandleInv
<1>1. /\ Keeps /\ executed[c] \in Nat /\ executed'[c] >= executed[c]
      /\ executed'[c] \in Nat
  BY NextKeeps, NextTypes DEF SunType
<1>2. Released(c) => Released(c)'
  BY <1>1, ReleasedStays
<1>3. CASE handle'[c] = handle[c]
  <2>1. PICK k \in Calls(c) : /\ handle[c] = <<c, k>> /\ log[c][k].op = "create"
                              /\ log[c][k].outcome = "ok"
    BY <1>3 DEF HandleInv
  <2>2. k \in Calls(c)' /\ log'[c][k].op = "create" /\ log'[c][k].outcome = "ok"
    BY <1>1, <2>1 DEF Keeps, Calls
  <2>3. handle[c] \in DOMAIN store => handle[c] \in DOMAIN store' \/ Released(c)'
    <3>1. handle[c][1] = c
      BY <2>1
    <3>2. QED
      BY <3>1, NextStore
  <2>4. handle[c] \in DOMAIN store \/ Released(c)
    BY <1>3 DEF HandleInv
  <2>5. QED
    BY <1>2, <1>3, <2>1, <2>2, <2>3, <2>4
<1>4. CASE handle'[c] # handle[c]
  <2> DEFINE n == Len(log[c])
  <2>1. /\ n \in Calls(c) /\ log[c][n].op = "create" /\ UNCHANGED store
        /\ log'[c][n].outcome = "ok" /\ Brings(c, n, handle'[c])
    BY <1>4, HandleChange
  <2> HIDE DEF n
  <2>2. n \in Calls(c)' /\ log'[c][n].op = "create"
    BY <1>1, <2>1 DEF Keeps, Calls
  <2>3. handle'[c] = <<c, n>> /\ (handle'[c] \in DOMAIN store \/ Released(c))
    BY <2>1 DEF Brings
  <2>4. QED
    BY <1>2, <2>1, <2>2, <2>3
<1>5. QED
  BY <1>3, <1>4

\* A call is answered with "ok" by the reply to it, which says what a create
\* brings and what a read sees.
LEMMA OkComes ==
  ASSUME SunType, LogInv, HandleInv, RepliesInv, [Next]_vars, NEW c \in Clients,
         NEW i \in Calls(c), log[c][i].outcome # "ok", log'[c][i].outcome = "ok"
  PROVE  /\ i = Len(log[c])
         /\ log[c][i].op = "create" => Brings(c, i, handle'[c])
         /\ log[c][i].op \in {"read", "map"} => Sees(c, i, log'[c][i].got)
<1> DEFINE Goal == /\ i = Len(log[c])
                   /\ log[c][i].op = "create" => Brings(c, i, handle'[c])
                   /\ log[c][i].op \in {"read", "map"} => Sees(c, i, log'[c][i].got)
<1>1. ASSUME NEW d \in Clients, Receive(d) PROVE Goal
  <2>1. ~UNCHANGED <<log, handle>>
    OBVIOUS
  <2>2. PICK r \in Reply :
          /\ Waiting(d) /\ r.xid = Len(log[d]) /\ Ends(d, r.code, r.got)
          /\ r.code \in {"ok", "error", "failed"} /\ r.got \in Contents
          /\ handle' = IF log[d][Len(log[d])].op = "create"
                       THEN [handle EXCEPT ![d] = r.object] ELSE handle
          /\ log[d][Len(log[d])].op = "create" =>
               r.code = "ok" /\ Brings(d, r.xid, r.object)
          /\ log[d][Len(log[d])].op \in {"read", "map"} /\ r.code = "ok" =>
               Sees(d, r.xid, r.got)
    BY <1>1, <2>1, ReceiveEnds
  <2>3. /\ log'[d][Len(log[d])].outcome = r.code /\ log'[d][Len(log[d])].got = r.got
        /\ \A e \in Clients : e # d => log'[e] = log[e]
        /\ \A j \in Calls(d) : j # Len(log[d]) => log'[d][j] = log[d][j]
    BY <2>2, EndsLog
  <2>4. d = c /\ i = Len(log[c])
    BY <2>3
  <2>5. log[c][i].op = "create" => handle'[c] = r.object
    BY <2>2, <2>4 DEF SunType
  <2>6. QED
    BY <2>2, <2>3, <2>4, <2>5
<1>2. ASSUME NEW d \in Clients, CallFails(d) PROVE Goal
  <2>1. Waiting(d) /\ Ends(d, "failed", Echo) /\ Echo \in Contents
    BY <1>2 DEF CallFails, Contents
  <2>2. /\ log'[d][Len(log[d])].outcome = "failed"
        /\ \A e \in Clients : e # d => log'[e] = log[e]
        /\ \A j \in Calls(d) : j # Len(log[d]) => log'[d][j] = log[d][j]
    BY <2>1, EndsLog
  <2>3. QED
    BY <2>2
<1>3. ASSUME NEW d \in Clients, Call(d) PROVE Goal
  <2>1. PICK e \in Entry : log' = [log EXCEPT ![d] = Append(log[d], e)]
    BY <1>3, CallEffect
  <2>2. log'[c][i] = log[c][i]
    BY <2>1, CallLog
  <2>3. QED
    BY <2>2
<1>4. CASE UNCHANGED log
  BY <1>4
<1>5. QED
  BY <1>1, <1>2, <1>3, <1>4 DEF Next, Handle, Drive, Answer, FreeArgs, vars

\* The request the server is busy with.
LEMMA BusyWith ==
  ASSUME SunType, WireInv, server.stage # "idle"
  PROVE  \E c \in Clients, i \in Nat :
           c = server.client /\ i = server.xid /\ i = executed[c] /\ i \in Calls(c)
<1>1. server.client \in Clients /\ server.xid = executed[server.client] /\ server.xid >= 1
  BY DEF WireInv
<1>2. PICK c \in Clients, i \in Nat, n \in Nat, m \in Nat :
        /\ c = server.client /\ i = server.xid /\ i = executed[c]
        /\ n = Len(log[c]) /\ m = Len(toServer[c])
  BY <1>1, CallsAre DEF SunType, Request
<1>3. i + m = n /\ i >= 1
  BY <1>1, <1>2 DEF WireInv
<1>4. i \in 1..n
  BY <1>2, <1>3
<1>5. QED
  BY <1>2, <1>4, CallsAre

LEMMA NextObjects ==
  SunType /\ WireInv /\ LogInv /\ HandleInv /\ ObjectsInv /\ QueueInv /\ RepliesInv
  /\ [Next]_vars => ObjectsInv'
<1> SUFFICES ASSUME SunType, WireInv, LogInv, HandleInv, ObjectsInv, QueueInv,
                    RepliesInv, [Next]_vars
             PROVE  ObjectsInv'
  OBVIOUS
<1>1. /\ Keeps /\ SunType'
      /\ \A c \in Clients : /\ executed[c] \in Nat /\ executed'[c] >= executed[c]
                            /\ executed'[c] \in Nat
  BY NextKeeps, NextTypes DEF SunType
<1>2. ASSUME NEW o \in DOMAIN store'
      PROVE  /\ o[2] \in Calls(o[1])' /\ o[2] <= executed'[o[1]]
             /\ log'[o[1]][o[2]].op = "create"
             /\ log'[o[1]][o[2]].outcome = "ok" => handle'[o[1]] = o
  <2>1. PICK c \in Clients, k \in Nat : o = <<c, k>>
    BY <1>1 DEF SunType
  <2>2. CASE o \in DOMAIN store
    <3>1. /\ k \in Calls(c) /\ k <= executed[c] /\ log[c][k].op = "create"
          /\ log[c][k].outcome = "ok" => handle[c] = o
      BY <2>1, <2>2 DEF ObjectsInv
    <3>2. k \in Calls(c)' /\ k <= executed'[c] /\ log'[c][k].op = "create"
      BY <1>1, <2>1, <3>1 DEF Keeps, Calls
    <3>3. ASSUME log'[c][k].outcome = "ok" PROVE handle'[c] = o
      <4>1. CASE log[c][k].outcome = "ok"
        <5>1. handle[c] = o /\ o # NULL
          BY <2>1, <3>1, <4>1, SunAssumption
        <5>2. ASSUME handle'[c] # handle[c] PROVE FALSE
          <6>1. /\ Len(log[c]) \in Calls(c) /\ log[c][Len(log[c])].op = "create"
                /\ log[c][Len(log[c])].outcome = "none"
            BY <5>2, HandleChange
          <6>2. handle[c] = NULL
            BY <6>1, CreateAlone
          <6>3. QED
            BY <5>1, <6>2
        <5>3. QED
          BY <5>1, <5>2
      <4>2. CASE log[c][k].outcome # "ok"
        <5>1. k = Len(log[c]) /\ Brings(c, k, handle'[c])
          BY <3>1, <3>3, <4>2, OkComes
        <5>2. QED
          BY <2>1, <2>2, <5>1 DEF Brings
      <4>3. QED
        BY <4>1, <4>2
    <3>4. QED
      BY <2>1, <3>2, <3>3
  <2>3. CASE o \notin DOMAIN store
    <3>1. /\ k = executed[c] + 1 /\ k \in Calls(c) /\ log[c][k].op = "create"
          /\ executed'[c] = k /\ log' = log
      BY <2>1, <2>3, NextStore
    <3>2. log[c][k].outcome # "ok"
      BY <1>1, <3>1 DEF LogInv, Lawful
    <3>3. QED
      BY <2>1, <3>1, <3>2 DEF Calls
  <2>4. QED
    BY <2>2, <2>3
<1>3. ASSUME server'.stage # "idle"
      PROVE  IF Now'.op = "create"
             THEN Brings(server.client, server.xid, server.object)'
             ELSE server'.object = Now'.object
  <2>1. ASSUME server.stage # "idle", server'.client = server.client,
               server'.xid = server.xid, server'.object = server.object
        PROVE  IF Now'.op = "create"
               THEN Brings(server.client, server.xid, server.object)'
               ELSE server'.object = Now'.object
    <3>1. PICK c \in Clients, i \in Nat : /\ c = server.client /\ i = server.xid
                                          /\ i = executed[c] /\ i \in Calls(c)
      BY <2>1, BusyWith
    <3>2. Now'.op = Now.op /\ Now'.object = Now.object
      BY <1>1, <2>1, <3>1 DEF Keeps, Now
    <3>3. PICK o : o = server.object
      OBVIOUS
    <3>4. CASE Now.op = "create"
      <4>1. Brings(c, i, o)
        BY <2>1, <3>1, <3>3, <3>4 DEF ObjectsInv
      <4>2. Brings(c, i, o)'
        BY <1>1, <3>1, <4>1, BringsStays
      <4>3. QED
        BY <2>1, <3>1, <3>2, <3>3, <3>4, <4>2 DEF Brings, Released, Calls
    <3>5. CASE Now.op # "create"
      BY <2>1, <3>2, <3>5 DEF ObjectsInv
    <3>6. QED
      BY <3>4, <3>5
  <2>2. ASSUME NEW c \in Clients, Handle(c)
        PROVE  IF Now'.op = "create"
               THEN Brings(server.client, server.xid, server.object)'
               ELSE server'.object = Now'.object
    <3> DEFINE i == executed[c] + 1
    <3>1. /\ i \in Calls(c) /\ i \in Nat /\ log' = log
      BY <2>2, HandleEffect
    <3>2. \/ /\ log[c][i].op = "create"
             /\ \E made \in {<<c, i>>, NULL} :
                  /\ server' = [stage |-> "handled", client |-> c, xid |-> i,
                                object |-> made, block |-> Echo]
                  /\ store' = IF made = NULL THEN store
                              ELSE [x \in DOMAIN store \cup {<<c, i>>} |->
                                      IF x = <<c, i>> THEN Unset ELSE store[x]]
          \/ /\ log[c][i].op # "create"
             /\ server' = [stage |-> "handled", client |-> c, xid |-> i,
                           object |-> log[c][i].object, block |-> Echo]
      BY <2>2, HandleEffect
    <3>3. i > executed[c]
      BY <1>1
    <3> HIDE DEF i
    <3>4. CASE log[c][i].op = "create"
      <4>1. PICK made \in {<<c, i>>, NULL} :
              /\ server' = [stage |-> "handled", client |-> c, xid |-> i,
                            object |-> made, block |-> Echo]
              /\ store' = IF made = NULL THEN store
                          ELSE [x \in DOMAIN store \cup {<<c, i>>} |->
                                  IF x = <<c, i>> THEN Unset ELSE store[x]]
        BY <3>2, <3>4
      <4>2. <<c, i>> \notin DOMAIN store
        <5>1. ASSUME <<c, i>> \in DOMAIN store PROVE FALSE
          <6>1. <<c, i>>[2] <= executed[<<c, i>>[1]]
            BY <5>1 DEF ObjectsInv
          <6>2. QED
            BY <1>1, <3>1, <3>3, <6>1
        <5>2. QED
          BY <5>1
      <4>3. /\ server'.client = c /\ server'.xid = i /\ server'.object = made
            /\ Now'.op = "create"
        BY <3>1, <3>4, <4>1 DEF Now
      <4>4. <<c, i>> \in DOMAIN store' => made = <<c, i>>
        BY <4>1, <4>2
      <4>5. made # NULL => made \in DOMAIN store'
        BY <4>1
      <4>6. QED
        BY <4>3, <4>4, <4>5 DEF Brings
    <3>5. CASE log[c][i].op # "create"
      BY <3>1, <3>2, <3>5 DEF Now
    <3>6. QED
      BY <3>4, <3>5
  <2>3. ASSUME UNCHANGED server
        PROVE  IF Now'.op = "create"
               THEN Brings(server.client, server.xid, server.object)'
               ELSE server'.object = Now'.object
    BY <1>3, <2>1, <2>3
  <2>4. ASSUME NEW c \in Clients, Drive(c)
        PROVE  /\ server.stage # "idle" /\ server'.client = server.client
               /\ server'.xid = server.xid /\ server'.object = server.object
    <3>1. \/ server' = server
          \/ \E b : server' = [server EXCEPT !.block = b]
      BY <2>4, DriveEffect
    <3>2. QED
      BY <1>3, <3>1 DEF SunType, Request
  <2>5. CASE Answer
    <3>1. /\ server.stage = "handled"
          /\ server' = server \/ server' = [server EXCEPT !.stage = "answered"]
      BY <2>5 DEF Answer
    <3>2. /\ server'.client = server.client
          /\ server'.xid = server.xid /\ server'.object = server.object
      BY <3>1 DEF SunType, Request
    <3>3. QED
      BY <2>1, <3>1, <3>2
  <2>6. CASE FreeArgs
    BY <1>3, <2>6 DEF FreeArgs, Idle
  <2>7. QED
    BY <2>1, <2>2, <2>3, <2>4, <2>5, <2>6 DEF Next, Call, Receive, CallFails, vars
<1>4. QED
  BY <1>2, <1>3 DEF ObjectsInv

-----------------------------------------------------------------------------
(* The driver's queue *)

LEMMA QueueTypes ==
  ASSUME SunType, QueueInv, NEW c \in Clients
  PROVE  /\ queue[c] \in Seq(Command) /\ Len(queue[c]) \in Nat
         /\ DOMAIN queue[c] = 1..Len(queue[c])
         /\ queue[c] # <<>> <=> Len(queue[c]) >= 1
         /\ \A a \in DOMAIN queue[c] :
              /\ a \in Nat /\ queue[c][a] \in Command /\ queue[c][a].xid \in Nat
              /\ queue[c][a].freed \in BOOLEAN
              /\ Listed(c, a) /\ HasBlocks(c, a)
         /\ \A j \in Calls(c) : NotLost(c, j)
<1>1. queue[c] \in Seq(Command)
  BY DEF SunType
<1>2. \A a \in DOMAIN queue[c] : queue[c][a] \in Command
  BY <1>1
<1>3. QED
  BY <1>1, <1>2 DEF QueueInv, Command

\* Where the queue and the executed calls of a client stay, so does their order.
LEMMA QueueStays ==
  ASSUME SunType, SunType', WireInv, QueueInv, Keeps, NEW c \in Clients,
         queue'[c] = queue[c], executed'[c] = executed[c]
  PROVE  /\ \A a \in DOMAIN queue'[c] :
              /\ Listed(c, a)'
              /\ Blocks(log'[c][queue'[c][a].xid]) = Blocks(log[c][queue[c][a].xid])
         /\ \A j \in Calls(c)' : NotLost(c, j)'
<1>1. ASSUME NEW a \in DOMAIN queue'[c]
      PROVE  /\ Listed(c, a)'
             /\ Blocks(log'[c][queue'[c][a].xid]) = Blocks(log[c][queue[c][a].xid])
  <2>1. a \in DOMAIN queue[c] /\ Listed(c, a)
    BY <1>1, QueueTypes
  <2>2. PICK x : x = queue[c][a].xid
    OBVIOUS
  <2>3. x \in Calls(c)
    BY <2>1, <2>2 DEF Listed
  <2>4. /\ x \in Calls(c)' /\ log'[c][x].op = log[c][x].op
        /\ log'[c][x].blocking = log[c][x].blocking
        /\ log'[c][x].object = log[c][x].object
    BY <2>3 DEF Keeps, Calls
  <2>5. Listed(c, a)'
    BY <2>1, <2>2, <2>4 DEF Listed
  <2>6. QED
    BY <2>2, <2>4, <2>5 DEF Blocks
<1>2. ASSUME NEW j \in Calls(c)'
      PROVE  NotLost(c, j)'
  <2>1. CASE j \in Calls(c)
    <3>1. NotLost(c, j)
      BY <2>1, QueueTypes
    <3>2. log'[c][j].op = log[c][j].op /\ log'[c][j].object = log[c][j].object
      BY <2>1 DEF Keeps
    <3>3. QED
      BY <3>1, <3>2 DEF NotLost
  <2>2. CASE j \notin Calls(c)
    <3>1. PICK n \in Nat, m \in Nat, e \in Nat :
            n = Len(log[c]) /\ m = Len(toServer[c]) /\ e = executed[c]
      BY CallsAre DEF SunType
    <3>2. e + m = n
      BY <3>1 DEF WireInv
    <3>3. j \in Nat /\ j >= 1
      BY <1>2 DEF SunType, Calls
    <3>4. j \notin 1..n
      BY <2>2, <3>1, CallsAre
    <3>5. ~(j <= e)
      BY <3>2, <3>3, <3>4
    <3>6. QED
      BY <3>1, <3>5 DEF NotLost
  <2>3. QED
    BY <2>1, <2>2
<1>3. QED
  BY <1>1, <1>2

LEMMA NextQueue ==
  SunType /\ WireInv /\ QueueInv /\ [Next]_vars => QueueInv'
<1> SUFFICES ASSUME SunType, WireInv, QueueInv, [Next]_vars, NEW c \in Clients
             PROVE  /\ \A a \in DOMAIN queue'[c] : Listed(c, a)' /\ HasBlocks(c, a)'
                    /\ \A j \in Calls(c)' : NotLost(c, j)'
  BY DEF QueueInv
<1> DEFINE Goal == /\ \A a \in DOMAIN queue'[c] : Listed(c, a)' /\ HasBlocks(c, a)'
                   /\ \A j \in Calls(c)' : NotLost(c, j)'
<1>1. Keeps /\ SunType' /\ executed[c] \in Nat
  BY NextKeeps, NextTypes
<1>2. ASSUME queue'[c] = queue[c], executed'[c] = executed[c],
             Busy(c)' = Busy(c), Busy(c) => server'.xid = server.xid,
             \A a \in DOMAIN queue[c] :
               ~queue[c][a].freed /\ server'.stage = "answered" =>
                 ~Blocks(log[c][queue[c][a].xid])
      PROVE  Goal
  <2>1. ASSUME NEW a \in DOMAIN queue'[c] PROVE HasBlocks(c, a)'
    <3>1. a \in DOMAIN queue[c] /\ HasBlocks(c, a)
      BY <1>2, <2>1, QueueTypes
    <3>2. Blocks(log'[c][queue'[c][a].xid]) = Blocks(log[c][queue[c][a].xid])
      BY <1>1, <1>2, <2>1, QueueStays
    <3>3. QED
      BY <1>2, <3>1, <3>2 DEF HasBlocks
  <2>2. QED
    BY <1>1, <1>2, <2>1, QueueStays
<1>3. CASE UNCHANGED <<queue, executed, server>>
  <2>1. \A a \in DOMAIN queue[c] :
          server.stage = "answered" => ~Blocks(log[c][queue[c][a].xid])
    BY QueueTypes DEF HasBlocks
  <2>2. QED
    BY <1>2, <1>3, <2>1 DEF Busy
<1>4. CASE Answer
  <2>1. PICK d : d = server.client
    OBVIOUS
  <2>2. /\ UNCHANGED <<log, queue, executed>> /\ d \in Clients
        /\ server.stage = "handled" /\ (Blocks(Now) => queue[d] = <<>>)
        /\ server' = server \/ server' = [server EXCEPT !.stage = "answered"]
    BY <1>4, <2>1, AnswerEffect DEF Answer
  <2>3. server'.client = server.client /\ server'.xid = server.xid
        /\ server'.stage \in {"handled", "answered"}
    BY <2>2 DEF SunType, Request
  <2>4. ASSUME NEW a \in DOMAIN queue[c], ~queue[c][a].freed
        PROVE  ~Blocks(log[c][queue[c][a].xid])
    <3>1. HasBlocks(c, a) /\ queue[c] # <<>>
      BY QueueTypes, <2>4
    <3>2. Busy(c) /\ server.xid = queue[c][a].xid
      BY <2>4, <3>1 DEF HasBlocks
    <3>3. ~Blocks(Now)
      BY <2>1, <2>2, <3>1, <3>2 DEF Busy
    <3>4. QED
      BY <3>2, <3>3 DEF Now, Busy
  <2>5. QED
    BY <1>2, <2>2, <2>3, <2>4 DEF Busy
<1>5. CASE FreeArgs
  <2>1. PICK d : d = server.client
    OBVIOUS
  <2>2. /\ server.stage = "answered" /\ d \in Clients /\ server' = Idle
        /\ UNCHANGED <<log, executed>>
        /\ \A e \in Clients : e # d => queue'[e] = queue[e]
        /\ DOMAIN queue'[d] = DOMAIN queue[d] /\ Len(queue'[d]) = Len(queue[d])
        /\ \A a \in DOMAIN queue[d] :
             /\ queue'[d][a].xid = queue[d][a].xid
             /\ queue'[d][a].freed = (queue[d][a].freed \/ queue[d][a].xid = server.xid)
    BY <1>5, <2>1, FreeArgsEffect
  <2>3. ~Busy(c)' /\ server'.stage = "idle"
    BY <2>2 DEF Busy, Idle
  <2>4. CASE c # d
    BY <1>2, <2>1, <2>2, <2>3, <2>4 DEF Busy
  <2>5. CASE c = d
    <3>1. ASSUME NEW a \in DOMAIN queue'[c] PROVE Listed(c, a)'
      <4>1. a \in DOMAIN queue[c] /\ Listed(c, a)
        BY <2>2, <2>5, <3>1, QueueTypes
      <4>2. QED
        BY <2>2, <2>5, <4>1 DEF Listed, Calls
    <3>2. ASSUME NEW a \in DOMAIN queue'[c] PROVE HasBlocks(c, a)'
      <4>1. a \in DOMAIN queue[c] /\ HasBlocks(c, a)
        BY <2>2, <2>5, <3>2, QueueTypes
      <4>2. Busy(c)
        BY <2>1, <2>2, <2>5 DEF Busy
      <4>3. queue'[c][a].freed /\ queue'[c][a].xid = queue[c][a].xid
        BY <2>2, <2>5, <4>1, <4>2, Zenon DEF HasBlocks
      <4>4. ~Blocks(log[c][queue[c][a].xid])
        BY <2>2, <4>1 DEF HasBlocks
      <4>5. QED
        BY <2>2, <2>3, <4>3, <4>4 DEF HasBlocks
    <3>3. ASSUME NEW j \in Calls(c)' PROVE NotLost(c, j)'
      <4>1. j \in Calls(c) /\ NotLost(c, j)
        BY <2>2, <3>3, QueueTypes DEF Calls
      <4>2. queue[c] \in Seq(Command) /\ queue'[c] \in Seq(Command)
        BY <1>1 DEF SunType
      <4>3. queue'[c] # <<>> => queue[c] # <<>> /\ 1 \in DOMAIN queue[c]
        BY <2>2, <2>5, <4>2
      <4>4. QED
        BY <2>2, <2>5, <4>1, <4>3 DEF NotLost
    <3>4. QED
      BY <3>1, <3>2, <3>3
  <2>6. QED
    BY <2>4, <2>5
<1>6. ASSUME NEW d \in Clients, Drive(d) PROVE Goal
  <2>1. /\ queue[d] # <<>> /\ queue' = [queue EXCEPT ![d] = Tail(@)]
        /\ UNCHANGED <<log, executed>>
        /\ server' = server \/ \E b : server' = [server EXCEPT !.block = b]
    BY <1>6, DriveEffect
  <2>2. /\ server'.stage = server.stage /\ server'.client = server.client
        /\ server'.xid = server.xid
    BY <2>1 DEF SunType, Request
  <2>3. \A a \in DOMAIN queue[c] :
          server.stage = "answered" => ~Blocks(log[c][queue[c][a].xid])
    BY QueueTypes DEF HasBlocks
  <2>4. CASE c # d
    <3>1. queue'[c] = queue[c]
      BY <2>1, <2>4 DEF SunType
    <3>2. QED
      BY <1>2, <2>1, <2>2, <2>3, <3>1 DEF Busy
  <2>5. CASE c = d
    <3>1. PICK n \in Nat : n = Len(queue[c])
      BY QueueTypes
    <3>2. queue[c] \in Seq(Command) /\ DOMAIN queue[c] = 1..n
      BY <3>1, QueueTypes
    <3>3. queue'[c] = Tail(queue[c])
      BY <2>1, <2>5 DEF SunType
    <3>4. n >= 1
      BY <2>1, <2>5, <3>1, QueueTypes
    <3>5. /\ DOMAIN queue'[c] = 1..(n - 1)
          /\ \A a \in 1..(n - 1) : a + 1 \in 1..n /\ queue'[c][a] = queue[c][a + 1]
      BY <3>1, <3>2, <3>3, <3>4
    <3>6. ASSUME NEW a \in DOMAIN queue'[c] PROVE Listed(c, a)' /\ HasBlocks(c, a)'
      <4>1. PICK b \in 1..n : b = a + 1 /\ queue'[c][a] = queue[c][b] /\ a \in 1..(n - 1)
        BY <3>5, <3>6
      <4>2. Listed(c, b) /\ HasBlocks(c, b)
        BY <3>2, QueueTypes
      <4>3. HasBlocks(c, a)'
        BY <2>1, <2>2, <4>1, <4>2 DEF HasBlocks, Busy
      <4>4. ASSUME NEW k \in DOMAIN queue'[c], a < k
            PROVE  queue'[c][a].xid < queue'[c][k].xid
        <5>1. k + 1 \in DOMAIN queue[c] /\ queue'[c][k] = queue[c][k + 1] /\ b < k + 1
          BY <3>2, <3>5, <4>1, <4>4
        <5>2. QED
          BY <4>1, <4>2, <5>1 DEF Listed
      <4>5. QED
        BY <2>1, <4>1, <4>2, <4>3, <4>4 DEF Listed, Calls
    <3>7. ASSUME NEW j \in Calls(c)' PROVE NotLost(c, j)'
      <4> SUFFICES ASSUME log[c][j].op \in Writes, log[c][j].object # NULL,
                          j <= executed[c], queue'[c] # <<>>, j >= queue'[c][1].xid
                   PROVE  \E a \in DOMAIN queue'[c] : queue'[c][a].xid = j
        BY <2>1 DEF NotLost
      <4>1. j \in Calls(c) /\ j \in Nat /\ NotLost(c, j)
        BY <2>1, <3>7, QueueTypes, CallsAre DEF Calls
      <4>2. queue'[c] \in Seq(Command)
        BY <1>1 DEF SunType
      <4>3. n >= 2
        <5>1. 1 \in DOMAIN queue'[c]
          BY <4>2
        <5>2. QED
          BY <3>5, <5>1
      <4>4. 1 \in DOMAIN queue[c] /\ 2 \in DOMAIN queue[c] /\ queue'[c][1] = queue[c][2]
        BY <3>2, <3>5, <4>3
      <4>5. Listed(c, 1)
        BY <4>4, QueueTypes
      <4>6. PICK x \in Nat, y \in Nat :
              x = queue[c][1].xid /\ y = queue[c][2].xid /\ x < y /\ j >= y
        <5>1. queue[c][1].xid < queue[c][2].xid
          BY <4>4, <4>5 DEF Listed
        <5>2. queue[c][1].xid \in Nat /\ queue[c][2].xid \in Nat
          BY <4>4, QueueTypes
        <5>3. QED
          BY <4>4, <5>1, <5>2
      <4>7. j >= x /\ j # x
        BY <4>1, <4>6
      <4>8. PICK a \in DOMAIN queue[c] : queue[c][a].xid = j
        BY <2>1, <2>5, <4>1, <4>6, <4>7 DEF NotLost
      <4>9. a # 1 /\ a \in 1..n
        BY <3>2, <4>6, <4>7, <4>8
      <4>10. a - 1 \in 1..(n - 1) /\ queue'[c][a - 1] = queue[c][(a - 1) + 1]
        BY <3>5, <4>9
      <4>11. (a - 1) + 1 = a
        BY <4>9
      <4>12. QED
        BY <3>5, <4>8, <4>10, <4>11
    <3>8. QED
      BY <3>6, <3>7
  <2>6. QED
    BY <2>4, <2>5
<1>7. ASSUME NEW d \in Clients, Handle(d) PROVE Goal
  <2>1. PICK i : i = executed[d] + 1
    OBVIOUS
  <2> DEFINE call == log[d][i]
  <2>2. /\ server.stage = "idle" /\ i \in Calls(d) /\ i \in Nat
        /\ executed' = [executed EXCEPT ![d] = i] /\ log' = log
        /\ server'.stage = "handled" /\ server'.client = d /\ server'.xid = i
        /\ \/ /\ \/ call.op \in {"create", "release", "finish"}
                 \/ call.object = NULL
              /\ queue' = queue
           \/ /\ call.op \notin {"create", "release", "finish"}
              /\ call.object # NULL
              /\ queue' = [queue EXCEPT ![d] = Append(@, [xid |-> i, freed |-> FALSE])]
    <3>1. /\ server.stage = "idle" /\ i \in Calls(d) /\ i \in Nat
          /\ executed' = [executed EXCEPT ![d] = i] /\ log' = log
      BY <1>7, <2>1, HandleEffect
    <3>2. \E o : server' = [stage |-> "handled", client |-> d, xid |-> i,
                            object |-> o, block |-> Echo]
      BY <1>7, <2>1, HandleEffect
    <3>3. \/ /\ \/ call.op \in {"create", "release", "finish"}
                \/ call.object = NULL
             /\ queue' = queue
          \/ /\ call.op \notin {"create", "release", "finish"}
             /\ call.object # NULL
             /\ queue' = [queue EXCEPT ![d] = Append(@, [xid |-> i, freed |-> FALSE])]
      BY <1>7, <2>1, HandleEffect
    <3>4. QED
      BY <3>1, <3>2, <3>3
  <2>3. ~Busy(c)
    BY <2>2 DEF Busy
  <2>4. CASE c # d
    <3>1. queue'[c] = queue[c] /\ executed'[c] = executed[c]
      BY <2>2, <2>4 DEF SunType
    <3>2. ~Busy(c)' /\ server'.stage # "answered"
      BY <2>2, <2>4 DEF Busy
    <3>3. Busy(c)' = Busy(c)
      BY <2>3, <3>2 DEF Busy
    <3>4. QED
      BY <1>2, <2>3, <3>1, <3>2, <3>3
  <2>5. CASE c = d
    <3>1. executed'[c] = i /\ executed[c] \in Nat /\ i = executed[c] + 1 /\ i \in Calls(c)
      BY <2>1, <2>2, <2>5 DEF SunType
    <3>2. Busy(c)' /\ server'.xid = i
      BY <2>2, <2>5 DEF Busy
    <3>3. call \in Entry /\ call = log[c][i]
      BY <2>2, <2>5, CallsAre
    <3> HIDE DEF call
    <3>4. ASSUME NEW a \in DOMAIN queue[c], queue'[c][a] = queue[c][a] PROVE HasBlocks(c, a)'
      <4>1. Listed(c, a) /\ HasBlocks(c, a) /\ queue[c][a].xid \in Nat
        BY <3>4, QueueTypes
      <4>2. queue[c][a].xid # i /\ queue[c][a].freed
        BY <2>3, <3>1, <4>1 DEF Listed, HasBlocks
      <4>3. ~Blocks(log[c][queue[c][a].xid])
        BY <4>1, <4>2 DEF HasBlocks
      <4>4. QED
        BY <2>2, <3>2, <3>4, <4>2, <4>3 DEF HasBlocks
    <3>5. \A a \in DOMAIN queue[c] : queue[c][a].xid < i /\ Listed(c, a)
      <4>1. ASSUME NEW a \in DOMAIN queue[c] PROVE queue[c][a].xid < i /\ Listed(c, a)
        <5>1. PICK x \in Nat : x = queue[c][a].xid
          BY <4>1, QueueTypes
        <5>2. x <= executed[c] /\ Listed(c, a)
          BY <4>1, <5>1, QueueTypes DEF Listed
        <5>3. QED
          BY <3>1, <5>1, <5>2
      <4>2. QED
        BY <4>1
    <3>6. ASSUME NEW j \in Calls(c)', j <= i, j # i
          PROVE  j \in Calls(c) /\ j \in Nat /\ NotLost(c, j) /\ j <= executed[c]
      <4>1. j \in Calls(c) /\ j \in Nat
        BY <2>2, <3>6, CallsAre DEF Calls
      <4>2. QED
        BY <2>2, <3>1, <3>6, <4>1, QueueTypes
    <3>7. CASE /\ call.op \in {"create", "release", "finish"} \/ call.object = NULL
               /\ queue' = queue
      <4>1. ASSUME NEW a \in DOMAIN queue'[c] PROVE Listed(c, a)' /\ HasBlocks(c, a)'
        <5>1. a \in DOMAIN queue[c] /\ HasBlocks(c, a)'
          BY <3>4, <3>7, <4>1
        <5>2. PICK x \in Nat : x = queue[c][a].xid
          BY <5>1, QueueTypes
        <5>3. x < i
          BY <3>5, <5>1, <5>2
        <5>4. Listed(c, a)'
          <6>1. /\ queue'[c][a].xid = x /\ x \in Calls(c) /\ log'[c][x] = log[c][x]
                /\ x \in DOMAIN log'[c] /\ x <= executed'[c]
            <7>1. queue'[c][a].xid = x /\ log' = log
              BY <2>2, <3>7, <5>2
            <7>2. x \in Calls(c)
              BY <3>5, <5>1, <5>2 DEF Listed
            <7>3. x <= executed'[c]
              BY <3>1, <5>3
            <7>4. QED
              BY <7>1, <7>2, <7>3 DEF Calls
          <6>2. \A b \in DOMAIN queue'[c] : a < b => queue'[c][a].xid < queue'[c][b].xid
            BY <3>5, <3>7, <5>1 DEF Listed
          <6>3. QED
            BY <3>5, <5>1, <5>2, <6>1, <6>2 DEF Listed, Calls
        <5>5. QED
          BY <5>1, <5>4
      <4>2. ASSUME NEW j \in Calls(c)' PROVE NotLost(c, j)'
        <5>1. CASE j = i
          BY <2>2, <3>3, <3>7, <5>1 DEF NotLost, Writes
        <5>2. CASE j # i
          BY <2>2, <3>1, <3>6, <3>7, <4>2, <5>2 DEF NotLost
        <5>3. QED
          BY <5>1, <5>2
      <4>3. QED
        BY <4>1, <4>2
    <3>8. CASE /\ call.op \notin {"create", "release", "finish"} /\ call.object # NULL
               /\ queue' = [queue EXCEPT ![d] = Append(@, [xid |-> i, freed |-> FALSE])]
      <4> DEFINE cmd == [xid |-> i, freed |-> FALSE]
      <4>1. PICK n \in Nat : n = Len(queue[c])
        BY QueueTypes
      <4>2. queue'[c] = Append(queue[c], cmd)
        BY <2>5, <3>8 DEF SunType
      <4>3. cmd \in Command /\ cmd.xid = i /\ cmd.freed = FALSE
        BY <2>2 DEF Command
      <4> HIDE DEF cmd
      <4>4. queue[c] \in Seq(Command) /\ DOMAIN queue[c] = 1..n
        BY <4>1, QueueTypes
      <4>5. /\ DOMAIN queue'[c] = 1..(n + 1) /\ queue'[c][n + 1] = cmd
            /\ \A a \in 1..n : queue'[c][a] = queue[c][a]
        BY <4>1, <4>2, <4>3, <4>4, AppendProperties
      <4>6. ASSUME NEW a \in DOMAIN queue'[c] PROVE Listed(c, a)' /\ HasBlocks(c, a)'
        <5>1. CASE a \in 1..n
          <6>1. HasBlocks(c, a)'
            BY <3>4, <4>4, <4>5, <5>1
          <6>2. PICK x \in Nat : x = queue[c][a].xid /\ x < i /\ Listed(c, a)
            BY <3>5, <4>4, <5>1, QueueTypes
          <6>3. queue'[c][a].xid = x
            BY <4>5, <5>1, <6>2
          <6>4. ASSUME NEW b \in DOMAIN queue'[c], a < b PROVE x < queue'[c][b].xid
            <7>1. CASE b \in 1..n
              BY <4>4, <4>5, <5>1, <6>2, <6>4, <7>1 DEF Listed
            <7>2. CASE b = n + 1
              BY <4>3, <4>5, <6>2, <7>2
            <7>3. QED
              BY <4>5, <6>4, <7>1, <7>2
          <6>5. /\ x \in Calls(c)' /\ x <= executed'[c]
                /\ log'[c][x].op \in Writes \cup {"read", "map"}
                /\ log'[c][x].object # NULL
            <7>1. /\ x \in Calls(c) /\ x <= executed[c]
                  /\ log[c][x].op \in Writes \cup {"read", "map"}
                  /\ log[c][x].object # NULL
              BY <6>2 DEF Listed
            <7>2. log'[c] = log[c] /\ Calls(c)' = Calls(c)
              BY <2>2, <3>1 DEF Calls
            <7>3. x <= executed'[c]
              BY <2>2, <3>1, <6>2, <7>1
            <7>4. QED
              BY <7>1, <7>2, <7>3
          <6>6. QED
            BY <6>1, <6>3, <6>4, <6>5 DEF Listed
        <5>2. CASE a = n + 1
          <6>1. queue'[c][a].xid = i /\ queue'[c][a].freed = FALSE
            BY <4>3, <4>5, <5>2
          <6>2. HasBlocks(c, a)'
            BY <2>2, <3>2, <6>1 DEF HasBlocks
          <6>3. \A b \in DOMAIN queue'[c] : ~(a < b)
            BY <4>5, <5>2
          <6>4. log'[c][i].op \in Writes \cup {"read", "map"} /\ log'[c][i].object # NULL
            BY <2>2, <3>3, <3>8 DEF Writes, Entry, Ops
          <6>5. i \in Calls(c)' /\ i <= executed'[c]
            BY <2>2, <3>1 DEF Calls
          <6>6. QED
            BY <6>1, <6>2, <6>3, <6>4, <6>5 DEF Listed
        <5>3. QED
          BY <4>5, <4>6, <5>1, <5>2
      <4>7. ASSUME NEW j \in Calls(c)' PROVE NotLost(c, j)'
        <5>1. CASE j = i
          <6>1. n + 1 \in DOMAIN queue'[c] /\ queue'[c][n + 1].xid = j
            BY <4>3, <4>5, <5>1
          <6>2. QED
            BY <6>1 DEF NotLost
        <5>2. CASE j # i
          <6> SUFFICES ASSUME log[c][j].op \in Writes, log[c][j].object # NULL,
                              j <= i, j >= queue'[c][1].xid
                       PROVE  \E a \in DOMAIN queue'[c] : queue'[c][a].xid = j
            BY <2>2, <3>1 DEF NotLost
          <6>1. j \in Calls(c) /\ j \in Nat /\ NotLost(c, j) /\ j <= executed[c]
            BY <3>6, <4>7, <5>2
          <6>2. n # 0
            BY <2>2, <4>3, <4>5, <5>2, <6>1
          <6>3. queue[c] # <<>> /\ j >= queue[c][1].xid
            BY <4>1, <4>4, <4>5, <6>2, QueueTypes
          <6>4. PICK a \in DOMAIN queue[c] : queue[c][a].xid = j
            BY <6>1, <6>3 DEF NotLost
          <6>5. QED
            BY <4>4, <4>5, <6>4
        <5>3. QED
          BY <5>1, <5>2
      <4>8. QED
        BY <4>6, <4>7
    <3>9. QED
      BY <2>2, <3>7, <3>8
  <2>6. QED
    BY <2>4, <2>5
<1>8. QED
  BY <1>3, <1>4, <1>5, <1>6, <1>7 DEF Next, Call, Receive, CallFails, vars

-----------------------------------------------------------------------------
(* What the objects hold *)

LEMMA WritesAre ==
  ASSUME SunType, SunType', Keeps, NEW c \in Clients, NEW o, NEW m \in Nat,
         NEW n \in Nat, n = Len(log[c]), m <= n + 1
  PROVE  /\ WritesTo(c, o, m)' = WritesTo(c, o, m)
         /\ \A j \in WritesTo(c, o, m) :
              /\ log'[c][j].op = log[c][j].op /\ log'[c][j].val = log[c][j].val
              /\ log'[c][j].blocking = log[c][j].blocking
<1>1. Calls(c) = 1..n
  BY CallsAre
<1>2. \A j \in Calls(c)' : j \in Nat /\ j >= 1
  BY DEF SunType, Calls
<1>3. \A j \in Calls(c)' : j < m => j \in Calls(c)
  BY <1>1, <1>2
<1>4. \A j \in Calls(c) :
        /\ j \in Calls(c)' /\ log'[c][j].op = log[c][j].op
        /\ log'[c][j].val = log[c][j].val /\ log'[c][j].object = log[c][j].object
        /\ log'[c][j].blocking = log[c][j].blocking
  BY DEF Keeps, Calls
<1>5. QED
  BY <1>3, <1>4 DEF WritesTo

\* What the calls before m leave does not change.
LEMMA LeftStays ==
  ASSUME SunType, SunType', Keeps, NEW c \in Clients, NEW o, NEW m \in Nat, NEW v,
         m <= Len(log[c]) + 1, Left(c, o, m, v)
  PROVE  Left(c, o, m, v)'
<1>1. PICK n \in Nat : n = Len(log[c])
  BY CallsAre
<1> DEFINE W == WritesTo(c, o, m)
<1>2. /\ WritesTo(c, o, m)' = W
      /\ \A j \in W : /\ log'[c][j].op = log[c][j].op /\ log'[c][j].val = log[c][j].val
                      /\ log'[c][j].blocking = log[c][j].blocking
  BY <1>1, WritesAre
<1>3. \/ W = {} /\ v = Unset
      \/ \E w \in W :
           /\ \A k \in W : k <= w
           /\ \/ v = log[c][w].val
              \/ v = JUNK /\ log[c][w].op = "write" /\ ~log[c][w].blocking
  BY DEF Left
<1> HIDE DEF W
<1>4. QED
  BY <1>2, <1>3 DEF Left

\* Calls that do not write an object leave it as it is.
LEMMA LeftMoves ==
  ASSUME SunType, NEW c \in Clients, NEW o, NEW m \in Nat, NEW v, NEW n \in Nat,
         m <= n, Left(c, o, m, v),
         \A j \in Calls(c) : m <= j /\ j < n =>
           log[c][j].op \notin Writes \/ log[c][j].object # o
  PROVE  Left(c, o, n, v)
<1>1. \A j \in Calls(c) : j \in Nat
  BY CallsAre
<1>2. WritesTo(c, o, n) = WritesTo(c, o, m)
  BY <1>1 DEF WritesTo
<1>3. QED
  BY <1>2 DEF Left

\* The last write to an object says what it holds.
LEMMA LeftByWrite ==
  ASSUME SunType, NEW c \in Clients, NEW o, NEW x \in Calls(c), NEW n \in Nat, x < n,
         NEW v, log[c][x].op \in Writes, log[c][x].object = o,
         \A j \in Calls(c) : x < j /\ j < n =>
           log[c][j].op \notin Writes \/ log[c][j].object # o,
         v = log[c][x].val \/ (v = JUNK /\ log[c][x].op = "write" /\ ~log[c][x].blocking)
  PROVE  Left(c, o, n, v)
<1>1. \A j \in Calls(c) : j \in Nat
  BY CallsAre
<1>2. x \in WritesTo(c, o, n)
  BY DEF WritesTo
<1>3. \A k \in WritesTo(c, o, n) : k <= x
  BY <1>1 DEF WritesTo
<1>4. QED
  BY <1>2, <1>3 DEF Left

LEMMA FrontierIs ==
  ASSUME SunType, WireInv, QueueInv, NEW c \in Clients
  PROVE  /\ Frontier(c) \in Nat /\ Frontier(c) <= executed[c] + 1
         /\ Frontier(c) <= Len(log[c]) + 1
         /\ executed[c] \in Nat
         /\ executed[c] <= Len(log[c]) /\ Len(log[c]) \in Nat
<1>1. PICK n \in Nat, m \in Nat, e \in Nat :
        n = Len(log[c]) /\ m = Len(toServer[c]) /\ e = executed[c]
  BY CallsAre DEF SunType
<1>2. e <= n
  BY <1>1 DEF WireInv
<1>3. CASE queue[c] = <<>>
  BY <1>1, <1>2, <1>3 DEF Frontier
<1>4. CASE queue[c] # <<>>
  <2>1. 1 \in DOMAIN queue[c]
    BY <1>4, QueueTypes
  <2>2. PICK x \in Nat : x = queue[c][1].xid /\ x <= e
    BY <1>1, <2>1, QueueTypes DEF Listed
  <2>3. Frontier(c) = x
    BY <1>4, <2>2 DEF Frontier
  <2>4. QED
    BY <1>1, <1>2, <2>2, <2>3
<1>5. QED
  BY <1>3, <1>4

\* The driver's next command is behind the one it ran, and no write is in
\* between.
LEMMA FrontierMoves ==
  ASSUME SunType, SunType', WireInv, QueueInv, NEW c \in Clients, Drive(c),
         NEW x, x = queue[c][1].xid
  PROVE  /\ Frontier(c) = x /\ x \in Calls(c) /\ x \in Nat /\ Frontier(c)' \in Nat
         /\ x < Frontier(c)' /\ Frontier(c)' <= executed[c] + 1
         /\ \A j \in Calls(c) : x < j /\ j < Frontier(c)' =>
              log[c][j].op \notin Writes \/ log[c][j].object = NULL
         /\ \A a \in DOMAIN queue'[c] : queue'[c][a].xid # x
         /\ \A i : i # x => (Queued(c, i)' <=> Queued(c, i))
<1>1. queue[c] # <<>> /\ queue' = [queue EXCEPT ![c] = Tail(@)]
      /\ UNCHANGED <<log, executed>>
  BY DEF Drive
<1>2. PICK n \in Nat : n = Len(queue[c])
  BY QueueTypes
<1>3. queue[c] \in Seq(Command) /\ DOMAIN queue[c] = 1..n /\ n >= 1
  BY <1>1, <1>2, QueueTypes
<1>4. queue'[c] = Tail(queue[c])
  BY <1>1 DEF SunType
<1>5. /\ DOMAIN queue'[c] = 1..(n - 1) /\ Len(queue'[c]) = n - 1
      /\ \A a \in 1..(n - 1) : a + 1 \in 1..n /\ queue'[c][a] = queue[c][a + 1]
  BY <1>2, <1>3, <1>4
<1>6. 1 \in DOMAIN queue[c] /\ Listed(c, 1) /\ x \in Nat /\ x \in Calls(c)
      /\ x <= executed[c] /\ Frontier(c) = x
  <2>1. 1 \in DOMAIN queue[c] /\ x \in Nat
    BY <1>3, QueueTypes
  <2>2. Listed(c, 1)
    BY <2>1, QueueTypes
  <2>3. x \in Calls(c) /\ x <= executed[c]
    BY <2>2 DEF Listed
  <2>4. Frontier(c) = x
    BY <1>1 DEF Frontier
  <2>5. QED
    BY <2>1, <2>2, <2>3, <2>4
<1>7. \A a \in DOMAIN queue'[c] : queue'[c][a].xid \in Nat /\ x < queue'[c][a].xid
  <2>1. ASSUME NEW a \in DOMAIN queue'[c]
        PROVE  queue'[c][a].xid \in Nat /\ x < queue'[c][a].xid
    <3>1. a + 1 \in DOMAIN queue[c] /\ queue'[c][a] = queue[c][a + 1] /\ 1 < a + 1
      BY <1>3, <1>5, <2>1
    <3>2. queue[c][a + 1].xid \in Nat
      BY <3>1, QueueTypes
    <3>3. QED
      BY <1>6, <3>1, <3>2 DEF Listed
  <2>2. QED
    BY <2>1
<1>8. \A i : i # x => (Queued(c, i)' <=> Queued(c, i))
  <2>1. ASSUME NEW i, i # x, Queued(c, i) PROVE Queued(c, i)'
    <3>1. PICK a \in 1..n : queue[c][a].xid = i
      BY <1>3, <2>1 DEF Queued
    <3>2. a # 1
      BY <2>1, <3>1
    <3>3. a - 1 \in 1..(n - 1) /\ (a - 1) + 1 = a
      BY <3>2
    <3>4. QED
      BY <1>5, <3>1, <3>3 DEF Queued
  <2>2. ASSUME NEW i, Queued(c, i)' PROVE Queued(c, i)
    <3>1. PICK a \in DOMAIN queue'[c] : queue'[c][a].xid = i
      BY <2>2 DEF Queued
    <3>2. a + 1 \in DOMAIN queue[c] /\ queue[c][a + 1].xid = i
      BY <1>3, <1>5, <3>1
    <3>3. QED
      BY <3>2 DEF Queued
  <2>3. QED
    BY <2>1, <2>2
<1>9. executed[c] \in Nat
  BY DEF SunType
<1>10. Frontier(c)' \in Nat /\ x < Frontier(c)' /\ Frontier(c)' <= executed[c] + 1
  <2>1. CASE n = 1
    <3>1. queue'[c] = <<>>
      <4>1. queue'[c] \in Seq(Command) /\ Len(queue'[c]) = 0
        BY <1>5, <2>1 DEF SunType
      <4>2. QED
        BY <4>1
    <3>2. Frontier(c)' = executed[c] + 1
      BY <1>1, <3>1 DEF Frontier
    <3>3. QED
      BY <1>6, <1>9, <3>2
  <2>2. CASE n # 1
    <3>1. 1 \in DOMAIN queue'[c] /\ queue'[c][1] = queue[c][2] /\ 2 \in DOMAIN queue[c]
      BY <1>3, <1>5, <2>2
    <3>2. queue'[c] # <<>>
      BY <3>1
    <3>3. Frontier(c)' = queue'[c][1].xid
      BY <3>2 DEF Frontier
    <3>4. queue[c][2].xid <= executed[c]
      BY <3>1, QueueTypes DEF Listed
    <3>5. PICK y \in Nat : y = queue'[c][1].xid
      BY <1>7, <3>1
    <3>6. QED
      BY <1>7, <1>9, <3>1, <3>3, <3>4, <3>5
  <2>3. QED
    BY <2>1, <2>2
<1>11. ASSUME NEW j \in Calls(c), x < j, j < Frontier(c)'
       PROVE  log[c][j].op \notin Writes \/ log[c][j].object = NULL
  <2> SUFFICES ASSUME log[c][j].op \in Writes, log[c][j].object # NULL PROVE FALSE
    OBVIOUS
  <2>1. PICK f \in Nat : f = Frontier(c)' /\ f <= executed[c] + 1
    BY <1>10
  <2>2. j \in Nat /\ j >= x /\ j <= executed[c]
    BY <1>6, <1>9, <1>11, <2>1, CallsAre
  <2>3. NotLost(c, j)
    BY QueueTypes
  <2>4. PICK a \in 1..n : queue[c][a].xid = j
    BY <1>1, <1>3, <2>2, <2>3 DEF NotLost
  <2>5. a # 1
    BY <1>6, <1>11, <2>2, <2>4
  <2>6. a - 1 \in 1..(n - 1) /\ (a - 1) + 1 = a
    BY <2>5
  <2>7. PICK b \in 1..(n - 1) : b = a - 1 /\ queue'[c][b].xid = j
    BY <1>5, <2>4, <2>6
  <2>8. queue'[c] # <<>> /\ queue'[c] \in Seq(Command) /\ 1 \in DOMAIN queue'[c]
    BY <1>5, <2>7 DEF SunType
  <2>9. f = queue'[c][1].xid
    BY <2>1, <2>8 DEF Frontier
  <2>10. CASE b = 1
    BY <1>11, <2>1, <2>2, <2>7, <2>9, <2>10
  <2>11. CASE b # 1
    <3>1. 2 \in DOMAIN queue[c] /\ b + 1 \in DOMAIN queue[c] /\ 2 < b + 1
      BY <1>3, <1>5, <2>7, <2>11
    <3>2. queue'[c][1] = queue[c][2] /\ queue'[c][b] = queue[c][b + 1]
      <4>1. 1 \in 1..(n - 1) /\ b \in 1..(n - 1) /\ 1 + 1 = 2
        BY <2>7
      <4>2. queue'[c][1] = queue[c][1 + 1] /\ queue'[c][b] = queue[c][b + 1]
        BY <1>5, <4>1
      <4>3. QED
        BY <4>1, <4>2
    <3>3. queue[c][2].xid < queue[c][b + 1].xid
      BY <3>1, QueueTypes DEF Listed
    <3>4. f < j
      BY <2>7, <2>9, <3>2, <3>3
    <3>5. QED
      BY <1>11, <2>1, <2>2, <3>4
  <2>12. QED
    BY <2>10, <2>11
<1>12. QED
  BY <1>6, <1>7, <1>8, <1>10, <1>11

LEMMA HandleStore ==
  ASSUME SunType, WireInv, ObjectsInv, NEW c \in Clients, Handle(c),
         NEW o \in DOMAIN store, o \in DOMAIN store'
  PROVE  store'[o] = store[o]
<1>1. PICK i : i = executed[c] + 1
  OBVIOUS
<1>2. \/ store' = store
      \/ \E x : store' = [y \in DOMAIN store \ {x} |-> store[y]]
      \/ store' = [y \in DOMAIN store \cup {<<c, i>>} |->
                     IF y = <<c, i>> THEN Unset ELSE store[y]]
  <2>1. Head(toServer[c]) = i
    <3>1. toServer[c] \in Seq(Nat) /\ toServer[c] # <<>> /\ executed[c] \in Nat
      BY DEF Handle, SunType
    <3>2. 1 \in 1..Len(toServer[c]) /\ Head(toServer[c]) = toServer[c][1]
      BY <3>1
    <3>3. QED
      BY <1>1, <3>1, <3>2 DEF WireInv
  <2>2. CASE log[c][i].op = "create"
    <3>1. \E made \in {<<c, i>>, NULL} :
            store' = IF made = NULL THEN store
                     ELSE [x \in DOMAIN store \cup {<<c, i>>} |->
                             IF x = <<c, i>> THEN Unset ELSE store[x]]
      BY <2>1, <2>2 DEF Handle
    <3>2. QED
      BY <3>1
  <2>3. CASE log[c][i].op # "create"
    BY <2>1, <2>3 DEF Handle
  <2>4. QED
    BY <2>2, <2>3
<1>3. o # <<c, i>>
  <2>1. o[2] <= executed[o[1]] /\ executed[c] \in Nat
    BY DEF ObjectsInv, SunType
  <2>2. QED
    BY <1>1, <2>1
<1>4. QED
  BY <1>2, <1>3

\* Every object keeps what the commands up to its client's frontier leave.
LEMMA NextHolds ==
  ASSUME SunType, WireInv, LogInv, HandleInv, ObjectsInv, QueueInv, ContentsInv,
         [Next]_vars, NEW o \in DOMAIN store'
  PROVE  Left(o[1], o, Frontier(o[1]), store[o])'
<1>1. Keeps /\ SunType'
  BY NextKeeps, NextTypes
<1>2. PICK c \in Clients, k \in Nat : o = <<c, k>> /\ o[1] = c
  BY <1>1 DEF SunType
<1>3. PICK m \in Nat : m = Frontier(c)
  BY FrontierIs
<1>4. m <= Len(log[c]) + 1 /\ m <= executed[c] + 1
  BY <1>3, FrontierIs
<1> DEFINE Goal == \E n, v : n = Frontier(c)' /\ v = store'[o] /\ Left(c, o, n, v)'
<1>5. SUFFICES Goal
  <2>1. PICK n, v : n = Frontier(c)' /\ v = store'[o] /\ Left(c, o, n, v)'
    OBVIOUS
  <2>2. Left(c, o, Frontier(c), store[o])'
    BY <2>1 DEF Left, WritesTo, Calls
  <2>3. QED
    BY <1>2, <2>2
<1>6. o \in DOMAIN store => Left(c, o, m, store[o])
  BY <1>2, <1>3 DEF ContentsInv
\* the step leaves both the object and the frontier
<1>7. ASSUME Frontier(c)' = Frontier(c), o \in DOMAIN store, store'[o] = store[o]
      PROVE  Goal
  <2>1. PICK v : v = store[o]
    OBVIOUS
  <2>2. Left(c, o, m, v)'
    BY <1>1, <1>4, <1>6, <1>7, <2>1, LeftStays
  <2>3. QED
    BY <1>3, <1>7, <2>1, <2>2
\* a step that moves the frontier, seen before the step
<1>8. ASSUME NEW n \in Nat, n = Frontier(c)', n <= Len(log[c]) + 1,
             NEW v, v = store'[o], Left(c, o, n, v)
      PROVE  Goal
  <2>1. Left(c, o, n, v)'
    BY <1>1, <1>8, LeftStays
  <2>2. QED
    BY <1>8, <2>1
<1>9. CASE UNCHANGED <<queue, store, executed>>
  BY <1>7, <1>9 DEF Frontier
<1>10. CASE FreeArgs
  <2>1. PICK d : d = server.client
    OBVIOUS
  <2>2. /\ UNCHANGED <<store, executed>> /\ queue' \in [Clients -> Seq(Command)]
        /\ \A e \in Clients : e # d => queue'[e] = queue[e]
        /\ DOMAIN queue'[d] = DOMAIN queue[d] /\ Len(queue'[d]) = Len(queue[d])
        /\ \A a \in DOMAIN queue[d] : queue'[d][a].xid = queue[d][a].xid
    BY <1>10, <2>1, FreeArgsEffect
  <2>3. CASE c # d
    BY <1>7, <2>2, <2>3 DEF Frontier
  <2>4. CASE c = d
    <3>1. queue[c] \in Seq(Command) /\ queue'[c] \in Seq(Command)
      BY <2>2 DEF SunType
    <3>2. queue[c] = <<>> <=> queue'[c] = <<>>
      BY <2>2, <2>4, <3>1
    <3>3. queue[c] # <<>> => 1 \in DOMAIN queue[c]
      BY <3>1
    <3>4. Frontier(c)' = Frontier(c)
      BY <2>2, <2>4, <3>2, <3>3 DEF Frontier
    <3>5. QED
      BY <1>7, <2>2, <3>4
  <2>5. QED
    BY <2>3, <2>4
<1>11. ASSUME NEW d \in Clients, Drive(d) PROVE Goal
  <2>1. PICK x, call : x = queue[d][1].xid /\ call = log[d][x]
    OBVIOUS
  <2>a. /\ x \in Calls(d) /\ call \in Entry /\ queue[d] # <<>>
        /\ queue' = [queue EXCEPT ![d] = Tail(@)]
        /\ UNCHANGED <<log, executed>>
    BY <1>11, <2>1, DriveEffect
  <2>b. Runs(call, queue[d][1].freed)
    BY <1>11, <2>1, DriveEffect
  <2>2. \/ call.object \notin DOMAIN store /\ store' = store
        \/ call.op \notin Writes /\ store' = store
        \/ /\ call.object \in DOMAIN store /\ call.op \in Writes
           /\ \E v : /\ store' = [store EXCEPT ![call.object] = v]
                     /\ v = call.val \/ (v = JUNK /\ call.op = "write" /\ queue[d][1].freed)
    BY <2>b DEF Runs
  <2>3. o \in DOMAIN store
    BY <2>2
  <2>4. CASE d # c
    <3>1. Frontier(c)' = Frontier(c)
      BY <2>a, <2>4 DEF Frontier, SunType
    <3>2. store'[o] = store[o]
      <4>1. call.object # o
        <5>1. SUFFICES ASSUME call.object = o PROVE FALSE
          OBVIOUS
        <5>2. Lawful(d, x)
          BY <2>a DEF LogInv
        <5>3. o # NULL
          BY <1>2, SunAssumption
        <5>4. handle[d] = o
          BY <2>1, <5>1, <5>2, <5>3 DEF Lawful
        <5>5. PICK j : handle[d] = <<d, j>>
          BY <5>3, <5>4 DEF HandleInv
        <5>6. QED
          BY <1>2, <2>4, <5>4, <5>5
      <4>2. QED
        BY <2>2, <2>3, <4>1
    <3>3. QED
      BY <1>7, <2>3, <3>1, <3>2
  <2>5. CASE d = c
    <3>1. /\ Frontier(c) = x /\ x \in Nat /\ Frontier(c)' \in Nat
          /\ x < Frontier(c)' /\ Frontier(c)' <= executed[c] + 1
          /\ \A j \in Calls(c) : x < j /\ j < Frontier(c)' =>
               log[c][j].op \notin Writes \/ log[c][j].object = NULL
      BY <1>1, <1>11, <2>1, <2>5, FrontierMoves
    <3>2. PICK n \in Nat : n = Frontier(c)' /\ x < n /\ n <= executed[c] + 1
      BY <3>1
    <3>3. n <= Len(log[c]) + 1
      BY <3>2, FrontierIs
    <3>4. o # NULL
      BY <1>2, SunAssumption
    <3>5. m = x /\ \A j \in Calls(c) : x < j /\ j < n =>
                     log[c][j].op \notin Writes \/ log[c][j].object # o
      BY <1>3, <3>1, <3>2, <3>4
    <3>6. CASE call.op \in Writes /\ call.object = o
      <4>1. PICK v : /\ store' = [store EXCEPT ![o] = v]
                     /\ \/ v = call.val
                        \/ v = JUNK /\ call.op = "write" /\ queue[d][1].freed
        BY <2>2, <2>3, <3>6
      <4>2. store'[o] = v
        BY <2>3, <4>1
      <4>3. queue[c][1].freed => ~Blocks(call)
        <5>1. 1 \in DOMAIN queue[c]
          BY <2>a, <2>5 DEF SunType
        <5>2. HasBlocks(c, 1)
          BY <5>1, QueueTypes
        <5>3. QED
          BY <2>1, <2>5, <5>2 DEF HasBlocks
      <4>4. v = log[c][x].val
            \/ (v = JUNK /\ log[c][x].op = "write" /\ ~log[c][x].blocking)
        BY <2>1, <2>5, <4>1, <4>3 DEF Blocks, Transfers
      <4>5. Left(c, o, n, v)
        <5>1. x \in Calls(c) /\ log[c][x].op \in Writes /\ log[c][x].object = o
          BY <2>1, <2>a, <2>5, <3>6
        <5>2. \A j \in Calls(c) : x < j /\ j < n =>
                log[c][j].op \notin Writes \/ log[c][j].object # o
          BY <3>5
        <5>3. x < n
          BY <3>2
        <5>4. QED
          BY <4>4, <5>1, <5>2, <5>3, LeftByWrite
      <4>6. QED
        BY <1>8, <3>2, <3>3, <4>2, <4>5
    <3>7. CASE ~(call.op \in Writes /\ call.object = o)
      <4>1. PICK v : v = store[o]
        OBVIOUS
      <4>2. store'[o] = v
        BY <2>2, <2>3, <3>7, <4>1
      <4>3. Left(c, o, m, v)
        BY <1>6, <2>3, <4>1
      <4>4. \A j \in Calls(c) : m <= j /\ j < n =>
              log[c][j].op \notin Writes \/ log[c][j].object # o
        <5>1. \A j \in Calls(c) : j \in Nat
          BY CallsAre
        <5>2. QED
          BY <2>1, <2>5, <3>5, <3>7, <5>1
      <4>5. Left(c, o, n, v)
        BY <3>2, <3>5, <4>3, <4>4, LeftMoves
      <4>6. QED
        BY <1>8, <3>2, <3>3, <4>2, <4>5
    <3>8. QED
      BY <3>6, <3>7
  <2>6. QED
    BY <2>4, <2>5
<1>12. ASSUME NEW d \in Clients, Handle(d) PROVE Goal
  <2>1. PICK i : i = executed[d] + 1
    OBVIOUS
  <2>2. /\ server.stage = "idle" /\ i \in Calls(d) /\ i \in Nat
        /\ log[d][i] \in Entry /\ log' = log
        /\ executed' = [executed EXCEPT ![d] = i]
    BY <1>12, <2>1, HandleEffect
  <2>3. \/ log[d][i].op \notin Writes /\ queue' = queue
        \/ log[d][i].object = NULL /\ queue' = queue
        \/ queue' = [queue EXCEPT ![d] = Append(@, [xid |-> i, freed |-> FALSE])]
    BY <1>12, <2>1, HandleEffect, ZenonT(40) DEF Writes
  <2>4. \/ /\ o \in DOMAIN store /\ store'[o] = store[o]
        \/ o = <<d, i>> /\ store'[o] = Unset
    <3>1. CASE o \notin DOMAIN store
      <4>1. o[2] = executed[c] + 1 /\ executed'[c] = o[2] /\ store'[o] = Unset
        BY <1>2, <3>1, NextStore
      <4>2. d = c
        BY <1>2, <2>2, <4>1, FrontierIs DEF SunType
      <4>3. QED
        BY <1>2, <2>1, <4>1, <4>2
    <3>2. CASE o \in DOMAIN store
      BY <1>12, <3>2, HandleStore
    <3>3. QED
      BY <3>1, <3>2
  <2>5. CASE d # c
    <3>1. Frontier(c)' = Frontier(c)
      BY <2>2, <2>3, <2>5 DEF Frontier, SunType
    <3>2. QED
      BY <1>2, <1>7, <2>4, <2>5, <3>1
  <2>6. CASE d = c
    <3>1. executed[c] \in Nat /\ executed'[c] = i /\ i = executed[c] + 1
          /\ i <= Len(log[c])
      BY <2>1, <2>2, <2>6, CallsAre, SMTT(30) DEF SunType
    <3>2. queue[c] \in Seq(Command)
      BY DEF SunType
    <3>3. \E n \in Nat :
            /\ n = Frontier(c)' /\ m <= n /\ n <= i + 1
            /\ \A j \in Calls(c) : m <= j /\ j < n =>
                 log[c][j].op \notin Writes \/ log[c][j].object = NULL
      <4>1. CASE queue[c] # <<>>
        <5>1. queue'[c] # <<>> /\ queue'[c][1] = queue[c][1]
          <6>1. CASE queue' = queue
            BY <4>1, <6>1
          <6>2. CASE queue' # queue
            <7>1. [xid |-> i, freed |-> FALSE] \in Command
              BY <2>2 DEF Command
            <7>2. queue'[c] = Append(queue[c], [xid |-> i, freed |-> FALSE])
              BY <2>3, <2>6, <6>2 DEF SunType
            <7>3. 1 \in 1..Len(queue[c])
              BY <3>2, <4>1
            <7>4. queue'[c][1] = queue[c][1] /\ queue'[c] # <<>>
              BY <3>2, <7>1, <7>2, <7>3, AppendProperties
            <7>5. QED
              BY <7>4
          <6>3. QED
            BY <6>1, <6>2
        <5>2. Frontier(c)' = m
          BY <1>3, <4>1, <5>1 DEF Frontier
        <5>3. QED
          BY <1>4, <3>1, <5>2, CallsAre
      <4>2. CASE queue[c] = <<>> /\ queue' = queue
                 /\ (log[c][i].op \notin Writes \/ log[c][i].object = NULL)
        <5>1. Frontier(c)' = i + 1 /\ m = i
          BY <1>3, <3>1, <4>2 DEF Frontier
        <5>2. \A j \in Calls(c) : i <= j /\ j < i + 1 => j = i
          BY <2>2, CallsAre
        <5>3. QED
          BY <2>2, <4>2, <5>1, <5>2
      <4>3. CASE queue[c] = <<>>
                 /\ queue' = [queue EXCEPT ![d] = Append(@, [xid |-> i, freed |-> FALSE])]
        <5> DEFINE cmd == [xid |-> i, freed |-> FALSE]
        <5>1. queue'[c] = Append(queue[c], cmd) /\ cmd \in Command /\ cmd.xid = i
          BY <2>2, <2>6, <4>3 DEF SunType, Command
        <5> HIDE DEF cmd
        <5>2. queue'[c] # <<>> /\ queue'[c][1] = cmd
          <6>1. Len(queue[c]) = 0
            BY <4>3
          <6>2. /\ Append(queue[c], cmd) # <<>>
                /\ Append(queue[c], cmd)[Len(queue[c]) + 1] = cmd
            BY <3>2, <5>1, AppendProperties
          <6>3. QED
            BY <5>1, <6>1, <6>2
        <5>3. Frontier(c)' = i /\ m = i
          BY <1>3, <3>1, <4>3, <5>1, <5>2 DEF Frontier
        <5>4. QED
          BY <2>2, <5>3, CallsAre
      <4>4. QED
        BY <2>3, <2>6, <4>1, <4>2, <4>3
    <3>4. PICK n \in Nat :
            /\ n = Frontier(c)' /\ m <= n /\ n <= i + 1
            /\ \A j \in Calls(c) : m <= j /\ j < n =>
                 log[c][j].op \notin Writes \/ log[c][j].object = NULL
      BY <3>3
    <3>5. n <= Len(log[c]) + 1
      BY <2>2, <3>1, <3>4, FrontierIs
    <3>6. o # NULL
      BY <1>2, SunAssumption
    <3>7. CASE o \in DOMAIN store /\ store'[o] = store[o]
      <4>1. PICK v : v = store[o]
        OBVIOUS
      <4>2. Left(c, o, m, v)
        BY <1>6, <3>7, <4>1
      <4>3. Left(c, o, n, v)
        BY <3>4, <3>6, <4>2, LeftMoves
      <4>4. QED
        BY <1>8, <3>4, <3>5, <3>7, <4>1, <4>3
    <3>8. CASE o = <<c, i>> /\ store'[o] = Unset
      <4>1. \A j \in Calls(c) : log[c][j].object # o
        <5>1. handle[c] # o
          <6> SUFFICES ASSUME handle[c] = o PROVE FALSE
            OBVIOUS
          <6>1. PICK e \in Calls(c) : handle[c] = <<c, e>> /\ log[c][e].outcome = "ok"
            BY <3>6 DEF HandleInv
          <6>2. e = i
            BY <3>8, <6>1
          <6>3. i <= executed[c]
            BY <6>1, <6>2 DEF LogInv, Lawful
          <6>4. QED
            BY <2>2, <3>1, <6>3
        <5>2. QED
          BY <3>6, <5>1 DEF LogInv, Lawful
      <4>2. Left(c, o, n, Unset)
        BY <4>1 DEF Left, WritesTo
      <4>3. QED
        BY <1>8, <3>4, <3>5, <3>8, <4>2
    <3>9. QED
      BY <2>4, <2>6, <3>7, <3>8
  <2>7. QED
    BY <2>5, <2>6
<1>13. QED
  BY <1>9, <1>10, <1>11, <1>12 DEF Next, Call, Receive, CallFails, Answer, vars

\* The argument block of the request the server is busy with.
LEMMA NextBlock ==
  ASSUME SunType, WireInv, LogInv, HandleInv, ObjectsInv, QueueInv, ContentsInv,
         [Next]_vars, server'.stage # "idle", Now'.op \in {"read", "map"},
         Now'.object # NULL
  PROVE  IF Queued(server.client, server.xid)' THEN server'.block = Echo
         ELSE Left(server.client, Now.object, server.xid, server.block)'
<1> DEFINE Goal == IF Queued(server.client, server.xid)' THEN server'.block = Echo
                   ELSE Left(server.client, Now.object, server.xid, server.block)'
<1>1. Keeps /\ SunType'
  BY NextKeeps, NextTypes
<1>2. ASSUME NEW c \in Clients, c = server'.client, NEW i \in Calls(c), i = server'.xid,
             NEW o, o = log[c][i].object, NEW b, b = server'.block,
             IF Queued(c, i)' THEN b = Echo ELSE Left(c, o, i, b)
      PROVE  Goal
  <2>1. i \in Nat /\ i <= Len(log[c]) + 1
    BY <1>2, CallsAre
  <2>2. Now'.object = o
    BY <1>1, <1>2 DEF Keeps, Now
  <2>3. Queued(server.client, server.xid)' <=> Queued(c, i)'
    BY <1>2 DEF Queued
  <2>4. CASE Queued(c, i)'
    BY <1>2, <2>3, <2>4
  <2>5. CASE ~Queued(c, i)'
    <3>1. Left(c, o, i, b)'
      BY <1>1, <1>2, <2>1, <2>5, LeftStays
    <3>2. Left(server.client, Now.object, server.xid, server.block)'
      <4>1. c = server'.client /\ i = server'.xid /\ b = server'.block
        BY <1>2
      <4>2. QED
        BY ONLY <2>2, <3>1, <4>1 DEF Left, WritesTo, Calls
    <3>3. QED
      BY <2>3, <2>5, <3>2
  <2>6. QED
    BY <2>4, <2>5
\* The request was there before the step.
<1>3. ASSUME server.stage # "idle"
      PROVE  \E c \in Clients, i \in Nat :
               /\ c = server.client /\ i = server.xid /\ i \in Calls(c)
               /\ i = executed[c]
               /\ Now.op = log[c][i].op /\ Now.object = log[c][i].object
  BY <1>3, BusyWith DEF Now
<1>4. CASE UNCHANGED <<server, queue>>
  <2>1. PICK c \in Clients, i \in Nat :
          /\ c = server.client /\ i = server.xid /\ i \in Calls(c)
          /\ i = executed[c]
          /\ Now.op = log[c][i].op /\ Now.object = log[c][i].object
    BY <1>3, <1>4
  <2>2. log'[c][i].op = log[c][i].op /\ log'[c][i].object = log[c][i].object
    BY <1>1, <2>1 DEF Keeps
  <2>3. Now.op \in {"read", "map"} /\ Now.object # NULL
    BY <1>4, <2>1, <2>2 DEF Now
  <2>4. IF Queued(c, i)' THEN server.block = Echo
        ELSE Left(c, log[c][i].object, i, server.block)
    BY <1>4, <2>1, <2>3 DEF ContentsInv, Queued
  <2>5. QED
    BY <1>2, <1>4, <2>1, <2>4
<1>5. CASE Answer
  <2>1. /\ server.stage = "handled" /\ UNCHANGED <<log, queue>>
        /\ server' = server \/ server' = [server EXCEPT !.stage = "answered"]
    BY <1>5 DEF Answer
  <2>2. /\ server'.client = server.client /\ server'.xid = server.xid
        /\ server'.block = server.block
    BY <2>1 DEF SunType, Request
  <2>3. PICK c \in Clients, i \in Nat :
          /\ c = server.client /\ i = server.xid /\ i \in Calls(c)
          /\ Now.op = log[c][i].op /\ Now.object = log[c][i].object
    BY <1>3, <2>1
  <2>4. Now.op \in {"read", "map"} /\ Now.object # NULL
    BY <2>1, <2>2 DEF Now
  <2>5. IF Queued(c, i)' THEN server.block = Echo
        ELSE Left(c, log[c][i].object, i, server.block)
    BY <2>1, <2>3, <2>4 DEF ContentsInv, Queued
  <2>6. QED
    BY <1>2, <2>2, <2>3, <2>5
<1>6. CASE FreeArgs
  BY <1>6 DEF FreeArgs, Idle
<1>7. ASSUME NEW d \in Clients, Handle(d) PROVE Goal
  <2>1. PICK i : i = executed[d] + 1
    OBVIOUS
  <2>2. i \in Calls(d) /\ i \in Nat /\ log[d][i] \in Entry /\ log' = log
    BY <1>7, <2>1, HandleEffect
  <2>3. \E o : server' = [stage |-> "handled", client |-> d, xid |-> i,
                          object |-> o, block |-> Echo]
    BY <1>7, <2>1, HandleEffect, ZenonT(40)
  <2>4. server'.client = d /\ server'.xid = i /\ server'.block = Echo
    BY <2>3
  <2>5. log[d][i].op \in {"read", "map"} /\ log[d][i].object # NULL
    BY <2>2, <2>4 DEF Now
  <2>6. queue' = [queue EXCEPT ![d] = Append(@, [xid |-> i, freed |-> FALSE])]
    BY <1>7, <2>1, <2>5, HandleEffect
  <2>7. Queued(d, i)'
    <3> DEFINE cmd == [xid |-> i, freed |-> FALSE]
    <3>1. cmd \in Command /\ cmd.xid = i /\ queue[d] \in Seq(Command)
      BY <2>2 DEF SunType, Command
    <3>2. queue'[d] = Append(queue[d], cmd)
      BY <2>6 DEF SunType
    <3> HIDE DEF cmd
    <3>3. Len(queue[d]) + 1 \in DOMAIN queue'[d] /\ queue'[d][Len(queue[d]) + 1] = cmd
      BY <3>1, <3>2, AppendProperties
    <3>4. QED
      BY <3>1, <3>3 DEF Queued
  <2>8. QED
    BY <1>2, <2>2, <2>4, <2>7
<1>8. ASSUME NEW d \in Clients, Drive(d) PROVE Goal
  <2>1. PICK x, call : x = queue[d][1].xid /\ call = log[d][x]
    OBVIOUS
  <2>2. /\ x \in Calls(d) /\ call \in Entry /\ queue[d] # <<>>
        /\ queue' = [queue EXCEPT ![d] = Tail(@)]
        /\ UNCHANGED <<log, executed>>
    BY <1>8, <2>1, DriveEffect
  <2>3. server' = IF call.op \in {"read", "map"} /\ ~queue[d][1].freed
                  THEN [server EXCEPT !.block =
                          IF call.object \in DOMAIN store
                          THEN store[call.object] ELSE Echo]
                  ELSE server
    BY <1>8, <2>1, DriveEffect
  <2>4. /\ server'.stage = server.stage /\ server'.client = server.client
        /\ server'.xid = server.xid
    BY <2>3 DEF SunType, Request
  <2>5. PICK c \in Clients, i \in Nat :
          /\ c = server.client /\ i = server.xid /\ i \in Calls(c) /\ i = executed[c]
          /\ Now.op = log[c][i].op /\ Now.object = log[c][i].object
    BY <1>3, <2>4
  <2>6. log[c][i].op \in {"read", "map"} /\ log[c][i].object # NULL
    BY <2>2, <2>4, <2>5 DEF Now
  <2>7. IF Queued(c, i) THEN server.block = Echo
        ELSE Left(c, log[c][i].object, i, server.block)
    BY <2>4, <2>5, <2>6 DEF ContentsInv
  <2>8. 1 \in DOMAIN queue[d] /\ HasBlocks(d, 1)
        /\ (queue[d][1].freed <=> ~(d = c /\ x = i))
    <3>1. 1 \in DOMAIN queue[d]
      BY <2>2 DEF SunType
    <3>2. HasBlocks(d, 1)
      BY <3>1, QueueTypes
    <3>3. QED
      BY <2>1, <2>4, <2>5, <3>1, <3>2 DEF HasBlocks, Busy
  <2>9. CASE ~(d = c /\ x = i)
    <3>1. server' = server
      BY <2>3, <2>8, <2>9
    <3>2. Queued(c, i)' <=> Queued(c, i)
      <4>1. CASE d # c
        <5>1. queue'[c] = queue[c]
          BY <2>2, <4>1 DEF SunType
        <5>2. QED
          BY <5>1 DEF Queued
      <4>2. CASE d = c
        BY <1>1, <1>8, <2>1, <2>9, <4>2, FrontierMoves
      <4>3. QED
        BY <4>1, <4>2
    <3>3. QED
      BY <1>2, <2>5, <2>7, <3>1, <3>2
  <2>10. CASE d = c /\ x = i
    <3>1. Frontier(c) = i /\ ~Queued(c, i)'
      <4>1. /\ Frontier(c) = x
            /\ \A a \in DOMAIN queue'[c] : queue'[c][a].xid # x
        BY <1>1, <1>8, <2>1, <2>10, FrontierMoves
      <4>2. QED
        BY <2>10, <4>1 DEF Queued
    <3>2. PICK o : o = log[c][i].object
      OBVIOUS
    <3>3. call.object = o /\ o = handle[c] /\ o # NULL
      BY <2>1, <2>5, <2>6, <2>10, <3>2 DEF LogInv, Lawful
    <3>4. ~Released(c)
      <4> SUFFICES ASSUME Released(c) PROVE FALSE
        OBVIOUS
      <4>1. PICK j \in Calls(c) : j <= i /\ log[c][j].op = "release" /\ j \in Nat
        BY <2>5, CallsAre DEF Released
      <4>2. j < i
        BY <2>5, <2>6, <4>1
      <4>3. log[c][i].op = "finish"
        BY <2>5, <4>1, <4>2 DEF LogInv, Lawful
      <4>4. QED
        BY <2>6, <4>3
    <3>5. o \in DOMAIN store /\ o[1] = c
      <4>1. PICK k : handle[c] = <<c, k>>
        BY <3>3 DEF HandleInv
      <4>2. QED
        BY <3>3, <3>4, <4>1 DEF HandleInv
    <3>6. server'.block = store[o]
      BY <2>1, <2>3, <2>6, <2>8, <2>10, <3>3, <3>5 DEF SunType, Request
    <3>7. Left(c, o, i, store[o])
      BY <3>1, <3>5 DEF ContentsInv
    <3>8. PICK b : b = store[o]
      OBVIOUS
    <3>9. QED
      BY <1>2, <2>4, <2>5, <3>1, <3>2, <3>6, <3>7, <3>8
  <2>11. QED
    BY <2>9, <2>10
<1>9. QED
  BY <1>4, <1>5, <1>6, <1>7, <1>8 DEF Next, Call, Receive, CallFails, vars

LEMMA NextContents ==
  SunType /\ WireInv /\ LogInv /\ HandleInv /\ ObjectsInv /\ QueueInv /\ ContentsInv
  /\ [Next]_vars => ContentsInv'
BY NextHolds, NextBlock DEF ContentsInv

-----------------------------------------------------------------------------
(* Replies *)

LEMMA SeesStays ==
  ASSUME SunType, SunType', Keeps, NEW c \in Clients, NEW i \in Calls(c), NEW v,
         Sees(c, i, v)
  PROVE  Sees(c, i, v)'
<1>1. PICK o : o = log[c][i].object
  OBVIOUS
<1>2. /\ log'[c][i].object = o /\ log'[c][i].blocking = log[c][i].blocking
      /\ i \in Nat /\ i <= Len(log[c]) + 1
  BY <1>1, CallsAre DEF Keeps
<1>3. Left(c, o, i, v) => Left(c, o, i, v)'
  BY <1>2, LeftStays
<1>4. Left(c, o, i, v)' => Left(c, log[c][i].object, i, v)'
  BY <1>2 DEF Left, WritesTo, Calls
<1>5. QED
  BY <1>1, <1>2, <1>3, <1>4 DEF Sees

LEMMA TrueStays ==
  ASSUME SunType, WireInv, LogInv, HandleInv, QueueInv, [Next]_vars, NEW c \in Clients,
         NEW r, TrueReply(c, r)
  PROVE  TrueReply(c, r)'
<1>1. Keeps /\ SunType' /\ executed[c] \in Nat /\ executed'[c] \in Nat
      /\ executed'[c] >= executed[c]
  BY NextKeeps, NextTypes DEF SunType
<1>2. PICK i, o, g : i = r.xid /\ o = r.object /\ g = r.got
  OBVIOUS
<1>3. i \in Calls(c) /\ i \in Nat /\ i <= executed[c]
  BY <1>2, CallsAre DEF TrueReply
<1>4. i \in Calls(c)' /\ i <= executed'[c] /\ log'[c][i].op = log[c][i].op
  BY <1>1, <1>3 DEF Keeps, Calls
<1>5. Brings(c, i, o) => Brings(c, i, o)'
  BY <1>3, BringsStays
<1>6. Sees(c, i, g) => Sees(c, i, g)'
  BY <1>1, <1>3, SeesStays
<1>7. QED
  BY <1>2, <1>4, <1>5, <1>6 DEF TrueReply

\* A new call has not been answered.
LEMMA NewCalls ==
  ASSUME SunType, RepliesInv, [Next]_vars, NEW c \in Clients, NEW i \in Calls(c)',
         i \notin Calls(c)
  PROVE  log'[c][i].outcome = "none"
<1>1. ASSUME NEW d \in Clients, Call(d) PROVE log'[c][i].outcome = "none"
  <2>1. PICK e \in Entry : log' = [log EXCEPT ![d] = Append(log[d], e)]
                           /\ e.outcome = "none"
    BY <1>1, CallEffect
  <2>2. /\ log'[d][Len(log[d]) + 1] = e
        /\ DOMAIN log'[d] = 1..(Len(log[d]) + 1)
        /\ \A b \in Clients : b # d => log'[b] = log[b]
    BY <2>1, CallLog
  <2>3. c = d
    BY <2>2 DEF Calls
  <2>4. Calls(d) = 1..Len(log[d]) /\ Len(log[d]) \in Nat
    BY CallsAre
  <2>5. i = Len(log[d]) + 1
    BY <2>2, <2>3, <2>4 DEF Calls
  <2>6. QED
    BY <2>1, <2>2, <2>3, <2>5
<1>2. ASSUME NEW d \in Clients, Receive(d) PROVE FALSE
  <2>1. ~UNCHANGED <<log, handle>>
    BY DEF Calls
  <2>2. PICK r \in Reply :
          /\ Waiting(d) /\ Ends(d, r.code, r.got)
          /\ r.code \in {"ok", "error", "failed"} /\ r.got \in Contents
    BY <1>2, <2>1, ReceiveEnds
  <2>3. DOMAIN log'[c] = Calls(c)
    BY <2>2, EndsLog
  <2>4. QED
    BY <2>3 DEF Calls
<1>3. ASSUME NEW d \in Clients, CallFails(d) PROVE FALSE
  <2>1. Waiting(d) /\ Ends(d, "failed", Echo) /\ Echo \in Contents
    BY <1>3 DEF CallFails, Contents
  <2>2. DOMAIN log'[c] = Calls(c)
    BY <2>1, EndsLog
  <2>3. QED
    BY <2>2 DEF Calls
<1>4. log' # log
  BY DEF Calls
<1>5. QED
  BY <1>1, <1>2, <1>3, <1>4 DEF Next, Handle, Drive, Answer, FreeArgs, vars

LEMMA NextReplies ==
  SunType /\ WireInv /\ LogInv /\ HandleInv /\ ObjectsInv /\ QueueInv /\ ContentsInv
  /\ RepliesInv /\ [Next]_vars => RepliesInv'
<1> SUFFICES ASSUME SunType, WireInv, LogInv, HandleInv, ObjectsInv, QueueInv,
                    ContentsInv, RepliesInv, [Next]_vars, NEW c \in Clients
             PROVE  /\ \A a \in DOMAIN toClient'[c] : TrueReply(c, toClient[c][a])'
                    /\ \A i \in Calls(c)' :
                         log'[c][i].op \in {"read", "map"} /\ log'[c][i].outcome = "ok"
                         => Sees(c, i, log[c][i].got)'
  BY DEF RepliesInv
<1>1. Keeps /\ SunType'
  BY NextKeeps, NextTypes
<1>2. ASSUME NEW i \in Calls(c)', log'[c][i].op \in {"read", "map"},
             log'[c][i].outcome = "ok"
      PROVE  Sees(c, i, log[c][i].got)'
  <2>1. PICK v : v = log'[c][i].got
    OBVIOUS
  <2>2. i \in Calls(c)
    BY <1>2, NewCalls
  <2>3. log'[c][i].op = log[c][i].op
        /\ (log[c][i].outcome # "none" => log'[c][i] = log[c][i])
    BY <1>1, <2>2 DEF Keeps
  <2>4. Sees(c, i, v)
    <3>1. CASE log[c][i].outcome = "ok"
      BY <1>2, <2>1, <2>2, <2>3, <3>1 DEF RepliesInv
    <3>2. CASE log[c][i].outcome # "ok"
      BY <1>2, <2>1, <2>2, <2>3, <3>2, OkComes
    <3>3. QED
      BY <3>1, <3>2
  <2>5. Sees(c, i, v)'
    BY <1>1, <2>2, <2>4, SeesStays
  <2>6. QED
    BY <2>1, <2>5 DEF Sees
<1>3. ASSUME NEW a \in DOMAIN toClient'[c], NEW b \in DOMAIN toClient[c],
             toClient'[c][a] = toClient[c][b]
      PROVE  TrueReply(c, toClient[c][a])'
  <2>1. PICK r : r = toClient[c][b]
    OBVIOUS
  <2>2. TrueReply(c, r)
    BY <2>1 DEF RepliesInv
  <2>3. TrueReply(c, r)'
    BY <2>2, TrueStays
  <2>4. QED
    BY <1>3, <2>1, <2>3 DEF TrueReply
<1>4. \A a \in DOMAIN toClient'[c] : TrueReply(c, toClient[c][a])'
  <2> DEFINE Goal == \A a \in DOMAIN toClient'[c] : TrueReply(c, toClient[c][a])'
  <2>1. CASE UNCHANGED toClient
    BY <1>3, <2>1
  <2>2. ASSUME NEW d \in Clients, Receive(d) PROVE Goal
    <3>1. toClient[d] # <<>> /\ toClient' = [toClient EXCEPT ![d] = Tail(@)]
      BY <2>2 DEF Receive
    <3>2. CASE d # c
      <4>1. toClient'[c] = toClient[c]
        BY <3>1, <3>2 DEF SunType
      <4>2. QED
        BY <1>3, <4>1
    <3>3. CASE d = c
      <4>1. toClient[c] \in Seq(Reply) /\ toClient'[c] = Tail(toClient[c])
        BY <3>1, <3>3 DEF SunType
      <4>2. PICK n \in Nat : n = Len(toClient[c])
        BY <4>1
      <4>3. DOMAIN toClient[c] = 1..n /\ n >= 1
        BY <3>1, <3>3, <4>1, <4>2
      <4>4. /\ DOMAIN toClient'[c] = 1..(n - 1)
            /\ \A a \in 1..(n - 1) : a + 1 \in 1..n /\ toClient'[c][a] = toClient[c][a + 1]
        BY <4>1, <4>2, <4>3
      <4>5. QED
        BY <1>3, <4>3, <4>4
    <3>4. QED
      BY <3>2, <3>3
  <2>3. CASE Answer /\ ~UNCHANGED toClient
    <3>1. PICK d : d = server.client
      OBVIOUS
    <3>2. /\ server.stage = "handled" /\ d \in Clients
          /\ Blocks(Now) => queue[d] = <<>>
          /\ ~Fatal
      BY <2>3, <3>1, AnswerEffect
    <3>3. PICK r \in Reply :
            /\ r.xid = server.xid /\ r.object = server.object /\ r.got = server.block
            /\ r.code = IF Now.op \in {"create", "finish"} \/ server.object # NULL
                        THEN "ok" ELSE "error"
            /\ toClient' = [toClient EXCEPT ![d] = Append(toClient[d], r)]
      BY <2>3, <3>1, <3>2, AnswerEffect, ZenonT(40)
    <3>4. PICK e \in Clients, i \in Nat :
            e = server.client /\ i = server.xid /\ i = executed[e] /\ i \in Calls(e)
      BY <3>2, BusyWith
    <3>5. e = d /\ Now = log[d][i] /\ r.xid = i /\ log[d][i] \in Entry
      BY <3>1, <3>3, <3>4, CallsAre DEF Now
    <3>6. TrueReply(d, r)
      <4>1. r.xid \in Calls(d) /\ r.xid <= executed[d]
        <5>1. r.xid = i /\ i = executed[d] /\ i \in Calls(d) /\ i \in Nat
          BY <3>4, <3>5
        <5>2. QED
          BY <5>1
      <4>2. ASSUME Now.op = "create" PROVE r.code = "ok" /\ Brings(d, i, r.object)
        BY <3>1, <3>2, <3>3, <3>5, <4>2 DEF ObjectsInv
      <4>3. ASSUME Now.op \in {"read", "map"}, r.code = "ok" PROVE Sees(d, i, r.got)
        <5>1. server.object # NULL /\ server.object = Now.object
          BY <3>2, <3>3, <4>3 DEF ObjectsInv
        <5>2. IF Queued(d, i) THEN r.got = Echo ELSE Left(d, Now.object, i, r.got)
          BY <3>1, <3>2, <3>3, <3>5, <4>3, <5>1 DEF ContentsInv
        <5>3. Queued(d, i) => ~log[d][i].blocking
          <6>1. Queued(d, i) => queue[d] # <<>>
            BY DEF Queued
          <6>2. QED
            BY <3>2, <3>5, <4>3, <6>1 DEF Blocks, Transfers
        <5>4. QED
          BY <3>5, <5>2, <5>3 DEF Sees
      <4>4. QED
        BY <3>5, <4>1, <4>2, <4>3 DEF TrueReply
    <3>7. TrueReply(d, r)'
      BY <3>2, <3>6, TrueStays
    <3>8. CASE d # c
      <4>1. toClient'[c] = toClient[c]
        BY <3>3, <3>8 DEF SunType
      <4>2. QED
        BY <1>3, <4>1
    <3>9. CASE d = c
      <4>1. toClient[c] \in Seq(Reply) /\ toClient'[c] = Append(toClient[c], r)
        BY <3>3, <3>9 DEF SunType
      <4>2. PICK n \in Nat : n = Len(toClient[c])
        BY <4>1
      <4>3. /\ DOMAIN toClient'[c] = 1..(n + 1) /\ toClient'[c][n + 1] = r
            /\ DOMAIN toClient[c] = 1..n
            /\ \A a \in 1..n : toClient'[c][a] = toClient[c][a]
        BY <4>1, <4>2, AppendProperties
      <4>4. ASSUME NEW a \in DOMAIN toClient'[c] PROVE TrueReply(c, toClient[c][a])'
        <5>1. CASE a \in 1..n
          BY <1>3, <4>3, <5>1
        <5>2. CASE a = n + 1
          BY <3>7, <3>9, <4>3, <5>2 DEF TrueReply
        <5>3. QED
          BY <4>3, <4>4, <5>1, <5>2
      <4>5. QED
        BY <4>4
    <3>10. QED
      BY <3>8, <3>9
  <2>4. QED
    BY <2>1, <2>2, <2>3 DEF Next, Call, CallFails, Handle, Drive, FreeArgs, vars
<1>5. QED
  BY <1>2, <1>4

-----------------------------------------------------------------------------
(* What can harm the server *)

LEMMA NextHarm ==
  SunType /\ WireInv /\ LogInv /\ ObjectsInv /\ QueueInv /\ HarmInv /\ [Next]_vars
    => HarmInv'
<1> SUFFICES ASSUME SunType, WireInv, LogInv, ObjectsInv, QueueInv, HarmInv, [Next]_vars
             PROVE  HarmInv'
  OBVIOUS
<1>1. Keeps /\ SunType'
  BY NextKeeps, NextTypes
<1>2. ASSUME NEW c \in Clients, NEW i \in Calls(c)
      PROVE  /\ i \in Calls(c)' /\ i \in Nat
             /\ log'[c][i].op = log[c][i].op
             /\ log'[c][i].blocking = log[c][i].blocking
             /\ log'[c][i].object = log[c][i].object
  BY <1>1, CallsAre DEF Keeps, Calls
<1> DEFINE Unblocked(c, i) == log[c][i].op = "read" /\ ~log[c][i].blocking
<1>3. ASSUME corrupt' PROVE \E c \in Clients : \E i \in Calls(c)' : Unblocked(c, i)'
  <2>1. \E c \in Clients : \E i \in Calls(c) : Unblocked(c, i)
    <3>1. CASE corrupt
      BY <3>1 DEF HarmInv
    <3>2. CASE ~corrupt
      <4>1. PICK d \in Clients : Drive(d)
        BY <1>3, <3>2 DEF Next, Call, Receive, CallFails, Handle, Answer, FreeArgs, vars
      <4>2. PICK x, call : x = queue[d][1].xid /\ call = log[d][x]
        OBVIOUS
      <4>3. x \in Calls(d) /\ queue[d] # <<>> /\ call \in Entry
            /\ corrupt' = (call.op = "read" /\ queue[d][1].freed)
        BY <4>1, <4>2, DriveEffect
      <4>4. call.op = "read" /\ queue[d][1].freed
        BY <1>3, <4>3, Zenon
      <4>5. 1 \in DOMAIN queue[d]
        BY <4>3 DEF SunType
      <4>6. HasBlocks(d, 1)
        BY <4>5, QueueTypes
      <4>7. ~Blocks(call)
        BY <4>2, <4>4, <4>6 DEF HasBlocks
      <4>8. ~call.blocking
        BY <4>4, <4>7 DEF Blocks, Transfers
      <4>9. QED
        BY <4>2, <4>3, <4>4, <4>8
    <3>3. QED
      BY <3>1, <3>2
  <2>2. QED
    BY <1>2, <2>1
<1>4. ASSUME ~up'
      PROVE  \E c \in Clients : \E i, j \in 1..Len(log'[c]) :
               /\ i < j /\ log'[c][i].op = "create" /\ log'[c][j].op = "map"
               /\ log'[c][j].object = NULL
  <2>1. \E c \in Clients : \E i, j \in Calls(c) :
          /\ i < j /\ log[c][i].op = "create" /\ log[c][j].op = "map"
          /\ log[c][j].object = NULL
    <3>1. CASE ~up
      BY <1>4, <3>1, CallsAre DEF HarmInv, DiesOfLostObject
    <3>2. CASE up
      <4>1. Answer
        BY <1>4, <3>2 DEF Next, Call, Receive, CallFails, Handle, Drive, FreeArgs, vars
      <4>2. PICK d : d = server.client
        OBVIOUS
      <4>3. server.stage = "handled" /\ d \in Clients
        BY <4>1, <4>2, AnswerEffect
      <4>4. Fatal
        <5>1. ASSUME ~Fatal PROVE up' = up
          BY <4>1, <5>1 DEF Answer
        <5>2. QED
          BY <1>4, <3>2, <5>1
      <4>5. PICK e \in Clients, j \in Nat :
              e = server.client /\ j = server.xid /\ j \in Calls(e)
        BY <4>3, BusyWith
      <4>6. Now = log[e][j] /\ Now.op = "map" /\ server.object = NULL
        BY <4>4, <4>5 DEF Fatal, Now
      <4>7. Now.object = NULL
        BY <4>3, <4>6 DEF ObjectsInv
      <4>8. \E i \in Calls(e) : i < j /\ log[e][i].op = "create"
        BY <4>5, <4>6 DEF LogInv, Lawful
      <4>9. QED
        BY <4>5, <4>6, <4>7, <4>8
    <3>3. QED
      BY <3>1, <3>2
  <2>2. PICK c \in Clients : \E i, j \in Calls(c)' :
          /\ i < j /\ log'[c][i].op = "create" /\ log'[c][j].op = "map"
          /\ log'[c][j].object = NULL
    BY <1>2, <2>1
  <2>3. Calls(c)' = 1..Len(log'[c])
    BY <1>1 DEF SunType, Calls
  <2>4. QED
    BY <2>2, <2>3
<1>5. QED
  BY <1>3, <1>4 DEF HarmInv, DiesOfLostObject

-----------------------------------------------------------------------------
(* The invariant *)

LEMMA InitSInv == Init => SInv
<1> SUFFICES ASSUME Init PROVE SInv
  OBVIOUS
<1>1. SunType
  <2>1. Idle \in Request
    BY DEF Idle, Request, Names, Contents
  <2>2. /\ log \in [Clients -> Seq(Entry)] /\ toServer \in [Clients -> Seq(Nat)]
        /\ toClient \in [Clients -> Seq(Reply)] /\ queue \in [Clients -> Seq(Command)]
    BY DEF Init
  <2>3. handle \in [Clients -> Names] /\ executed \in [Clients -> Nat]
    BY DEF Init, Names
  <2>4. DOMAIN store = {}
    BY DEF Init
  <2>5. up \in BOOLEAN /\ corrupt \in BOOLEAN /\ server = Idle
    BY DEF Init
  <2>6. QED
    BY <2>1, <2>2, <2>3, <2>4, <2>5 DEF SunType
<1>2. WireInv /\ HandleInv /\ LogInv
  BY DEF Init, WireInv, HandleInv, LogInv, Idle, Calls
<1>3. ObjectsInv /\ ContentsInv
  BY DEF Init, ObjectsInv, ContentsInv, Idle
<1>4. QueueInv /\ RepliesInv
  BY DEF Init, QueueInv, RepliesInv, Calls
<1>5. HarmInv
  BY DEF Init, HarmInv, DiesOfLostObject
<1>6. QED
  BY <1>1, <1>2, <1>3, <1>4, <1>5 DEF SInv

LEMMA NextSInv == SInv /\ [Next]_vars => SInv'
BY NextTypes, NextWire, NextLog, NextHandle, NextObjects, NextQueue, NextContents,
   NextReplies, NextHarm DEF SInv

\* The server and its clients keep the invariant, whatever calls they make.
THEOREM Invariance == Spec => []SInv
<1>1. Init => SInv
  BY InitSInv
<1>2. SInv /\ [Next]_vars => SInv'
  BY NextSInv
<1>3. QED
  BY <1>1, <1>2, PTL DEF Spec

-----------------------------------------------------------------------------
(* What follows from it *)

LEMMA SInvExplainsLosses == SInv => LossIsExplained
<1> SUFFICES ASSUME SInv PROVE LossIsExplained
  OBVIOUS
<1>0. /\ SunType /\ WireInv /\ LogInv /\ HandleInv /\ ObjectsInv /\ QueueInv
      /\ ContentsInv /\ RepliesInv /\ HarmInv
  BY DEF SInv
<1>1. ASSUME NEW c \in Clients
      PROVE  Calls(c) = 1..Len(log[c]) /\ Len(log[c]) \in Nat
             /\ \A i \in Calls(c) : i \in Nat /\ log[c][i] \in Entry
  BY <1>0, CallsAre
<1>2. ASSUME NEW c \in Clients PROVE handle[c] \in Objects \cup {NULL}
  <2> SUFFICES ASSUME handle[c] # NULL PROVE handle[c] \in Objects
    OBVIOUS
  <2>1. PICK k \in Calls(c) : handle[c] = <<c, k>>
    BY <1>0 DEF HandleInv
  <2>2. <<c, k>> \in {<<c, i>> : i \in 1..Len(log[c])}
    BY <1>1, <2>1
  <2>3. QED
    BY <2>1, <2>2 DEF Objects
<1>3. ASSUME NEW c \in Clients, NEW i \in 1..Len(log[c])
      PROVE  /\ log[c][i].op \in Ops /\ log[c][i].val \in Values \cup {Unset}
             /\ log[c][i].outcome \in {"none", "ok", "error", "failed"}
             /\ log[c][i].got \in Values \cup {Unset, JUNK, Echo}
             /\ log[c][i].object \in Objects \cup {NULL}
  <2>1. i \in Calls(c) /\ log[c][i] \in Entry
    BY <1>1
  <2>2. log[c][i].object \in {NULL, handle[c]}
    BY <1>0, <2>1 DEF LogInv, Lawful
  <2>3. QED
    BY <1>2, <2>1, <2>2 DEF Entry, Contents
<1>4. ASSUME NEW c \in Clients PROVE ToSet(toServer[c]) \subseteq 1..Len(log[c])
  <2>0. toServer[c] \in Seq(Nat) /\ executed[c] \in Nat
    BY <1>0 DEF SunType
  <2>1. PICK n \in Nat, m \in Nat, e \in Nat :
          n = Len(log[c]) /\ m = Len(toServer[c]) /\ e = executed[c]
    BY <1>1, <2>0
  <2>2. e + m = n /\ DOMAIN toServer[c] = 1..m /\ \A j \in 1..m : toServer[c][j] = e + j
    BY <1>0, <2>0, <2>1 DEF WireInv
  <2>3. ASSUME NEW j \in DOMAIN toServer[c] PROVE toServer[c][j] \in 1..n
    BY <2>2, <2>3
  <2>4. QED
    BY <2>1, <2>3 DEF ToSet
<1>5. DOMAIN store \subseteq Objects
  <2>1. ASSUME NEW o \in DOMAIN store PROVE o \in Objects
    <3>1. PICK c \in Clients, k \in Nat : o = <<c, k>>
      BY <1>0 DEF SunType
    <3>2. k \in Calls(c)
      BY <1>0, <3>1 DEF ObjectsInv
    <3>3. QED
      BY <1>1, <3>1, <3>2 DEF Objects
  <2>2. QED
    BY <2>1
<1>6. TypeOK
  BY <1>0, <1>3, <1>4, <1>5 DEF TypeOK, WireInv, SunType, Request
<1>7. NoOtherOrphans
  <2>1. ASSUME NEW o \in DOMAIN store
        PROVE  handle[o[1]] = o \/ log[o[1]][o[2]].outcome \in {"none", "failed"}
    <3>1. PICK c \in Clients, k \in Nat : o = <<c, k>>
      BY <1>0 DEF SunType
    <3>2. /\ k \in Calls(c) /\ log[c][k].op = "create"
          /\ log[c][k].outcome = "ok" => handle[c] = o
      BY <1>0, <3>1 DEF ObjectsInv
    <3>3. log[c][k].outcome # "error"
      BY <1>0, <3>2 DEF LogInv, Lawful
    <3>4. log[c][k].outcome \in {"none", "ok", "error", "failed"}
      BY <1>1, <3>2 DEF Entry
    <3>5. QED
      BY <3>1, <3>2, <3>3, <3>4
  <2>2. ASSUME NEW c \in Clients, handle[c] # NULL
        PROVE  handle[c] \in DOMAIN store \/ Made(c, "release")
    BY <1>0, <1>1, <2>2 DEF HandleInv, Released, Made
  <2>3. QED
    BY <2>1, <2>2 DEF NoOtherOrphans
<1>8. HarmOnlyWithoutBlocking
  <2>1. ASSUME NEW o \in DOMAIN store, store[o] = JUNK
        PROVE  \E c \in Clients : \E i \in Calls(c) :
                 log[c][i].op \in {"read", "write"} /\ ~log[c][i].blocking
    <3>1. PICK c \in Clients : c = o[1]
      BY <1>0 DEF SunType
    <3>2. Left(c, o, Frontier(c), JUNK)
      BY <1>0, <2>1, <3>1 DEF ContentsInv
    <3>3. JUNK # Unset
      BY SunAssumption
    <3>4. PICK w \in WritesTo(c, o, Frontier(c)) :
            JUNK = log[c][w].val \/ (log[c][w].op = "write" /\ ~log[c][w].blocking)
      BY <3>2, <3>3 DEF Left
    <3>5. w \in Calls(c)
      BY DEF WritesTo
    <3>6. log[c][w].val # JUNK
      BY <1>1, <3>5, SunAssumption DEF Entry
    <3>7. QED
      BY <3>4, <3>5, <3>6
  <2>2. ASSUME corrupt
        PROVE  \E c \in Clients : \E i \in Calls(c) :
                 log[c][i].op \in {"read", "write"} /\ ~log[c][i].blocking
    BY <1>0, <2>2 DEF HarmInv
  <2>3. QED
    BY <1>1, <2>1, <2>2 DEF HarmOnlyWithoutBlocking
<1>9. QED
  BY <1>0, <1>6, <1>7, <1>8 DEF LossIsExplained, HarmInv

\* Whatever the clients call and whichever calls fail: objects that nobody
\* holds come from creates that failed or are not answered, freed blocks hurt
\* only calls that do not block, and the server dies only of a map of an object
\* whose create failed.
THEOREM LossExplained == Spec => []LossIsExplained
BY Invariance, SInvExplainsLosses, PTL

LEMMA SInvSees == SInv => ReadSeesWrites
<1> SUFFICES ASSUME SInv, NEW c \in Clients, NEW i \in 1..Len(log[c]),
                    log[c][i].op \in {"read", "map"}, log[c][i].outcome = "ok"
             PROVE  LET W == Earlier(c, i)
                        w == log[c][CHOOSE j \in W : \A k \in W : k <= j]
                    IN \/ log[c][i].got = IF W = {} THEN Unset ELSE w.val
                       \/ log[c][i].got = JUNK /\ W # {} /\ ~w.blocking
                       \/ log[c][i].got = Echo /\ ~log[c][i].blocking
  BY Zenon DEF ReadSeesWrites
<1> DEFINE W == Earlier(c, i)
           last == CHOOSE j \in W : \A k \in W : k <= j
           v == log[c][i].got
           o == log[c][i].object
<1>1. /\ Calls(c) = 1..Len(log[c]) /\ Len(log[c]) \in Nat /\ i \in Nat
  BY CallsAre DEF SInv
<1>2. Sees(c, i, v)
  BY <1>1 DEF SInv, RepliesInv
<1>3. WritesTo(c, o, i) = W
  <2>1. Len(log[c]) \in Nat /\ i \in 1..Len(log[c])
    BY <1>1
  <2>2. \A j : j \in 1..(i - 1) <=> j \in 1..Len(log[c]) /\ j < i
    BY <2>1
  <2>3. QED
    BY <1>1, <2>2 DEF WritesTo, Earlier, Writes
<1>4. \A j \in W : j \in Nat
  BY <1>1 DEF Earlier
<1>5. ASSUME NEW x \in W, \A k \in W : k <= x PROVE last = x
  <2> HIDE DEF W
  <2>1. last \in W /\ \A k \in W : k <= last
    BY <1>5
  <2>2. last <= x /\ x <= last /\ last \in Nat /\ x \in Nat
    BY <1>4, <1>5, <2>1
  <2>3. QED
    BY <2>2
<1> HIDE DEF W, last, v, o
<1>6. CASE Left(c, o, i, v)
  <2>1. CASE W = {} /\ v = Unset
    BY <2>1 DEF W, v
  <2>2. CASE \E w \in W :
               /\ \A k \in W : k <= w
               /\ v = log[c][w].val
                  \/ (v = JUNK /\ log[c][w].op = "write" /\ ~log[c][w].blocking)
    <3>1. PICK w \in W :
               /\ \A k \in W : k <= w
               /\ v = log[c][w].val
                  \/ (v = JUNK /\ log[c][w].op = "write" /\ ~log[c][w].blocking)
      BY <2>2
    <3>2. last = w /\ W # {}
      BY <1>5, <3>1
    <3>3. v = log[c][last].val \/ (v = JUNK /\ ~log[c][last].blocking)
      BY <3>1, <3>2
    <3>4. QED
      BY <3>2, <3>3 DEF W, last, v
  <2>3. QED
    BY <1>3, <1>6, <2>1, <2>2 DEF Left
<1>7. CASE v = Echo /\ ~log[c][i].blocking
  BY <1>7 DEF v
<1>8. QED
  BY <1>2, <1>6, <1>7 DEF Sees, o

\* A read or map that returns brings what its client's last write or kernel
\* before it left in the object, whether or not that call was reported to have
\* failed; only calls that do not block bring anything else.
THEOREM SeesWrites == Spec => []ReadSeesWrites
BY Invariance, SInvSees, PTL

-----------------------------------------------------------------------------
(* The calls implement SunCalls *)

Hows   == {"none", "returned", "failed"}
Out(c) == [i \in 1..Len(log[c]) |-> Outcome(log[c][i].outcome)]
Outs   == [c \in Clients |-> Out(c)]

LEMMA OutIs ==
  ASSUME SunType, NEW c \in Clients
  PROVE  /\ Out(c) \in Seq(Hows) /\ Len(Out(c)) = Len(log[c]) /\ Len(log[c]) \in Nat
         /\ DOMAIN Out(c) = 1..Len(log[c])
         /\ \A i \in 1..Len(log[c]) : Out(c)[i] = Outcome(log[c][i].outcome)
<1>1. Len(log[c]) \in Nat /\ \A i \in 1..Len(log[c]) : log[c][i] \in Entry
  BY CallsAre
<1>2. \A i \in 1..Len(log[c]) : Outcome(log[c][i].outcome) \in Hows
  BY <1>1 DEF Entry, Outcome, Hows
<1>3. Out(c) \in [1..Len(log[c]) -> Hows]
  BY <1>2 DEF Out
<1>4. Out(c) \in Seq(Hows) /\ Len(Out(c)) = Len(log[c])
  BY <1>1, <1>3
<1>5. QED
  BY <1>1, <1>4 DEF Out

LEMMA WaitsIs ==
  ASSUME SunType, NEW c \in Clients
  PROVE  Waiting(c) <=> Out(c) # <<>> /\ Out(c)[Len(Out(c))] = "none"
<1>1. PICK n \in Nat : n = Len(log[c])
  BY CallsAre
<1>2. log[c] \in Seq(Entry)
  BY DEF SunType
<1>3. log[c] # <<>> <=> n >= 1
  BY <1>1, <1>2
<1>4. Out(c) # <<>> <=> n >= 1
  BY <1>1, OutIs
<1>5. ASSUME n >= 1
      PROVE  Last(log[c]).outcome = "none" <=> Out(c)[Len(Out(c))] = "none"
  <2>1. n \in 1..n /\ Last(log[c]) = log[c][n] /\ log[c][n] \in Entry
    BY <1>1, <1>2, <1>5, CallsAre DEF Last
  <2>2. Out(c)[Len(Out(c))] = Outcome(log[c][n].outcome)
    BY <1>1, <2>1, OutIs
  <2>3. QED
    BY <2>1, <2>2 DEF Outcome, Entry
<1>6. QED
  BY <1>3, <1>4, <1>5 DEF Waiting

\* What the end of a call does to the outcomes.
LEMMA EndsOut ==
  ASSUME SunType, SunType', NEW c \in Clients, Waiting(c),
         NEW how \in {"ok", "error", "failed"}, NEW got \in Contents, Ends(c, how, got)
  PROVE  Outs' = [Outs EXCEPT ![c][Len(Outs[c])] = Outcome(how)]
<1>1. PICK n \in Nat : n = Len(log[c])
  BY CallsAre
<1>2. /\ n \in Calls(c) /\ log'[c][n].outcome = how /\ Len(log'[c]) = n
      /\ \A d \in Clients : d # c => log'[d] = log[d]
      /\ \A i \in Calls(c) : i # n => log'[c][i] = log[c][i]
  BY <1>1, EndsLog
<1>3. Calls(c) = 1..n
  BY <1>1, CallsAre
<1>4. \A d \in Clients : d # c => Out(d)' = Out(d)
  BY <1>2 DEF Out
<1>5. Out(c)' = [Out(c) EXCEPT ![n] = Outcome(how)]
  BY <1>1, <1>2, <1>3 DEF Out
<1>6. Len(Outs[c]) = n /\ Outs[c] = Out(c)
  BY <1>1, OutIs DEF Outs
<1>7. QED
  BY <1>4, <1>5, <1>6 DEF Outs

LEMMA CallOut ==
  ASSUME SunType, SunType', NEW c \in Clients, Call(c)
  PROVE  Outs' = [Outs EXCEPT ![c] = Append(Outs[c], "none")]
<1>1. PICK n \in Nat : n = Len(log[c])
  BY CallsAre
<1>2. PICK e \in Entry : log' = [log EXCEPT ![c] = Append(log[c], e)]
                         /\ e.outcome = "none"
  BY CallEffect
<1>3. /\ Len(log'[c]) = n + 1 /\ log'[c][n + 1] = e
      /\ \A d \in Clients : d # c => log'[d] = log[d]
      /\ \A i \in 1..n : log'[c][i] = log[c][i]
  <2>1. /\ Len(log'[c]) = n + 1 /\ log'[c][n + 1] = e
        /\ \A i \in Calls(c) : log'[c][i] = log[c][i]
    BY <1>1, <1>2, CallLog
  <2>2. \A d \in Clients : d # c => log'[d] = log[d]
    BY <1>2, CallLog
  <2>3. Calls(c) = 1..n
    BY <1>1, CallsAre
  <2>4. QED
    BY <2>1, <2>2, <2>3
<1>4. \A d \in Clients : d # c => Out(d)' = Out(d)
  BY <1>3 DEF Out
<1>5. Out(c)' = Append(Out(c), "none")
  <2> DEFINE s == Out(c)'
             t == Append(Out(c), "none")
  <2>1. /\ Out(c) \in Seq(Hows) /\ Len(Out(c)) = n
        /\ \A i \in 1..n : Out(c)[i] = Outcome(log[c][i].outcome)
    BY <1>1, OutIs
  <2>2. "none" \in Hows /\ Outcome("none") = "none"
    BY DEF Hows, Outcome
  <2>3. t \in Seq(Hows) /\ Len(t) = n + 1 /\ t[n + 1] = "none"
        /\ \A i \in 1..n : t[i] = Outcome(log[c][i].outcome)
    BY <2>1, <2>2, AppendProperties
  <2>4. s = [i \in 1..(n + 1) |-> Outcome(log'[c][i].outcome)]
    BY <1>3 DEF Out
  <2>5. \A i \in 1..(n + 1) : Outcome(log'[c][i].outcome) \in Hows
    <3>1. \A i \in 1..(n + 1) : log'[c][i] \in Entry
      BY <1>3 DEF SunType
    <3>2. QED
      BY <3>1 DEF Entry, Outcome, Hows
  <2>6. s \in Seq(Hows) /\ Len(s) = n + 1
    <3>1. s \in [1..(n + 1) -> Hows] /\ n + 1 \in Nat
      BY <2>4, <2>5
    <3>2. QED
      BY <3>1
  <2>7. \A i \in 1..(n + 1) : s[i] = t[i]
    <3>1. ASSUME NEW i \in 1..(n + 1) PROVE s[i] = t[i]
      <4>1. CASE i = n + 1
        BY <1>2, <1>3, <2>2, <2>3, <2>4, <4>1
      <4>2. CASE i \in 1..n
        BY <1>3, <2>3, <2>4, <4>2
      <4>3. i = n + 1 \/ i \in 1..n
        BY ONLY n \in Nat, i \in 1..(n + 1)
      <4>4. QED
        BY <4>1, <4>2, <4>3
    <3>2. QED
      BY <3>1
  <2> HIDE DEF s, t
  <2>8. s = t
    BY <2>3, <2>6, <2>7, SeqEqual
  <2>9. QED
    BY <2>8 DEF s, t
<1>6. QED
  BY <1>4, <1>5 DEF Outs

LEMMA InitRefines == Init => Abstract!Init
<1> SUFFICES ASSUME Init PROVE Abstract!Init
  OBVIOUS
<1>1. ASSUME NEW c \in Clients PROVE Out(c) = <<>>
  <2>1. SunType /\ log[c] = <<>>
    BY InitSInv DEF SInv, Init
  <2>2. Out(c) \in Seq(Hows) /\ Len(Out(c)) = 0
    BY <2>1, OutIs
  <2>3. QED
    BY <2>2
<1>2. Outs = [c \in Clients |-> <<>>]
  BY <1>1 DEF Outs
<1>3. executed = [c \in Clients |-> 0]
  BY DEF Init
<1>4. QED
  BY <1>2, <1>3 DEF Abstract!Init, Outs, Out

\* Every step of the clients and the server is a step of SunCalls or leaves
\* the calls as they are.
LEMMA NextRefines == SInv /\ SInv' /\ [Next]_vars => [Abstract!Next]_Abstract!vars
<1> SUFFICES ASSUME SInv, SInv', [Next]_vars PROVE [Abstract!Next]_Abstract!vars
  OBVIOUS
<1>0. /\ SunType /\ WireInv /\ LogInv /\ HandleInv /\ ObjectsInv /\ QueueInv
      /\ ContentsInv /\ RepliesInv /\ HarmInv /\ SunType'
  BY DEF SInv
<1> DEFINE Steps(c) == Abstract!Make(c) \/ Abstract!Execute(c)
                       \/ Abstract!Return(c) \/ Abstract!Fail(c)
<1>1. ASSUME NEW c \in Clients
      PROVE  Outs[c] = Out(c) /\ Len(Outs[c]) = Len(log[c])
             /\ (Waiting(c) <=> Outs[c] # <<>> /\ Outs[c][Len(Outs[c])] = "none")
  BY <1>0, OutIs, WaitsIs DEF Outs
<1>2. ASSUME NEW c \in Clients, Call(c) PROVE Abstract!Make(c)
  <2>1. ~Waiting(c) /\ UNCHANGED executed
    BY <1>2 DEF Call
  <2>2. Outs' = [Outs EXCEPT ![c] = Append(Outs[c], "none")]
    BY <1>0, <1>2, CallOut
  <2>3. ~Abstract!Waits(c)
    BY <1>1, <2>1 DEF Abstract!Waits, Outs, Out
  <2>4. QED
    BY <2>1, <2>2, <2>3 DEF Abstract!Make, Outs, Out
<1>3. ASSUME NEW c \in Clients, Receive(c), ~UNCHANGED <<log, handle>>
      PROVE  Abstract!Return(c)
  <2>1. PICK r \in Reply :
          /\ Waiting(c) /\ r.xid = Len(log[c]) /\ r.xid <= executed[c]
          /\ Ends(c, r.code, r.got)
          /\ r.code \in {"ok", "error", "failed"} /\ r.got \in Contents
    BY <1>0, <1>3, ReceiveEnds
  <2>2. Outcome(r.code) = "returned"
    BY DEF Reply, Outcome
  <2>3. Outs' = [Outs EXCEPT ![c][Len(Outs[c])] = "returned"]
    BY <1>0, <2>1, <2>2, EndsOut
  <2>4. executed[c] = Len(Outs[c])
    <3>1. PICK n \in Nat, e \in Nat : n = Len(log[c]) /\ e = executed[c] /\ e <= n
      BY <1>0, FrontierIs
    <3>2. n <= e
      BY <2>1, <3>1
    <3>3. QED
      BY <1>1, <3>1, <3>2
  <2>5. Abstract!Waits(c) /\ UNCHANGED executed
    BY <1>1, <1>3, <2>1 DEF Abstract!Waits, Receive, Outs, Out
  <2>6. QED
    BY <2>3, <2>4, <2>5 DEF Abstract!Return, Abstract!Ends, Outs, Out
<1>4. ASSUME NEW c \in Clients, CallFails(c) PROVE Abstract!Fail(c)
  <2>1. Waiting(c) /\ Ends(c, "failed", Echo) /\ Echo \in Contents /\ UNCHANGED executed
    BY <1>4 DEF CallFails, Contents
  <2>2. Outcome("failed") = "failed"
    BY DEF Outcome
  <2>3. Outs' = [Outs EXCEPT ![c][Len(Outs[c])] = "failed"]
    BY <1>0, <2>1, <2>2, EndsOut
  <2>4. Abstract!Waits(c)
    BY <1>1, <2>1 DEF Abstract!Waits, Outs, Out
  <2>5. QED
    BY <2>1, <2>3, <2>4 DEF Abstract!Fail, Abstract!Ends, Outs, Out
<1>5. ASSUME NEW c \in Clients, Handle(c) PROVE Abstract!Execute(c)
  <2>1. PICK i : i = executed[c] + 1
    OBVIOUS
  <2>2. i \in Calls(c) /\ executed' = [executed EXCEPT ![c] = i] /\ log' = log
    BY <1>0, <1>5, <2>1, HandleEffect
  <2>3. executed[c] \in Nat /\ executed[c] < Len(Outs[c])
    BY <1>0, <1>1, <2>1, <2>2, CallsAre, FrontierIs
  <2>4. Outs' = Outs
    BY <2>2 DEF Outs, Out
  <2>5. QED
    BY <2>1, <2>2, <2>3, <2>4 DEF Abstract!Execute, Outs, Out
<1>6. ASSUME UNCHANGED <<log, executed>> PROVE UNCHANGED Abstract!vars
  BY <1>6 DEF Abstract!vars
<1>7. ASSUME NEW c \in Clients, Receive(c) PROVE Abstract!Return(c) \/ UNCHANGED Abstract!vars
  BY <1>3, <1>6, <1>7 DEF Receive
<1>8. QED
  BY <1>2, <1>4, <1>5, <1>6, <1>7
  DEF Next, Abstract!Next, Drive, Answer, FreeArgs, vars

\* The calls of every client implement SunCalls: executed in the order they
\* were made, at most once, and before they return, with all calls before them.
THEOREM Refinement == Spec => ImplementsSunCalls
<1>1. Init => Abstract!Init
  BY InitRefines
<1>2. SInv /\ SInv' /\ [Next]_vars => [Abstract!Next]_Abstract!vars
  BY NextRefines
<1>3. QED
  BY <1>1, <1>2, Invariance, PTL DEF Spec, ImplementsSunCalls, Abstract!Spec
-------------------------------------------------------------------------------
(* Discovery.                                                              *)

SearchType ==
  /\ variant \in {"tpl", "sunrpc"} /\ local \in BOOLEAN
  /\ announcer \in [Hosts -> {"starting", "running", "ended"}]
  /\ listener \in [Hosts -> {"starting", "accepting", "deaf", "closed"}]
  /\ announced \in [Hosts -> {"starting", "serving", "gone"}]

\* The host a call goes to, if there is one.
Target(h) ==
  h # Nobody => /\ h \in Hosts /\ h = peer
                /\ variant = "tpl" => listener[h] \in {"accepting", "deaf"}

\* Who answers has a thread that answers; a connection is made to who
\* answered, in the last step, by the variant that makes it.
SearchInv ==
  /\ SearchType /\ Search!TypeOK
  /\ \A h \in answers \cap Hosts : announcer[h] # "starting"
  /\ peer \in Hosts => announcer[peer] # "starting"
  /\ at \in {"start", "hello", "waiting", "measure", "create", "exited"} =>
       tcp_sock = Nobody /\ clnt = Nobody
  /\ at \in {"create", "exited"} => variant = "sunrpc" /\ ~local
  /\ IF variant = "tpl" THEN clnt = Nobody ELSE tcp_sock = Nobody
  /\ variant = "sunrpc" /\ at = "ready" => (local <=> clnt = Nobody)
  /\ Target(tcp_sock) /\ Target(clnt)

LEMMA SearchParameters == Nobody \notin Hosts /\ Stranger \notin Hosts \cup {Nobody}
BY PartsAssumption DEF Search!DiscoveryAssumption

LEMMA SearchFirst == Search!Init => SearchInv
BY SearchParameters DEF Search!Init, SearchInv, SearchType, Search!TypeOK, Target

LEMMA SearchKept == ASSUME SearchInv, UNCHANGED search PROVE SearchInv'
BY DEF SearchInv, SearchType, Search!TypeOK, Target, search

LEMMA ClientStarts ==
  ASSUME SearchInv, Search!create_sock \/ Search!mcast_connect PROVE SearchInv'
<1>1. CASE Search!create_sock
  BY <1>1 DEF Search!create_sock, SearchInv, SearchType, Search!TypeOK, Target, Search!server
<1>2. CASE Search!mcast_connect
  BY <1>2 DEF Search!mcast_connect, SearchInv, SearchType, Search!TypeOK, Target, Search!server
<1>3. QED
  BY <1>1, <1>2

LEMMA RecvfromStep == ASSUME SearchInv, Search!recvfrom PROVE SearchInv'
<1>1. /\ peer' \in Hosts => peer' \in answers
      /\ peer' \in Hosts \cup {Stranger} /\ answers' \subseteq answers
  BY SearchParameters DEF Search!recvfrom, SearchInv, Search!TypeOK
<1>2. QED
  BY <1>1 DEF Search!recvfrom, SearchInv, SearchType, Search!TypeOK, Target, Search!server

LEMMA MeasureStep ==
  ASSUME SearchInv, Search!get_tcp_bw \/ Search!measure_and_close PROVE SearchInv'
<1>1. CASE Search!get_tcp_bw
  <2>1. tcp_sock' = Nobody
          \/ (tcp_sock' = peer /\ peer \in Hosts /\ listener[peer] \in {"accepting", "deaf"})
    BY <1>1 DEF Search!get_tcp_bw, SearchInv, Search!Listens
  <2>2. QED
    BY <1>1, <2>1
    DEF Search!get_tcp_bw, SearchInv, SearchType, Search!TypeOK, Target, Search!server
<1>2. CASE Search!measure_and_close
  <2>1. local' \in BOOLEAN /\ IF local' THEN at' = "ready" ELSE at' = "create"
    BY <1>2, Zenon DEF Search!measure_and_close
  <2>2. QED
    BY <1>2, <2>1
    DEF Search!measure_and_close, SearchInv, SearchType, Search!TypeOK, Target, Search!server
<1>3. QED
  BY <1>1, <1>2

LEMMA CreateStep == ASSUME SearchInv, Search!clnt_create PROVE SearchInv'
<1>1. \/ clnt' = peer /\ peer \in Hosts /\ at' = "ready"
      \/ clnt' = clnt /\ at' = "exited"
  BY DEF Search!clnt_create, Search!Serves
<1>2. QED
  BY <1>1, SearchParameters
  DEF Search!clnt_create, SearchInv, SearchType, Search!TypeOK, Target, Search!server

LEMMA StrayStep == ASSUME SearchInv, Search!Stray PROVE SearchInv'
BY SearchParameters
DEF Search!Stray, SearchInv, SearchType, Search!TypeOK, Target, Search!client, Search!server

LEMMA StartStep ==
  ASSUME SearchInv, NEW s \in Hosts,
         \/ Search!StartAnnouncer(s) \/ Search!StartListener(s)
         \/ Search!AnnouncerEnds(s) \/ Search!AcceptFails(s)
  PROVE  SearchInv'
<1>1. CASE Search!StartAnnouncer(s)
  BY <1>1
  DEF Search!StartAnnouncer, SearchInv, SearchType, Search!TypeOK, Target, Search!client
<1>2. CASE Search!StartListener(s)
  BY <1>2
  DEF Search!StartListener, SearchInv, SearchType, Search!TypeOK, Target, Search!client
<1>3. CASE Search!AnnouncerEnds(s)
  BY <1>3
  DEF Search!AnnouncerEnds, SearchInv, SearchType, Search!TypeOK, Target, Search!client
<1>4. CASE Search!AcceptFails(s)
  BY <1>4
  DEF Search!AcceptFails, SearchInv, SearchType, Search!TypeOK, Target, Search!client
<1>5. QED
  BY <1>1, <1>2, <1>3, <1>4

\* A server that cannot register ends with its listener, which only matters
\* where the connection that was measured is the one that is used.
LEMMA RegisterStep == ASSUME SearchInv, NEW s \in Hosts, Search!Register(s) PROVE SearchInv'
BY DEF Search!Register, SearchInv, SearchType, Search!TypeOK, Target, Search!client

LEMMA McastListenStep ==
  ASSUME SearchInv, NEW s \in Hosts, Search!mcast_listen(s) PROVE SearchInv'
BY DEF Search!mcast_listen, SearchInv, SearchType, Search!TypeOK, Target, Search!client,
   Search!server

LEMMA SearchNext == SearchInv /\ [ServicesNext]_everything => SearchInv'
<1> SUFFICES ASSUME SearchInv, [ServicesNext]_everything PROVE SearchInv'
  OBVIOUS
<1>1. CASE Search!Next
  BY <1>1, ClientStarts, RecvfromStep, MeasureStep, CreateStep, StrayStep, StartStep,
     RegisterStep, McastListenStep
  DEF Search!Next, Search!ClientStep, Search!ServerStep
<1>2. CASE UNCHANGED search
  BY <1>2, SearchKept
<1>3. QED
  BY <1>1, <1>2 DEF ServicesNext, CallsStep, QueuedStep, MessageStep, SearchStep, MarStep,
     WebStep, everything, search

\* In both variants, whatever datagrams are lost or strange and whoever starts,
\* fails or ends: calls go to a server that answered and can be connected to,
\* or to the local library, and never to both or to neither.
THEOREM CallsFindTheirTarget == ServicesSpec => []CallsHaveATarget
<1>1. ServicesInit => SearchInv
  BY SearchFirst DEF ServicesInit
<1>2. SearchInv => CallsHaveATarget
  <2> SUFFICES ASSUME SearchInv PROVE CallsHaveATarget
    OBVIOUS
  <2>1. Search!CallsHaveAPath
    BY DEF SearchInv, SearchType, Search!CallsHaveAPath
  <2>2. Search!ReachesAnAnnouncer
    BY DEF SearchInv, Target, Search!ReachesAnAnnouncer, Search!Listens
  <2>3. QED
    BY <2>1, <2>2 DEF SearchInv, CallsHaveATarget
<1>3. QED
  BY <1>1, <1>2, SearchNext, PTL DEF ServicesSpec
-------------------------------------------------------------------------------
(* The MAR service.                                                        *)

Places  == {"clear", "time", "ask", "wait", "request", "ended", "raised"}
Time    == 0..MaxTime
Rounds  == 1..MaxRounds
Told    == [latency : Int, time : Time, round : Rounds]
Pending == [at : {"store"}, time : Time, from : MarHosts, round : Rounds]

MarType ==
  /\ main \in Places /\ chosen \in MarHosts \cup {Nobody} /\ round \in 0..MaxRounds
  /\ discover_time \in Time /\ now \in Time /\ sentAt \in [Rounds -> Time]
  /\ servers \in [MarHosts -> Told \cup {Nobody}]
  /\ disc \in [at : {"new", "check", "recv", "ended"}] \cup Pending
  /\ running \in [MarHosts \cup {"client"} -> BOOLEAN]
  /\ inbox \subseteq (MarHosts \X Rounds) \cup {Mar!STOP_MSG}
  /\ ann \in [MarHosts -> {"new", "check", "recv", "ended"}]
  /\ asked \in [MarHosts -> Seq(0..MaxRounds)] /\ service \in [MarHosts -> {"up", "down"}]
  /\ unheard \subseteq MarHosts /\ talk \in [MarHosts -> 0..2] /\ forgot \subseteq MarHosts

\* An answer to discovery r may be about: r was asked, and if it is the last
\* one, after its time was taken.
About(r) ==
  /\ r <= round /\ (main = "ask" => r < round)
  /\ r = round => discover_time <= sentAt[r]

RoundInv ==
  /\ discover_time <= now
  /\ main = "time" => round < MaxRounds
  /\ main = "ask" => round >= 1
  /\ \A s \in MarHosts : \A n \in DOMAIN asked[s] : asked[s][n] # 0 => About(asked[s][n])
  /\ \A d \in inbox : d # Mar!STOP_MSG => About(d[2])
  /\ disc.at = "store" => About(disc.round)
  /\ \A s \in Mar!Known :
       /\ About(servers[s].round)
       /\ servers[s].round = round =>
            servers[s].latency >= servers[s].time - sentAt[servers[s].round]

\* An announcer that was not forgotten finds `running` false when it has
\* answered itself.
TalkInv ==
  \A s \in MarHosts :
    /\ service[s] = "up" => talk[s] = 0 /\ \A n \in DOMAIN asked[s] : asked[s][n] # Mar!Self
    /\ ann[s] = "new" => talk[s] = 0
    /\ s \notin forgot =>
         /\ talk[s] <= 1
         /\ ann[s] = "recv" => talk[s] = 0
         /\ service[s] = "down" => ~running[s]

MarInv == MarType /\ RoundInv /\ TalkInv

LEMMA MarParameters ==
  MaxRounds \in Nat \ {0} /\ MaxTime \in Nat /\ "client" \notin MarHosts
BY PartsAssumption DEF Mar!MarAssumption

LEMMA MarFirst == Mar!Init => MarInv
<1> USE MarParameters
<1> SUFFICES ASSUME Mar!Init PROVE MarInv
  OBVIOUS
<1>1. asked \in [MarHosts -> Seq(0..MaxRounds)] /\ \A s \in MarHosts : asked[s] = <<>>
  BY DEF Mar!Init
<1>2. MarType
  BY <1>1 DEF Mar!Init, MarType, Places, Time, Rounds
<1>3. RoundInv
  BY <1>1 DEF Mar!Init, RoundInv, Mar!Known, Time
<1>4. TalkInv
  BY <1>1 DEF Mar!Init, TalkInv
<1>5. QED
  BY <1>2, <1>3, <1>4 DEF MarInv

LEMMA MarKept == ASSUME MarInv, UNCHANGED mar PROVE MarInv'
BY DEF MarInv, MarType, RoundInv, TalkInv, About, Mar!Known, mar

\* A queue a datagram came to holds what it held, and the datagram.
LEMMA ArrivesIn ==
  ASSUME NEW S, NEW q \in Seq(S), NEW place \in Nat \ {0}, NEW d \in S
  PROVE  /\ Mar!Arrives(q, place, d) \in Seq(S)
         /\ \A n \in DOMAIN Mar!Arrives(q, place, d) :
              \/ Mar!Arrives(q, place, d)[n] = d
              \/ \E k \in DOMAIN q : Mar!Arrives(q, place, d)[n] = q[k]
<1>1. PICK l \in Nat : l = Len(q) /\ DOMAIN q = 1..l /\ \A k \in 1..l : q[k] \in S
  BY ElementOfSeq, LenProperties
<1>2. CASE place > l
  <2>1. Mar!Arrives(q, place, d) = Append(q, d)
    BY <1>1, <1>2 DEF Mar!Arrives
  <2>2. QED
    BY <1>1, <2>1, AppendProperties
<1>3. CASE place <= l
  <2>1. PICK a, b : a = SubSeq(q, 1, place - 1) /\ b = SubSeq(q, place, l)
    OBVIOUS
  <2>2. /\ a \in Seq(S) /\ Len(a) = place - 1
        /\ \A n \in 1..(place - 1) : a[n] = q[n]
    BY <1>1, <1>3, <2>1, SubSeqProperties
  <2>3. /\ b \in Seq(S) /\ Len(b) = l - place + 1
        /\ \A n \in 1..(l - place + 1) : b[n] = q[place + n - 1]
    BY <1>1, <1>3, <2>1, SubSeqProperties
  <2>4. PICK e : e = a \o <<d>>
    OBVIOUS
  <2>5. /\ e \in Seq(S) /\ Len(e) = place
        /\ \A n \in 1..place : e[n] = IF n < place THEN a[n] ELSE d
    BY <2>2, <2>4, ConcatProperties
  <2>6. PICK f : f = e \o b
    OBVIOUS
  <2>7. /\ f \in Seq(S) /\ DOMAIN f = 1..(l + 1)
        /\ \A n \in 1..(l + 1) : f[n] = IF n <= place THEN e[n] ELSE b[n - place]
    BY <1>1, <1>3, <2>3, <2>5, <2>6, ConcatProperties
  <2>8. f = Mar!Arrives(q, place, d)
    BY <1>1, <1>3, <2>1, <2>4, <2>6 DEF Mar!Arrives, Mar!InsertAt
  <2>9. ASSUME NEW n \in 1..(l + 1) PROVE f[n] = d \/ \E k \in DOMAIN q : f[n] = q[k]
    <3>1. CASE n < place
      <4>1. n \in 1..(place - 1) /\ n \in 1..place /\ n \in 1..l
        BY <1>1, <1>3, <3>1
      <4>2. f[n] = e[n] /\ e[n] = a[n] /\ a[n] = q[n]
        BY <2>2, <2>5, <2>7, <3>1, <4>1
      <4>3. QED
        BY <1>1, <4>1, <4>2
    <3>2. CASE n = place
      BY <1>3, <2>5, <2>7, <3>2
    <3>3. CASE n > place
      <4>1. f[n] = b[n - place] /\ n - place \in 1..(l - place + 1)
        BY <1>1, <1>3, <2>7, <3>3
      <4>2. f[n] = q[n - 1] /\ n - 1 \in 1..l
        BY <1>1, <1>3, <2>3, <3>3, <4>1
      <4>3. QED
        BY <1>1, <4>2
    <3>4. QED
      BY <3>1, <3>2, <3>3
  <2>10. QED
    BY <2>7, <2>8, <2>9
<1>4. QED
  BY <1>1, <1>2, <1>3

\* What a step that leaves the client's rounds as they are keeps of About.
LEMMA AboutKept ==
  ASSUME main' = main, round' = round, discover_time' = discover_time, sentAt' = sentAt
  PROVE  \A r : About(r) => About(r)'
BY DEF About

LEMMA TickKeeps == ASSUME MarInv, Mar!Tick PROVE MarInv'
<1> USE MarParameters
<1> USE DEF Mar!Tick, Mar!client, Mar!server
<1>1. MarType'
  BY DEF MarInv, MarType, Time
<1>2. RoundInv'
  BY DEF MarInv, MarType, RoundInv, About, Mar!Known, Time
<1>3. TalkInv'
  BY DEF MarInv, TalkInv
<1>4. QED
  BY <1>1, <1>2, <1>3 DEF MarInv

LEMMA ClearKeeps == ASSUME MarInv, Mar!Clear PROVE MarInv'
<1> USE MarParameters
<1> USE DEF Mar!Clear, Mar!server, Mar!At
<1>1. MarType'
  BY DEF MarInv, MarType, Places
<1>2. \A r : About(r) => About(r)'
  BY DEF About
<1>3. RoundInv'
  BY <1>2 DEF MarInv, RoundInv, Mar!Known
<1>4. TalkInv'
  BY DEF MarInv, TalkInv
<1>5. QED
  BY <1>1, <1>3, <1>4 DEF MarInv

LEMMA RoundsAreNumbers ==
  ASSUME MarType
  PROVE  /\ \A s \in MarHosts : \A n \in DOMAIN asked[s] : asked[s][n] \in Nat
         /\ \A d \in inbox : d # Mar!STOP_MSG => d[2] \in Nat
         /\ disc.at = "store" => disc.round \in Nat
         /\ \A s \in Mar!Known : servers[s].round \in Nat
<1>1. \A s \in MarHosts : asked[s] \in Seq(0..MaxRounds)
  BY DEF MarType
<1>2. ASSUME NEW s \in MarHosts, NEW n \in DOMAIN asked[s] PROVE asked[s][n] \in Nat
  <2>1. PICK q \in Seq(0..MaxRounds) : q = asked[s]
    BY <1>1
  <2>2. q[n] \in 0..MaxRounds
    BY <2>1, ElementOfSeq, LenProperties
  <2>3. QED
    BY <2>1, <2>2
<1>3. \A d \in inbox : d # Mar!STOP_MSG => d[2] \in Nat
  BY DEF MarType, Rounds
<1>4. disc.at = "store" => disc.round \in Nat
  BY DEF MarType, Pending, Rounds
<1>5. \A s \in Mar!Known : servers[s].round \in Nat
  BY DEF MarType, Told, Rounds, Mar!Known
<1>6. QED
  BY <1>2, <1>3, <1>4, <1>5

\* The new round is above every one that was asked.
LEMMA SetTimeKeeps == ASSUME MarInv, Mar!SetTime PROVE MarInv'
<1> USE MarParameters
<1> USE DEF Mar!SetTime, Mar!server, Mar!At
<1>1. round \in Nat /\ round < MaxRounds
  BY DEF MarInv, MarType, RoundInv
<1>2. MarType'
  BY <1>1 DEF MarInv, MarType, Places
<1>3. ASSUME NEW r \in Nat, About(r) PROVE r < round' /\ About(r)'
  BY <1>1, <1>3 DEF About
<1>4. discover_time' <= now' /\ main' # "time" /\ round' >= 1
  BY <1>1 DEF MarInv, MarType, Time
<1>5. \A s \in Mar!Known : servers[s].round # round'
  BY <1>3, RoundsAreNumbers DEF MarInv, RoundInv
<1>6. RoundInv'
  BY <1>3, <1>4, <1>5, RoundsAreNumbers DEF MarInv, RoundInv, Mar!Known
<1>7. TalkInv'
  BY DEF MarInv, TalkInv
<1>8. QED
  BY <1>2, <1>6, <1>7 DEF MarInv

\* While it is asked, every datagram on its way is of an earlier round.
LEMMA AskKeeps == ASSUME MarInv, Mar!Ask PROVE MarInv'
<1> USE MarParameters
<1> USE DEF Mar!Ask, Mar!At
<1>1. /\ round \in Rounds /\ now \in Time /\ main = "ask" /\ main' = "wait"
      /\ sentAt' \in [Rounds -> Time] /\ sentAt'[round] = now
      /\ \A r \in Rounds \ {round} : sentAt'[r] = sentAt[r]
  BY DEF MarInv, MarType, RoundInv, Rounds
<1>2. PICK reached \in SUBSET MarHosts, place \in 1..MaxRounds :
        /\ asked' = [s \in MarHosts |->
             IF s \in reached /\ ann[s] # "ended"
             THEN Mar!Arrives(asked[s], place, round) ELSE asked[s]]
        /\ unheard' = {s \in MarHosts : s \notin reached \/ ann[s] = "ended"}
  OBVIOUS
<1>3. ASSUME NEW s \in MarHosts
      PROVE  /\ asked'[s] \in Seq(0..MaxRounds)
             /\ \A n \in DOMAIN asked'[s] :
                  asked'[s][n] = round \/ \E k \in DOMAIN asked[s] : asked'[s][n] = asked[s][k]
  <2>1. asked[s] \in Seq(0..MaxRounds) /\ round \in 0..MaxRounds
    BY <1>1 DEF MarInv, MarType, Rounds
  <2>2. CASE s \in reached /\ ann[s] # "ended"
    <3>1. PICK S, q : S = 0..MaxRounds /\ q \in Seq(S) /\ q = asked[s]
      BY <2>1
    <3>2. PICK p \in Nat \ {0}, d \in S :
            d = round /\ asked'[s] = Mar!Arrives(q, p, d)
      BY <1>2, <2>1, <2>2, <3>1
    <3>3. PICK v : v = Mar!Arrives(q, p, d)
      OBVIOUS
    <3>4. /\ v \in Seq(S)
          /\ \A n \in DOMAIN v : v[n] = d \/ \E k \in DOMAIN q : v[n] = q[k]
      <4>1. q \in Seq(S) /\ p \in Nat \ {0} /\ d \in S
        BY <3>1
      <4>2. /\ Mar!Arrives(q, p, d) \in Seq(S)
            /\ \A n \in DOMAIN Mar!Arrives(q, p, d) :
                 \/ Mar!Arrives(q, p, d)[n] = d
                 \/ \E k \in DOMAIN q : Mar!Arrives(q, p, d)[n] = q[k]
        BY ONLY <4>1, ArrivesIn
      <4>3. QED
        BY <3>3, <4>2
    <3>5. QED
      BY <3>1, <3>2, <3>3, <3>4
  <2>3. CASE ~(s \in reached /\ ann[s] # "ended")
    BY <1>2, <2>1, <2>3
  <2>4. QED
    BY <2>2, <2>3
<1>4. MarType'
  BY <1>1, <1>2, <1>3 DEF MarInv, MarType, Places
<1>5. About(round)'
  BY <1>1 DEF About, MarInv, MarType, RoundInv, Rounds, Time
<1>6. ASSUME NEW r \in Nat, About(r) PROVE About(r)'
  BY <1>1, <1>6 DEF About, Rounds
<1>7. ASSUME NEW s \in MarHosts, NEW n \in DOMAIN asked'[s], asked'[s][n] # 0
      PROVE  About(asked[s][n])'
  <2>1. PICK r : r = asked'[s][n]
    OBVIOUS
  <2>2. CASE r = round
    <3>1. round' = r
      BY <2>2
    <3>2. About(r)'
      BY <1>5, <2>2, <3>1 DEF About
    <3>3. QED
      BY <2>1, <3>2
  <2>3. CASE r # round
    <3>1. PICK k \in DOMAIN asked[s] : r = asked[s][k]
      BY <1>3, <2>1, <2>3
    <3>2. r \in Nat /\ About(r)
      BY <1>7, <2>1, <3>1, RoundsAreNumbers DEF MarInv, RoundInv
    <3>3. About(r)'
      BY <1>6, <3>2
    <3>4. QED
      BY <2>1, <3>3
  <2>4. QED
    BY <2>2, <2>3
<1>8. \A s \in Mar!Known : servers[s].round # round
  BY <1>1 DEF MarInv, MarType, RoundInv, About, Rounds, Told, Mar!Known
<1>9. RoundInv'
  <2>1. \A d \in inbox : d # Mar!STOP_MSG => About(d[2])'
    BY <1>6, RoundsAreNumbers DEF MarInv, RoundInv
  <2>2. disc.at = "store" => About(disc.round)'
    BY <1>6, RoundsAreNumbers DEF MarInv, RoundInv
  <2>3. \A s \in Mar!Known : About(servers[s].round)'
    BY <1>6, RoundsAreNumbers DEF MarInv, RoundInv
  <2>4. discover_time <= now /\ round >= 1
    BY <1>1 DEF MarInv, RoundInv
  <2>5. QED
    BY <1>1, <1>7, <1>8, <2>1, <2>2, <2>3, <2>4 DEF RoundInv, Mar!Known
<1>10. ASSUME NEW s \in MarHosts, \A n \in DOMAIN asked[s] : asked[s][n] # Mar!Self,
              NEW n \in DOMAIN asked'[s]
       PROVE  asked'[s][n] # Mar!Self
  <2>1. round # Mar!Self
    BY <1>1 DEF Rounds, Mar!Self
  <2>2. asked'[s][n] = round \/ \E k \in DOMAIN asked[s] : asked'[s][n] = asked[s][k]
    BY <1>3
  <2>3. QED
    BY <1>10, <2>1, <2>2
<1>11. TalkInv'
  BY <1>10 DEF MarInv, TalkInv
<1>12. QED
  BY <1>4, <1>9, <1>11 DEF MarInv

LEMMA MainGoesOn ==
  ASSUME MarInv, Mar!Choose \/ Mar!Request \/ Mar!Interrupt PROVE MarInv'
<1> USE MarParameters
<1>1. /\ main' \in Places \ {"ask", "time"} /\ chosen' \in MarHosts \cup {Nobody}
      /\ inbox' \in {inbox, inbox \cup {Mar!STOP_MSG}}
      /\ running' \in {running, [running EXCEPT !["client"] = FALSE]}
      /\ UNCHANGED <<round, discover_time, servers, disc, sentAt, ann, asked, service,
                     talk, forgot, now, unheard>>
  BY DEF Mar!Choose, Mar!Request, Mar!Interrupt, Mar!At, Mar!Stop, Mar!Best, Mar!Known,
         Mar!server, Places
<1>2. MarType'
  BY <1>1 DEF MarInv, MarType
<1>3. \A r : About(r) => About(r)'
  BY <1>1 DEF About
<1>4. RoundInv'
  BY <1>1, <1>3 DEF MarInv, RoundInv, Mar!Known
<1>5. \A s \in MarHosts : ~running[s] => ~running'[s]
  BY <1>1 DEF MarInv, MarType
<1>6. TalkInv'
  BY <1>1, <1>5 DEF MarInv, TalkInv
<1>7. QED
  BY <1>2, <1>4, <1>6 DEF MarInv

\* What a step that does not change the client's rounds keeps.
LEMMA RoundsKept ==
  ASSUME MarInv, UNCHANGED <<main, round, discover_time, sentAt, now>>,
         \A s \in MarHosts : \A n \in DOMAIN asked'[s] :
           asked'[s][n] = 0 \/ \E k \in DOMAIN asked[s] : asked'[s][n] = asked[s][k],
         \A d \in inbox' : d \in inbox \/ d = Mar!STOP_MSG \/ About(d[2]),
         disc' = disc \/ (disc'.at = "store" => About(disc'.round)),
         servers' = servers
  PROVE  RoundInv'
<1>1. ASSUME NEW r, About(r) PROVE About(r)'
  BY <1>1 DEF About
<1>2. ASSUME NEW s \in MarHosts, NEW n \in DOMAIN asked'[s], asked'[s][n] # 0
      PROVE  About(asked[s][n])'
  <2>1. PICK r : r = asked'[s][n]
    OBVIOUS
  <2>2. PICK k \in DOMAIN asked[s] : r = asked[s][k]
    BY <1>2, <2>1
  <2>3. About(r)
    BY <1>2, <2>1, <2>2 DEF MarInv, RoundInv
  <2>4. QED
    BY <1>1, <2>1, <2>3
<1>3. ASSUME NEW d \in inbox', d # Mar!STOP_MSG PROVE About(d[2])'
  BY <1>1, <1>3 DEF MarInv, RoundInv
<1>4. ASSUME disc'.at = "store" PROVE About(disc.round)'
  <2>1. PICK r : r = disc'.round
    OBVIOUS
  <2>2. About(r)
    BY <1>4, <2>1 DEF MarInv, RoundInv
  <2>3. QED
    BY <1>1, <2>1, <2>2
<1>5. ASSUME NEW s \in Mar!Known
      PROVE  /\ About(servers[s].round)'
             /\ servers[s].round = round =>
                  servers[s].latency >= servers[s].time - sentAt[servers[s].round]
  BY <1>1 DEF MarInv, RoundInv
<1>6. QED
  BY <1>2, <1>3, <1>4, <1>5 DEF MarInv, RoundInv, Mar!Known

LEMMA DiscovererGoesOn == ASSUME MarInv, Mar!Discoverer PROVE MarInv'
<1> USE MarParameters
<1>1. CASE Mar!DiscRuns \/ Mar!DiscChecks
  <2>1. /\ disc' \in [at : {"check", "recv", "ended"}]
        /\ running' \in {running, [running EXCEPT !["client"] = TRUE]}
        /\ UNCHANGED <<main, chosen, round, discover_time, servers, inbox, sentAt, ann, asked,
                       service, talk, forgot, now, unheard>>
    BY <1>1 DEF Mar!DiscRuns, Mar!DiscChecks, Mar!server
  <2>2. MarType'
    BY <2>1 DEF MarInv, MarType
  <2>3. RoundInv'
    BY <2>1, RoundsKept
  <2>4. \A s \in MarHosts : running'[s] = running[s]
    BY <2>1, MarParameters DEF MarInv, MarType
  <2>5. TalkInv'
    BY <2>1, <2>4 DEF MarInv, TalkInv
  <2>6. QED
    BY <2>2, <2>3, <2>5 DEF MarInv
<1>2. CASE Mar!DiscReceives
  <2>1. PICK d \in inbox :
          /\ inbox' = inbox \ {d}
          /\ disc' = IF d = Mar!STOP_MSG THEN [at |-> "ended"]
                     ELSE [at |-> "store", time |-> now, from |-> d[1], round |-> d[2]]
    BY <1>2 DEF Mar!DiscReceives
  <2>2. UNCHANGED <<main, chosen, round, discover_time, servers, sentAt, running, ann, asked,
                    service, talk, forgot, now, unheard>>
    BY <1>2 DEF Mar!DiscReceives, Mar!server
  <2>3. d # Mar!STOP_MSG => d[1] \in MarHosts /\ d[2] \in Rounds /\ About(d[2])
    BY <2>1 DEF MarInv, MarType, RoundInv
  <2>4. disc' \in [at : {"ended"}] \cup Pending /\ (disc'.at = "store" => About(disc'.round))
    BY <2>1, <2>3 DEF Pending, MarInv, MarType
  <2>5. MarType'
    BY <2>1, <2>2, <2>4 DEF MarInv, MarType
  <2>6. RoundInv'
    BY <2>1, <2>2, <2>4, RoundsKept
  <2>7. TalkInv'
    BY <2>2 DEF MarInv, TalkInv
  <2>8. QED
    BY <2>5, <2>6, <2>7 DEF MarInv
<1>3. CASE Mar!update_service
  <2>1. PICK told : told = [latency |-> disc.time - discover_time, time |-> disc.time,
                            round |-> disc.round]
    OBVIOUS
  <2>2. /\ disc.at = "store" /\ disc' = [at |-> "check"]
        /\ servers' = [servers EXCEPT ![disc.from] = told]
        /\ UNCHANGED <<main, chosen, round, discover_time, inbox, sentAt, running, ann, asked,
                       service, talk, forgot, now, unheard>>
    BY <1>3, <2>1 DEF Mar!update_service, Mar!server
  <2>3. /\ disc.time \in Time /\ disc.from \in MarHosts /\ disc.round \in Rounds
        /\ About(disc.round) /\ discover_time \in Time
    BY <2>2 DEF MarInv, MarType, RoundInv, Pending
  <2>4. told \in Told
    BY <2>1, <2>3 DEF Told, Time
  <2>5. MarType'
    BY <2>2, <2>3, <2>4 DEF MarInv, MarType
  <2>6. ASSUME NEW r, About(r) PROVE About(r)'
    BY <2>2, <2>6 DEF About
  <2>7. ASSUME NEW s \in MarHosts, servers'[s] # Nobody
        PROVE  /\ About(servers[s].round)'
               /\ servers'[s].round = round' =>
                    servers'[s].latency >= servers'[s].time - sentAt'[servers'[s].round]
    <3>1. CASE s = disc.from
      <4>1. servers'[s] = told
        BY <2>2, <2>3, <3>1 DEF MarInv, MarType
      <4>2. PICK r \in Rounds : r = told.round /\ About(r)
        BY <2>1, <2>3
      <4>3. About(r)' /\ r = servers'[s].round
        BY <2>6, <4>1, <4>2
      <4>4. told.round = round => told.latency >= told.time - sentAt[told.round]
        <5>1. told.latency = disc.time - discover_time /\ told.time = disc.time
          BY <2>1
        <5>2. sentAt[r] \in Time
          BY <4>2 DEF MarInv, MarType
        <5>3. r = round => discover_time <= sentAt[r]
          BY <4>2 DEF About
        <5>4. QED
          BY <2>3, <4>2, <5>1, <5>2, <5>3 DEF Time
      <4>5. QED
        BY <2>2, <4>1, <4>3, <4>4
    <3>2. CASE s # disc.from
      <4>1. servers'[s] = servers[s] /\ s \in Mar!Known
        BY <2>2, <2>3, <2>7, <3>2 DEF MarInv, MarType, Mar!Known
      <4>2. PICK r : r = servers[s].round /\ About(r)
        BY <4>1 DEF MarInv, RoundInv
      <4>3. About(r)' /\ r = servers'[s].round
        BY <2>6, <4>1, <4>2
      <4>4. QED
        BY <2>2, <4>1, <4>3 DEF MarInv, RoundInv
    <3>3. QED
      BY <3>1, <3>2
  <2>8. RoundInv'
    BY <2>2, <2>6, <2>7 DEF MarInv, RoundInv, Mar!Known
  <2>9. TalkInv'
    BY <2>2 DEF MarInv, TalkInv
  <2>10. QED
    BY <2>5, <2>8, <2>9 DEF MarInv
<1>4. QED
  BY <1>1, <1>2, <1>3 DEF Mar!Discoverer
\* What an announcer's step, or its service's, keeps of the client.
LEMMA ClientKept == ASSUME Mar!client' = Mar!client PROVE
  UNCHANGED <<main, chosen, round, discover_time, servers, disc, inbox, sentAt>>
BY DEF Mar!client

LEMMA RunsKeeps == ASSUME MarInv, NEW s \in MarHosts, Mar!Runs(s) PROVE MarInv'
<1> USE DEF Mar!Runs
<1>1. UNCHANGED <<main, chosen, round, discover_time, servers, disc, inbox, sentAt>>
  BY ClientKept
<1>2. MarType'
  BY <1>1 DEF MarInv, MarType
<1>3. RoundInv'
  BY <1>1, RoundsKept
<1>4. TalkInv'
  BY DEF MarInv, MarType, TalkInv
<1>5. QED
  BY <1>2, <1>3, <1>4 DEF MarInv

LEMMA ChecksKeeps == ASSUME MarInv, NEW s \in MarHosts, Mar!Checks(s) PROVE MarInv'
<1> USE DEF Mar!Checks
<1>1. UNCHANGED <<main, chosen, round, discover_time, servers, disc, inbox, sentAt>>
  BY ClientKept
<1>2. MarType'
  BY <1>1 DEF MarInv, MarType
<1>3. RoundInv'
  BY <1>1, RoundsKept
<1>4. TalkInv'
  BY DEF MarInv, MarType, TalkInv
<1>5. QED
  BY <1>2, <1>3, <1>4 DEF MarInv

LEMMA StopsKeeps == ASSUME MarInv, NEW s \in MarHosts, Mar!Stops(s) PROVE MarInv'
<1> USE DEF Mar!Stops, Mar!Self
<1>1. UNCHANGED <<main, chosen, round, discover_time, servers, disc, inbox, sentAt>>
  BY ClientKept
<1>2. PICK S, q : S = 0..MaxRounds /\ q \in Seq(S) /\ q = asked[s]
  BY DEF MarInv, MarType
<1>3. PICK v : v = Append(q, 0)
  OBVIOUS
<1>4. v \in Seq(S) /\ \A n \in DOMAIN v : v[n] = 0 \/ \E k \in DOMAIN q : v[n] = q[k]
  <2>1. 0 \in S
    BY <1>2, MarParameters
  <2>2. PICK l \in Nat : l = Len(q) /\ DOMAIN q = 1..l
    BY <1>2, LenProperties
  <2>3. v \in Seq(S) /\ Len(v) = l + 1 /\ v[l + 1] = 0 /\ \A n \in 1..l : v[n] = q[n]
    BY <1>2, <1>3, <2>1, <2>2, AppendProperties
  <2>4. DOMAIN v = 1..(l + 1)
    BY <2>3, LenProperties
  <2>5. QED
    BY <2>2, <2>3, <2>4
<1>5. asked' = [asked EXCEPT ![s] = v]
  BY <1>2, <1>3
<1>6. MarType'
  <2>1. asked' \in [MarHosts -> Seq(0..MaxRounds)]
    <3>1. asked \in [MarHosts -> Seq(S)]
      BY <1>2 DEF MarInv, MarType
    <3>2. asked' \in [MarHosts -> Seq(S)]
      BY <1>4, <1>5, <3>1
    <3>3. QED
      BY <1>2, <3>2
  <2>2. /\ service' \in [MarHosts -> {"up", "down"}]
        /\ running' \in [MarHosts \cup {"client"} -> BOOLEAN]
    BY DEF MarInv, MarType
  <2>3. QED
    BY <1>1, <2>1, <2>2 DEF MarInv, MarType
<1>7. \A t \in MarHosts : asked'[t] = IF t = s THEN v ELSE asked[t]
  BY <1>5 DEF MarInv, MarType
<1>8. RoundInv'
  BY <1>1, <1>2, <1>4, <1>7, RoundsKept
<1>9. TalkInv'
  BY <1>7 DEF MarInv, MarType, TalkInv
<1>10. QED
  BY <1>6, <1>8, <1>9 DEF MarInv

\* An announcer that answers itself was stopped.
LEMMA AnswersKeeps == ASSUME MarInv, NEW s \in MarHosts, Mar!Answers(s) PROVE MarInv'
<1> USE DEF Mar!Self
<1>1. PICK S, q : S = 0..MaxRounds /\ q \in Seq(S) /\ q = asked[s] /\ q # <<>>
  BY DEF MarInv, MarType, Mar!Answers
<1>2. PICK d \in S, rest \in Seq(S) :
        /\ d = Head(q) /\ d = q[1] /\ 1 \in DOMAIN q /\ rest = Tail(q)
        /\ \A n \in DOMAIN rest : \E k \in DOMAIN q : rest[n] = q[k]
  <2>1. PICK l \in Nat \ {0} : l = Len(q) /\ DOMAIN q = 1..l
    BY <1>1, LenProperties, EmptySeq
  <2>2. PICK rest : rest = Tail(q)
    OBVIOUS
  <2>3. rest \in Seq(S) /\ Len(rest) = l - 1 /\ \A n \in 1..Len(rest) : rest[n] = q[n + 1]
    BY <1>1, <2>1, <2>2, HeadTailProperties
  <2>4. DOMAIN rest = 1..(l - 1)
    BY <2>3, LenProperties
  <2>5. \A n \in DOMAIN rest : n + 1 \in DOMAIN q /\ rest[n] = q[n + 1]
    BY <2>1, <2>3, <2>4
  <2>6. Head(q) = q[1] /\ 1 \in DOMAIN q /\ q[1] \in S
    <3>1. 1 \in 1..Len(q)
      BY <2>1
    <3>2. q[1] \in S
      BY <1>1, <3>1, ElementOfSeq
    <3>3. Head(q) = q[1]
      BY <1>1 DEF Head
    <3>4. QED
      BY <2>1, <3>1, <3>2, <3>3
  <2>7. QED
    BY <2>2, <2>3, <2>5, <2>6
<1>3. /\ ann[s] = "recv" /\ ann' = [ann EXCEPT ![s] = "check"]
      /\ UNCHANGED <<main, chosen, round, discover_time, servers, disc, sentAt, service, forgot,
                     running, now>>
  BY DEF Mar!Answers
<1>4. CASE /\ d = 0 /\ talk' = [talk EXCEPT ![s] = IF @ < 2 THEN @ + 1 ELSE @]
           /\ asked' = [asked EXCEPT ![s] = Append(Tail(@), 0)]
           /\ UNCHANGED <<inbox, unheard>>
  <2>1. PICK v : v = Append(rest, 0)
    OBVIOUS
  <2>2. v \in Seq(S) /\ \A n \in DOMAIN v : v[n] = 0 \/ \E k \in DOMAIN q : v[n] = q[k]
    BY <1>2, <1>4, <2>1, AppendProperties, LenProperties
  <2>3. asked' = [asked EXCEPT ![s] = v]
    BY <1>1, <1>2, <1>4, <2>1
  <2>4. talk[s] \in 0..2 /\ talk' \in [MarHosts -> 0..2]
    BY <1>4 DEF MarInv, MarType
  <2>5. MarType'
    BY <1>1, <1>3, <1>4, <2>2, <2>3, <2>4 DEF MarInv, MarType
  <2>6. \A t \in MarHosts : asked'[t] = IF t = s THEN v ELSE asked[t]
    BY <2>3 DEF MarInv, MarType
  <2>7. RoundInv'
    BY <1>1, <1>3, <1>4, <2>2, <2>6, RoundsKept
  <2>8. service[s] # "up"
    BY <1>1, <1>2, <1>4 DEF MarInv, TalkInv
  <2>9. TalkInv'
    <3>1. \A t \in MarHosts \ {s} : asked'[t] = asked[t] /\ talk'[t] = talk[t] /\ ann'[t] = ann[t]
      BY <1>3, <1>4, <2>6 DEF MarInv, MarType
    <3>2. ann'[s] = "check" /\ (s \notin forgot => talk'[s] = 1)
      BY <1>3, <1>4 DEF MarInv, MarType, TalkInv
    <3>3. QED
      BY <1>3, <2>8, <3>1, <3>2 DEF MarInv, TalkInv
  <2>10. QED
    BY <2>5, <2>7, <2>9 DEF MarInv
<1>5. CASE /\ d # 0 /\ asked' = [asked EXCEPT ![s] = Tail(@)] /\ UNCHANGED talk
           /\ inbox' \in {inbox, inbox \cup {<<s, d>>}}
           /\ unheard' \in {unheard, unheard \cup {s}}
  <2>1. asked' = [asked EXCEPT ![s] = rest]
    BY <1>1, <1>2, <1>5
  <2>2. About(d) /\ d \in Rounds
    BY <1>1, <1>2, <1>5 DEF MarInv, RoundInv, Rounds
  <2>3. MarType'
    BY <1>1, <1>2, <1>3, <1>5, <2>1, <2>2 DEF MarInv, MarType
  <2>4. \A t \in MarHosts : asked'[t] = IF t = s THEN rest ELSE asked[t]
    BY <2>1 DEF MarInv, MarType
  <2>5. RoundInv'
    BY <1>1, <1>2, <1>3, <1>5, <2>2, <2>4, RoundsKept
  <2>6. TalkInv'
    BY <1>1, <1>2, <1>3, <1>5, <2>4 DEF MarInv, MarType, TalkInv
  <2>7. QED
    BY <2>3, <2>5, <2>6 DEF MarInv
<1>6. QED
  BY <1>1, <1>2, <1>4, <1>5 DEF Mar!Answers

LEMMA MarNext == ASSUME MarInv, Mar!Next PROVE MarInv'
BY TickKeeps, ClearKeeps, SetTimeKeeps, AskKeeps, MainGoesOn, DiscovererGoesOn, RunsKeeps,
   ChecksKeeps, AnswersKeeps, StopsKeeps DEF Mar!Next, Mar!Announcer

\* What the invariant says of latencies and of announcers.
LEMMA MarPromises == ASSUME MarInv PROVE LatenciesAreReal
<1> USE MarParameters
<1>1. ASSUME NEW s \in Mar!Known
      PROVE  /\ servers[s] \in Told \cup {Nobody} /\ servers[s] # Nobody /\ s \in MarHosts
             /\ About(servers[s].round)
  BY DEF MarInv, MarType, RoundInv, Mar!Known
<1>2. Mar!TypeOK
  <2>1. \A s \in Mar!Known : servers[s].time \in 0..MaxTime /\ servers[s].round \in 1..round
    BY <1>1 DEF Told, Time, Rounds, About, MarInv, MarType
  <2>2. disc.at \in {"new", "check", "recv", "store", "ended"}
    BY DEF MarInv, MarType, Pending
  <2>3. QED
    BY <2>1, <2>2 DEF Mar!TypeOK, MarInv, MarType, Places, Time
<1>3. Mar!FlatteredOnlyWhenLate
  <2>1. SUFFICES ASSUME NEW s \in Mar!Known,
                        servers[s].latency < servers[s].time - sentAt[servers[s].round]
                 PROVE  servers[s].round < round
    BY DEF Mar!FlatteredOnlyWhenLate
  <2>2. PICK t \in Told : t = servers[s]
    BY <1>1
  <2>3. /\ t.round \in Rounds /\ t.round <= round /\ round \in 0..MaxRounds
        /\ t.latency \in Int /\ t.time \in Time /\ sentAt[t.round] \in Time
    BY <1>1, <2>2 DEF Told, About, MarInv, MarType
  <2>4. t.round # round
    BY <2>1, <2>2, <2>3 DEF MarInv, RoundInv, Time
  <2>5. QED
    BY <2>2, <2>3, <2>4 DEF Rounds
<1>4. Mar!SelfTalkOnlyForgotten
  <2>1. \A s \in MarHosts : talk[s] \in 0..2
    BY DEF MarInv, MarType
  <2>2. \A s \in MarHosts : s \notin forgot => talk[s] <= 1
    BY DEF MarInv, TalkInv
  <2>3. QED
    BY <2>1, <2>2 DEF Mar!SelfTalkOnlyForgotten
<1>5. QED
  BY <1>2, <1>3, <1>4 DEF LatenciesAreReal

\* A server looks faster than it was only by an answer to an earlier discovery,
\* and an announcer talks to itself only when it was stopped before it ran.
THEOREM LatenciesCount == ServicesSpec => []LatenciesAreReal
<1>1. ServicesInit => MarInv
  BY MarFirst DEF ServicesInit
<1>2. MarInv /\ [ServicesNext]_everything => MarInv'
  BY MarNext, MarKept DEF ServicesNext, CallsStep, QueuedStep, MessageStep, SearchStep, MarStep,
     WebStep, everything
<1>3. QED
  BY <1>1, <1>2, MarPromises, PTL DEF ServicesSpec
-------------------------------------------------------------------------------
(* The web service.                                                        *)

Posts == Web!Requests
Part  == [status : {200, 404}] \cup [image : Posts]

\* What request r has been sent of request i's image.
Shown(r) == Web!Images(r)

\* A request is older than the next one, runs follow each other, and a run's
\* child has worked for one request at most.
WebTypes ==
  /\ run \in Nat \ {0} /\ stdin \in {"open", "closed"}
  /\ post \in {"idle", "files", "filter", "image", "end"} /\ request \in 0..MaxRequests
  /\ tmp_ppm \in Posts \cup {0} /\ out_ppm \in Posts \cup {0}
  /\ reply \in [Posts -> Seq(Part)] /\ began \in [Posts -> Nat] /\ failed \subseteq Posts
WebRequests ==
  /\ post # "idle" => request \in Posts /\ began[request] = run
  /\ \A r \in Posts : IF r <= request THEN began[r] \in 1..run
                      ELSE began[r] = 0 /\ reply[r] = <<>>
  /\ \A r \in Posts : \A i \in Shown(r) : i <= request
WebFiles ==
  /\ out_ppm # 0 => out_ppm <= request /\ (began[out_ppm] = run => stdin = "closed")
  /\ post = "filter" => tmp_ppm = request
  /\ post = "image" => stdin = "closed"
  /\ post = "image" /\ out_ppm # 0 /\ out_ppm # request =>
       request \in failed /\ began[out_ppm] < run
WebShown ==
  /\ post \in {"files", "filter", "image"} => Shown(request) = {}
  /\ stdin = "open" \/ post = "image" =>
       \A r \in Posts : Shown(r) # {} => began[r] # run

WebInv == WebTypes /\ WebRequests /\ WebFiles /\ WebShown

\* What the properties say, by the images.
OneEach == \A r, s \in Posts : Shown(r) # {} /\ Shown(s) # {} /\ r # s => began[r] # began[s]
OwnOrFailed ==
  \A r \in Posts : \A i \in Shown(r) : i # r => r \in failed /\ began[i] < began[r]

ImagesInv == WebInv /\ OneEach /\ OwnOrFailed

Sent(q, part) == reply' = [reply EXCEPT ![q] = Append(@, part)]
ImageOf(part) == IF "image" \in DOMAIN part THEN {part.image} ELSE {}

LEMMA PartsAre ==
  /\ \A n \in {200, 404} : [status |-> n] \in Part /\ ImageOf([status |-> n]) = {}
  /\ \A i \in Posts : [image |-> i] \in Part /\ ImageOf([image |-> i]) = {i}
BY DEF Part, ImageOf

\* Sending adds the part's image to the request's, if it is one.
LEMMA SendsPart ==
  ASSUME reply \in [Posts -> Seq(Part)], NEW q \in Posts, NEW part \in Part, Sent(q, part)
  PROVE  /\ reply' \in [Posts -> Seq(Part)]
         /\ \A r \in Posts : r # q => Shown(r)' = Shown(r) /\ reply'[r] = reply[r]
         /\ Shown(q)' = Shown(q) \cup ImageOf(part)
<1>1. /\ reply[q] \in Seq(Part) /\ reply'[q] = Append(reply[q], part)
      /\ reply' \in [Posts -> Seq(Part)]
      /\ \A r \in Posts : r # q => reply'[r] = reply[r]
  BY AppendProperties DEF Sent
<1>2. PICK l \in Nat : l = Len(reply[q])
  BY <1>1
<1>3. /\ DOMAIN reply[q] = 1..l /\ DOMAIN reply'[q] = 1..(l + 1)
      /\ \A n \in 1..l : reply'[q][n] = reply[q][n]
      /\ reply'[q][l + 1] = part
  BY <1>1, <1>2, AppendProperties
<1>4. \A r \in Posts : r # q => Shown(r)' = Shown(r)
  BY <1>1 DEF Shown, Web!Images
<1>5. Shown(q)' = Shown(q) \cup ImageOf(part)
  BY <1>3 DEF Shown, Web!Images, ImageOf
<1>6. QED
  BY <1>1, <1>4, <1>5

\* Nothing is shown of what was not sent.
LEMMA ShownIsSent ==
  ASSUME reply \in [Posts -> Seq(Part)], NEW r \in Posts
  PROVE  Shown(r) \subseteq Posts /\ (reply[r] = <<>> => Shown(r) = {})
<1>1. \A n \in DOMAIN reply[r] : reply[r][n] \in Part
  BY ElementOfSeq
<1>2. \A x \in Part : "image" \in DOMAIN x => x.image \in Posts
  BY DEF Part
<1>3. QED
  BY <1>1, <1>2 DEF Shown, Web!Images
LEMMA WebParameters ==
  Posts = 1..MaxRequests /\ MaxRequests \in Nat \ {0} /\ MaxRuns \in Nat \ {0}
BY PartsAssumption DEF Web!WebAssumption, Posts, Web!Requests

LEMMA ImagesFirst == Web!Init => ImagesInv
<1> SUFFICES ASSUME Web!Init PROVE ImagesInv
  OBVIOUS
<1> USE WebParameters DEF Web!Init
<1>1. reply \in [Posts -> Seq(Part)]
  BY DEF Posts
<1>2. \A r \in Posts : Shown(r) = {}
  BY <1>1, ShownIsSent DEF Posts
<1>3. WebInv
  BY <1>1, <1>2 DEF WebInv, WebTypes, WebRequests, WebFiles, WebShown, Posts
<1>4. QED
  BY <1>2, <1>3 DEF ImagesInv, OneEach, OwnOrFailed

LEMMA ImagesKept == ASSUME ImagesInv, UNCHANGED web PROVE ImagesInv'
<1>1. /\ run' = run /\ stdin' = stdin /\ post' = post /\ request' = request
      /\ tmp_ppm' = tmp_ppm /\ out_ppm' = out_ppm /\ reply' = reply /\ began' = began
      /\ failed' = failed
  BY DEF web
<1>2. \A r \in Posts : Shown(r)' = Shown(r)
  BY <1>1 DEF Shown, Web!Images
<1>3. WebInv'
  BY <1>1, <1>2 DEF ImagesInv, WebInv, WebTypes, WebRequests, WebFiles, WebShown
<1>4. QED
  BY <1>1, <1>2, <1>3 DEF ImagesInv, OneEach, OwnOrFailed

LEMMA PostStep == ASSUME ImagesInv, Web!do_POST PROVE ImagesInv'
<1> USE WebParameters
<1>0. WebTypes /\ WebRequests /\ WebFiles /\ WebShown /\ OneEach /\ OwnOrFailed
  BY DEF ImagesInv, WebInv
<1>1. PICK q \in Posts :
        /\ q = request + 1 /\ request' = q /\ began' = [began EXCEPT ![q] = run]
        /\ request < MaxRequests /\ request \in Nat
  <2>1. /\ request \in 0..MaxRequests /\ request < MaxRequests /\ request' = request + 1
        /\ began' = [began EXCEPT ![request'] = run]
    BY <1>0 DEF WebTypes, WebRequests, WebFiles, WebShown, Web!do_POST
  <2>2. request + 1 \in Posts /\ request \in Nat
    BY <2>1
  <2>3. QED
    BY <2>1, <2>2
<1>2. reply[q] = <<>> /\ began[q] = 0
  BY <1>0, <1>1 DEF WebTypes, WebRequests, WebFiles, WebShown
<1>3. Shown(q) = {} /\ \A r \in Posts : Shown(r) \subseteq Posts
  BY <1>0, <1>2, ShownIsSent DEF WebTypes, WebRequests, WebFiles, WebShown
<1>4. /\ reply' \in [Posts -> Seq(Part)]
      /\ \A r \in Posts : Shown(r)' = Shown(r)
      /\ \A r \in Posts : r # q => reply'[r] = reply[r]
  <2>1. CASE post' = "files" /\ Web!Sends([status |-> 200])
    <3>1. PICK part : part = [status |-> 200]
      OBVIOUS
    <3>2. part \in Part /\ ImageOf(part) = {}
      BY <3>1, PartsAre
    <3>3. Sent(q, part)
      BY <1>1, <2>1, <3>1 DEF Web!Sends, Sent
    <3>4. reply \in [Posts -> Seq(Part)]
      BY <1>0 DEF WebTypes, WebRequests, WebFiles, WebShown
    <3>5. /\ reply' \in [Posts -> Seq(Part)]
          /\ \A r \in Posts : r # q => Shown(r)' = Shown(r) /\ reply'[r] = reply[r]
          /\ Shown(q)' = Shown(q) \cup ImageOf(part)
      BY <3>2, <3>3, <3>4, SendsPart
    <3>6. Shown(q)' = Shown(q)
      BY <3>2, <3>5
    <3>7. QED
      BY <3>5, <3>6
  <2>2. CASE reply' = reply
    BY <1>0, <2>2 DEF WebTypes, WebRequests, WebFiles, WebShown, Shown, Web!Images
  <2>3. QED
    BY <2>1, <2>2 DEF Web!do_POST
<1>5. /\ began' \in [Posts -> Nat] /\ began'[q] = run
      /\ \A r \in Posts : r # q => began'[r] = began[r]
  BY <1>0, <1>1 DEF WebTypes, WebRequests, WebFiles, WebShown
<1>6. /\ run' = run /\ stdin' = stdin /\ tmp_ppm' = tmp_ppm /\ out_ppm' = out_ppm
      /\ failed' = failed /\ post' \in {"files", "end"} /\ post = "idle"
  BY DEF Web!do_POST
<1>7. WebInv'
  <2>1. /\ run' \in Nat \ {0} /\ stdin' \in {"open", "closed"}
        /\ tmp_ppm' \in Posts \cup {0} /\ out_ppm' \in Posts \cup {0}
        /\ failed' \subseteq Posts
    BY <1>0, <1>6 DEF WebTypes, WebRequests, WebFiles, WebShown
  <2>7. /\ request' \in Posts /\ request' \in 0..MaxRequests
        /\ post' \in {"idle", "files", "filter", "image", "end"}
    BY <1>1, <1>6
  <2>2. ASSUME NEW r \in Posts
        PROVE  IF r <= request' THEN began'[r] \in 1..run'
               ELSE began'[r] = 0 /\ reply'[r] = <<>>
    <3>1. CASE r = q
      BY <1>1, <1>5, <1>6, <2>1, <3>1
    <3>2. CASE r # q
      <4>1. began'[r] = began[r] /\ reply'[r] = reply[r] /\ run' = run
        BY <1>4, <1>5, <1>6, <3>2
      <4>2. r <= request' <=> r <= request
        BY <1>1, <3>2
      <4>3. IF r <= request THEN began[r] \in 1..run ELSE began[r] = 0 /\ reply[r] = <<>>
        BY <1>0 DEF WebTypes, WebRequests, WebFiles, WebShown
      <4>4. QED
        BY <4>1, <4>2, <4>3
    <3>3. QED
      BY <3>1, <3>2
  <2>3. \A r \in Posts : \A i \in Shown(r)' : i <= request'
    BY <1>0, <1>1, <1>3, <1>4 DEF WebTypes, WebRequests, WebFiles, WebShown
  <2>4. out_ppm' # 0 => out_ppm' <= request' /\ (began'[out_ppm'] = run' => stdin' = "closed")
    BY <1>0, <1>1, <1>5, <1>6 DEF WebTypes, WebRequests, WebFiles, WebShown
  <2>5. stdin' = "open" => \A r \in Posts : Shown(r)' # {} => began'[r] # run'
    BY <1>0, <1>3, <1>4, <1>5, <1>6 DEF WebTypes, WebRequests, WebFiles, WebShown
  <2>8. began'[request'] = run' /\ Shown(request)' = {}
    <3>1. Shown(q)' = {}
      BY <1>3, <1>4
    <3>2. request' = q
      BY <1>1
    <3>3. Shown(request)' = {}
      BY <3>1, <3>2 DEF Shown
    <3>4. QED
      BY <3>2, <3>3, <1>5, <1>6
  <2>9. WebTypes'
    BY <1>4, <1>5, <2>1, <2>7 DEF WebTypes
  <2>10. WebRequests'
    BY <2>2, <2>3, <2>7, <2>8 DEF WebRequests
  <2>11. WebFiles'
    BY <1>6, <2>4 DEF WebFiles
  <2>12. WebShown'
    BY <1>6, <2>5, <2>8 DEF WebShown
  <2>13. QED
    BY <2>9, <2>10, <2>11, <2>12 DEF WebInv
<1>8. OneEach'
  <2>1. \A r \in Posts : Shown(r)' # {} => r # q
    BY <1>3, <1>4
  <2>2. ASSUME NEW r \in Posts, NEW o \in Posts, Shown(r)' # {}, Shown(o)' # {}, r # o
        PROVE  began'[r] # began'[o]
    <3>1. r # q /\ o # q /\ Shown(r) # {} /\ Shown(o) # {}
      BY <2>1, <2>2, <1>4
    <3>2. began[r] # began[o]
      BY <1>0, <2>2, <3>1 DEF OneEach
    <3>3. QED
      BY <3>1, <3>2, <1>5
  <2>3. QED
    BY <2>2 DEF OneEach
<1>9. OwnOrFailed'
  <2>1. ASSUME NEW r \in Posts, NEW i \in Shown(r)', i # r
        PROVE  r \in failed' /\ began'[i] < began'[r]
    <3>1. i \in Shown(r) /\ r # q /\ i \in Posts
      BY <1>3, <1>4, <2>1
    <3>2. r \in failed /\ began[i] < began[r]
      BY <1>0, <2>1, <3>1 DEF OwnOrFailed
    <3>3. i # q
      BY <1>0, <1>1, <3>1 DEF WebTypes, WebRequests, WebFiles, WebShown
    <3>4. QED
      BY <1>5, <1>6, <3>1, <3>2, <3>3
  <2>2. QED
    BY <2>1 DEF OwnOrFailed
<1>10. QED
  BY <1>7, <1>8, <1>9 DEF ImagesInv

\* Steps that send nothing and take no request leave what was shown.
LEMMA FilesStep == ASSUME ImagesInv, Web!Files PROVE ImagesInv'
<1> USE WebParameters
<1>0. WebTypes /\ WebRequests /\ WebFiles /\ WebShown /\ OneEach /\ OwnOrFailed
  BY DEF ImagesInv, WebInv
<1>1. /\ run' = run /\ stdin' = stdin /\ request' = request /\ out_ppm' = out_ppm
      /\ reply' = reply /\ began' = began /\ failed' = failed /\ post = "files"
      /\ \/ post' = "filter" /\ tmp_ppm' = request
         \/ post' = "end" /\ tmp_ppm' = 0
  BY Zenon DEF Web!Files
<1>2. \A r \in Posts : Shown(r)' = Shown(r)
  BY <1>1 DEF Shown, Web!Images
<1>3. WebInv'
  <2>1. WebTypes'
    BY <1>0, <1>1, <1>2 DEF WebTypes
  <2>2. WebRequests'
    BY <1>0, <1>1, <1>2 DEF WebTypes, WebRequests
  <2>3. WebFiles'
    BY <1>0, <1>1, <1>2 DEF WebTypes, WebRequests, WebFiles
  <2>4. WebShown'
    BY <1>0, <1>1, <1>2 DEF WebTypes, WebRequests, WebFiles, WebShown
  <2>5. QED
    BY <2>1, <2>2, <2>3, <2>4 DEF WebInv
<1>4. QED
  BY <1>0, <1>1, <1>2, <1>3 DEF ImagesInv, OneEach, OwnOrFailed

LEMMA CommunicateStep == ASSUME ImagesInv, Web!Communicate PROVE ImagesInv'
<1> USE WebParameters
<1>0. WebTypes /\ WebRequests /\ WebFiles /\ WebShown /\ OneEach /\ OwnOrFailed
  BY DEF ImagesInv, WebInv
<1>1. /\ run' = run /\ request' = request /\ tmp_ppm' = tmp_ppm
      /\ reply' = reply /\ began' = began /\ post = "filter"
      /\ failed \subseteq failed' /\ failed' \subseteq failed \cup {request}
  BY DEF Web!Communicate
<1>2. \A r \in Posts : Shown(r)' = Shown(r)
  BY <1>1 DEF Shown, Web!Images
<1>3. request \in Posts /\ tmp_ppm = request /\ Shown(request) = {} /\ began[request] = run
  BY <1>0, <1>1 DEF WebTypes, WebRequests, WebFiles, WebShown
<1>4. CASE stdin = "open"
  <2>1. /\ stdin' = "closed" /\ post' = "image"
        /\ out_ppm' = tmp_ppm \/ (out_ppm' = out_ppm /\ failed' = failed \cup {request})
    BY <1>4, Zenon DEF Web!Communicate
  <2>6. out_ppm' = request \/ (out_ppm' = out_ppm /\ request \in failed')
    BY <1>3, <2>1
  <2>2. out_ppm # 0 => began[out_ppm] \in Nat /\ began[out_ppm] < run
    BY <1>0, <1>4 DEF WebTypes, WebRequests, WebFiles, WebShown
  <2>3. out_ppm' # 0 /\ out_ppm' # request' => request' \in failed' /\ began'[out_ppm'] < run'
    BY <1>1, <2>2, <2>6
  <2>4. WebInv'
    <3>1. WebTypes'
      BY <1>0, <1>1, <1>2, <1>3, <1>4, <2>1, <2>3, <2>6 DEF WebTypes
    <3>2. WebRequests'
      BY <1>0, <1>1, <1>2, <1>3, <1>4, <2>1, <2>3, <2>6 DEF WebTypes, WebRequests
    <3>3. WebFiles'
      BY <1>0, <1>1, <1>2, <1>3, <1>4, <2>1, <2>3, <2>6 DEF WebTypes, WebRequests, WebFiles
    <3>4. WebShown'
      BY <1>0, <1>1, <1>2, <1>3, <1>4, <2>1, <2>3, <2>6
      DEF WebTypes, WebRequests, WebFiles, WebShown
    <3>5. QED
      BY <3>1, <3>2, <3>3, <3>4 DEF WebInv
  <2>5. QED
    BY <1>0, <1>1, <1>2, <2>4 DEF ImagesInv, OneEach, OwnOrFailed
<1>5. CASE stdin = "closed"
  <2>1. stdin' = "closed" /\ post' = "end" /\ out_ppm' = out_ppm /\ failed' = failed
    BY <1>5 DEF Web!Communicate
  <2>2. WebInv'
    <3>1. WebTypes'
      BY <1>0, <1>1, <1>2, <1>3, <2>1 DEF WebTypes
    <3>2. WebRequests'
      BY <1>0, <1>1, <1>2, <1>3, <2>1 DEF WebTypes, WebRequests
    <3>3. WebFiles'
      BY <1>0, <1>1, <1>2, <1>3, <2>1 DEF WebTypes, WebRequests, WebFiles
    <3>4. WebShown'
      BY <1>0, <1>1, <1>2, <1>3, <2>1 DEF WebTypes, WebRequests, WebFiles, WebShown
    <3>5. QED
      BY <3>1, <3>2, <3>3, <3>4 DEF WebInv
  <2>3. QED
    BY <1>0, <1>1, <1>2, <2>2 DEF ImagesInv, OneEach, OwnOrFailed
<1>6. QED
  BY <1>0, <1>4, <1>5 DEF WebTypes, WebRequests, WebFiles, WebShown

\* The image that goes out is the first of its run, and the request's own or
\* one of an earlier run.
LEMMA ImageStep == ASSUME ImagesInv, Web!Image PROVE ImagesInv'
<1> USE WebParameters
<1>0. WebTypes /\ WebRequests /\ WebFiles /\ WebShown /\ OneEach /\ OwnOrFailed
  BY DEF ImagesInv, WebInv
<1>1. /\ run' = run /\ stdin' = stdin /\ request' = request /\ tmp_ppm' = tmp_ppm
      /\ out_ppm' = out_ppm /\ began' = began /\ failed' = failed
      /\ post = "image" /\ post' = "end"
  BY DEF Web!Image
<1>2. /\ request \in Posts /\ began[request] = run /\ Shown(request) = {}
      /\ stdin = "closed" /\ reply \in [Posts -> Seq(Part)]
      /\ \A r \in Posts : Shown(r) # {} => began[r] # run
      /\ out_ppm \in Posts \cup {0}
  BY <1>0, <1>1 DEF WebTypes, WebRequests, WebFiles, WebShown
<1>10. PICK q \in Posts : q = request /\ q = request'
  BY <1>1, <1>2
<1>3. /\ reply' \in [Posts -> Seq(Part)]
      /\ \A r \in Posts : r # q => Shown(r)' = Shown(r) /\ reply'[r] = reply[r]
      /\ Shown(q)' = {} \/ (out_ppm # 0 /\ Shown(q)' = {out_ppm})
  <2>1. CASE out_ppm = 0
    <3>1. reply' = reply
      BY <2>1 DEF Web!Image
    <3>2. \A r \in Posts : Shown(r)' = Shown(r)
      BY <3>1 DEF Shown, Web!Images
    <3>3. Shown(q)' = {}
      BY <1>2, <1>10, <3>2
    <3>4. reply' \in [Posts -> Seq(Part)]
      BY <1>2, <1>10, <3>1
    <3>5. QED
      BY <3>1, <3>2, <3>3, <3>4
  <2>2. CASE out_ppm # 0
    <3>1. PICK part : part = [image |-> out_ppm]
      OBVIOUS
    <3>2. part \in Part /\ ImageOf(part) = {out_ppm}
      BY <1>2, <1>10, <2>2, <3>1, PartsAre
    <3>3. Sent(q, part)
      BY <1>1, <1>10, <2>2, <3>1 DEF Web!Image, Web!Sends, Sent
    <3>4. /\ reply' \in [Posts -> Seq(Part)]
          /\ \A r \in Posts : r # q => Shown(r)' = Shown(r) /\ reply'[r] = reply[r]
          /\ Shown(q)' = Shown(q) \cup ImageOf(part)
      BY <1>2, <1>10, <3>2, <3>3, SendsPart
    <3>5. Shown(q)' = {out_ppm}
      BY <1>2, <1>10, <3>2, <3>4
    <3>6. QED
      BY <2>2, <3>4, <3>5
  <2>3. QED
    BY <2>1, <2>2
<1>4. out_ppm # 0 => out_ppm <= request
  BY <1>0 DEF WebTypes, WebRequests, WebFiles, WebShown
<1>5. out_ppm # 0 /\ out_ppm # request => request \in failed /\ began[out_ppm] < began[request]
  BY <1>0, <1>1, <1>2, <1>10 DEF WebTypes, WebRequests, WebFiles, WebShown
<1>6. WebInv'
  <2>1. ASSUME NEW r \in Posts, NEW i \in Shown(r)' PROVE i <= request'
    <3>1. CASE r = q
      BY <2>1, <3>1, <1>1, <1>3, <1>4
    <3>2. CASE r # q
      <4>1. i \in Shown(r)
        BY <2>1, <3>2, <1>3
      <4>2. QED
        BY <4>1, <1>0, <1>1 DEF WebRequests
    <3>3. QED
      BY <3>1, <3>2
  <2>2. \A r \in Posts : IF r <= request' THEN began'[r] \in 1..run'
                         ELSE began'[r] = 0 /\ reply'[r] = <<>>
    BY <1>0, <1>1, <1>2, <1>10, <1>3 DEF WebTypes, WebRequests, WebFiles, WebShown
  <2>3. WebTypes'
    BY <1>0, <1>1, <1>3 DEF WebTypes
  <2>4. WebRequests'
    BY <1>1, <1>2, <1>10, <2>1, <2>2 DEF WebRequests
  <2>5. WebFiles'
    BY <1>0, <1>1 DEF WebFiles
  <2>6. WebShown'
    BY <1>1, <1>2 DEF WebShown
  <2>7. QED
    BY <2>3, <2>4, <2>5, <2>6 DEF WebInv
<1>7. OneEach'
  <2>1. \A r \in Posts : Shown(r)' # {} =>
           r = q \/ (Shown(r) # {} /\ began[r] # began[request])
    BY <1>2, <1>10, <1>3
  <2>2. \A r, o \in Posts : Shown(r)' # {} /\ Shown(o)' # {} /\ r # o => began[r] # began[o]
    BY <1>0, <1>10, <2>1 DEF OneEach
  <2>3. QED
    BY <1>1, <2>2 DEF OneEach
<1>8. OwnOrFailed'
  BY <1>0, <1>1, <1>10, <1>3, <1>5 DEF OwnOrFailed
<1>9. QED
  BY <1>6, <1>7, <1>8 DEF ImagesInv

LEMMA SendErrorStep == ASSUME ImagesInv, Web!SendError PROVE ImagesInv'
<1> USE WebParameters
<1>0. WebTypes /\ WebRequests /\ WebFiles /\ WebShown /\ OneEach /\ OwnOrFailed
  BY DEF ImagesInv, WebInv
<1>1. /\ run' = run /\ stdin' = stdin /\ request' = request /\ tmp_ppm' = tmp_ppm
      /\ out_ppm' = out_ppm /\ began' = began /\ failed' = failed
      /\ post = "end" /\ post' = "idle"
  BY DEF Web!SendError
<1>2. request \in Posts /\ reply \in [Posts -> Seq(Part)]
  BY <1>0, <1>1 DEF WebTypes, WebRequests, WebFiles, WebShown
<1>3. /\ reply' \in [Posts -> Seq(Part)]
      /\ \A r \in Posts : Shown(r)' = Shown(r)
      /\ \A r \in Posts : r # request => reply'[r] = reply[r]
  <2>1. PICK part : part = [status |-> 404]
    OBVIOUS
  <2>2. part \in Part /\ ImageOf(part) = {}
    BY <2>1, PartsAre
  <2>3. Sent(request, part)
    BY <1>1, <2>1 DEF Web!SendError, Web!Sends, Sent
  <2>4. QED
    BY <1>2, <2>2, <2>3, SendsPart
<1>4. WebInv'
  <2>1. WebTypes'
    BY <1>0, <1>1, <1>2, <1>3 DEF WebTypes
  <2>2. WebRequests'
    BY <1>0, <1>1, <1>2, <1>3 DEF WebTypes, WebRequests
  <2>3. WebFiles'
    BY <1>0, <1>1, <1>2, <1>3 DEF WebTypes, WebRequests, WebFiles
  <2>4. WebShown'
    BY <1>0, <1>1, <1>2, <1>3 DEF WebTypes, WebRequests, WebFiles, WebShown
  <2>5. QED
    BY <2>1, <2>2, <2>3, <2>4 DEF WebInv
<1>5. OneEach' /\ OwnOrFailed'
  <2>1. began' = began /\ failed' = failed /\ \A r \in Posts : Shown(r)' = Shown(r)
    BY <1>1, <1>3
  <2>2. QED
    BY <1>0, <2>1 DEF OneEach, OwnOrFailed
<1>6. QED
  BY <1>4, <1>5 DEF ImagesInv

LEMMA RestartStep == ASSUME ImagesInv, Web!Restart PROVE ImagesInv'
<1> USE WebParameters
<1>0. WebTypes /\ WebRequests /\ WebFiles /\ WebShown /\ OneEach /\ OwnOrFailed
  BY DEF ImagesInv, WebInv
<1>1. /\ run' = run + 1 /\ stdin' = "open" /\ post' = "idle" /\ request' = request
      /\ tmp_ppm' = tmp_ppm /\ out_ppm' = out_ppm /\ reply' = reply /\ began' = began
      /\ failed' = failed
  BY DEF Web!Restart
<1>2. \A r \in Posts : Shown(r)' = Shown(r)
  BY <1>1 DEF Shown, Web!Images
<1>3. run \in Nat \ {0} /\ \A r \in Posts : began[r] \in Nat /\ began[r] <= run
  <2>1. run \in Nat \ {0} /\ \A r \in Posts : began[r] \in Nat
    BY <1>0 DEF WebTypes
  <2>2. \A r \in Posts : began[r] \in 1..run \/ began[r] = 0
    BY <1>0 DEF WebRequests
  <2>3. QED
    BY <2>1, <2>2
<1>4. WebInv'
  <2>1. ASSUME NEW r \in Posts
        PROVE  IF r <= request' THEN began'[r] \in 1..run'
               ELSE began'[r] = 0 /\ reply'[r] = <<>>
    <3>1. IF r <= request THEN began[r] \in 1..run ELSE began[r] = 0 /\ reply[r] = <<>>
      BY <1>0 DEF WebTypes, WebRequests, WebFiles, WebShown
    <3>2. 1..run \subseteq 1..(run + 1)
      BY <1>3
    <3>3. QED
      BY <1>1, <3>1, <3>2
  <2>2. \A r \in Posts : began'[r] # run'
    BY <1>1, <1>3
  <2>3. out_ppm' # 0 => out_ppm' <= request' /\ (began'[out_ppm'] = run' => stdin' = "closed")
    BY <1>0, <1>1, <2>2 DEF WebTypes, WebRequests, WebFiles, WebShown
  <2>4. run' \in Nat \ {0}
    BY <1>1, <1>3 DEF WebTypes, WebRequests, WebFiles, WebShown
  <2>5. \A r \in Posts : \A i \in Shown(r)' : i <= request'
    BY <1>0, <1>1, <1>2 DEF WebTypes, WebRequests, WebFiles, WebShown
  <2>6. /\ request' \in 0..MaxRequests /\ tmp_ppm' \in Posts \cup {0}
        /\ out_ppm' \in Posts \cup {0} /\ reply' \in [Posts -> Seq(Part)]
        /\ began' \in [Posts -> Nat] /\ failed' \subseteq Posts
    BY <1>0, <1>1 DEF WebTypes, WebRequests, WebFiles, WebShown
  <2>7. WebTypes'
    BY <1>1, <2>4, <2>6 DEF WebTypes
  <2>8. WebRequests'
    BY <1>1, <2>1, <2>5 DEF WebRequests
  <2>9. WebFiles'
    BY <1>1, <2>3 DEF WebFiles
  <2>10. WebShown'
    BY <1>1, <2>2 DEF WebShown
  <2>11. QED
    BY <2>7, <2>8, <2>9, <2>10 DEF WebInv
<1>5. QED
  BY <1>0, <1>1, <1>2, <1>4 DEF ImagesInv, OneEach, OwnOrFailed

LEMMA ImagesNext == ImagesInv /\ [ServicesNext]_everything => ImagesInv'
<1> SUFFICES ASSUME ImagesInv, [ServicesNext]_everything PROVE ImagesInv'
  OBVIOUS
<1>1. CASE Web!Next
  BY <1>1, PostStep, FilesStep, CommunicateStep, ImageStep, SendErrorStep, RestartStep
  DEF Web!Next, Web!Handles
<1>2. CASE UNCHANGED web
  BY <1>2, ImagesKept
<1>3. QED
  BY <1>1, <1>2 DEF ServicesNext, CallsStep, QueuedStep, MessageStep, SearchStep, MarStep,
     WebStep, everything, web

\* A run of the web service sends one image at most, and another request's only
\* after the filter failed: whenever the server is interrupted and restarted.
THEOREM ImagesOwn == ServicesSpec => []ImagesAreTheirOwn
<1>1. ServicesInit => ImagesInv
  BY ImagesFirst DEF ServicesInit
<1>2. ImagesInv => ImagesAreTheirOwn
  BY DEF ImagesInv, OneEach, OwnOrFailed, ImagesAreTheirOwn, Web!OneImagePerRun,
         Web!StaleOnlyAfterFailure, Shown, Posts
<1>3. QED
  BY <1>1, <1>2, ImagesNext, PTL DEF ServicesSpec

(* The messages of the SunRPC variant.                                     *)

LEMMA Least ==
  ASSUME NEW S \in SUBSET Nat, S # {}
  PROVE  \E x \in S : \A y \in S : ~(y < x)
<1>1. IsWellFoundedOn(OpToRel(<, Nat), Nat)
  BY NatLessThanWellFounded
<1>2. PICK x \in S : \A y \in S : ~(<<y, x>> \in OpToRel(<, Nat))
  BY <1>1, WFMin
<1>3. QED
  BY <1>2 DEF OpToRel

\* Induction, for a set of numbers.
LEMMA Induct ==
  ASSUME NEW S \in SUBSET Nat, 0 \in S, \A n \in S : n + 1 \in S
  PROVE  S = Nat
<1>1. SUFFICES ASSUME Nat \ S # {} PROVE FALSE
  OBVIOUS
<1>2. PICK x \in Nat \ S : \A y \in Nat \ S : ~(y < x)
  BY <1>1, Least
<1>3. x - 1 \in Nat \ S /\ x - 1 < x
  BY <1>2
<1>4. QED
  BY <1>2, <1>3

\* The same, for the places 1..n of a sequence.
LEMMA InductTo ==
  ASSUME NEW n \in Nat, NEW S, n >= 1 => 1 \in S,
         \A i \in 1..(n - 1) : i \in S => i + 1 \in S
  PROVE  1..n \subseteq S
<1> DEFINE T == {m \in Nat : m + 1 <= n => m + 1 \in S}
<1>1. 0 \in T
  OBVIOUS
<1>2. ASSUME NEW m \in T PROVE m + 1 \in T
  <2>1. m \in Nat /\ (m + 1 <= n => m + 1 \in S)
    OBVIOUS
  <2>2. (m + 1) + 1 <= n => m + 1 \in 1..(n - 1)
    BY <2>1
  <2>3. (m + 1) + 1 <= n => (m + 1) + 1 \in S
    BY <2>1, <2>2
  <2>4. QED
    BY <2>1, <2>3
<1>3. T = Nat
  <2> HIDE DEF T
  <2>1. T \in SUBSET Nat
    BY DEF T
  <2>2. QED
    BY <1>1, <1>2, <2>1, Induct
<1>4. ASSUME NEW i \in 1..n PROVE i \in S
  <2>1. i - 1 \in Nat /\ (i - 1) + 1 = i
    OBVIOUS
  <2>2. i - 1 \in T
    BY <1>3, <2>1
  <2>3. QED
    BY <2>1, <2>2
<1>5. QED
  BY <1>4

\* f begins with a and goes on by g.
Unrolled(f, g, a, n) ==
  f = [i \in 1..n |-> IF i = 1 THEN a ELSE g[<<i, f[i - 1]>>]]

LEMMA UnrolledExists ==
  ASSUME NEW n \in Nat, NEW S, NEW a \in S, NEW g \in [(1..n) \X S -> S]
  PROVE  \E f \in [1..n -> S] : Unrolled(f, g, a, n)
<1> DEFINE Good == {m \in Nat : m <= n => \E f \in [1..m -> S] : Unrolled(f, g, a, m)}
<1>1. 0 \in Good
  <2>1. 1..0 = {}
    OBVIOUS
  <2> DEFINE f == [i \in 1..0 |-> a]
  <2>2. f \in [1..0 -> S]
    BY <2>1
  <2>3. f = [i \in 1..0 |-> IF i = 1 THEN a ELSE g[<<i, f[i - 1]>>]]
    BY <2>1
  <2>4. QED
    <3> HIDE DEF f
    <3> QED
      BY <2>2, <2>3 DEF Unrolled
<1>2. ASSUME NEW m \in Good PROVE m + 1 \in Good
  <2>1. SUFFICES ASSUME m + 1 <= n
                 PROVE  \E f \in [1..(m + 1) -> S] : Unrolled(f, g, a, m + 1)
    OBVIOUS
  <2>2. m \in Nat
    OBVIOUS
  <2>3. PICK f \in [1..m -> S] : Unrolled(f, g, a, m)
    BY <2>1, <2>2
  <2>4. PICK e : e = IF m + 1 = 1 THEN a ELSE g[<<m + 1, f[m]>>]
    OBVIOUS
  <2>5. e \in S
    <3>1. CASE m = 0
      BY <2>4, <3>1
    <3>2. CASE m # 0
      <4>1. f[m] \in S /\ m + 1 \in 1..n
        BY <2>1, <2>2, <3>2
      <4>2. <<m + 1, f[m]>> \in (1..n) \X S /\ m + 1 # 1
        BY <2>2, <3>2, <4>1
      <4>3. QED
        BY <2>4, <4>2
    <3>3. QED
      BY <3>1, <3>2
  <2> DEFINE h == [i \in 1..(m + 1) |-> IF i = m + 1 THEN e ELSE f[i]]
  <2>6. h \in [1..(m + 1) -> S]
    BY <2>2, <2>5
  <2>7. ASSUME NEW i \in 1..(m + 1) PROVE h[i] = IF i = 1 THEN a ELSE g[<<i, h[i - 1]>>]
    <3>1. CASE i = m + 1
      <4>1. i # 1 => h[i - 1] = f[m] /\ i - 1 = m
        BY <2>2, <3>1
      <4>2. h[i] = e
        BY <3>1
      <4>3. QED
        BY <2>4, <3>1, <4>1, <4>2
    <3>2. CASE i # m + 1
      <4>1. i \in 1..m /\ h[i] = f[i] /\ (i # 1 => h[i - 1] = f[i - 1])
        BY <2>2, <3>2
      <4>2. f[i] = IF i = 1 THEN a ELSE g[<<i, f[i - 1]>>]
        BY <2>3, <4>1 DEF Unrolled
      <4>3. QED
        BY <4>1, <4>2
    <3>3. QED
      BY <3>1, <3>2
  <2>8. h = [i \in 1..(m + 1) |-> IF i = 1 THEN a ELSE g[<<i, h[i - 1]>>]]
    <3> HIDE DEF h
    <3>1. h = [i \in 1..(m + 1) |-> h[i]]
      BY <2>6
    <3>2. QED
      BY <2>7, <3>1
  <2>9. QED
    <3> HIDE DEF h
    <3> QED
      BY <2>6, <2>8 DEF Unrolled
<1>3. Good = Nat
  <2> HIDE DEF Good
  <2>1. Good \in SUBSET Nat
    BY DEF Good
  <2>2. QED
    BY <1>1, <1>2, <2>1, Induct
<1>4. QED
  BY <1>3

Unit  == 0..(Word * Word - 1)
Kinds == {"int", "quad", "bytes", "string"}
OfKind(k) ==
  IF k = "int" THEN 0..(Word - 1)
  ELSE IF k = "quad" THEN Unit
  ELSE {Message!Null} \cup ((1..(Word - 1)) \X Unit)

\* T is a routine, and s a struct for it whose members have the types T sends.
Routine(T) == Len(T) \in Nat \ {0} /\ \A i \in 1..Len(T) : T[i][2] \in Kinds
Fits(T, s) ==
  /\ s = [i \in 1..Len(T) |-> s[i]]
  /\ \A i \in 1..Len(T) : s[i] \in OfKind(T[i][2])

\* The member of kind k that begins at unit i of w.
Member(k, w, i) ==
  IF k = "int" THEN w[i]
  ELSE IF k = "quad" THEN w[i] * Word + w[i + 1]
  ELSE IF w[i] = 0 THEN Message!Null ELSE <<w[i], w[i + 1]>>

\* u begins at unit i of w.
Begins(u, w, i) == \A j \in 1..Len(u) : w[i + j - 1] = u[j]

LEMMA XdrParameters ==
  /\ Word \in Nat \ {0, 1} /\ Word * Word \in Nat /\ Word <= Word * Word
  /\ 0 \in Codes /\ Codes \subseteq 0..(Word - 1)
<1>1. Word \in Nat \ {0} /\ Word % 2 = 0 /\ 0 \in Codes /\ Codes \subseteq 0..(Word - 1)
  BY PartsAssumption DEF Message!XdrAssumption
<1>2. Word # 1
  BY <1>1
<1>3. Word * Word \in Nat /\ Word <= Word * Word
  BY <1>1
<1>4. QED
  BY <1>1, <1>2, <1>3

\* A 64-bit number is its high unit and its low one.
LEMMA QuadIs ==
  ASSUME NEW v \in Unit
  PROVE  \E h, l \in 0..(Word - 1) : h = v \div Word /\ l = v % Word /\ h * Word + l = v
<1>1. Word \in Nat \ {0} /\ v \in Nat /\ v \in 0..(Word * Word - 1)
  BY XdrParameters DEF Unit
<1>2. PICK h, l : h = v \div Word /\ l = v % Word
  OBVIOUS
<1>3. h \in 0..(Word - 1) /\ l \in 0..(Word - 1)
  BY <1>1, <1>2
<1>4. v = (v % Word) + Word * (v \div Word)
  BY <1>1
<1>5. v = l + Word * h
  BY <1>2, <1>4
<1>6. Word * h = h * Word /\ h * Word \in Nat /\ l \in Nat
  BY <1>1, <1>3
<1>7. h * Word + l = v
  BY <1>5, <1>6
<1>8. QED
  BY <1>2, <1>3, <1>7

LEMMA UnitsAre ==
  ASSUME NEW k \in Kinds, NEW v \in OfKind(k), NEW u, u = Message!Units(k, v)
  PROVE  /\ u \in Seq(Unit) /\ Len(u) \in {1, 2}
         /\ \A w : \A i \in Nat : Begins(u, w, i) =>
              Message!Width(k, w, i) = Len(u) /\ Member(k, w, i) = v
<1>1. CASE k = "int"
  <2>1. u = <<v>> /\ v \in Unit
    BY <1>1, XdrParameters DEF Message!Units, OfKind, Unit
  <2>2. u \in Seq(Unit) /\ Len(u) = 1 /\ u[1] = v
    BY <2>1
  <2>3. ASSUME NEW w, NEW i \in Nat, Begins(u, w, i) PROVE w[i] = v
    <3>1. w[i + 1 - 1] = u[1] /\ i + 1 - 1 = i
      BY <2>2, <2>3 DEF Begins
    <3>2. QED
      BY <2>2, <3>1
  <2>4. QED
    BY <1>1, <2>2, <2>3 DEF Message!Width, Member
<1>2. CASE k = "quad"
  <2>1. PICK h, l \in 0..(Word - 1) : h = v \div Word /\ l = v % Word /\ h * Word + l = v
    BY <1>2, QuadIs DEF OfKind
  <2>2. u = <<h, l>> /\ h \in Unit /\ l \in Unit
    BY <1>2, <2>1, XdrParameters DEF Message!Units, Unit
  <2>3. u \in Seq(Unit) /\ Len(u) = 2 /\ u[1] = h /\ u[2] = l
    BY <2>2
  <2>4. ASSUME NEW w, NEW i \in Nat, Begins(u, w, i) PROVE w[i] = h /\ w[i + 1] = l
    <3>1. w[i + 1 - 1] = u[1] /\ w[i + 2 - 1] = u[2] /\ i + 1 - 1 = i /\ i + 2 - 1 = i + 1
      BY <2>3, <2>4 DEF Begins
    <3>2. QED
      BY <2>3, <3>1
  <2>5. QED
    BY <1>2, <2>1, <2>3, <2>4 DEF Message!Width, Member
<1>3. CASE k \in {"bytes", "string"} /\ v = Message!Null
  <2>1. u = <<0>> /\ 0 \in Unit
    BY <1>3, XdrParameters DEF Message!Units, Message!Null, Unit
  <2>2. u \in Seq(Unit) /\ Len(u) = 1 /\ u[1] = 0
    BY <2>1
  <2>3. ASSUME NEW w, NEW i \in Nat, Begins(u, w, i) PROVE w[i] = 0
    <3>1. w[i + 1 - 1] = u[1] /\ i + 1 - 1 = i
      BY <2>2, <2>3 DEF Begins
    <3>2. QED
      BY <2>2, <3>1
  <2>4. QED
    BY <1>3, <2>2, <2>3 DEF Message!Width, Member
<1>4. CASE k \in {"bytes", "string"} /\ v # Message!Null
  <2>1. PICK n \in 1..(Word - 1), c \in Unit : v = <<n, c>>
    BY <1>4 DEF OfKind
  <2>2. u = <<n, c>> /\ n \in Unit /\ n # 0
    BY <1>4, <2>1, XdrParameters DEF Message!Units, Unit
  <2>3. u \in Seq(Unit) /\ Len(u) = 2 /\ u[1] = n /\ u[2] = c
    BY <2>2
  <2>4. ASSUME NEW w, NEW i \in Nat, Begins(u, w, i) PROVE w[i] = n /\ w[i + 1] = c
    <3>1. w[i + 1 - 1] = u[1] /\ w[i + 2 - 1] = u[2] /\ i + 1 - 1 = i /\ i + 2 - 1 = i + 1
      BY <2>3, <2>4 DEF Begins
    <3>2. QED
      BY <2>3, <3>1
  <2>5. QED
    BY <1>4, <2>1, <2>2, <2>3, <2>4 DEF Message!Width, Member
<1>5. QED
  BY <1>1, <1>2, <1>3, <1>4 DEF Kinds

LEMMA Concat ==
  ASSUME NEW S, NEW b \in Seq(S), NEW v \in Seq(S)
  PROVE  /\ Len(b) \in Nat /\ Len(v) \in Nat
         /\ b \o v \in Seq(S) /\ Len(b \o v) = Len(b) + Len(v)
         /\ \A k \in 1..Len(b) : (b \o v)[k] = b[k]
         /\ \A k \in 1..Len(v) : (b \o v)[Len(b) + k] = v[k]
<1>1. PICK l, m \in Nat : l = Len(b) /\ m = Len(v)
  BY LenProperties
<1>2. PICK e : e = b \o v
  OBVIOUS
<1>3. e \in Seq(S) /\ Len(e) = l + m
  BY <1>1, <1>2, ConcatProperties
<1>4. \A k \in 1..Len(b) + Len(v) : e[k] = IF k <= Len(b) THEN b[k] ELSE v[k - Len(b)]
  BY <1>2, ConcatProperties
<1>5. \A k \in 1..(l + m) : e[k] = IF k <= l THEN b[k] ELSE v[k - l]
  BY <1>1, <1>4
<1>6. ASSUME NEW k \in 1..l PROVE e[k] = b[k]
  <2>1. k \in 1..(l + m) /\ k <= l
    OBVIOUS
  <2>2. QED
    BY <1>5, <2>1
<1>7. ASSUME NEW k \in 1..m PROVE e[l + k] = v[k]
  <2>1. l + k \in 1..(l + m) /\ ~(l + k <= l) /\ (l + k) - l = k
    OBVIOUS
  <2>2. QED
    BY <1>5, <2>1
<1>8. QED
  BY <1>1, <1>2, <1>3, <1>6, <1>7

\* What Flatten puts together, member by member.
Joined(T, s, f) ==
  LET u(i) == Message!Units(T[i][2], s[i]) IN
  /\ f \in [1..Len(T) -> Seq(Unit)] /\ f[1] = u(1)
  /\ \A i \in 2..Len(T) : f[i] = f[i - 1] \o u(i)

LEMMA FlattenIs ==
  ASSUME NEW T, NEW s, Routine(T), Fits(T, s)
  PROVE  \E f : Joined(T, s, f) /\ Message!Flatten(T, s) = f[Len(T)]
<1>1. PICK n \in Nat \ {0} : n = Len(T)
  BY DEF Routine
<1> DEFINE u == [i \in 1..n |-> Message!Units(T[i][2], s[i])]
           X == Seq(Unit)
           R == [x \in (1..n) \X X |-> x[2] \o u[x[1]]]
<1>2. ASSUME NEW i \in 1..n PROVE u[i] \in X
  BY <1>1, UnitsAre DEF Routine, Fits
<1>3. Message!Flatten(T, s) = Message!FlattenSeq(u)
  BY <1>1 DEF Message!Flatten
<1>4. u \in Seq(X) /\ Len(u) = n
  <2>1. u \in [1..n -> X]
    BY <1>2
  <2> HIDE DEF u, X
  <2>2. QED
    BY <2>1
<1>5. R \in [(1..n) \X X -> X]
  <2>1. ASSUME NEW x \in (1..n) \X X PROVE x[2] \o u[x[1]] \in X
    <3>1. x[2] \in X /\ u[x[1]] \in X
      BY <1>2
    <3> HIDE DEF u
    <3>2. QED
      BY <3>1, ConcatProperties
  <2> HIDE DEF u, X
  <2>2. QED
    BY <2>1
<1>6. PICK f \in [1..n -> X] : Unrolled(f, R, u[1], n)
  <2>1. u[1] \in X
    BY <1>1, <1>2
  <2> HIDE DEF u, X, R
  <2>2. QED
    BY <1>5, <2>1, UnrolledExists
<1>7. ASSUME NEW i \in 2..n, NEW g \in [1..n -> X] PROVE R[<<i, g[i - 1]>>] = g[i - 1] \o u[i]
  <2>1. i \in 1..n /\ i - 1 \in 1..n
    OBVIOUS
  <2>2. <<i, g[i - 1]>> \in (1..n) \X X
    BY <2>1
  <2>3. QED
    BY <2>2
<1> DEFINE Eq(h) == h = [i \in 1..n |-> IF i = 1 THEN u[i] ELSE h[i - 1] \o u[i]]
<1> HIDE DEF u, R, X
<1>8. Eq(f)
  <2>1. \A i \in 1..n : i # 1 => i \in 2..n
    BY <1>1
  <2>2. \A i \in 1..n : f[i] = IF i = 1 THEN u[1] ELSE R[<<i, f[i - 1]>>]
    BY <1>6 DEF Unrolled
  <2>3. \A i \in 1..n : f[i] = IF i = 1 THEN u[i] ELSE f[i - 1] \o u[i]
    BY <1>6, <1>7, <2>1, <2>2
  <2>4. f = [i \in 1..n |-> f[i]]
    BY <1>6
  <2>5. QED
    BY <2>3, <2>4
<1>9. Message!FlattenSeq(u) = (CHOOSE h : Eq(h))[n]
  BY <1>1, <1>4 DEF Message!FlattenSeq
<1>10. PICK h : h = (CHOOSE x : Eq(x)) /\ Eq(h)
  <2> HIDE DEF Eq
  <2> QED
    BY <1>8
<1>11. /\ h = [i \in 1..n |-> h[i]] /\ h[1] = u[1]
       /\ \A i \in 2..n : h[i] = h[i - 1] \o u[i]
  <2>1. h = [i \in 1..n |-> IF i = 1 THEN u[i] ELSE h[i - 1] \o u[i]]
    BY <1>10 DEF Eq
  <2>2. \A i \in 1..n : h[i] = IF i = 1 THEN u[i] ELSE h[i - 1] \o u[i]
    BY <2>1
  <2>3. h = [i \in 1..n |-> h[i]]
    BY <2>1
  <2>4. 1 \in 1..n /\ \A i \in 2..n : i \in 1..n /\ i # 1
    BY <1>1
  <2>5. QED
    BY <2>2, <2>3, <2>4
<1> DEFINE S == {i \in 1..n : h[i] \in X}
<1>12. 1..n \subseteq S
  <2>1. 1 \in S
    BY <1>1, <1>2, <1>11
  <2>2. ASSUME NEW i \in 1..(n - 1), i \in S PROVE i + 1 \in S
    <3>1. i + 1 \in 2..n /\ i + 1 \in 1..n /\ (i + 1) - 1 = i
      BY <1>1
    <3>2. h[i + 1] = h[i] \o u[i + 1]
      BY <1>11, <3>1
    <3>3. h[i] \in X /\ u[i + 1] \in X
      BY <1>2, <2>2, <3>1
    <3>4. h[i + 1] \in X
      BY <3>2, <3>3, ConcatProperties DEF X
    <3>5. QED
      BY <3>1, <3>4
  <2>3. QED
    <3> HIDE DEF S
    <3> QED
      BY <1>1, <2>1, <2>2, InductTo
<1>13. h \in [1..n -> X]
  BY <1>11, <1>12
<1>14. \A i \in 1..n : u[i] = Message!Units(T[i][2], s[i])
  BY DEF u
<1>15. 1 \in 1..n /\ \A i \in 2..n : i \in 1..n
  BY <1>1
<1>16. Joined(T, s, h)
  BY <1>1, <1>11, <1>13, <1>14, <1>15 DEF Joined, X
<1>17. Message!Flatten(T, s) = h[n]
  BY <1>3, <1>9, <1>10
<1>18. QED
  BY <1>1, <1>16, <1>17

\* Every member begins where the ones before it end, in all that is sent.
LEMMA MembersBegin ==
  ASSUME NEW T, NEW s, Routine(T), Fits(T, s), NEW f, Joined(T, s, f),
         NEW i \in 1..Len(T)
  PROVE  \E m \in Nat :
           /\ Len(f[i]) - Len(Message!Units(T[i][2], s[i])) = m
           /\ i = 1 => m = 0
           /\ Begins(Message!Units(T[i][2], s[i]), f[Len(T)], m + 1)
<1> DEFINE u == Message!Units(T[i][2], s[i])
<1>1. PICK n \in Nat \ {0} : n = Len(T) /\ i \in 1..n
  BY DEF Routine
<1>2. f \in [1..n -> Seq(Unit)] /\ \A j \in 1..n : Len(f[j]) \in Nat
  <2>1. f \in [1..n -> Seq(Unit)]
    BY <1>1 DEF Joined
  <2>2. QED
    BY <2>1
<1>3. u \in Seq(Unit) /\ Len(u) \in {1, 2}
  BY <1>1, UnitsAre DEF Routine, Fits
<1> HIDE DEF u
<1>4. \A j \in 1..n : Message!Units(T[j][2], s[j]) \in Seq(Unit)
  BY <1>1, UnitsAre DEF Routine, Fits
<1>5. /\ Len(f[i]) - Len(u) \in Nat /\ (i = 1 => Len(f[i]) = Len(u))
      /\ Begins(u, f[i], Len(f[i]) - Len(u) + 1)
  <2>1. CASE i = 1
    <3>1. f[i] = u
      BY <2>1 DEF Joined, u
    <3>2. QED
      BY <1>3, <2>1, <3>1 DEF Begins
  <2>2. CASE i # 1
    <3>1. i \in 2..n /\ i - 1 \in 1..n
      BY <1>1, <2>2
    <3>2. f[i] = f[i - 1] \o u
      BY <1>1, <3>1 DEF Joined, u
    <3>3. PICK e, b : e = f[i] /\ b = f[i - 1] /\ b \in Seq(Unit) /\ e = b \o u
      BY <1>2, <3>1, <3>2
    <3>4. PICK l, m \in Nat :
            /\ l = Len(b) /\ m = Len(u) /\ Len(e) = l + m /\ \A k \in 1..m : e[l + k] = u[k]
      <4>1. b \in Seq(Unit) /\ u \in Seq(Unit) /\ e = b \o u
        BY <1>3, <3>3
      <4>2. /\ Len(b) \in Nat /\ Len(u) \in Nat /\ Len(b \o u) = Len(b) + Len(u)
            /\ \A k \in 1..Len(u) : (b \o u)[Len(b) + k] = u[k]
        BY <4>1, Concat
      <4>3. QED
        BY <4>1, <4>2
    <3>5. Len(e) - Len(u) = l
      BY <3>4
    <3>6. ASSUME NEW j \in 1..m PROVE e[l + 1 + j - 1] = u[j]
      <4>1. l + 1 + j - 1 = l + j
        BY <3>4
      <4>2. QED
        BY <3>4, <4>1
    <3>7. QED
      BY <2>2, <3>3, <3>4, <3>5, <3>6 DEF Begins
  <2>3. QED
    BY <2>1, <2>2
\* What follows does not move it.
<1> DEFINE S == {j \in 1..n : j >= i => /\ Len(f[i]) <= Len(f[j])
                                       /\ \A k \in 1..Len(f[i]) : f[j][k] = f[i][k]}
<1>6. 1 \in S
  BY <1>1, <1>2
<1>7. ASSUME NEW j \in 1..(n - 1), j \in S PROVE j + 1 \in S
  <2>1. j + 1 \in 1..n /\ j + 1 \in 2..n /\ (j + 1) - 1 = j /\ j \in 1..n
    BY <1>1
  <2>2. CASE j < i
    <3>1. j + 1 >= i => j + 1 = i
      BY <1>1, <2>2
    <3>2. QED
      BY <1>2, <2>1, <3>1
  <2>3. CASE j >= i
    <3>1. f[j] \in Seq(Unit) /\ Message!Units(T[j + 1][2], s[j + 1]) \in Seq(Unit)
      BY <1>2, <1>4, <2>1
    <3>2. f[j + 1] = f[j] \o Message!Units(T[j + 1][2], s[j + 1])
      BY <1>1, <2>1 DEF Joined
    <3>3. PICK e, b, v : /\ e = f[j + 1] /\ b = f[j] /\ e = b \o v
                        /\ b \in Seq(Unit) /\ v \in Seq(Unit)
      BY <3>1, <3>2
    <3>4. PICK l, m \in Nat :
            l = Len(b) /\ Len(e) = l + m /\ \A k \in 1..l : e[k] = b[k]
      <4>1. /\ Len(b) \in Nat /\ Len(v) \in Nat /\ Len(b \o v) = Len(b) + Len(v)
            /\ \A k \in 1..Len(b) : (b \o v)[k] = b[k]
        BY <3>3, Concat
      <4>2. QED
        BY <3>3, <4>1
    <3>5. PICK q \in Nat : q = Len(f[i]) /\ q <= l /\ \A k \in 1..q : b[k] = f[i][k]
      BY <1>1, <1>2, <1>7, <2>3, <3>3, <3>4
    <3>6. q <= l + m /\ \A k \in 1..q : k \in 1..l
      BY <3>4, <3>5
    <3>7. Len(f[i]) <= Len(f[j + 1]) /\ \A k \in 1..Len(f[i]) : f[j + 1][k] = f[i][k]
      BY <3>3, <3>4, <3>5, <3>6
    <3>8. QED
      BY <2>1, <3>7
  <2>4. QED
    BY <1>1, <2>2, <2>3
<1>8. 1..n \subseteq S
  <2> HIDE DEF S
  <2> QED
    BY <1>1, <1>6, <1>7, InductTo
<1>9. /\ Len(f[i]) <= Len(f[n])
      /\ \A k \in 1..Len(f[i]) : f[n][k] = f[i][k]
  BY <1>1, <1>8
<1>10. PICK q, m \in Nat : q = Len(f[i]) - Len(u) /\ m = Len(u) /\ q + m = Len(f[i])
  <2>1. PICK a, m \in Nat : a = Len(f[i]) /\ m = Len(u)
    BY <1>1, <1>2, <1>3
  <2>2. a - m \in Nat /\ (a - m) + m = a
    BY <1>5, <2>1
  <2>3. QED
    BY <2>1, <2>2
<1>11. ASSUME NEW j \in 1..m PROVE f[n][q + 1 + j - 1] = u[j]
  <2>1. q + 1 + j - 1 = q + j /\ q + 1 + j - 1 \in 1..(q + m)
    OBVIOUS
  <2>2. f[i][q + 1 + j - 1] = u[j]
    BY <1>5, <1>10 DEF Begins
  <2>3. QED
    BY <1>9, <1>10, <2>1, <2>2
<1>12. Begins(u, f[n], q + 1) /\ (i = 1 => q = 0)
  BY <1>3, <1>5, <1>10, <1>11 DEF Begins
<1>13. QED
  BY <1>1, <1>10, <1>12 DEF u

\* What was flattened unflattens to what it was, by any two equal routines.
LEMMA RoundTrip ==
  ASSUME NEW T, NEW s, Routine(T), Fits(T, s)
  PROVE  Message!Unflatten(T, Message!Flatten(T, s)) = s
<1>1. PICK n \in Nat \ {0} : n = Len(T)
  BY DEF Routine
<1>2. PICK f : Joined(T, s, f) /\ Message!Flatten(T, s) = f[n]
  BY <1>1, FlattenIs
<1>3. PICK w : w = f[n]
  OBVIOUS
<1> DEFINE k(i) == T[i][2]
           u(i) == Message!Units(T[i][2], s[i])
           R == [x \in (1..n) \X Nat |-> x[2] + Message!Width(T[x[1] - 1][2], w, x[2])]
           Eq(h) == h = [i \in 1..n |-> IF i = 1 THEN 1
                           ELSE h[i - 1] + Message!Width(T[i - 1][2], w, h[i - 1])]
<1>4. \A j : \A x : Message!Width(j, w, x) \in {1, 2}
  BY DEF Message!Width
<1>5. PICK g \in [1..n -> Nat] : Eq(g)
  <2>1. R \in [(1..n) \X Nat -> Nat]
    BY <1>4
  <2>2. PICK g \in [1..n -> Nat] : Unrolled(g, R, 1, n)
    <3> HIDE DEF R
    <3>1. 1 \in Nat
      OBVIOUS
    <3>2. QED
      BY <2>1, <3>1, UnrolledExists
  <2>3. ASSUME NEW i \in 1..n, i # 1
        PROVE  R[<<i, g[i - 1]>>] = g[i - 1] + Message!Width(T[i - 1][2], w, g[i - 1])
    <3>1. i - 1 \in 1..n
      BY <2>3
    <3>2. <<i, g[i - 1]>> \in (1..n) \X Nat
      BY <3>1
    <3>3. QED
      BY <3>2
  <2> HIDE DEF R
  <2>4. \A i \in 1..n : g[i] = IF i = 1 THEN 1 ELSE R[<<i, g[i - 1]>>]
    BY <2>2 DEF Unrolled
  <2>5. \A i \in 1..n : g[i] = IF i = 1 THEN 1
                        ELSE g[i - 1] + Message!Width(T[i - 1][2], w, g[i - 1])
    BY <2>3, <2>4
  <2>6. g = [i \in 1..n |-> g[i]]
    OBVIOUS
  <2>7. QED
    BY <2>5, <2>6
<1>6. PICK h : h = (CHOOSE x : Eq(x)) /\ Eq(h)
  <2> HIDE DEF Eq
  <2> QED
    BY <1>5
<1>7. ASSUME NEW i \in 1..n
      PROVE  /\ u(i) \in Seq(Unit) /\ Len(u(i)) \in {1, 2} /\ Len(f[i]) \in Nat
             /\ Len(f[i]) - Len(u(i)) \in Nat /\ (i = 1 => Len(f[i]) = Len(u(i)))
             /\ Message!Width(k(i), w, Len(f[i]) - Len(u(i)) + 1) = Len(u(i))
             /\ Member(k(i), w, Len(f[i]) - Len(u(i)) + 1) = s[i]
  <2>1. PICK v : v = u(i)
    OBVIOUS
  <2>2. v \in Seq(Unit) /\ Len(v) \in {1, 2}
    BY <1>1, <2>1, UnitsAre DEF Routine, Fits
  <2>3. /\ Len(f[i]) - Len(v) \in Nat /\ (i = 1 => Len(f[i]) = Len(v))
        /\ Begins(v, w, Len(f[i]) - Len(v) + 1)
    <3>1. Routine(T) /\ Fits(T, s) /\ Joined(T, s, f) /\ i \in 1..Len(T)
      BY <1>1, <1>2
    <3>2. \E m \in Nat :
            /\ Len(f[i]) - Len(Message!Units(T[i][2], s[i])) = m
            /\ i = 1 => m = 0
            /\ Begins(Message!Units(T[i][2], s[i]), f[Len(T)], m + 1)
      BY <3>1, MembersBegin
    <3>3. PICK m \in Nat :
            /\ Len(f[i]) - Len(v) = m /\ (i = 1 => m = 0) /\ Begins(v, w, m + 1)
      BY <1>1, <1>3, <2>1, <3>2
    <3>4. Len(f[i]) \in Nat /\ Len(v) \in Nat
      <4>1. f[i] \in Seq(Unit)
        BY <1>1, <1>2 DEF Joined
      <4>2. QED
        BY <2>2, <4>1, LenProperties
    <3>5. QED
      BY <3>3, <3>4
  <2>4. PICK b \in Nat : b = Len(f[i]) - Len(v) + 1
    <3>1. PICK d \in Nat : d = Len(f[i]) - Len(v)
      BY <2>3
    <3>2. d + 1 \in Nat
      OBVIOUS
    <3>3. QED
      BY <3>1, <3>2
  <2>5. k(i) \in Kinds /\ s[i] \in OfKind(k(i)) /\ v = Message!Units(k(i), s[i])
    BY <1>1, <2>1 DEF Routine, Fits
  <2>6. Message!Width(k(i), w, b) = Len(v) /\ Member(k(i), w, b) = s[i]
    <3> HIDE DEF k
    <3>1. Begins(v, w, b)
      BY <2>3, <2>4
    <3>2. PICK kind, x :
            /\ kind \in Kinds /\ x \in OfKind(kind) /\ kind = k(i) /\ x = s[i]
            /\ v = Message!Units(kind, x)
      BY <2>5
    <3>3. \A y : \A j \in Nat : Begins(v, y, j) =>
            Message!Width(kind, y, j) = Len(v) /\ Member(kind, y, j) = x
      BY <3>2, UnitsAre
    <3>4. QED
      BY <2>4, <3>1, <3>2, <3>3
  <2>7. f[i] \in Seq(Unit)
    BY <1>1, <1>2 DEF Joined
  <2>8. Len(f[i]) \in Nat
    BY <2>7, LenProperties
  <2> HIDE DEF k, u
  <2>9. QED
    BY <2>1, <2>2, <2>3, <2>4, <2>6, <2>8
<1>8. ASSUME NEW i \in 1..(n - 1)
      PROVE  Len(f[i + 1]) = Len(f[i]) + Len(u(i + 1))
  <2>1. i + 1 \in 2..n /\ i + 1 \in 1..n /\ (i + 1) - 1 = i /\ i \in 1..n
    BY <1>1
  <2>2. f[i] \in Seq(Unit) /\ u(i + 1) \in Seq(Unit) /\ f[i + 1] = f[i] \o u(i + 1)
    BY <1>1, <1>2, <1>7, <2>1 DEF Joined
  <2> HIDE DEF u
  <2>3. QED
    BY <2>2, Concat
<1>9. ASSUME NEW i \in 1..n
      PROVE  h[i] = IF i = 1 THEN 1 ELSE h[i - 1] + Message!Width(k(i - 1), w, h[i - 1])
  <2>1. h = [j \in 1..n |-> IF j = 1 THEN 1
                          ELSE h[j - 1] + Message!Width(T[j - 1][2], w, h[j - 1])]
    BY <1>6
  <2>2. QED
    BY <2>1
<1> DEFINE S == {i \in 1..n : h[i] = Len(f[i]) - Len(u(i)) + 1}
<1> HIDE DEF k, u, R, Eq
<1>10. 1..n \subseteq S
  <2>1. 1 \in S
    BY <1>1, <1>7, <1>9
  <2>2. ASSUME NEW i \in 1..(n - 1), i \in S PROVE i + 1 \in S
    <3>1. i + 1 \in 1..n /\ i \in 1..n /\ i + 1 # 1 /\ (i + 1) - 1 = i
      BY <1>1
    <3>2. h[i + 1] = h[i] + Message!Width(k(i), w, h[i])
      BY <1>9, <3>1
    <3>3. PICK a, b, c, d \in Nat :
            /\ a = Len(f[i]) /\ b = Len(u(i)) /\ a - b \in Nat
            /\ c = Len(f[i + 1]) /\ d = Len(u(i + 1)) /\ c - d \in Nat
      <4>1. PICK a, b \in Nat : a = Len(f[i]) /\ b = Len(u(i)) /\ a - b \in Nat
        BY <1>7, <3>1
      <4>2. PICK c, d \in Nat : c = Len(f[i + 1]) /\ d = Len(u(i + 1)) /\ c - d \in Nat
        BY <1>7, <3>1
      <4>3. QED
        BY <4>1, <4>2
    <3>4. h[i] = a - b + 1 /\ Message!Width(k(i), w, a - b + 1) = b
      BY <1>7, <2>2, <3>1, <3>3
    <3>5. h[i + 1] = a + 1
      BY <3>2, <3>3, <3>4
    <3>6. c = a + d
      BY <1>8, <3>3
    <3>7. c - d + 1 = a + 1
      BY <3>3, <3>6
    <3>8. QED
      BY <3>1, <3>3, <3>5, <3>7
  <2>3. QED
    <3> HIDE DEF S
    <3> QED
      BY <1>1, <2>1, <2>2, InductTo
<1>11. ASSUME NEW i \in 1..n PROVE Member(k(i), w, h[i]) = s[i]
  BY <1>7, <1>10
<1>12. Message!Unflatten(T, w) = [i \in 1..n |-> Member(k(i), w, h[i])]
  <2> DEFINE start == CHOOSE x : x = [i \in 1..Len(T) |-> IF i = 1 THEN 1
                               ELSE x[i - 1] + Message!Width(T[i - 1][2], w, x[i - 1])]
             member(i) == CASE T[i][2] = "int"  -> w[start[i]]
                            [] T[i][2] = "quad" -> w[start[i]] * Word + w[start[i] + 1]
                            [] OTHER -> IF w[start[i]] = 0 THEN Message!Null
                                        ELSE <<w[start[i]], w[start[i] + 1]>>
  <2>1. start = h
    BY <1>1, <1>6 DEF Eq
  <2>2. Message!Unflatten(T, w) = [i \in 1..Len(T) |-> member(i)]
    BY DEF Message!Unflatten
  <2> HIDE DEF start
  <2>3. \A i \in 1..n : member(i) = Member(k(i), w, h[i])
    BY <2>1 DEF Member, k
  <2> HIDE DEF member
  <2>4. QED
    BY <1>1, <2>2, <2>3
<1>13. s = [i \in 1..n |-> s[i]]
  BY <1>1 DEF Fits
<1>14. QED
  BY <1>1, <1>2, <1>3, <1>11, <1>12, <1>13

\* All that is sent are units.
LEMMA UnitsOnly ==
  ASSUME NEW T, NEW s, Routine(T), Fits(T, s)
  PROVE  Message!Flatten(T, s) \in Seq(Unit)
<1>1. PICK f : Joined(T, s, f) /\ Message!Flatten(T, s) = f[Len(T)]
  BY FlattenIs
<1>2. f \in [1..Len(T) -> Seq(Unit)] /\ Len(T) \in 1..Len(T)
  BY <1>1 DEF Joined, Routine
<1>3. QED
  BY <1>1, <1>2

(* Structs: their members, and the numbers that survive in them.           *)

Distinct(T) == \A i, j \in 1..Len(T) : T[i][1] = T[j][1] => i = j

\* The members that are data or strings.
Data == {"strings", "kernel_name", "host_ptr", "arg", "ptr", "buf"}
Pairs(T)    == \A i \in 1..Len(T) : T[i] = <<T[i][1], T[i][2]>>
SaysData(T) == \A i \in 1..Len(T) : T[i][2] \in {"bytes", "string"} <=> T[i][1] \in Data

\* The member f of kind k that r fills.
Put(k, f, r) ==
  IF f \in DOMAIN r THEN (IF k = "int" THEN r[f] % Word ELSE r[f])
  ELSE IF k \in {"int", "quad"} THEN 0 ELSE Message!Null

Filled(p, r) == Message!Fill(p, r)

LEMMA ProcsAre ==
  Message!Procs =
    {"GET_PLAT_ID", "GET_DEVS_ID", "CREATE_CTX", "CREATE_CQUEUE", "CREATE_PROG_WS",
     "BUILD_PROG", "CREATE_KERN", "CREATE_BUF", "SET_KERN_ARG", "ENQ_NDR_KERN", "FINISH",
     "ENQ_MAP_BUF", "ENQ_READ_BUF", "ENQ_WRITE_BUF", "RELEASE_MEM", "RELEASE_PROG",
     "RELEASE_KERN", "RELEASE_CQUEUE", "RELEASE_CTX"}
BY DEF Message!Procs, Message!Struct

LEMMA StructsAre ==
  ASSUME NEW p \in Message!Procs, NEW T, T = Message!Struct[p]
  PROVE  Routine(T) /\ Distinct(T) /\ SaysData(T) /\ Pairs(T)
<1> USE DEF Pairs, SaysData, Data, Message!quad, Message!int, Message!data, Message!text,
            Routine, Kinds, Distinct
<1>1. CASE p = "GET_PLAT_ID"
  <2>1. T = Message!xdr_plat_id_t
    BY <1>1 DEF Message!Struct
  <2>2. QED
    BY <2>1 DEF Message!xdr_plat_id_t
<1>2. CASE p = "GET_DEVS_ID"
  <2>1. T = Message!xdr_get_devs_t
    BY <1>2 DEF Message!Struct
  <2>2. QED
    BY <2>1 DEF Message!xdr_get_devs_t
<1>3. CASE p = "CREATE_CTX"
  <2>1. T = Message!xdr_create_ctx_t
    BY <1>3 DEF Message!Struct
  <2>2. QED
    BY <2>1 DEF Message!xdr_create_ctx_t
<1>4. CASE p = "CREATE_CQUEUE"
  <2>1. T = Message!xdr_create_cqueue_t
    BY <1>4 DEF Message!Struct
  <2>2. QED
    BY <2>1 DEF Message!xdr_create_cqueue_t
<1>5. CASE p = "CREATE_PROG_WS"
  <2>1. T = Message!xdr_create_prog_ws_t
    BY <1>5 DEF Message!Struct
  <2>2. QED
    BY <2>1 DEF Message!xdr_create_prog_ws_t
<1>6. CASE p = "BUILD_PROG"
  <2>1. T = Message!xdr_build_prog_t
    BY <1>6 DEF Message!Struct
  <2>2. QED
    BY <2>1 DEF Message!xdr_build_prog_t
<1>7. CASE p = "CREATE_KERN"
  <2>1. T = Message!xdr_create_kern_t
    BY <1>7 DEF Message!Struct
  <2>2. QED
    BY <2>1 DEF Message!xdr_create_kern_t
<1>8. CASE p = "CREATE_BUF"
  <2>1. T = Message!xdr_create_buf_t
    BY <1>8 DEF Message!Struct
  <2>2. QED
    BY <2>1 DEF Message!xdr_create_buf_t
<1>9. CASE p = "SET_KERN_ARG"
  <2>1. T = Message!xdr_set_kern_arg_t
    BY <1>9 DEF Message!Struct
  <2>2. QED
    BY <2>1 DEF Message!xdr_set_kern_arg_t
<1>10. CASE p = "ENQ_NDR_KERN"
  <2>1. T = Message!xdr_enq_ndr_kern_t
    BY <1>10 DEF Message!Struct
  <2>2. QED
    BY <2>1 DEF Message!xdr_enq_ndr_kern_t
<1>11. CASE p = "ENQ_MAP_BUF"
  <2>1. T = Message!xdr_enq_map_buf_t
    BY <1>11 DEF Message!Struct
  <2>2. QED
    BY <2>1 DEF Message!xdr_enq_map_buf_t
<1>12. CASE p = "ENQ_READ_BUF"
  <2>1. T = Message!xdr_enq_read_buf_t
    BY <1>12 DEF Message!Struct
  <2>2. QED
    BY <2>1 DEF Message!xdr_enq_read_buf_t, Message!Transfer
<1>13. CASE p = "ENQ_WRITE_BUF"
  <2>1. T = Message!xdr_enq_write_buf_t
    BY <1>13 DEF Message!Struct
  <2>2. QED
    BY <2>1 DEF Message!xdr_enq_write_buf_t, Message!Transfer
<1>14. CASE p \in {"FINISH", "RELEASE_MEM", "RELEASE_PROG", "RELEASE_KERN", "RELEASE_CQUEUE",
                   "RELEASE_CTX"}
  <2>1. T \in {Message!xdr_finish_t, Message!xdr_release_mem_t, Message!xdr_release_prog_t,
                Message!xdr_release_kern_t, Message!xdr_release_cqueue_t,
                Message!xdr_release_ctx_t}
    BY <1>14 DEF Message!Struct
  <2>2. \E f \in {"command_queue", "buffer", "prog", "kernel", "context"} :
          T = <<Message!quad(f), Message!int("result")>>
    BY <2>1 DEF Message!xdr_finish_t, Message!xdr_release_mem_t, Message!xdr_release_prog_t,
                Message!xdr_release_kern_t, Message!xdr_release_cqueue_t,
                Message!xdr_release_ctx_t
  <2>3. QED
    BY <2>2
<1>15. QED
  BY <1>1, <1>2, <1>3, <1>4, <1>5, <1>6, <1>7, <1>8, <1>9, <1>10, <1>11, <1>12, <1>13, <1>14,
     ProcsAre

LEMMA FillIs ==
  ASSUME NEW p \in Message!Procs, NEW r, NEW T, T = Message!Struct[p]
  PROVE  /\ Filled(p, r) = [i \in 1..Len(T) |-> Filled(p, r)[i]]
         /\ \A i \in 1..Len(T) : Filled(p, r)[i] = Put(T[i][2], T[i][1], r)
<1>1. Routine(T)
  BY StructsAre
<1>2. \A i \in 1..Len(T) : T[i][2] \in {"int", "quad", "bytes", "string"}
  BY <1>1 DEF Routine, Kinds
<1>3. Filled(p, r) = [i \in 1..Len(T) |->
     CASE T[i][2] = "int"  -> IF T[i][1] \in DOMAIN r THEN r[T[i][1]] % Word ELSE 0
       [] T[i][2] = "quad" -> IF T[i][1] \in DOMAIN r THEN r[T[i][1]] ELSE 0
       [] OTHER            -> IF T[i][1] \in DOMAIN r THEN r[T[i][1]] ELSE Message!Null]
  BY DEF Filled, Message!Fill
<1>4. QED
  BY <1>2, <1>3 DEF Put

LEMMA MembersAre ==
  ASSUME NEW p \in Message!Procs, NEW r, NEW T, T = Message!Struct[p]
  PROVE  \A i \in 1..Len(T) : Message!Named(p, Filled(p, r))[T[i][1]] = Put(T[i][2], T[i][1], r)
<1>1. PICK n \in Nat : n = Len(T) /\ Distinct(T)
  BY StructsAre DEF Routine
<1>2. PICK s : s = Filled(p, r)
  OBVIOUS
<1>3. s = [i \in 1..n |-> s[i]] /\ \A i \in 1..n : s[i] = Put(T[i][2], T[i][1], r)
  BY <1>1, <1>2, FillIs
<1>4. Len(s) = n
  BY <1>1, <1>3
<1>5. ASSUME NEW i \in 1..n PROVE Message!Named(p, s)[T[i][1]] = s[i]
  <2>1. Message!Named(p, s)[T[i][1]] = s[CHOOSE j \in 1..n : T[j][1] = T[i][1]]
    BY <1>4 DEF Message!Named
  <2>2. (CHOOSE j \in 1..n : T[j][1] = T[i][1]) = i
    BY <1>1 DEF Distinct
  <2>3. QED
    BY <2>1, <2>2
<1>6. \A i \in 1..n : Message!Named(p, s)[T[i][1]] = Put(T[i][2], T[i][1], r)
  BY <1>3, <1>5
<1>7. QED
  BY <1>1, <1>2, <1>6

\* Half of Word, and what a number keeps as an int.
LEMMA ExtendIs ==
  ASSUME NEW v \in Unit
  PROVE  /\ v % Word \in 0..(Word - 1) /\ (v < Word => v % Word = v)
         /\ Message!Extend(v % Word) = v <=> Message!FitsInt(v)
         /\ Message!Extend(0) = 0
<1>1. PICK d \in Nat \ {0} : d = Word \div 2 /\ d + d = Word
  BY PartsAssumption DEF Message!XdrAssumption
<1>2. PICK h, l \in 0..(Word - 1) : l = v % Word /\ h * Word + l = v
  BY QuadIs
<1>3. PICK q \in Nat : q = Word * Word
  BY XdrParameters
<1>4. Word \in Nat \ {0, 1} /\ v \in 0..(q - 1) /\ Word <= q
  BY <1>3, XdrParameters DEF Unit
<1>5. v < Word => l = v
  BY <1>2, <1>4
<1>6. v >= q - d => v = q - Word + l
  <2>1. SUFFICES ASSUME v >= q - d PROVE h = Word - 1
    BY <1>2, <1>3, <1>4
  <2>2. SUFFICES ASSUME h <= Word - 2 PROVE FALSE
    BY <1>2, <1>4
  <2>3. h * Word <= (Word - 2) * Word
    BY <1>2, <1>4, <2>2
  <2>4. (Word - 2) * Word = q - 2 * Word
    BY <1>3, <1>4
  <2>5. PICK e \in Nat : e = h * Word
    BY <1>2, <1>4
  <2>6. QED
    BY <1>1, <1>2, <1>4, <2>1, <2>3, <2>4, <2>5
<1>7. Message!Extend(l) = IF l >= d THEN l + q - Word ELSE l
  BY <1>1, <1>3 DEF Message!Extend
<1>8. Message!FitsInt(v) <=> v < d \/ v >= q - d
  BY <1>1, <1>3 DEF Message!FitsInt
<1>9. Message!Extend(l) = v <=> v < d \/ v >= q - d
  <2>1. CASE l >= d
    BY <1>1, <1>2, <1>4, <1>5, <1>6, <1>7, <2>1
  <2>2. CASE l < d
    BY <1>1, <1>2, <1>4, <1>5, <1>6, <1>7, <2>2
  <2>3. QED
    BY <1>1, <1>2, <2>1, <2>2
<1>10. Message!Extend(0) = 0
  BY <1>1 DEF Message!Extend
<1>11. QED
  BY <1>2, <1>4, <1>5, <1>8, <1>9, <1>10

(* A call: the struct its arguments are packed into, what the handler      *)
(* makes of it when the driver answers d, and the struct that comes back.  *)

Passed ==
  /\ proc \in Message!Procs /\ app \in [Message!Params(proc) -> Unit]
  /\ \A f \in Message!Params(proc) \cap Message!Uints : app[f] < Word
Layout    == Message!Struct[proc]
Has(f, k) == \E i \in 1..Len(Layout) : Layout[i] = <<f, k>>
Suited(r) == \A f \in DOMAIN r : r[f] \in IF f \in Data THEN OfKind("bytes") ELSE Unit
Packed   == Filled(proc, Message!Arguments(proc, app))
Opened   == Message!Named(proc, Packed)
\* Only a name that is missing keeps a message from being sent.
Sendable ==
  Message!Encodes(Layout, Packed) \/ (proc = "CREATE_KERN" /\ app.kernel_name = 0)
Work(d)  == Message!ocl_prog_1(proc, Opened, d)
Back(d)  == Filled(proc, Work(d).reply)
Got(d)   == Message!Named(proc, Back(d))

\* The driver is called with what survives, and no more.
Arrives(d) ==
  \A f \in Message!Params(proc) :
    (IF f \in DOMAIN Work(d).call THEN Work(d).call[f] ELSE 0) = app[f] <=> Message!Survives(f)

\* What comes back is what the driver answered.
Returns(d) ==
  /\ proc \notin Message!Creates => Got(d).result = d.code
  /\ Message!Object(proc) # "" => Got(d)[Message!Object(proc)] = d.object
  /\ proc = "ENQ_MAP_BUF" /\ app.cb % Word # 0 => Got(d).buf[2] = d.data
  /\ proc = "ENQ_READ_BUF" /\ app.cb % Word # 0 => Got(d).ptr[2] = d.data

Served(d) ==
  /\ Fits(Layout, Packed) /\ Sendable
  /\ Fits(Layout, Back(d)) /\ Message!Encodes(Layout, Back(d))
  /\ Arrives(d) /\ Returns(d)
  /\ proc \in {"ENQ_READ_BUF", "ENQ_WRITE_BUF"} =>
       "ptr" \in DOMAIN Work(d).reply /\ Opened.ptr[1] = app.cb % Word

LEMMA KindsAre ==
  /\ OfKind("int") = 0..(Word - 1) /\ OfKind("quad") = Unit
  /\ OfKind("string") = OfKind("bytes") /\ Message!Null \in OfKind("bytes")
  /\ 0 \in 0..(Word - 1) /\ 0 \in Unit /\ 0..(Word - 1) \subseteq Unit
  /\ \A c \in Unit : <<1, c>> \in OfKind("bytes")
<1>1. 1 \in 1..(Word - 1)
  BY XdrParameters
<1>2. QED
  BY <1>1, XdrParameters DEF OfKind, Unit

\* A name or a source is one unit of data.
LEMMA NameIs ==
  ASSUME NEW c \in Unit
  PROVE  \E b : b = <<1, c>> /\ b \in OfKind("bytes") /\ b[2] = c
<1>1. PICK b : b = <<1, c>>
  OBVIOUS
<1>2. b[2] = c
  BY <1>1
<1>3. <<1, c>> \in OfKind("bytes")
  BY KindsAre
<1>4. QED
  BY <1>1, <1>2, <1>3

\* A struct filled by r.
LEMMA PackedIs ==
  ASSUME proc \in Message!Procs, NEW r
  PROVE  /\ \A f, k : Has(f, k) => Message!Named(proc, Filled(proc, r))[f] = Put(k, f, r)
         /\ Suited(r) => Fits(Layout, Filled(proc, r))
         /\ (\A f : Has(f, "string") => f \in DOMAIN r /\ r[f] # Message!Null) =>
              Message!Encodes(Layout, Filled(proc, r))
<1>1. PICK p, T : p = proc /\ T = Layout /\ T = Message!Struct[p]
  BY DEF Layout
<1>2. /\ Filled(p, r) = [i \in 1..Len(T) |-> Filled(p, r)[i]]
      /\ \A i \in 1..Len(T) : Filled(p, r)[i] = Put(T[i][2], T[i][1], r)
  BY <1>1, FillIs
<1>3. \A i \in 1..Len(T) : Message!Named(p, Filled(p, r))[T[i][1]] = Put(T[i][2], T[i][1], r)
  BY <1>1, MembersAre
<1>4. ASSUME NEW f, NEW k, Has(f, k)
      PROVE  Message!Named(p, Filled(p, r))[f] = Put(k, f, r)
  <2>1. PICK i \in 1..Len(T) : T[i] = <<f, k>>
    BY <1>1, <1>4 DEF Has
  <2>2. T[i][1] = f /\ T[i][2] = k
    BY <2>1
  <2>3. QED
    BY <1>3, <2>2
<1>5. ASSUME Suited(r), NEW i \in 1..Len(T) PROVE Put(T[i][2], T[i][1], r) \in OfKind(T[i][2])
  <2>1. PICK f, k : f = T[i][1] /\ k = T[i][2]
    OBVIOUS
  <2>2. k \in Kinds /\ (k \in {"bytes", "string"} <=> f \in Data)
    BY <1>1, <2>1, StructsAre DEF Routine, SaysData
  <2>3. Put(k, f, r) \in OfKind(k)
    <3>1. CASE f \notin DOMAIN r
      BY <2>2, <3>1, KindsAre DEF Put, Kinds
    <3>2. CASE f \in DOMAIN r /\ f \in Data
      <4>1. Put(k, f, r) = r[f] /\ r[f] \in OfKind("bytes")
        BY <1>5, <2>2, <3>2 DEF Put, Suited
      <4>2. QED
        BY <2>2, <3>2, <4>1, KindsAre
    <3>3. CASE f \in DOMAIN r /\ f \notin Data
      <4>1. r[f] \in Unit /\ k \in {"int", "quad"}
        BY <1>5, <2>2, <3>3 DEF Suited, Kinds
      <4>2. r[f] % Word \in 0..(Word - 1)
        BY <4>1, ExtendIs
      <4>3. QED
        BY <3>3, <4>1, <4>2, KindsAre DEF Put
    <3>4. QED
      BY <3>1, <3>2, <3>3
  <2>4. QED
    BY <2>1, <2>3
<1>6. Suited(r) => Fits(T, Filled(p, r))
  BY <1>2, <1>5 DEF Fits
<1>7. (\A f : Has(f, "string") => f \in DOMAIN r /\ r[f] # Message!Null) =>
        Message!Encodes(T, Filled(p, r))
  <2>1. SUFFICES ASSUME \A f : Has(f, "string") => f \in DOMAIN r /\ r[f] # Message!Null,
                        NEW i \in 1..Len(T), T[i][2] = "string"
                 PROVE  Filled(p, r)[i] # Message!Null
    BY DEF Message!Encodes
  <2>2. PICK f : f = T[i][1] /\ T[i] = <<f, "string">>
    <3>1. Pairs(T)
      BY <1>1, StructsAre
    <3>2. T[i] = <<T[i][1], T[i][2]>>
      BY <3>1 DEF Pairs
    <3>3. QED
      BY <2>1, <3>2
  <2>3. Has(f, "string")
    BY <1>1, <2>2 DEF Has
  <2>4. Put("string", f, r) # Message!Null
    BY <2>1, <2>3 DEF Put
  <2>5. QED
    BY <1>2, <2>1, <2>2, <2>4
<1>8. QED
  BY <1>1, <1>4, <1>6, <1>7

\* An answer's members have the types the structs send.
LEMMA AnswersAre ==
  ASSUME NEW d \in Message!Answers
  PROVE  /\ d.code \in 0..(Word - 1) /\ d.code % Word = d.code
         /\ d.object \in Unit /\ d.data \in Unit
<1>1. PICK q \in Nat : q = Word * Word /\ Word <= q
  BY XdrParameters
<1>2. Word \in Nat \ {0, 1} /\ Codes \subseteq 0..(Word - 1)
  BY XdrParameters
<1>3. Word + 1 < q
  <2>1. Word >= 2
    BY <1>2
  <2>2. Word * Word >= 2 * Word
    BY <1>2, <2>1
  <2>3. QED
    BY <1>1, <1>2, <2>1, <2>2
<1>4. d.code \in Codes /\ d.object \in {0, Word + 1} /\ d.data \in {0, 1}
  BY DEF Message!Answers
<1>5. Unit = 0..(q - 1)
  BY <1>1 DEF Unit
<1>6. d.code \in 0..(Word - 1) /\ d.code % Word = d.code
  <2>1. PICK c \in 0..(Word - 1) : c = d.code
    BY <1>2, <1>4
  <2>2. c % Word = c
    BY <1>2
  <2>3. QED
    BY <2>1, <2>2
<1>7. 0 \in 0..(q - 1) /\ 1 \in 0..(q - 1) /\ Word + 1 \in 0..(q - 1)
  BY <1>2, <1>3
<1>8. QED
  BY <1>4, <1>5, <1>6, <1>7

\* A number cut to one unit, data of that length, and a sum of the two.
LEMMA BytesAre ==
  ASSUME NEW n \in Unit, NEW c \in Unit, NEW b, b = Message!Bytes(n, c)
  PROVE  /\ b \in OfKind("bytes") /\ b[1] = n % Word
         /\ b[2] = IF n % Word = 0 THEN 0 ELSE c
         /\ b = Message!Null <=> n % Word = 0
<1>1. n % Word \in 0..(Word - 1)
  BY ExtendIs
<1>2. CASE n % Word = 0
  BY <1>2 DEF Message!Bytes, Message!Null, OfKind
<1>3. CASE n % Word # 0
  <2>1. b = <<n % Word, c>> /\ n % Word \in 1..(Word - 1)
    BY <1>1, <1>3 DEF Message!Bytes
  <2>2. b \in (1..(Word - 1)) \X Unit /\ b[1] = n % Word /\ b[2] = c
    BY <2>1
  <2>3. b # Message!Null
    BY <1>3, <2>2 DEF Message!Null
  <2>4. QED
    BY <1>3, <2>2, <2>3 DEF OfKind
<1>4. QED
  BY <1>2, <1>3

LEMMA GetPlatServed ==
  ASSUME Passed, proc = "GET_PLAT_ID", NEW d \in Message!Answers PROVE Served(d)
<1>1. PICK T : T = Layout /\ T = Message!xdr_plat_id_t
  BY DEF Layout, Message!Struct
<1>2. /\ Len(T) = 4 /\ T[1] = <<"num", "int">> /\ T[2] = <<"platform", "quad">>
      /\ T[3] = <<"num_platforms", "int">> /\ T[4] = <<"result", "int">>
  BY <1>1 DEF Message!xdr_plat_id_t, Message!int, Message!quad
<1>3. /\ Has("num", "int") /\ Has("platform", "quad") /\ Has("result", "int")
      /\ \A f : Has(f, "string") => FALSE
  BY <1>1, <1>2 DEF Has
<1>4. /\ Message!Params(proc) = {"num_entries"} /\ app.num_entries \in Unit
      /\ app.num_entries < Word
  BY DEF Passed, Message!Params, Message!Prototype, Message!ToSet, Message!Uints
<1>5. PICK r : r = Message!Arguments(proc, app) /\ r = Message!clGetPlatformIDs(app)
  BY DEF Message!Arguments
<1>7. /\ DOMAIN r = {"num"} /\ r.num = app.num_entries
  BY <1>5 DEF Message!clGetPlatformIDs
<1>8. Fits(Layout, Packed) /\ Sendable
  <2>1. Suited(r)
    BY <1>4, <1>7 DEF Suited, Data
  <2>2. QED
    BY <1>3, <1>5, <2>1, PackedIs DEF Passed, Packed, Sendable
<1>9. PICK m : m = Opened /\ \A f, k : Has(f, k) => m[f] = Put(k, f, r)
  BY <1>5, PackedIs DEF Passed, Opened, Packed
<1>10. /\ m.num = app.num_entries % Word
  BY <1>3, <1>7, <1>9 DEF Put
<1>11. PICK c, y : /\ Work(d).call = c /\ Work(d).reply = y
                   /\ Message!get_plat_id_1_svc(m, d) = [call |-> c, reply |-> y]
  BY <1>9 DEF Work, Message!ocl_prog_1, Message!get_plat_id_1_svc, Message!Handled
<1>12. /\ DOMAIN c = {"num_entries"} /\ c.num_entries = app.num_entries
  BY <1>4, <1>10, <1>11, ExtendIs DEF Message!get_plat_id_1_svc, Message!Handled
<1>14. /\ DOMAIN y = {"result", "platform"} /\ y.result = d.code /\ y.platform = d.object
  BY <1>11 DEF Message!get_plat_id_1_svc, Message!Handled
<1>15. Arrives(d)
  <2>1. SUFFICES ASSUME NEW f \in Message!Params(proc)
                 PROVE  (IF f \in DOMAIN c THEN c[f] ELSE 0) = app[f] <=> Message!Survives(f)
    BY <1>11 DEF Arrives
  <2>2. CASE f \in {"num_entries"}
    BY <1>12, <2>2 DEF Message!Survives, Message!Dropped, Message!Squeezed
  <2>3. QED
    BY <1>4, <2>2
<1>16. Fits(Layout, Back(d)) /\ Message!Encodes(Layout, Back(d))
  <2>1. Suited(y)
    BY <1>14, AnswersAre, KindsAre DEF Suited, Data
  <2>2. QED
    BY <1>3, <1>11, <2>1, PackedIs DEF Passed, Back
<1>17. PICK g : g = Got(d) /\ g.result = d.code /\ g.platform = d.object
  <2>1. \A f, k : Has(f, k) => Got(d)[f] = Put(k, f, y)
    BY <1>11, PackedIs DEF Passed, Got, Back
  <2>2. QED
    BY <1>3, <1>14, <2>1, AnswersAre DEF Put
<1>18. Returns(d)
  BY <1>17 DEF Returns, Message!Object, Message!Creates
<1>20. QED
  BY <1>8, <1>15, <1>16, <1>18 DEF Served

LEMMA GetDevsServed ==
  ASSUME Passed, proc = "GET_DEVS_ID", NEW d \in Message!Answers PROVE Served(d)
<1>1. PICK T : T = Layout /\ T = Message!xdr_get_devs_t
  BY DEF Layout, Message!Struct
<1>2. /\ Len(T) = 6 /\ T[1] = <<"platform", "quad">> /\ T[2] = <<"device_type", "int">>
      /\ T[3] = <<"num_entries", "int">> /\ T[4] = <<"devices", "quad">>
      /\ T[5] = <<"num_devices", "quad">> /\ T[6] = <<"result", "int">>
  BY <1>1 DEF Message!xdr_get_devs_t, Message!int, Message!quad
<1>3. /\ Has("platform", "quad") /\ Has("device_type", "int") /\ Has("num_entries", "int")
      /\ Has("devices", "quad") /\ Has("result", "int") /\ \A f : Has(f, "string") => FALSE
  BY <1>1, <1>2 DEF Has
<1>4. /\ Message!Params(proc) = {"platform", "device_type", "num_entries"}
      /\ app.platform \in Unit /\ app.device_type \in Unit /\ app.num_entries \in Unit
      /\ app.num_entries < Word
  BY DEF Passed, Message!Params, Message!Prototype, Message!ToSet, Message!Uints
<1>5. PICK r : r = Message!Arguments(proc, app) /\ r = Message!clGetDeviceIDs(app)
  BY DEF Message!Arguments
<1>7. /\ DOMAIN r = {"platform", "device_type", "num_entries"} /\ r.platform = app.platform
      /\ r.device_type = app.device_type /\ r.num_entries = app.num_entries
  BY <1>5 DEF Message!clGetDeviceIDs, Message!Keep
<1>8. Fits(Layout, Packed) /\ Sendable
  <2>1. Suited(r)
    BY <1>4, <1>7 DEF Suited, Data
  <2>2. QED
    BY <1>3, <1>5, <2>1, PackedIs DEF Passed, Packed, Sendable
<1>9. PICK m : m = Opened /\ \A f, k : Has(f, k) => m[f] = Put(k, f, r)
  BY <1>5, PackedIs DEF Passed, Opened, Packed
<1>10. /\ m.platform = app.platform /\ m.device_type = app.device_type % Word
       /\ m.num_entries = app.num_entries % Word
  BY <1>3, <1>7, <1>9 DEF Put
<1>11. PICK c, y : /\ Work(d).call = c /\ Work(d).reply = y
                   /\ Message!get_devs_id_1_svc(m, d) = [call |-> c, reply |-> y]
  BY <1>9 DEF Work, Message!ocl_prog_1, Message!get_devs_id_1_svc, Message!Handled
<1>12. /\ DOMAIN c = {"platform", "device_type", "num_entries"} /\ c.platform = app.platform
       /\ c.device_type = Message!Extend(app.device_type % Word)
       /\ c.num_entries = app.num_entries
  BY <1>4, <1>10, <1>11, ExtendIs DEF Message!get_devs_id_1_svc, Message!Handled, Message!Wide
<1>14. /\ DOMAIN y = {"result", "devices"} /\ y.result = d.code /\ y.devices = d.object
  BY <1>11 DEF Message!get_devs_id_1_svc, Message!Handled
<1>15. Arrives(d)
  <2>1. SUFFICES ASSUME NEW f \in Message!Params(proc)
                 PROVE  (IF f \in DOMAIN c THEN c[f] ELSE 0) = app[f] <=> Message!Survives(f)
    BY <1>11 DEF Arrives
  <2>2. CASE f \in {"platform", "num_entries"}
    BY <1>12, <2>2 DEF Message!Survives, Message!Dropped, Message!Squeezed
  <2>3. CASE f \in {"device_type"}
    BY <1>4, <1>12, <2>3, ExtendIs DEF Message!Survives, Message!Dropped, Message!Squeezed
  <2>4. QED
    BY <1>4, <2>2, <2>3
<1>16. Fits(Layout, Back(d)) /\ Message!Encodes(Layout, Back(d))
  <2>1. Suited(y)
    BY <1>14, AnswersAre, KindsAre DEF Suited, Data
  <2>2. QED
    BY <1>3, <1>11, <2>1, PackedIs DEF Passed, Back
<1>17. PICK g : g = Got(d) /\ g.result = d.code /\ g.devices = d.object
  <2>1. \A f, k : Has(f, k) => Got(d)[f] = Put(k, f, y)
    BY <1>11, PackedIs DEF Passed, Got, Back
  <2>2. QED
    BY <1>3, <1>14, <2>1, AnswersAre DEF Put
<1>18. Returns(d)
  BY <1>17 DEF Returns, Message!Object, Message!Creates
<1>20. QED
  BY <1>8, <1>15, <1>16, <1>18 DEF Served

LEMMA CreateCtxServed ==
  ASSUME Passed, proc = "CREATE_CTX", NEW d \in Message!Answers PROVE Served(d)
<1>1. PICK T : T = Layout /\ T = Message!xdr_create_ctx_t
  BY DEF Layout, Message!Struct
<1>2. /\ Len(T) = 7 /\ T[1] = <<"properties", "int">> /\ T[2] = <<"num_devices", "int">>
      /\ T[3] = <<"devices", "quad">> /\ T[4] = <<"callback", "quad">>
      /\ T[5] = <<"user_data", "quad">> /\ T[6] = <<"errorcode_ret", "quad">>
      /\ T[7] = <<"context", "quad">>
  BY <1>1 DEF Message!xdr_create_ctx_t, Message!int, Message!quad
<1>3. /\ Has("num_devices", "int") /\ Has("devices", "quad") /\ Has("context", "quad")
      /\ \A f : Has(f, "string") => FALSE
  BY <1>1, <1>2 DEF Has
<1>4. /\ Message!Params(proc) = {"properties", "num_devices", "devices", "pfn_notify",
                                 "user_data"}
      /\ app.properties \in Unit /\ app.num_devices \in Unit /\ app.devices \in Unit
      /\ app.pfn_notify \in Unit /\ app.user_data \in Unit /\ app.num_devices < Word
  BY DEF Passed, Message!Params, Message!Prototype, Message!ToSet, Message!Uints
<1>5. PICK r : r = Message!Arguments(proc, app) /\ r = Message!clCreateContext(app)
  BY DEF Message!Arguments
<1>7. /\ DOMAIN r = {"num_devices", "devices"} /\ r.num_devices = app.num_devices
      /\ r.devices = app.devices
  BY <1>5 DEF Message!clCreateContext, Message!Keep
<1>8. Fits(Layout, Packed) /\ Sendable
  <2>1. Suited(r)
    BY <1>4, <1>7 DEF Suited, Data
  <2>2. QED
    BY <1>3, <1>5, <2>1, PackedIs DEF Passed, Packed, Sendable
<1>9. PICK m : m = Opened /\ \A f, k : Has(f, k) => m[f] = Put(k, f, r)
  BY <1>5, PackedIs DEF Passed, Opened, Packed
<1>10. /\ m.num_devices = app.num_devices % Word /\ m.devices = app.devices
  BY <1>3, <1>7, <1>9 DEF Put
<1>11. PICK c, y : /\ Work(d).call = c /\ Work(d).reply = y
                   /\ Message!create_ctx_1_svc(m, d) = [call |-> c, reply |-> y]
  BY <1>9 DEF Work, Message!ocl_prog_1, Message!create_ctx_1_svc, Message!Handled
<1>12. /\ DOMAIN c = {"num_devices", "devices"} /\ c.num_devices = app.num_devices
       /\ c.devices = app.devices
  BY <1>4, <1>10, <1>11, ExtendIs DEF Message!create_ctx_1_svc, Message!Handled, Message!Wide
<1>14. /\ DOMAIN y = {"context"} /\ y.context = d.object
  BY <1>11 DEF Message!create_ctx_1_svc, Message!Handled
<1>15. Arrives(d)
  <2>1. SUFFICES ASSUME NEW f \in Message!Params(proc)
                 PROVE  (IF f \in DOMAIN c THEN c[f] ELSE 0) = app[f] <=> Message!Survives(f)
    BY <1>11 DEF Arrives
  <2>2. CASE f \in {"num_devices", "devices"}
    BY <1>12, <2>2 DEF Message!Survives, Message!Dropped, Message!Squeezed
  <2>3. CASE f \in {"properties", "pfn_notify", "user_data"}
    <3>1. f \notin DOMAIN c
      BY <1>12, <2>3
    <3>2. f \in Message!Dropped(proc)
      BY <2>3 DEF Message!Dropped
    <3>3. Message!Survives(f) <=> app[f] = 0
      BY <2>3, <3>2 DEF Message!Survives, Message!Squeezed
    <3>4. QED
      BY <3>1, <3>3
  <2>4. QED
    BY <1>4, <2>2, <2>3
<1>16. Fits(Layout, Back(d)) /\ Message!Encodes(Layout, Back(d))
  <2>1. Suited(y)
    BY <1>14, AnswersAre, KindsAre DEF Suited, Data
  <2>2. QED
    BY <1>3, <1>11, <2>1, PackedIs DEF Passed, Back
<1>17. PICK g : g = Got(d) /\ g.context = d.object
  <2>1. \A f, k : Has(f, k) => Got(d)[f] = Put(k, f, y)
    BY <1>11, PackedIs DEF Passed, Got, Back
  <2>2. QED
    BY <1>3, <1>14, <2>1, AnswersAre DEF Put
<1>18. Returns(d)
  BY <1>17 DEF Returns, Message!Object, Message!Creates
<1>20. QED
  BY <1>8, <1>15, <1>16, <1>18 DEF Served

LEMMA CreateQueueServed ==
  ASSUME Passed, proc = "CREATE_CQUEUE", NEW d \in Message!Answers PROVE Served(d)
<1>1. PICK T : T = Layout /\ T = Message!xdr_create_cqueue_t
  BY DEF Layout, Message!Struct
<1>2. /\ Len(T) = 5 /\ T[1] = <<"context", "quad">> /\ T[2] = <<"device", "quad">>
      /\ T[3] = <<"properties", "int">> /\ T[4] = <<"errorcode_ret", "quad">>
      /\ T[5] = <<"queue", "quad">>
  BY <1>1 DEF Message!xdr_create_cqueue_t, Message!int, Message!quad
<1>3. /\ Has("context", "quad") /\ Has("device", "quad") /\ Has("properties", "int")
      /\ Has("queue", "quad") /\ \A f : Has(f, "string") => FALSE
  BY <1>1, <1>2 DEF Has
<1>4. /\ Message!Params(proc) = {"context", "device", "properties"} /\ app.context \in Unit
      /\ app.device \in Unit /\ app.properties \in Unit
  BY DEF Passed, Message!Params, Message!Prototype, Message!ToSet, Message!Uints
<1>5. PICK r : r = Message!Arguments(proc, app) /\ r = Message!clCreateCommandQueue(app)
  BY DEF Message!Arguments
<1>7. /\ DOMAIN r = {"context", "device", "properties"} /\ r.context = app.context
      /\ r.device = app.device /\ r.properties = app.properties
  BY <1>5 DEF Message!clCreateCommandQueue, Message!Keep
<1>8. Fits(Layout, Packed) /\ Sendable
  <2>1. Suited(r)
    BY <1>4, <1>7 DEF Suited, Data
  <2>2. QED
    BY <1>3, <1>5, <2>1, PackedIs DEF Passed, Packed, Sendable
<1>9. PICK m : m = Opened /\ \A f, k : Has(f, k) => m[f] = Put(k, f, r)
  BY <1>5, PackedIs DEF Passed, Opened, Packed
<1>10. /\ m.context = app.context /\ m.device = app.device
       /\ m.properties = app.properties % Word
  BY <1>3, <1>7, <1>9 DEF Put
<1>11. PICK c, y : /\ Work(d).call = c /\ Work(d).reply = y
                   /\ Message!create_cqueue_1_svc(m, d) = [call |-> c, reply |-> y]
  BY <1>9 DEF Work, Message!ocl_prog_1, Message!create_cqueue_1_svc, Message!Handled
<1>12. /\ DOMAIN c = {"context", "device", "properties"} /\ c.context = app.context
       /\ c.device = app.device /\ c.properties = Message!Extend(app.properties % Word)
  BY <1>4, <1>10, <1>11, ExtendIs DEF Message!create_cqueue_1_svc, Message!Handled, Message!Wide
<1>14. /\ DOMAIN y = {"queue"} /\ y.queue = d.object
  BY <1>11 DEF Message!create_cqueue_1_svc, Message!Handled
<1>15. Arrives(d)
  <2>1. SUFFICES ASSUME NEW f \in Message!Params(proc)
                 PROVE  (IF f \in DOMAIN c THEN c[f] ELSE 0) = app[f] <=> Message!Survives(f)
    BY <1>11 DEF Arrives
  <2>2. CASE f \in {"context", "device"}
    BY <1>12, <2>2 DEF Message!Survives, Message!Dropped, Message!Squeezed
  <2>3. CASE f \in {"properties"}
    BY <1>4, <1>12, <2>3, ExtendIs DEF Message!Survives, Message!Dropped, Message!Squeezed
  <2>4. QED
    BY <1>4, <2>2, <2>3
<1>16. Fits(Layout, Back(d)) /\ Message!Encodes(Layout, Back(d))
  <2>1. Suited(y)
    BY <1>14, AnswersAre, KindsAre DEF Suited, Data
  <2>2. QED
    BY <1>3, <1>11, <2>1, PackedIs DEF Passed, Back
<1>17. PICK g : g = Got(d) /\ g.queue = d.object
  <2>1. \A f, k : Has(f, k) => Got(d)[f] = Put(k, f, y)
    BY <1>11, PackedIs DEF Passed, Got, Back
  <2>2. QED
    BY <1>3, <1>14, <2>1, AnswersAre DEF Put
<1>18. Returns(d)
  BY <1>17 DEF Returns, Message!Object, Message!Creates
<1>20. QED
  BY <1>8, <1>15, <1>16, <1>18 DEF Served

LEMMA CreateProgServed ==
  ASSUME Passed, proc = "CREATE_PROG_WS", NEW d \in Message!Answers PROVE Served(d)
<1>1. PICK T : T = Layout /\ T = Message!xdr_create_prog_ws_t
  BY DEF Layout, Message!Struct
<1>2. /\ Len(T) = 6 /\ T[1] = <<"context", "quad">> /\ T[2] = <<"count", "int">>
      /\ T[3] = <<"strings", "string">> /\ T[4] = <<"lengths", "quad">>
      /\ T[5] = <<"errorcode_ret", "quad">> /\ T[6] = <<"prog", "quad">>
  BY <1>1 DEF Message!xdr_create_prog_ws_t, Message!int, Message!quad, Message!text
<1>3. /\ Has("context", "quad") /\ Has("count", "int") /\ Has("strings", "string")
      /\ Has("prog", "quad") /\ \A f : Has(f, "string") => f = "strings"
  BY <1>1, <1>2 DEF Has
<1>4. /\ Message!Params(proc) = {"context", "count", "strings", "lengths"}
      /\ app.context \in Unit /\ app.count \in Unit /\ app.strings \in Unit
      /\ app.lengths \in Unit /\ app.count < Word
  BY DEF Passed, Message!Params, Message!Prototype, Message!ToSet, Message!Uints
<1>5. PICK r : r = Message!Arguments(proc, app) /\ r = Message!clCreateProgramWithSource(app)
  BY DEF Message!Arguments
<1>6. PICK b : b = <<1, app.strings>> /\ b \in OfKind("bytes") /\ b[2] = app.strings
  BY <1>4, NameIs
<1>7. /\ DOMAIN r = {"context", "count", "strings"} /\ r.context = app.context
      /\ r.count = app.count /\ r.strings = b
  BY <1>5, <1>6 DEF Message!clCreateProgramWithSource
<1>8. Fits(Layout, Packed) /\ Sendable
  <2>1. Suited(r)
    BY <1>4, <1>7, <1>6 DEF Suited, Data
  <2>2. \A f : Has(f, "string") => f \in DOMAIN r /\ r[f] # Message!Null
    BY <1>3, <1>6, <1>7 DEF Message!Null
  <2>3. QED
    BY <1>5, <2>1, <2>2, PackedIs DEF Passed, Packed, Sendable
<1>9. PICK m : m = Opened /\ \A f, k : Has(f, k) => m[f] = Put(k, f, r)
  BY <1>5, PackedIs DEF Passed, Opened, Packed
<1>10. /\ m.context = app.context /\ m.count = app.count % Word /\ m.strings = b
  BY <1>3, <1>7, <1>9 DEF Put
<1>11. PICK c, y : /\ Work(d).call = c /\ Work(d).reply = y
                   /\ Message!create_prog_ws_1_svc(m, d) = [call |-> c, reply |-> y]
  BY <1>9 DEF Work, Message!ocl_prog_1, Message!create_prog_ws_1_svc, Message!Handled
<1>12. /\ DOMAIN c = {"context", "count", "strings"} /\ c.context = app.context
       /\ c.count = app.count /\ c.strings = app.strings
  BY <1>4, <1>10, <1>11, <1>6, ExtendIs DEF Message!create_prog_ws_1_svc, Message!Handled
<1>14. /\ DOMAIN y = {"strings", "prog"} /\ y.strings = <<1, 0>> /\ y.prog = d.object
  BY <1>11 DEF Message!create_prog_ws_1_svc, Message!Handled
<1>15. Arrives(d)
  <2>1. SUFFICES ASSUME NEW f \in Message!Params(proc)
                 PROVE  (IF f \in DOMAIN c THEN c[f] ELSE 0) = app[f] <=> Message!Survives(f)
    BY <1>11 DEF Arrives
  <2>2. CASE f \in {"context", "count", "strings"}
    BY <1>12, <2>2 DEF Message!Survives, Message!Dropped, Message!Squeezed
  <2>3. CASE f \in {"lengths"}
    <3>1. f \notin DOMAIN c
      BY <1>12, <2>3
    <3>2. f \in Message!Dropped(proc)
      BY <2>3 DEF Message!Dropped
    <3>3. Message!Survives(f) <=> app[f] = 0
      BY <2>3, <3>2 DEF Message!Survives, Message!Squeezed
    <3>4. QED
      BY <3>1, <3>3
  <2>4. QED
    BY <1>4, <2>2, <2>3
<1>16. Fits(Layout, Back(d)) /\ Message!Encodes(Layout, Back(d))
  <2>1. PICK z : z = <<1, 0>> /\ z \in OfKind("bytes")
    BY KindsAre, NameIs
  <2>2. Suited(y)
    BY <1>14, <2>1, AnswersAre DEF Suited, Data
  <2>3. \A f : Has(f, "string") => f \in DOMAIN y /\ y[f] # Message!Null
    BY <1>3, <1>14 DEF Message!Null
  <2>4. QED
    BY <1>11, <2>2, <2>3, PackedIs DEF Passed, Back
<1>17. PICK g : g = Got(d) /\ g.prog = d.object
  <2>1. \A f, k : Has(f, k) => Got(d)[f] = Put(k, f, y)
    BY <1>11, PackedIs DEF Passed, Got, Back
  <2>2. QED
    BY <1>3, <1>14, <2>1, AnswersAre DEF Put
<1>18. Returns(d)
  BY <1>17 DEF Returns, Message!Object, Message!Creates
<1>20. QED
  BY <1>8, <1>15, <1>16, <1>18 DEF Served

LEMMA BuildProgServed ==
  ASSUME Passed, proc = "BUILD_PROG", NEW d \in Message!Answers PROVE Served(d)
<1>1. PICK T : T = Layout /\ T = Message!xdr_build_prog_t
  BY DEF Layout, Message!Struct
<1>2. /\ Len(T) = 7 /\ T[1] = <<"prog", "quad">> /\ T[2] = <<"num_devices", "int">>
      /\ T[3] = <<"device_list", "quad">> /\ T[4] = <<"options", "quad">>
      /\ T[5] = <<"callback", "quad">> /\ T[6] = <<"user_data", "quad">>
      /\ T[7] = <<"result", "int">>
  BY <1>1 DEF Message!xdr_build_prog_t, Message!int, Message!quad
<1>3. /\ Has("prog", "quad") /\ Has("num_devices", "int") /\ Has("device_list", "quad")
      /\ Has("result", "int") /\ \A f : Has(f, "string") => FALSE
  BY <1>1, <1>2 DEF Has
<1>4. /\ Message!Params(proc) = {"program", "num_devices", "device_list", "options",
                                 "pfn_notify", "user_data"}
      /\ app.program \in Unit /\ app.num_devices \in Unit /\ app.device_list \in Unit
      /\ app.options \in Unit /\ app.pfn_notify \in Unit /\ app.user_data \in Unit
      /\ app.num_devices < Word
  BY DEF Passed, Message!Params, Message!Prototype, Message!ToSet, Message!Uints
<1>5. PICK r : r = Message!Arguments(proc, app) /\ r = Message!clBuildProgram(app)
  BY DEF Message!Arguments
<1>7. /\ DOMAIN r = {"prog", "num_devices", "device_list"} /\ r.prog = app.program
      /\ r.num_devices = app.num_devices /\ r.device_list = app.device_list
  BY <1>5 DEF Message!clBuildProgram
<1>8. Fits(Layout, Packed) /\ Sendable
  <2>1. Suited(r)
    BY <1>4, <1>7 DEF Suited, Data
  <2>2. QED
    BY <1>3, <1>5, <2>1, PackedIs DEF Passed, Packed, Sendable
<1>9. PICK m : m = Opened /\ \A f, k : Has(f, k) => m[f] = Put(k, f, r)
  BY <1>5, PackedIs DEF Passed, Opened, Packed
<1>10. /\ m.prog = app.program /\ m.num_devices = app.num_devices % Word
       /\ m.device_list = app.device_list
  BY <1>3, <1>7, <1>9 DEF Put
<1>11. PICK c, y : /\ Work(d).call = c /\ Work(d).reply = y
                   /\ Message!build_prog_1_svc(m, d) = [call |-> c, reply |-> y]
  BY <1>9 DEF Work, Message!ocl_prog_1, Message!build_prog_1_svc, Message!Handled
<1>12. /\ DOMAIN c = {"program", "num_devices", "device_list"} /\ c.program = app.program
       /\ c.num_devices = app.num_devices /\ c.device_list = app.device_list
  BY <1>4, <1>10, <1>11, ExtendIs DEF Message!build_prog_1_svc, Message!Handled
<1>14. /\ DOMAIN y = {"result"} /\ y.result = d.code
  BY <1>11 DEF Message!build_prog_1_svc, Message!Handled
<1>15. Arrives(d)
  <2>1. SUFFICES ASSUME NEW f \in Message!Params(proc)
                 PROVE  (IF f \in DOMAIN c THEN c[f] ELSE 0) = app[f] <=> Message!Survives(f)
    BY <1>11 DEF Arrives
  <2>2. CASE f \in {"program", "num_devices", "device_list"}
    BY <1>12, <2>2 DEF Message!Survives, Message!Dropped, Message!Squeezed
  <2>3. CASE f \in {"options", "pfn_notify", "user_data"}
    <3>1. f \notin DOMAIN c
      BY <1>12, <2>3
    <3>2. f \in Message!Dropped(proc)
      BY <2>3 DEF Message!Dropped
    <3>3. Message!Survives(f) <=> app[f] = 0
      BY <2>3, <3>2 DEF Message!Survives, Message!Squeezed
    <3>4. QED
      BY <3>1, <3>3
  <2>4. QED
    BY <1>4, <2>2, <2>3
<1>16. Fits(Layout, Back(d)) /\ Message!Encodes(Layout, Back(d))
  <2>1. Suited(y)
    BY <1>14, AnswersAre, KindsAre DEF Suited, Data
  <2>2. QED
    BY <1>3, <1>11, <2>1, PackedIs DEF Passed, Back
<1>17. PICK g : g = Got(d) /\ g.result = d.code
  <2>1. \A f, k : Has(f, k) => Got(d)[f] = Put(k, f, y)
    BY <1>11, PackedIs DEF Passed, Got, Back
  <2>2. QED
    BY <1>3, <1>14, <2>1, AnswersAre DEF Put
<1>18. Returns(d)
  BY <1>17 DEF Returns, Message!Object, Message!Creates
<1>20. QED
  BY <1>8, <1>15, <1>16, <1>18 DEF Served

LEMMA CreateKernServed ==
  ASSUME Passed, proc = "CREATE_KERN", NEW d \in Message!Answers PROVE Served(d)
<1>1. PICK T : T = Layout /\ T = Message!xdr_create_kern_t
  BY DEF Layout, Message!Struct
<1>2. /\ Len(T) = 4 /\ T[1] = <<"prog", "quad">> /\ T[2] = <<"kernel_name", "string">>
      /\ T[3] = <<"errorcode_ret", "quad">> /\ T[4] = <<"kernel", "quad">>
  BY <1>1 DEF Message!xdr_create_kern_t, Message!quad, Message!text
<1>3. /\ Has("prog", "quad") /\ Has("kernel_name", "string") /\ Has("kernel", "quad")
      /\ \A f : Has(f, "string") => f = "kernel_name"
  BY <1>1, <1>2 DEF Has
<1>4. /\ Message!Params(proc) = {"program", "kernel_name"} /\ app.program \in Unit
      /\ app.kernel_name \in Unit
  BY DEF Passed, Message!Params, Message!Prototype, Message!ToSet, Message!Uints
<1>5. PICK r : r = Message!Arguments(proc, app) /\ r = Message!clCreateKernel(app)
  BY DEF Message!Arguments
<1>6. PICK b : /\ b = (IF app.kernel_name = 0 THEN Message!Null ELSE <<1, app.kernel_name>>)
               /\ b \in OfKind("bytes") /\ b[2] = app.kernel_name
  <2>1. CASE app.kernel_name = 0
    BY <2>1, KindsAre DEF Message!Null
  <2>2. CASE app.kernel_name # 0
    BY <1>4, <2>2, NameIs
  <2>3. QED
    BY <2>1, <2>2
<1>7. /\ DOMAIN r = {"prog", "kernel_name"} /\ r.prog = app.program /\ r.kernel_name = b
  BY <1>5, <1>6 DEF Message!clCreateKernel
<1>8. Fits(Layout, Packed) /\ Sendable
  <2>1. Suited(r)
    BY <1>4, <1>7, <1>6 DEF Suited, Data
  <2>2. app.kernel_name # 0 => \A f : Has(f, "string") => f \in DOMAIN r /\ r[f] # Message!Null
    BY <1>3, <1>6, <1>7 DEF Message!Null
  <2>3. QED
    BY <1>5, <2>1, <2>2, PackedIs DEF Passed, Packed, Sendable
<1>9. PICK m : m = Opened /\ \A f, k : Has(f, k) => m[f] = Put(k, f, r)
  BY <1>5, PackedIs DEF Passed, Opened, Packed
<1>10. /\ m.prog = app.program /\ m.kernel_name = b
  BY <1>3, <1>7, <1>9 DEF Put
<1>11. PICK c, y : /\ Work(d).call = c /\ Work(d).reply = y
                   /\ Message!create_kern_1_svc(m, d) = [call |-> c, reply |-> y]
  BY <1>9 DEF Work, Message!ocl_prog_1, Message!create_kern_1_svc, Message!Handled
<1>12. /\ DOMAIN c = {"program", "kernel_name"} /\ c.program = app.program
       /\ c.kernel_name = app.kernel_name
  BY <1>4, <1>10, <1>11, <1>6, ExtendIs DEF Message!create_kern_1_svc, Message!Handled
<1>14. /\ DOMAIN y = {"kernel_name", "kernel"} /\ y.kernel_name = <<1, 0>>
       /\ y.kernel = d.object
  BY <1>11 DEF Message!create_kern_1_svc, Message!Handled
<1>15. Arrives(d)
  <2>1. SUFFICES ASSUME NEW f \in Message!Params(proc)
                 PROVE  (IF f \in DOMAIN c THEN c[f] ELSE 0) = app[f] <=> Message!Survives(f)
    BY <1>11 DEF Arrives
  <2>2. CASE f \in {"program", "kernel_name"}
    BY <1>12, <2>2 DEF Message!Survives, Message!Dropped, Message!Squeezed
  <2>3. QED
    BY <1>4, <2>2
<1>16. Fits(Layout, Back(d)) /\ Message!Encodes(Layout, Back(d))
  <2>1. PICK z : z = <<1, 0>> /\ z \in OfKind("bytes")
    BY KindsAre, NameIs
  <2>2. Suited(y)
    BY <1>14, <2>1, AnswersAre DEF Suited, Data
  <2>3. \A f : Has(f, "string") => f \in DOMAIN y /\ y[f] # Message!Null
    BY <1>3, <1>14 DEF Message!Null
  <2>4. QED
    BY <1>11, <2>2, <2>3, PackedIs DEF Passed, Back
<1>17. PICK g : g = Got(d) /\ g.kernel = d.object
  <2>1. \A f, k : Has(f, k) => Got(d)[f] = Put(k, f, y)
    BY <1>11, PackedIs DEF Passed, Got, Back
  <2>2. QED
    BY <1>3, <1>14, <2>1, AnswersAre DEF Put
<1>18. Returns(d)
  BY <1>17 DEF Returns, Message!Object, Message!Creates
<1>20. QED
  BY <1>8, <1>15, <1>16, <1>18 DEF Served

LEMMA CreateBufServed ==
  ASSUME Passed, proc = "CREATE_BUF", NEW d \in Message!Answers PROVE Served(d)
<1>1. PICK T : T = Layout /\ T = Message!xdr_create_buf_t
  BY DEF Layout, Message!Struct
<1>2. /\ Len(T) = 6 /\ T[1] = <<"context", "quad">> /\ T[2] = <<"flags", "int">>
      /\ T[3] = <<"size", "int">> /\ T[4] = <<"host_ptr", "bytes">>
      /\ T[5] = <<"errorcode_ret", "quad">> /\ T[6] = <<"buffer", "quad">>
  BY <1>1 DEF Message!xdr_create_buf_t, Message!int, Message!quad, Message!data
<1>3. /\ Has("context", "quad") /\ Has("flags", "int") /\ Has("size", "int")
      /\ Has("buffer", "quad") /\ \A f : Has(f, "string") => FALSE
  BY <1>1, <1>2 DEF Has
<1>4. /\ Message!Params(proc) = {"context", "flags", "size", "host_ptr"}
      /\ app.context \in Unit /\ app.flags \in Unit /\ app.size \in Unit
      /\ app.host_ptr \in Unit
  BY DEF Passed, Message!Params, Message!Prototype, Message!ToSet, Message!Uints
<1>5. PICK r : r = Message!Arguments(proc, app) /\ r = Message!clCreateBuffer(app)
  BY DEF Message!Arguments
<1>7. /\ DOMAIN r = {"context", "flags", "size"} /\ r.context = app.context
      /\ r.flags = app.flags /\ r.size = app.size
  BY <1>5 DEF Message!clCreateBuffer, Message!Keep
<1>8. Fits(Layout, Packed) /\ Sendable
  <2>1. Suited(r)
    BY <1>4, <1>7 DEF Suited, Data
  <2>2. QED
    BY <1>3, <1>5, <2>1, PackedIs DEF Passed, Packed, Sendable
<1>9. PICK m : m = Opened /\ \A f, k : Has(f, k) => m[f] = Put(k, f, r)
  BY <1>5, PackedIs DEF Passed, Opened, Packed
<1>10. /\ m.context = app.context /\ m.flags = app.flags % Word /\ m.size = app.size % Word
  BY <1>3, <1>7, <1>9 DEF Put
<1>11. PICK c, y : /\ Work(d).call = c /\ Work(d).reply = y
                   /\ Message!create_buf_1_svc(m, d) = [call |-> c, reply |-> y]
  BY <1>9 DEF Work, Message!ocl_prog_1, Message!create_buf_1_svc, Message!Handled
<1>12. /\ DOMAIN c = {"context", "flags", "size"} /\ c.context = app.context
       /\ c.flags = Message!Extend(app.flags % Word)
       /\ c.size = Message!Extend(app.size % Word)
  BY <1>4, <1>10, <1>11, ExtendIs DEF Message!create_buf_1_svc, Message!Handled, Message!Wide
<1>14. /\ DOMAIN y = {"buffer"} /\ y.buffer = d.object
  BY <1>11 DEF Message!create_buf_1_svc, Message!Handled
<1>15. Arrives(d)
  <2>1. SUFFICES ASSUME NEW f \in Message!Params(proc)
                 PROVE  (IF f \in DOMAIN c THEN c[f] ELSE 0) = app[f] <=> Message!Survives(f)
    BY <1>11 DEF Arrives
  <2>2. CASE f \in {"context"}
    BY <1>12, <2>2 DEF Message!Survives, Message!Dropped, Message!Squeezed
  <2>3. CASE f \in {"flags", "size"}
    BY <1>4, <1>12, <2>3, ExtendIs DEF Message!Survives, Message!Dropped, Message!Squeezed
  <2>4. CASE f \in {"host_ptr"}
    <3>1. f \notin DOMAIN c
      BY <1>12, <2>4
    <3>2. f \in Message!Dropped(proc)
      BY <2>4 DEF Message!Dropped
    <3>3. Message!Survives(f) <=> app[f] = 0
      BY <2>4, <3>2 DEF Message!Survives, Message!Squeezed
    <3>4. QED
      BY <3>1, <3>3
  <2>5. QED
    BY <1>4, <2>2, <2>3, <2>4
<1>16. Fits(Layout, Back(d)) /\ Message!Encodes(Layout, Back(d))
  <2>1. Suited(y)
    BY <1>14, AnswersAre, KindsAre DEF Suited, Data
  <2>2. QED
    BY <1>3, <1>11, <2>1, PackedIs DEF Passed, Back
<1>17. PICK g : g = Got(d) /\ g.buffer = d.object
  <2>1. \A f, k : Has(f, k) => Got(d)[f] = Put(k, f, y)
    BY <1>11, PackedIs DEF Passed, Got, Back
  <2>2. QED
    BY <1>3, <1>14, <2>1, AnswersAre DEF Put
<1>18. Returns(d)
  BY <1>17 DEF Returns, Message!Object, Message!Creates
<1>20. QED
  BY <1>8, <1>15, <1>16, <1>18 DEF Served

LEMMA SetArgServed ==
  ASSUME Passed, proc = "SET_KERN_ARG", NEW d \in Message!Answers PROVE Served(d)
<1>1. PICK T : T = Layout /\ T = Message!xdr_set_kern_arg_t
  BY DEF Layout, Message!Struct
<1>2. /\ Len(T) = 4 /\ T[1] = <<"kernel", "quad">> /\ T[2] = <<"arg_index", "int">>
      /\ T[3] = <<"arg", "bytes">> /\ T[4] = <<"result", "int">>
  BY <1>1 DEF Message!xdr_set_kern_arg_t, Message!int, Message!quad, Message!data
<1>3. /\ Has("kernel", "quad") /\ Has("arg_index", "int") /\ Has("arg", "bytes")
      /\ Has("result", "int") /\ \A f : Has(f, "string") => FALSE
  BY <1>1, <1>2 DEF Has
<1>4. /\ Message!Params(proc) = {"kernel", "arg_index", "arg_size", "arg_value"}
      /\ app.kernel \in Unit /\ app.arg_index \in Unit /\ app.arg_size \in Unit
      /\ app.arg_value \in Unit /\ app.arg_index < Word
  BY DEF Passed, Message!Params, Message!Prototype, Message!ToSet, Message!Uints
<1>5. PICK r : r = Message!Arguments(proc, app) /\ r = Message!clSetKernelArg(app)
  BY DEF Message!Arguments
<1>6. PICK b : /\ b = (IF app.arg_value = 0 THEN Message!Null
                    ELSE Message!Bytes(app.arg_size, app.arg_value))
               /\ b \in OfKind("bytes")
               /\ b = Message!Null <=> app.arg_value = 0 \/ app.arg_size % Word = 0
               /\ b # Message!Null => b[1] = app.arg_size % Word /\ b[2] = app.arg_value
               /\ b = Message!Null => b[2] = 0
  BY <1>4, BytesAre, KindsAre DEF Message!Null
<1>7. /\ DOMAIN r = {"kernel", "arg_index", "arg"} /\ r.kernel = app.kernel
      /\ r.arg_index = app.arg_index /\ r.arg = b
  BY <1>5, <1>6 DEF Message!clSetKernelArg
<1>8. Fits(Layout, Packed) /\ Sendable
  <2>1. Suited(r)
    BY <1>4, <1>7, <1>6 DEF Suited, Data
  <2>2. QED
    BY <1>3, <1>5, <2>1, PackedIs DEF Passed, Packed, Sendable
<1>9. PICK m : m = Opened /\ \A f, k : Has(f, k) => m[f] = Put(k, f, r)
  BY <1>5, PackedIs DEF Passed, Opened, Packed
<1>10. /\ m.kernel = app.kernel /\ m.arg_index = app.arg_index % Word /\ m.arg = b
  BY <1>3, <1>7, <1>9 DEF Put
<1>11. PICK c, y : /\ Work(d).call = c /\ Work(d).reply = y
                   /\ Message!set_kern_arg_1_svc(m, d) = [call |-> c, reply |-> y]
  BY <1>9 DEF Work, Message!ocl_prog_1, Message!set_kern_arg_1_svc, Message!Handled
<1>12. /\ DOMAIN c = {"kernel", "arg_index", "arg_size", "arg_value"}
       /\ c.kernel = app.kernel /\ c.arg_index = app.arg_index
       /\ c.arg_size = (IF b = Message!Null THEN 36 ELSE b[1]) /\ c.arg_value = b[2]
  BY <1>4, <1>10, <1>11, <1>6, ExtendIs DEF Message!set_kern_arg_1_svc, Message!Handled
<1>14. /\ DOMAIN y = {"result"} /\ y.result = d.code
  BY <1>11 DEF Message!set_kern_arg_1_svc, Message!Handled
<1>15. Arrives(d)
  <2>1. SUFFICES ASSUME NEW f \in Message!Params(proc)
                 PROVE  (IF f \in DOMAIN c THEN c[f] ELSE 0) = app[f] <=> Message!Survives(f)
    BY <1>11 DEF Arrives
  <2>2. CASE f \in {"kernel", "arg_index"}
    BY <1>12, <2>2 DEF Message!Survives, Message!Dropped, Message!Squeezed
  <2>3. CASE f = "arg_size"
    <3>1. app.arg_size % Word = app.arg_size <=> app.arg_size < Word
      <4>1. PICK a, l : /\ a = app.arg_size /\ l = app.arg_size % Word
                        /\ l \in 0..(Word - 1) /\ (a < Word => l = a)
        BY <1>4, ExtendIs
      <4>2. l < Word
        BY <4>1, XdrParameters
      <4>3. QED
        BY <4>1, <4>2
    <3>2. Message!Survives(f) <=> IF app.arg_value = 0 \/ app.arg_size % Word = 0
                                  THEN app.arg_size = 36 ELSE app.arg_size < Word
      BY <2>3 DEF Message!Survives, Message!Dropped, Message!Squeezed
    <3>3. c[f] = IF b = Message!Null THEN 36 ELSE app.arg_size % Word
      BY <1>6, <1>12, <2>3
    <3>4. QED
      BY <1>6, <1>12, <2>3, <3>1, <3>2, <3>3
  <2>4. CASE f = "arg_value"
    <3>1. Message!Survives(f) <=> app.arg_value = 0 \/ app.arg_size % Word # 0
      BY <2>4 DEF Message!Survives, Message!Dropped, Message!Squeezed
    <3>2. QED
      BY <1>6, <1>12, <2>4, <3>1
  <2>5. QED
    BY <1>4, <2>2, <2>3, <2>4
<1>16. Fits(Layout, Back(d)) /\ Message!Encodes(Layout, Back(d))
  <2>1. Suited(y)
    BY <1>14, AnswersAre, KindsAre DEF Suited, Data
  <2>2. QED
    BY <1>3, <1>11, <2>1, PackedIs DEF Passed, Back
<1>17. PICK g : g = Got(d) /\ g.result = d.code
  <2>1. \A f, k : Has(f, k) => Got(d)[f] = Put(k, f, y)
    BY <1>11, PackedIs DEF Passed, Got, Back
  <2>2. QED
    BY <1>3, <1>14, <2>1, AnswersAre DEF Put
<1>18. Returns(d)
  BY <1>17 DEF Returns, Message!Object, Message!Creates
<1>20. QED
  BY <1>8, <1>15, <1>16, <1>18 DEF Served

LEMMA NdrServed ==
  ASSUME Passed, proc = "ENQ_NDR_KERN", NEW d \in Message!Answers PROVE Served(d)
<1>1. PICK T : T = Layout /\ T = Message!xdr_enq_ndr_kern_t
  BY DEF Layout, Message!Struct
<1>2. /\ Len(T) = 10 /\ T[1] = <<"command_queue", "quad">> /\ T[2] = <<"kernel", "quad">>
      /\ T[3] = <<"work_dim", "int">> /\ T[4] = <<"global_work_offset", "int">>
      /\ T[5] = <<"global_work_size", "int">> /\ T[6] = <<"local_work_size", "int">>
      /\ T[7] = <<"num_events_in_wait_list", "int">> /\ T[8] = <<"event_wait_list", "quad">>
      /\ T[9] = <<"event", "quad">> /\ T[10] = <<"result", "int">>
  BY <1>1 DEF Message!xdr_enq_ndr_kern_t, Message!int, Message!quad
<1>3. /\ Has("command_queue", "quad") /\ Has("kernel", "quad") /\ Has("work_dim", "int")
      /\ Has("global_work_size", "int") /\ Has("num_events_in_wait_list", "int")
      /\ Has("result", "int") /\ \A f : Has(f, "string") => FALSE
  BY <1>1, <1>2 DEF Has
<1>4. /\ Message!Params(proc) = {"command_queue", "kernel", "work_dim", "global_work_offset",
                                 "global_work_size", "local_work_size",
                                 "num_events_in_wait_list", "event_wait_list", "event"}
      /\ app.command_queue \in Unit /\ app.kernel \in Unit /\ app.work_dim \in Unit
      /\ app.global_work_offset \in Unit /\ app.global_work_size \in Unit
      /\ app.local_work_size \in Unit /\ app.num_events_in_wait_list \in Unit
      /\ app.event_wait_list \in Unit /\ app.event \in Unit /\ app.work_dim < Word
      /\ app.num_events_in_wait_list < Word
  BY DEF Passed, Message!Params, Message!Prototype, Message!ToSet, Message!Uints
<1>5. PICK r : r = Message!Arguments(proc, app) /\ r = Message!clEnqueueNDRangeKernel(app)
  BY DEF Message!Arguments
<1>7. /\ DOMAIN r = {"command_queue", "kernel", "work_dim", "global_work_size",
                     "num_events_in_wait_list"}
      /\ r.command_queue = app.command_queue /\ r.kernel = app.kernel
      /\ r.work_dim = app.work_dim /\ r.global_work_size = app.global_work_size
      /\ r.num_events_in_wait_list = app.num_events_in_wait_list
  BY <1>5 DEF Message!clEnqueueNDRangeKernel, Message!Keep
<1>8. Fits(Layout, Packed) /\ Sendable
  <2>1. Suited(r)
    BY <1>4, <1>7 DEF Suited, Data
  <2>2. QED
    BY <1>3, <1>5, <2>1, PackedIs DEF Passed, Packed, Sendable
<1>9. PICK m : m = Opened /\ \A f, k : Has(f, k) => m[f] = Put(k, f, r)
  BY <1>5, PackedIs DEF Passed, Opened, Packed
<1>10. /\ m.command_queue = app.command_queue /\ m.kernel = app.kernel
       /\ m.work_dim = app.work_dim % Word
       /\ m.global_work_size = app.global_work_size % Word
       /\ m.num_events_in_wait_list = app.num_events_in_wait_list % Word
  BY <1>3, <1>7, <1>9 DEF Put
<1>11. PICK c, y : /\ Work(d).call = c /\ Work(d).reply = y
                   /\ Message!enq_ndr_kern_1_svc(m, d) = [call |-> c, reply |-> y]
  BY <1>9 DEF Work, Message!ocl_prog_1, Message!enq_ndr_kern_1_svc, Message!Handled
<1>12. /\ DOMAIN c = {"command_queue", "kernel", "work_dim", "global_work_size",
                      "num_events_in_wait_list"}
       /\ c.command_queue = app.command_queue /\ c.kernel = app.kernel
       /\ c.work_dim = app.work_dim
       /\ c.global_work_size = Message!Extend(app.global_work_size % Word)
       /\ c.num_events_in_wait_list = app.num_events_in_wait_list
  BY <1>4, <1>10, <1>11, ExtendIs DEF Message!enq_ndr_kern_1_svc, Message!Handled, Message!Wide
<1>14. /\ DOMAIN y = {"result"} /\ y.result = d.code
  BY <1>11 DEF Message!enq_ndr_kern_1_svc, Message!Handled
<1>15. Arrives(d)
  <2>1. SUFFICES ASSUME NEW f \in Message!Params(proc)
                 PROVE  (IF f \in DOMAIN c THEN c[f] ELSE 0) = app[f] <=> Message!Survives(f)
    BY <1>11 DEF Arrives
  <2>2. CASE f \in {"command_queue", "kernel", "work_dim", "num_events_in_wait_list"}
    BY <1>12, <2>2 DEF Message!Survives, Message!Dropped, Message!Squeezed
  <2>3. CASE f \in {"global_work_size"}
    BY <1>4, <1>12, <2>3, ExtendIs DEF Message!Survives, Message!Dropped, Message!Squeezed
  <2>4. CASE f \in {"global_work_offset", "local_work_size", "event_wait_list", "event"}
    <3>1. f \notin DOMAIN c
      BY <1>12, <2>4
    <3>2. f \in Message!Dropped(proc)
      BY <2>4 DEF Message!Dropped
    <3>3. Message!Survives(f) <=> app[f] = 0
      BY <2>4, <3>2 DEF Message!Survives, Message!Squeezed
    <3>4. QED
      BY <3>1, <3>3
  <2>5. QED
    BY <1>4, <2>2, <2>3, <2>4
<1>16. Fits(Layout, Back(d)) /\ Message!Encodes(Layout, Back(d))
  <2>1. Suited(y)
    BY <1>14, AnswersAre, KindsAre DEF Suited, Data
  <2>2. QED
    BY <1>3, <1>11, <2>1, PackedIs DEF Passed, Back
<1>17. PICK g : g = Got(d) /\ g.result = d.code
  <2>1. \A f, k : Has(f, k) => Got(d)[f] = Put(k, f, y)
    BY <1>11, PackedIs DEF Passed, Got, Back
  <2>2. QED
    BY <1>3, <1>14, <2>1, AnswersAre DEF Put
<1>18. Returns(d)
  BY <1>17 DEF Returns, Message!Object, Message!Creates
<1>20. QED
  BY <1>8, <1>15, <1>16, <1>18 DEF Served

LEMMA MapBufServed ==
  ASSUME Passed, proc = "ENQ_MAP_BUF", NEW d \in Message!Answers PROVE Served(d)
<1>1. PICK T : T = Layout /\ T = Message!xdr_enq_map_buf_t
  BY DEF Layout, Message!Struct
<1>2. /\ Len(T) = 11 /\ T[1] = <<"command_queue", "quad">> /\ T[2] = <<"buffer", "quad">>
      /\ T[3] = <<"blocking_map", "int">> /\ T[4] = <<"map_flags", "int">>
      /\ T[5] = <<"offset", "int">> /\ T[6] = <<"cb", "int">>
      /\ T[7] = <<"num_events_in_wait_list", "int">> /\ T[8] = <<"event_wait_list", "quad">>
      /\ T[9] = <<"event", "quad">> /\ T[10] = <<"errorcode_ret", "quad">>
      /\ T[11] = <<"buf", "bytes">>
  BY <1>1 DEF Message!xdr_enq_map_buf_t, Message!int, Message!quad, Message!data
<1>3. /\ Has("command_queue", "quad") /\ Has("buffer", "quad") /\ Has("blocking_map", "int")
      /\ Has("map_flags", "int") /\ Has("offset", "int") /\ Has("cb", "int")
      /\ Has("num_events_in_wait_list", "int") /\ Has("buf", "bytes")
      /\ \A f : Has(f, "string") => FALSE
  BY <1>1, <1>2 DEF Has
<1>4. /\ Message!Params(proc) = {"command_queue", "buffer", "blocking_map", "map_flags",
                                 "offset", "cb", "num_events_in_wait_list", "event_wait_list",
                                 "event"}
      /\ app.command_queue \in Unit /\ app.buffer \in Unit /\ app.blocking_map \in Unit
      /\ app.map_flags \in Unit /\ app.offset \in Unit /\ app.cb \in Unit
      /\ app.num_events_in_wait_list \in Unit /\ app.event_wait_list \in Unit
      /\ app.event \in Unit /\ app.blocking_map < Word /\ app.num_events_in_wait_list < Word
  BY DEF Passed, Message!Params, Message!Prototype, Message!ToSet, Message!Uints
<1>5. PICK r : r = Message!Arguments(proc, app) /\ r = Message!clEnqueueMapBuffer(app)
  BY DEF Message!Arguments
<1>7. /\ DOMAIN r = {"command_queue", "buffer", "blocking_map", "map_flags", "offset", "cb",
                     "num_events_in_wait_list"}
      /\ r.command_queue = app.command_queue /\ r.buffer = app.buffer
      /\ r.blocking_map = app.blocking_map /\ r.map_flags = app.map_flags
      /\ r.offset = app.offset /\ r.cb = app.cb
      /\ r.num_events_in_wait_list = app.num_events_in_wait_list
  BY <1>5 DEF Message!clEnqueueMapBuffer, Message!Keep
<1>8. Fits(Layout, Packed) /\ Sendable
  <2>1. Suited(r)
    BY <1>4, <1>7 DEF Suited, Data
  <2>2. QED
    BY <1>3, <1>5, <2>1, PackedIs DEF Passed, Packed, Sendable
<1>9. PICK m : m = Opened /\ \A f, k : Has(f, k) => m[f] = Put(k, f, r)
  BY <1>5, PackedIs DEF Passed, Opened, Packed
<1>10. /\ m.command_queue = app.command_queue /\ m.buffer = app.buffer
       /\ m.blocking_map = app.blocking_map % Word /\ m.map_flags = app.map_flags % Word
       /\ m.offset = app.offset % Word /\ m.cb = app.cb % Word
       /\ m.num_events_in_wait_list = app.num_events_in_wait_list % Word
  BY <1>3, <1>7, <1>9 DEF Put
<1>11. PICK c, y : /\ Work(d).call = c /\ Work(d).reply = y
                   /\ Message!enq_map_buf_1_svc(m, d) = [call |-> c, reply |-> y]
  BY <1>9 DEF Work, Message!ocl_prog_1, Message!enq_map_buf_1_svc, Message!Handled
<1>12. /\ DOMAIN c = {"command_queue", "buffer", "blocking_map", "map_flags", "offset", "cb",
                      "num_events_in_wait_list"}
       /\ c.command_queue = app.command_queue /\ c.buffer = app.buffer
       /\ c.blocking_map = app.blocking_map
       /\ c.map_flags = Message!Extend(app.map_flags % Word)
       /\ c.offset = Message!Extend(app.offset % Word)
       /\ c.cb = Message!Extend(app.cb % Word)
       /\ c.num_events_in_wait_list = app.num_events_in_wait_list
  BY <1>4, <1>10, <1>11, ExtendIs DEF Message!enq_map_buf_1_svc, Message!Handled, Message!Wide
<1>13. PICK e : /\ e = Message!Bytes(m.cb, d.data) /\ e \in OfKind("bytes")
                /\ app.cb % Word # 0 => e[2] = d.data
  <2>1. app.cb % Word \in 0..(Word - 1)
    BY <1>4, ExtendIs
  <2>2. PICK n : n = m.cb /\ n = app.cb % Word /\ n \in Unit /\ n < Word
    BY <1>10, <2>1, KindsAre, XdrParameters
  <2>3. n % Word = n
    BY <2>2, ExtendIs
  <2>4. PICK e : e = Message!Bytes(n, d.data)
    OBVIOUS
  <2>5. e \in OfKind("bytes") /\ e[2] = IF n = 0 THEN 0 ELSE d.data
    BY <2>2, <2>3, <2>4, AnswersAre, BytesAre
  <2>6. QED
    BY <2>2, <2>4, <2>5
<1>14. /\ DOMAIN y = {"buf"} /\ y.buf = e
  BY <1>11, <1>13 DEF Message!enq_map_buf_1_svc, Message!Handled
<1>15. Arrives(d)
  <2>1. SUFFICES ASSUME NEW f \in Message!Params(proc)
                 PROVE  (IF f \in DOMAIN c THEN c[f] ELSE 0) = app[f] <=> Message!Survives(f)
    BY <1>11 DEF Arrives
  <2>2. CASE f \in {"command_queue", "buffer", "blocking_map", "num_events_in_wait_list"}
    BY <1>12, <2>2 DEF Message!Survives, Message!Dropped, Message!Squeezed
  <2>3. CASE f \in {"map_flags", "offset", "cb"}
    BY <1>4, <1>12, <2>3, ExtendIs DEF Message!Survives, Message!Dropped, Message!Squeezed
  <2>4. CASE f \in {"event_wait_list", "event"}
    <3>1. f \notin DOMAIN c
      BY <1>12, <2>4
    <3>2. f \in Message!Dropped(proc)
      BY <2>4 DEF Message!Dropped
    <3>3. Message!Survives(f) <=> app[f] = 0
      BY <2>4, <3>2 DEF Message!Survives, Message!Squeezed
    <3>4. QED
      BY <3>1, <3>3
  <2>5. QED
    BY <1>4, <2>2, <2>3, <2>4
<1>16. Fits(Layout, Back(d)) /\ Message!Encodes(Layout, Back(d))
  <2>1. Suited(y)
    BY <1>14, AnswersAre, KindsAre, <1>13 DEF Suited, Data
  <2>2. QED
    BY <1>3, <1>11, <2>1, PackedIs DEF Passed, Back
<1>17. PICK g : g = Got(d) /\ g.buf = e
  <2>1. \A f, k : Has(f, k) => Got(d)[f] = Put(k, f, y)
    BY <1>11, PackedIs DEF Passed, Got, Back
  <2>2. QED
    BY <1>3, <1>14, <2>1, AnswersAre DEF Put
<1>18. Returns(d)
  BY <1>17, <1>13 DEF Returns, Message!Object, Message!Creates
<1>20. QED
  BY <1>8, <1>15, <1>16, <1>18 DEF Served

LEMMA ReadBufServed ==
  ASSUME Passed, proc = "ENQ_READ_BUF", NEW d \in Message!Answers PROVE Served(d)
<1>1. PICK T : T = Layout /\ T = Message!xdr_enq_read_buf_t
  BY DEF Layout, Message!Struct
<1>2. /\ Len(T) = 10 /\ T[1] = <<"command_queue", "quad">> /\ T[2] = <<"buffer", "quad">>
      /\ T[3] = <<"blocking_read", "int">> /\ T[4] = <<"offset", "int">>
      /\ T[5] = <<"cb", "int">> /\ T[6] = <<"ptr", "bytes">>
      /\ T[7] = <<"num_events_in_wait_list", "quad">>
      /\ T[8] = <<"event_wait_list", "quad">> /\ T[9] = <<"event", "quad">>
      /\ T[10] = <<"result", "int">>
  BY <1>1 DEF Message!xdr_enq_read_buf_t, Message!Transfer, Message!int, Message!quad,
      Message!data
<1>3. /\ Has("command_queue", "quad") /\ Has("buffer", "quad")
      /\ Has("blocking_read", "int") /\ Has("offset", "int") /\ Has("cb", "int")
      /\ Has("ptr", "bytes") /\ Has("num_events_in_wait_list", "quad")
      /\ Has("event_wait_list", "quad") /\ Has("event", "quad") /\ Has("result", "int")
      /\ \A f : Has(f, "string") => FALSE
  BY <1>1, <1>2 DEF Has
<1>4. /\ Message!Params(proc) = {"command_queue", "buffer", "blocking_read", "offset", "cb",
                                 "num_events_in_wait_list", "event_wait_list", "event"}
      /\ app.command_queue \in Unit /\ app.buffer \in Unit /\ app.blocking_read \in Unit
      /\ app.offset \in Unit /\ app.cb \in Unit /\ app.num_events_in_wait_list \in Unit
      /\ app.event_wait_list \in Unit /\ app.event \in Unit /\ app.blocking_read < Word
      /\ app.num_events_in_wait_list < Word
  BY DEF Passed, Message!Params, Message!Prototype, Message!ToSet, Message!Uints
<1>5. PICK r : r = Message!Arguments(proc, app) /\ r = Message!clEnqueueReadBuffer(app)
  BY DEF Message!Arguments
<1>6. PICK b : b = Message!Bytes(app.cb, 0) /\ b \in OfKind("bytes") /\ b[1] = app.cb % Word
  BY <1>4, BytesAre, KindsAre
<1>7. /\ DOMAIN r = {"command_queue", "buffer", "blocking_read", "offset", "cb",
                     "num_events_in_wait_list", "event_wait_list", "event", "ptr"}
      /\ r.command_queue = app.command_queue /\ r.buffer = app.buffer
      /\ r.blocking_read = app.blocking_read /\ r.offset = app.offset /\ r.cb = app.cb
      /\ r.num_events_in_wait_list = app.num_events_in_wait_list
      /\ r.event_wait_list = app.event_wait_list /\ r.event = app.event /\ r.ptr = b
  BY <1>5, <1>6 DEF Message!clEnqueueReadBuffer
<1>8. Fits(Layout, Packed) /\ Sendable
  <2>1. Suited(r)
    BY <1>4, <1>7, <1>6 DEF Suited, Data
  <2>2. QED
    BY <1>3, <1>5, <2>1, PackedIs DEF Passed, Packed, Sendable
<1>9. PICK m : m = Opened /\ \A f, k : Has(f, k) => m[f] = Put(k, f, r)
  BY <1>5, PackedIs DEF Passed, Opened, Packed
<1>10. /\ m.command_queue = app.command_queue /\ m.buffer = app.buffer
       /\ m.blocking_read = app.blocking_read % Word /\ m.offset = app.offset % Word
       /\ m.cb = app.cb % Word /\ m.num_events_in_wait_list = app.num_events_in_wait_list
       /\ m.ptr = b
  BY <1>3, <1>7, <1>9 DEF Put
<1>11. PICK c, y : /\ Work(d).call = c /\ Work(d).reply = y
                   /\ Message!enq_read_buf_1_svc(m, d) = [call |-> c, reply |-> y]
  BY <1>9 DEF Work, Message!ocl_prog_1, Message!enq_read_buf_1_svc, Message!Handled
<1>12. /\ DOMAIN c = {"command_queue", "buffer", "blocking_read", "offset", "cb",
                      "num_events_in_wait_list"}
       /\ c.command_queue = app.command_queue /\ c.buffer = app.buffer
       /\ c.blocking_read = app.blocking_read
       /\ c.offset = Message!Extend(app.offset % Word)
       /\ c.cb = Message!Extend(app.cb % Word)
       /\ c.num_events_in_wait_list = app.num_events_in_wait_list
  BY <1>4, <1>10, <1>11, <1>6, ExtendIs DEF Message!enq_read_buf_1_svc, Message!Handled,
      Message!Wide
<1>13. PICK e : /\ e = Message!Bytes(m.cb, d.data) /\ e \in OfKind("bytes")
                /\ app.cb % Word # 0 => e[2] = d.data
  <2>1. app.cb % Word \in 0..(Word - 1)
    BY <1>4, ExtendIs
  <2>2. PICK n : n = m.cb /\ n = app.cb % Word /\ n \in Unit /\ n < Word
    BY <1>10, <2>1, KindsAre, XdrParameters
  <2>3. n % Word = n
    BY <2>2, ExtendIs
  <2>4. PICK e : e = Message!Bytes(n, d.data)
    OBVIOUS
  <2>5. e \in OfKind("bytes") /\ e[2] = IF n = 0 THEN 0 ELSE d.data
    BY <2>2, <2>3, <2>4, AnswersAre, BytesAre
  <2>6. QED
    BY <2>2, <2>4, <2>5
<1>14. /\ DOMAIN y = {"result", "ptr"} /\ y.result = d.code /\ y.ptr = e
  BY <1>11, <1>13 DEF Message!enq_read_buf_1_svc, Message!Handled
<1>15. Arrives(d)
  <2>1. SUFFICES ASSUME NEW f \in Message!Params(proc)
                 PROVE  (IF f \in DOMAIN c THEN c[f] ELSE 0) = app[f] <=> Message!Survives(f)
    BY <1>11 DEF Arrives
  <2>2. CASE f \in {"command_queue", "buffer", "blocking_read", "num_events_in_wait_list"}
    BY <1>12, <2>2 DEF Message!Survives, Message!Dropped, Message!Squeezed
  <2>3. CASE f \in {"offset", "cb"}
    BY <1>4, <1>12, <2>3, ExtendIs DEF Message!Survives, Message!Dropped, Message!Squeezed
  <2>4. CASE f \in {"event_wait_list", "event"}
    <3>1. f \notin DOMAIN c
      BY <1>12, <2>4
    <3>2. f \in Message!Dropped(proc)
      BY <2>4 DEF Message!Dropped
    <3>3. Message!Survives(f) <=> app[f] = 0
      BY <2>4, <3>2 DEF Message!Survives, Message!Squeezed
    <3>4. QED
      BY <3>1, <3>3
  <2>5. QED
    BY <1>4, <2>2, <2>3, <2>4
<1>16. Fits(Layout, Back(d)) /\ Message!Encodes(Layout, Back(d))
  <2>1. Suited(y)
    BY <1>14, AnswersAre, KindsAre, <1>13 DEF Suited, Data
  <2>2. QED
    BY <1>3, <1>11, <2>1, PackedIs DEF Passed, Back
<1>17. PICK g : g = Got(d) /\ g.result = d.code /\ g.ptr = e
  <2>1. \A f, k : Has(f, k) => Got(d)[f] = Put(k, f, y)
    BY <1>11, PackedIs DEF Passed, Got, Back
  <2>2. QED
    BY <1>3, <1>14, <2>1, AnswersAre DEF Put
<1>18. Returns(d)
  BY <1>17, <1>13 DEF Returns, Message!Object, Message!Creates
<1>19. "ptr" \in DOMAIN Work(d).reply /\ Opened.ptr[1] = app.cb % Word
  BY <1>6, <1>9, <1>10, <1>11, <1>14
<1>20. QED
  BY <1>8, <1>15, <1>16, <1>18, <1>19 DEF Served

LEMMA WriteBufServed ==
  ASSUME Passed, proc = "ENQ_WRITE_BUF", NEW d \in Message!Answers PROVE Served(d)
<1>1. PICK T : T = Layout /\ T = Message!xdr_enq_write_buf_t
  BY DEF Layout, Message!Struct
<1>2. /\ Len(T) = 10 /\ T[1] = <<"command_queue", "quad">> /\ T[2] = <<"buffer", "quad">>
      /\ T[3] = <<"blocking_write", "int">> /\ T[4] = <<"offset", "int">>
      /\ T[5] = <<"cb", "int">> /\ T[6] = <<"ptr", "bytes">>
      /\ T[7] = <<"num_events_in_wait_list", "quad">>
      /\ T[8] = <<"event_wait_list", "quad">> /\ T[9] = <<"event", "quad">>
      /\ T[10] = <<"result", "int">>
  BY <1>1 DEF Message!xdr_enq_write_buf_t, Message!Transfer, Message!int, Message!quad,
      Message!data
<1>3. /\ Has("command_queue", "quad") /\ Has("buffer", "quad")
      /\ Has("blocking_write", "int") /\ Has("offset", "int") /\ Has("cb", "int")
      /\ Has("ptr", "bytes") /\ Has("num_events_in_wait_list", "quad")
      /\ Has("event_wait_list", "quad") /\ Has("event", "quad") /\ Has("result", "int")
      /\ \A f : Has(f, "string") => FALSE
  BY <1>1, <1>2 DEF Has
<1>4. /\ Message!Params(proc) = {"command_queue", "buffer", "blocking_write", "offset", "cb",
                                 "ptr", "num_events_in_wait_list", "event_wait_list", "event"}
      /\ app.command_queue \in Unit /\ app.buffer \in Unit /\ app.blocking_write \in Unit
      /\ app.offset \in Unit /\ app.cb \in Unit /\ app.ptr \in Unit
      /\ app.num_events_in_wait_list \in Unit /\ app.event_wait_list \in Unit
      /\ app.event \in Unit /\ app.blocking_write < Word
      /\ app.num_events_in_wait_list < Word
  BY DEF Passed, Message!Params, Message!Prototype, Message!ToSet, Message!Uints
<1>5. PICK r : r = Message!Arguments(proc, app) /\ r = Message!clEnqueueWriteBuffer(app)
  BY DEF Message!Arguments
<1>6. PICK b : /\ b = Message!Bytes(app.cb, app.ptr) /\ b \in OfKind("bytes")
               /\ b[1] = app.cb % Word /\ b[2] = IF app.cb % Word = 0 THEN 0 ELSE app.ptr
  BY <1>4, BytesAre, KindsAre
<1>7. /\ DOMAIN r = {"command_queue", "buffer", "blocking_write", "cb",
                     "num_events_in_wait_list", "event_wait_list", "event", "ptr"}
      /\ r.command_queue = app.command_queue /\ r.buffer = app.buffer
      /\ r.blocking_write = app.blocking_write /\ r.cb = app.cb
      /\ r.num_events_in_wait_list = app.num_events_in_wait_list
      /\ r.event_wait_list = app.event_wait_list /\ r.event = app.event /\ r.ptr = b
  BY <1>5, <1>6 DEF Message!clEnqueueWriteBuffer
<1>8. Fits(Layout, Packed) /\ Sendable
  <2>1. Suited(r)
    BY <1>4, <1>7, <1>6 DEF Suited, Data
  <2>2. QED
    BY <1>3, <1>5, <2>1, PackedIs DEF Passed, Packed, Sendable
<1>9. PICK m : m = Opened /\ \A f, k : Has(f, k) => m[f] = Put(k, f, r)
  BY <1>5, PackedIs DEF Passed, Opened, Packed
<1>10. /\ m.command_queue = app.command_queue /\ m.buffer = app.buffer
       /\ m.blocking_write = app.blocking_write % Word /\ m.offset = 0
       /\ m.cb = app.cb % Word /\ m.num_events_in_wait_list = app.num_events_in_wait_list
       /\ m.ptr = b
  BY <1>3, <1>7, <1>9 DEF Put
<1>11. PICK c, y : /\ Work(d).call = c /\ Work(d).reply = y
                   /\ Message!enq_write_buf_1_svc(m, d) = [call |-> c, reply |-> y]
  BY <1>9 DEF Work, Message!ocl_prog_1, Message!enq_write_buf_1_svc, Message!Handled
<1>12. /\ DOMAIN c = {"command_queue", "buffer", "blocking_write", "offset", "cb",
                      "num_events_in_wait_list", "ptr"}
       /\ c.command_queue = app.command_queue /\ c.buffer = app.buffer
       /\ c.blocking_write = app.blocking_write /\ c.offset = 0
       /\ c.cb = Message!Extend(app.cb % Word)
       /\ c.num_events_in_wait_list = app.num_events_in_wait_list /\ c.ptr = b[2]
  BY <1>4, <1>10, <1>11, <1>6, ExtendIs DEF Message!enq_write_buf_1_svc, Message!Handled,
      Message!Wide
<1>14. /\ DOMAIN y = {"result", "ptr"} /\ y.result = d.code /\ y.ptr = b
  BY <1>11, <1>10 DEF Message!enq_write_buf_1_svc, Message!Handled
<1>15. Arrives(d)
  <2>1. SUFFICES ASSUME NEW f \in Message!Params(proc)
                 PROVE  (IF f \in DOMAIN c THEN c[f] ELSE 0) = app[f] <=> Message!Survives(f)
    BY <1>11 DEF Arrives
  <2>2. CASE f \in {"command_queue", "buffer", "blocking_write", "num_events_in_wait_list"}
    BY <1>12, <2>2 DEF Message!Survives, Message!Dropped, Message!Squeezed
  <2>3. CASE f \in {"cb"}
    BY <1>4, <1>12, <2>3, ExtendIs DEF Message!Survives, Message!Dropped, Message!Squeezed
  <2>4. CASE f \in {"event_wait_list", "event"}
    <3>1. f \notin DOMAIN c
      BY <1>12, <2>4
    <3>2. f \in Message!Dropped(proc)
      BY <2>4 DEF Message!Dropped
    <3>3. Message!Survives(f) <=> app[f] = 0
      BY <2>4, <3>2 DEF Message!Survives, Message!Squeezed
    <3>4. QED
      BY <3>1, <3>3
  <2>5. CASE f = "offset"
    <3>1. Message!Survives(f) <=> app.offset = 0
      BY <2>5 DEF Message!Survives, Message!Dropped, Message!Squeezed
    <3>2. QED
      BY <1>12, <2>5, <3>1
  <2>6. CASE f = "ptr"
    <3>1. Message!Survives(f) <=> app.ptr = 0 \/ app.cb % Word # 0
      BY <2>6 DEF Message!Survives, Message!Dropped, Message!Squeezed
    <3>2. QED
      BY <1>6, <1>12, <2>6, <3>1
  <2>7. QED
    BY <1>4, <2>2, <2>3, <2>4, <2>5, <2>6
<1>16. Fits(Layout, Back(d)) /\ Message!Encodes(Layout, Back(d))
  <2>1. Suited(y)
    BY <1>14, AnswersAre, KindsAre, <1>6 DEF Suited, Data
  <2>2. QED
    BY <1>3, <1>11, <2>1, PackedIs DEF Passed, Back
<1>17. PICK g : g = Got(d) /\ g.result = d.code /\ g.ptr = b
  <2>1. \A f, k : Has(f, k) => Got(d)[f] = Put(k, f, y)
    BY <1>11, PackedIs DEF Passed, Got, Back
  <2>2. QED
    BY <1>3, <1>14, <2>1, AnswersAre DEF Put
<1>18. Returns(d)
  BY <1>17 DEF Returns, Message!Object, Message!Creates
<1>19. "ptr" \in DOMAIN Work(d).reply /\ Opened.ptr[1] = app.cb % Word
  BY <1>6, <1>9, <1>10, <1>11, <1>14
<1>20. QED
  BY <1>8, <1>15, <1>16, <1>18, <1>19 DEF Served

\* A call whose only argument is the object g, sent as the member f.
HandedOn(f, g, m, d) ==
  \E c, y : /\ Message!ocl_prog_1(proc, m, d).call = c /\ Message!ocl_prog_1(proc, m, d).reply = y
            /\ DOMAIN c = {g} /\ c[g] = m[f] /\ DOMAIN y = {"result"} /\ y.result = d.code
OneHandle(f, g) ==
  /\ f \notin Data /\ f # "result"
  /\ Layout = <<<<f, "quad">>, <<"result", "int">>>>
  /\ Message!Params(proc) = {g} /\ Message!Survives(g)
  /\ DOMAIN Message!Arguments(proc, app) = {f} /\ Message!Arguments(proc, app)[f] = app[g]
  /\ \A m, d : HandedOn(f, g, m, d)

LEMMA HandleServed ==
  ASSUME Passed, NEW d \in Message!Answers,
         proc \in {"FINISH", "RELEASE_MEM", "RELEASE_PROG", "RELEASE_KERN", "RELEASE_CQUEUE",
                   "RELEASE_CTX"}
  PROVE  Served(d)
<1>1. \E f, g : OneHandle(f, g)
  <2>1. CASE proc = "FINISH"
    <3>1. Layout = <<<<"command_queue", "quad">>, <<"result", "int">>>>
      BY <2>1 DEF Layout, Message!Struct, Message!xdr_finish_t, Message!quad, Message!int
    <3>2. Message!Params(proc) = {"command_queue"} /\ Message!Survives("command_queue")
      BY <2>1 DEF Message!Params, Message!Prototype, Message!ToSet, Message!Survives,
                  Message!Dropped, Message!Squeezed
    <3>3. PICK r : /\ r = Message!Arguments(proc, app)
                   /\ DOMAIN r = {"command_queue"} /\ r.command_queue = app.command_queue
      <4>1. PICK r : r = Message!Arguments(proc, app) /\ r = Message!clFinish(app)
        BY <2>1 DEF Message!Arguments
      <4>2. QED
        BY <4>1 DEF Message!clFinish, Message!Keep
    <3>4. ASSUME NEW m, NEW d_1 PROVE HandedOn("command_queue", "command_queue", m, d_1)
      <4>1. PICK c : c = Message!Wide(m, {"command_queue"}, {})
        OBVIOUS
      <4>2. DOMAIN c = {"command_queue"} /\ c.command_queue = m.command_queue
        BY <4>1 DEF Message!Wide
      <4>3. Message!finish_1_svc(m, d_1) = [call |-> c, reply |-> [result |-> d_1.code]]
        BY <4>1 DEF Message!finish_1_svc, Message!Handled
      <4>4. Message!ocl_prog_1(proc, m, d_1) = [call |-> c, reply |-> [result |-> d_1.code]]
        BY <2>1, <4>3 DEF Message!ocl_prog_1
      <4>5. QED
        BY <4>2, <4>4 DEF HandedOn
    <3>5. OneHandle("command_queue", "command_queue")
      BY <3>1, <3>2, <3>3, <3>4 DEF OneHandle, Data
    <3>6. QED
      BY <3>5
  <2>2. CASE proc = "RELEASE_MEM"
    <3>1. Layout = <<<<"buffer", "quad">>, <<"result", "int">>>>
      BY <2>2 DEF Layout, Message!Struct, Message!xdr_release_mem_t, Message!quad, Message!int
    <3>2. Message!Params(proc) = {"memobj"} /\ Message!Survives("memobj")
      BY <2>2 DEF Message!Params, Message!Prototype, Message!ToSet, Message!Survives,
                  Message!Dropped, Message!Squeezed
    <3>3. PICK r : /\ r = Message!Arguments(proc, app)
                   /\ DOMAIN r = {"buffer"} /\ r.buffer = app.memobj
      <4>1. PICK r : r = Message!Arguments(proc, app) /\ r = Message!clReleaseMemObject(app)
        BY <2>2 DEF Message!Arguments
      <4>2. QED
        BY <4>1 DEF Message!clReleaseMemObject
    <3>4. ASSUME NEW m, NEW d_1 PROVE HandedOn("buffer", "memobj", m, d_1)
      BY <2>2 DEF Message!ocl_prog_1, Message!release_mem_1_svc, Message!Handled, HandedOn
    <3>5. OneHandle("buffer", "memobj")
      BY <3>1, <3>2, <3>3, <3>4 DEF OneHandle, Data
    <3>6. QED
      BY <3>5
  <2>3. CASE proc = "RELEASE_PROG"
    <3>1. Layout = <<<<"prog", "quad">>, <<"result", "int">>>>
      BY <2>3 DEF Layout, Message!Struct, Message!xdr_release_prog_t, Message!quad, Message!int
    <3>2. Message!Params(proc) = {"program"} /\ Message!Survives("program")
      BY <2>3 DEF Message!Params, Message!Prototype, Message!ToSet, Message!Survives,
                  Message!Dropped, Message!Squeezed
    <3>3. PICK r : /\ r = Message!Arguments(proc, app)
                   /\ DOMAIN r = {"prog"} /\ r.prog = app.program
      <4>1. PICK r : r = Message!Arguments(proc, app) /\ r = Message!clReleaseProgram(app)
        BY <2>3 DEF Message!Arguments
      <4>2. QED
        BY <4>1 DEF Message!clReleaseProgram
    <3>4. ASSUME NEW m, NEW d_1 PROVE HandedOn("prog", "program", m, d_1)
      BY <2>3 DEF Message!ocl_prog_1, Message!release_prog_1_svc, Message!Handled, HandedOn
    <3>5. OneHandle("prog", "program")
      BY <3>1, <3>2, <3>3, <3>4 DEF OneHandle, Data
    <3>6. QED
      BY <3>5
  <2>4. CASE proc = "RELEASE_KERN"
    <3>1. Layout = <<<<"kernel", "quad">>, <<"result", "int">>>>
      BY <2>4 DEF Layout, Message!Struct, Message!xdr_release_kern_t, Message!quad, Message!int
    <3>2. Message!Params(proc) = {"kernel"} /\ Message!Survives("kernel")
      BY <2>4 DEF Message!Params, Message!Prototype, Message!ToSet, Message!Survives,
                  Message!Dropped, Message!Squeezed
    <3>3. PICK r : /\ r = Message!Arguments(proc, app)
                   /\ DOMAIN r = {"kernel"} /\ r.kernel = app.kernel
      <4>1. PICK r : r = Message!Arguments(proc, app) /\ r = Message!clReleaseKernel(app)
        BY <2>4 DEF Message!Arguments
      <4>2. QED
        BY <4>1 DEF Message!clReleaseKernel
    <3>4. ASSUME NEW m, NEW d_1 PROVE HandedOn("kernel", "kernel", m, d_1)
      BY <2>4 DEF Message!ocl_prog_1, Message!release_kern_1_svc, Message!Handled, HandedOn
    <3>5. OneHandle("kernel", "kernel")
      BY <3>1, <3>2, <3>3, <3>4 DEF OneHandle, Data
    <3>6. QED
      BY <3>5
  <2>5. CASE proc = "RELEASE_CQUEUE"
    <3>1. Layout = <<<<"command_queue", "quad">>, <<"result", "int">>>>
      BY <2>5 DEF Layout, Message!Struct, Message!xdr_release_cqueue_t, Message!quad, Message!int
    <3>2. Message!Params(proc) = {"command_queue"} /\ Message!Survives("command_queue")
      BY <2>5 DEF Message!Params, Message!Prototype, Message!ToSet, Message!Survives,
                  Message!Dropped, Message!Squeezed
    <3>3. PICK r : /\ r = Message!Arguments(proc, app)
                   /\ DOMAIN r = {"command_queue"} /\ r.command_queue = app.command_queue
      <4>1. PICK r : r = Message!Arguments(proc, app) /\ r = Message!clReleaseCommandQueue(app)
        BY <2>5 DEF Message!Arguments
      <4>2. QED
        BY <4>1 DEF Message!clReleaseCommandQueue
    <3>4. ASSUME NEW m, NEW d_1 PROVE HandedOn("command_queue", "command_queue", m, d_1)
      BY <2>5 DEF Message!ocl_prog_1, Message!release_cqueue_1_svc, Message!Handled, HandedOn
    <3>5. OneHandle("command_queue", "command_queue")
      BY <3>1, <3>2, <3>3, <3>4 DEF OneHandle, Data
    <3>6. QED
      BY <3>5
  <2>6. CASE proc = "RELEASE_CTX"
    <3>1. Layout = <<<<"context", "quad">>, <<"result", "int">>>>
      BY <2>6 DEF Layout, Message!Struct, Message!xdr_release_ctx_t, Message!quad, Message!int
    <3>2. Message!Params(proc) = {"context"} /\ Message!Survives("context")
      BY <2>6 DEF Message!Params, Message!Prototype, Message!ToSet, Message!Survives,
                  Message!Dropped, Message!Squeezed
    <3>3. PICK r : /\ r = Message!Arguments(proc, app)
                   /\ DOMAIN r = {"context"} /\ r.context = app.context
      <4>1. PICK r : r = Message!Arguments(proc, app) /\ r = Message!clReleaseContext(app)
        BY <2>6 DEF Message!Arguments
      <4>2. QED
        BY <4>1 DEF Message!clReleaseContext
    <3>4. ASSUME NEW m, NEW d_1 PROVE HandedOn("context", "context", m, d_1)
      BY <2>6 DEF Message!ocl_prog_1, Message!release_ctx_1_svc, Message!Handled, HandedOn
    <3>5. OneHandle("context", "context")
      BY <3>1, <3>2, <3>3, <3>4 DEF OneHandle, Data
    <3>6. QED
      BY <3>5
  <2>7. QED
    BY <2>1, <2>2, <2>3, <2>4, <2>5, <2>6
<1>2. PICK f, g : OneHandle(f, g)
  BY <1>1
<1>3. PICK r : r = Message!Arguments(proc, app) /\ DOMAIN r = {f} /\ r[f] = app[g]
  BY <1>2 DEF OneHandle
<1>4. g \in Message!Params(proc) /\ app[g] \in Unit
  BY <1>2 DEF OneHandle, Passed
<1>5. PICK T : T = Layout /\ Len(T) = 2 /\ T[1] = <<f, "quad">> /\ T[2] = <<"result", "int">>
  BY <1>2 DEF OneHandle
<1>6. Has(f, "quad") /\ Has("result", "int") /\ \A h : ~Has(h, "string")
  BY <1>5 DEF Has
<1>7. Fits(Layout, Packed) /\ Sendable
  <2>1. Suited(r)
    BY <1>2, <1>3, <1>4 DEF Suited, OneHandle
  <2>2. QED
    BY <1>3, <1>6, <2>1, PackedIs DEF Passed, Packed, Sendable
<1>8. PICK m : m = Opened /\ m[f] = app[g]
  <2>1. Opened[f] = Put("quad", f, r)
    BY <1>3, <1>6, PackedIs DEF Passed, Opened, Packed
  <2>2. QED
    BY <1>3, <2>1 DEF Put
<1>9. PICK c, y : /\ Work(d).call = c /\ Work(d).reply = y
                  /\ DOMAIN c = {g} /\ c[g] = m[f] /\ DOMAIN y = {"result"} /\ y.result = d.code
  <2>1. PICK h : h = Message!ocl_prog_1(proc, m, d) /\ h = Work(d)
    BY <1>8 DEF Work
  <2>2. HandedOn(f, g, m, d)
    BY <1>2 DEF OneHandle
  <2>3. QED
    BY <2>1, <2>2 DEF HandedOn
<1>10. Arrives(d)
  BY <1>2, <1>8, <1>9 DEF Arrives, OneHandle
<1>11. Fits(Layout, Back(d)) /\ Message!Encodes(Layout, Back(d))
  <2>1. Suited(y)
    BY <1>9, AnswersAre, KindsAre DEF Suited, Data
  <2>2. QED
    BY <1>6, <1>9, <2>1, PackedIs DEF Passed, Back
<1>12. Got(d).result = d.code
  <2>1. Got(d).result = Put("int", "result", y)
    BY <1>6, <1>9, PackedIs DEF Passed, Got, Back
  <2>2. QED
    BY <1>9, <2>1, AnswersAre DEF Put
<1>13. Returns(d)
  BY <1>12 DEF Returns, Message!Object
<1>14. QED
  BY <1>7, <1>10, <1>11, <1>13 DEF Served

LEMMA ServedAll ==
  ASSUME Passed, NEW d \in Message!Answers PROVE Served(d)
<1>1. proc \in Message!Procs
  BY DEF Passed
<1>2. QED
  BY <1>1, ProcsAre, GetPlatServed, GetDevsServed, CreateCtxServed, CreateQueueServed,
     CreateProgServed, BuildProgServed, CreateKernServed, CreateBufServed, SetArgServed,
     NdrServed, MapBufServed, ReadBufServed, WriteBufServed, HandleServed

\* The two sides' routines send the same units: the client's two that are not
\* the struct's own name one member otherwise.
LEMMA CodecsAgree ==
  ASSUME NEW p \in Message!Procs, NEW C, C = Message!ClientCodec(p), NEW T, T = Message!Struct[p]
  PROVE  /\ Message!ServerCodec(p) = T /\ Routine(C) /\ Len(C) = Len(T)
         /\ \A i \in 1..Len(T) : C[i][2] = T[i][2]
<1>1. Message!ServerCodec(p) = T
  BY DEF Message!ServerCodec
<1>2. CASE p \notin {"RELEASE_KERN", "RELEASE_CQUEUE"}
  BY <1>1, <1>2, StructsAre DEF Message!ClientCodec
<1>3. CASE p \in {"RELEASE_KERN", "RELEASE_CQUEUE"}
  <2>1. C = <<<<"prog", "quad">>, <<"result", "int">>>>
    BY <1>3 DEF Message!ClientCodec, Message!xdr_release_prog_t, Message!quad, Message!int
  <2>2. \E f : T = <<<<f, "quad">>, <<"result", "int">>>>
    BY <1>3 DEF Message!Struct, Message!xdr_release_kern_t, Message!xdr_release_cqueue_t,
                Message!quad, Message!int
  <2>3. QED
    BY <1>1, <2>1, <2>2 DEF Routine, Kinds
<1>4. QED
  BY <1>2, <1>3

LEMMA UnitsAgree ==
  ASSUME NEW p \in Message!Procs, NEW C, C = Message!ClientCodec(p), NEW T, T = Message!Struct[p],
         NEW s, Fits(T, s)
  PROVE  /\ Message!Flatten(C, s) = Message!Flatten(T, s) /\ Fits(C, s) /\ Routine(T)
         /\ Message!Encodes(C, s) <=> Message!Encodes(T, s)
<1>1. PICK n : n = Len(T) /\ n = Len(C) /\ \A i \in 1..n : C[i][2] = T[i][2]
  BY CodecsAgree
<1>2. [i \in 1..n |-> Message!Units(C[i][2], s[i])] =
      [i \in 1..n |-> Message!Units(T[i][2], s[i])]
  BY <1>1
<1>3. Message!Flatten(C, s) = Message!Flatten(T, s)
  BY <1>1, <1>2 DEF Message!Flatten
<1>4. Fits(C, s)
  BY <1>1 DEF Fits
<1>5. Message!Encodes(C, s) <=> Message!Encodes(T, s)
  BY <1>1 DEF Message!Encodes
<1>6. QED
  BY <1>3, <1>4, <1>5, StructsAre

(* The call on its way.                                                    *)

Asked   == Message!Flatten(Message!ClientCodec(proc), Packed)
Said(d) == Message!Flatten(Message!ServerCodec(proc), Back(d))

\* What the wrapper returns when the struct of the answer d came back.
Taken(d) ==
  [code   |-> IF proc \in Message!Creates THEN 0 ELSE Got(d).result,
   object |-> IF Message!Object(proc) = "" THEN 0 ELSE Got(d)[Message!Object(proc)],
   data   |-> CASE proc = "ENQ_MAP_BUF"  -> Got(d).buf[2]
                [] proc = "ENQ_READ_BUF" -> Got(d).ptr[2]
                [] OTHER -> 0]

\* Each routine is undone by the other side's.
LEMMA Travels ==
  ASSUME Passed, NEW d \in Message!Answers
  PROVE  /\ Asked \in Seq(Unit) /\ Said(d) \in Seq(Unit)
         /\ Message!Unflatten(Message!ServerCodec(proc), Asked) = Packed
         /\ Message!Unflatten(Message!ClientCodec(proc), Said(d)) = Back(d)
         /\ Message!Encodes(Message!ServerCodec(proc), Back(d))
         /\ ~Message!Encodes(Message!ClientCodec(proc), Packed) =>
              proc = "CREATE_KERN" /\ app.kernel_name = 0
<1>1. PICK p, C, T : /\ p = proc /\ C = Message!ClientCodec(p) /\ T = Message!Struct[p]
                     /\ T = Layout
  BY DEF Layout
<1>2. /\ p \in Message!Procs /\ Message!ServerCodec(p) = T /\ Routine(C) /\ Routine(T)
  BY <1>1, CodecsAgree, StructsAre DEF Passed
<1>3. PICK s, b : s = Packed /\ b = Back(d) /\ Fits(T, s) /\ Fits(T, b) /\ Message!Encodes(T, b)
  BY <1>1, ServedAll DEF Served
<1>4. /\ Message!Flatten(C, s) = Message!Flatten(T, s) /\ Fits(C, s)
      /\ Message!Encodes(C, s) <=> Message!Encodes(T, s)
  BY <1>1, <1>2, <1>3, UnitsAgree
<1>5. Message!Flatten(C, b) = Message!Flatten(T, b) /\ Fits(C, b)
  BY <1>1, <1>2, <1>3, UnitsAgree
<1>6. Message!Flatten(T, s) \in Seq(Unit) /\ Message!Flatten(T, b) \in Seq(Unit)
  BY <1>2, <1>3, UnitsOnly
<1>7. /\ Message!Unflatten(T, Message!Flatten(T, s)) = s
      /\ Message!Unflatten(C, Message!Flatten(C, b)) = b
  BY <1>2, <1>3, <1>5, RoundTrip
<1>8. Message!Encodes(T, s) \/ (proc = "CREATE_KERN" /\ app.kernel_name = 0)
  BY <1>1, <1>3, ServedAll DEF Served, Sendable
<1>9. Asked = Message!Flatten(C, s) /\ Said(d) = Message!Flatten(T, b)
  BY <1>1, <1>2, <1>3 DEF Asked, Said
<1>10. QED
  BY <1>1, <1>2, <1>3, <1>4, <1>5, <1>6, <1>7, <1>8, <1>9

\* Where a call is, and what the stations hold then.
MessageInv ==
  /\ Passed /\ wire \in Seq(Unit)
  /\ pc \in {"call", "request", "reply", "done", "crashed", "dead", "refused"}
  /\ pc \in {"reply", "done"} => answer \in Message!Answers /\ driver = Work(answer).call
  /\ pc \in {"call", "request"} => driver = <<>>
  /\ pc = "request" => wire = Asked
  /\ pc = "reply" => /\ wire = Said(answer)
                     /\ block = IF "ptr" \in DOMAIN Work(answer).reply THEN Opened.ptr[1] ELSE 0
  /\ pc = "refused" => proc = "CREATE_KERN" /\ app.kernel_name = 0 /\ driver = <<>>
  /\ out = IF pc = "done" THEN Taken(answer) ELSE Message!Nothing

LEMMA AnswersExist == \E d : d \in Message!Answers
<1>1. [code |-> 0, object |-> Word + 1, data |-> 1] \in Message!Answers
  BY XdrParameters DEF Message!Answers
<1>2. QED
  BY <1>1

LEMMA MessageFirst == Message!Init => MessageInv
<1> SUFFICES ASSUME Message!Init PROVE MessageInv
  OBVIOUS
<1>1. proc \in Message!Procs /\ app \in Given[proc]
  BY DEF Message!Init
<1>2. Passed
  BY <1>1, PartsAssumption DEF Message!XdrAssumption, Passed, Unit
<1>3. wire \in Seq(Unit)
  BY DEF Message!Init
<1>4. QED
  BY <1>2, <1>3 DEF Message!Init, MessageInv

LEMMA MessageKept == ASSUME MessageInv, UNCHANGED message PROVE MessageInv'
BY DEF MessageInv, message, Passed, Asked, Said, Taken, Packed, Opened, Work, Back, Got

\* What depends on the procedure and its arguments alone.
Travelling == UNCHANGED <<proc, app>>
LEMMA CallStays ==
  ASSUME Travelling
  PROVE  /\ Passed' = Passed /\ Asked' = Asked /\ Opened' = Opened /\ Packed' = Packed
BY DEF Travelling, Passed, Asked, Packed, Opened

LEMMA MarshalStep == ASSUME MessageInv, Message!Marshal PROVE MessageInv'
<1>1. PICK d : d \in Message!Answers
  BY AnswersExist
<1>2. Passed /\ wire \in Seq(Unit) /\ driver = <<>> /\ out = Message!Nothing
  BY DEF MessageInv, Message!Marshal
<1>3. /\ Travelling /\ driver' = driver /\ out' = out
      /\ \/ pc' = "crashed" /\ wire' = wire
         \/ pc' = "request" /\ wire' = Asked
         \/ /\ pc' = "refused" /\ wire' = wire
            /\ ~Message!Encodes(Message!ClientCodec(proc), Packed)
  BY DEF Message!Marshal, Travelling, Asked, Packed, Filled
<1>4. /\ Asked \in Seq(Unit)
      /\ ~Message!Encodes(Message!ClientCodec(proc), Packed) =>
           proc = "CREATE_KERN" /\ app.kernel_name = 0
  BY <1>1, <1>2, Travels
<1>5. Passed' /\ Asked' = Asked
  BY <1>2, <1>3, CallStays
<1>6. proc' = proc /\ app' = app
  BY <1>3 DEF Travelling
<1>7. QED
  BY <1>2, <1>3, <1>4, <1>5, <1>6 DEF MessageInv

LEMMA ServeStep == ASSUME MessageInv, Message!Serve PROVE MessageInv'
<1>1. Passed /\ wire = Asked /\ out = Message!Nothing /\ wire \in Seq(Unit)
  BY DEF MessageInv, Message!Serve
<1>2. PICK d \in Message!Answers :
        LET m == Message!Named(proc, Message!Unflatten(Message!ServerCodec(proc), wire))
            h == Message!ocl_prog_1(proc, m, d)
            r == Message!Fill(proc, h.reply)
        IN /\ driver' = h.call
           /\ block' = (IF "ptr" \in DOMAIN h.reply THEN m.ptr[1] ELSE 0)
           /\ answer' = d
           /\ CASE proc = "ENQ_MAP_BUF" /\ d.object = 0 /\ m.cb # 0 ->
                     pc' = "dead" /\ UNCHANGED wire
                [] ~Message!Encodes(Message!ServerCodec(proc), r) ->
                     pc' = "refused" /\ UNCHANGED wire
                [] OTHER -> pc' = "reply" /\ wire' = Message!Flatten(Message!ServerCodec(proc), r)
  BY DEF Message!Serve
<1>3. /\ Message!Unflatten(Message!ServerCodec(proc), wire) = Packed
      /\ Message!Encodes(Message!ServerCodec(proc), Back(d)) /\ Said(d) \in Seq(Unit)
  BY <1>1, Travels
<1>4. /\ driver' = Work(d).call /\ answer' = d
      /\ block' = IF "ptr" \in DOMAIN Work(d).reply THEN Opened.ptr[1] ELSE 0
      /\ \/ pc' = "dead" /\ wire' = wire
         \/ pc' = "reply" /\ wire' = Said(d)
  BY <1>2, <1>3 DEF Work, Opened, Said, Back, Filled
<1>5. Travelling /\ out' = out
  BY DEF Message!Serve, Travelling
<1>6. /\ Passed' /\ Opened' = Opened /\ Message!Answers = Message!Answers'
      /\ Work(answer)' = Work(d) /\ Said(answer)' = Said(d)
  <2>1. Passed' /\ Opened' = Opened /\ proc' = proc
    BY <1>1, <1>5, CallStays DEF Travelling
  <2>2. QED
    BY <1>4, <2>1 DEF Work, Said, Back
<1>7. QED
  BY <1>1, <1>3, <1>4, <1>5, <1>6 DEF MessageInv

LEMMA UnmarshalStep == ASSUME MessageInv, Message!Unmarshal PROVE MessageInv'
<1>1. PICK d : /\ d = answer /\ d \in Message!Answers
  BY DEF MessageInv, Message!Unmarshal
<1>2. Passed /\ wire = Said(d) /\ wire \in Seq(Unit) /\ driver = Work(d).call
  BY <1>1 DEF MessageInv, Message!Unmarshal
<1>3. Message!Unflatten(Message!ClientCodec(proc), wire) = Back(d)
  BY <1>1, <1>2, Travels
<1>4. out' = Taken(d)
  BY <1>3 DEF Message!Unmarshal, Taken, Got
<1>5. Travelling /\ pc' = "done" /\ wire' = wire /\ driver' = driver /\ answer' = d
  BY <1>1 DEF Message!Unmarshal, Travelling
<1>6. Passed' /\ Work(answer)' = Work(d) /\ Taken(answer)' = Taken(d)
  <2>1. Passed' /\ Opened' = Opened /\ proc' = proc
    BY <1>2, <1>5, CallStays DEF Travelling
  <2>2. QED
    BY <1>5, <2>1 DEF Work, Taken, Got, Back
<1>7. QED
  BY <1>1, <1>2, <1>4, <1>5, <1>6 DEF MessageInv

LEMMA MessageSays ==
  ASSUME MessageInv
  PROVE  /\ Message!TypeOK /\ Message!RemoteMeansLocal /\ Message!BlockCoversTransfer
         /\ Message!NothingRefused /\ Message!AnswerReachesCaller
<1>1. Passed /\ wire \in Seq(Unit)
  BY DEF MessageInv
<1>2. Message!AnswerReachesCaller
  <2>1. SUFFICES ASSUME pc = "done" PROVE Message!AnswerReachesCaller
    BY DEF Message!AnswerReachesCaller
  <2>2. PICK d \in Message!Answers : d = answer /\ out = Taken(d)
    BY <2>1 DEF MessageInv
  <2>3. Returns(d)
    BY <1>1, ServedAll DEF Served
  <2>4. /\ out.code = (IF proc \in Message!Creates THEN 0 ELSE d.code)
        /\ Message!Object(proc) # "" => out.object = d.object
        /\ proc = "ENQ_READ_BUF" /\ app.cb % Word # 0 => out.data = d.data
        /\ proc = "ENQ_MAP_BUF" /\ app.cb % Word # 0 => out.data = d.data
    BY <2>2, <2>3 DEF Taken, Returns
  <2>5. QED
    BY <2>2, <2>4 DEF Message!AnswerReachesCaller
<1>3. Message!TypeOK
  <2>1. out.object \in Unit
    <3>1. CASE pc # "done"
      BY <3>1, KindsAre DEF MessageInv, Message!Nothing
    <3>2. CASE pc = "done"
      <4>1. PICK d \in Message!Answers : out = Taken(d) /\ Returns(d)
        BY <1>1, <3>2, ServedAll DEF MessageInv, Served
      <4>2. out.object = 0 \/ out.object = d.object
        BY <4>1 DEF Taken, Returns
      <4>3. QED
        BY <4>2, AnswersAre, KindsAre
    <3>3. QED
      BY <3>1, <3>2
  <2>2. Message!ToSet(wire) \subseteq Unit
    BY <1>1, ElementOfSeq DEF Message!ToSet
  <2>3. QED
    BY <1>1, <2>1, <2>2 DEF MessageInv, Message!TypeOK, Passed, Unit
<1>4. Message!RemoteMeansLocal
  <2>1. SUFFICES ASSUME pc \in {"reply", "done"} PROVE Message!RemoteMeansLocal
    BY DEF Message!RemoteMeansLocal
  <2>2. PICK d \in Message!Answers : driver = Work(d).call
    BY <2>1 DEF MessageInv
  <2>3. Arrives(d)
    BY <1>1, ServedAll DEF Served
  <2>4. QED
    BY <2>2, <2>3 DEF Message!RemoteMeansLocal, Arrives
<1>5. Message!BlockCoversTransfer
  <2>1. SUFFICES ASSUME proc \in {"ENQ_READ_BUF", "ENQ_WRITE_BUF"}, pc = "reply", app.cb < Word
                 PROVE  block = app.cb
    BY DEF Message!BlockCoversTransfer
  <2>2. PICK d \in Message!Answers :
          block = IF "ptr" \in DOMAIN Work(d).reply THEN Opened.ptr[1] ELSE 0
    BY <2>1 DEF MessageInv
  <2>3. block = app.cb % Word
    BY <1>1, <2>1, <2>2, ServedAll DEF Served
  <2>4. app.cb \in Unit
    <3>1. "cb" \in Message!Params("ENQ_READ_BUF") /\ "cb" \in Message!Params("ENQ_WRITE_BUF")
      BY DEF Message!Params, Message!Prototype, Message!ToSet
    <3>2. QED
      BY <1>1, <2>1, <3>1 DEF Passed
  <2>5. QED
    BY <2>1, <2>3, <2>4, ExtendIs
<1>6. Message!NothingRefused
  BY DEF MessageInv, Message!NothingRefused
<1>7. QED
  BY <1>2, <1>3, <1>4, <1>5, <1>6

\* Whatever the arguments an application passes, of every procedure, and
\* whatever the driver answers: a parameter is at the driver what it was at
\* the caller exactly when it is sent and fits the struct's member, the block
\* has the transfer's length, only a kernel without a name is refused, and
\* code, object and data come back as they were.
THEOREM MessagesMean == ServicesSpec => []MessagesKeepTheirMeaning
<1> DEFINE Inv == which = "message" => MessageInv
<1>1. ServicesInit => Inv
  BY MessageFirst DEF ServicesInit
<1>2. Inv /\ [ServicesNext]_everything => Inv'
  <2> SUFFICES ASSUME which = "message" => MessageInv, [ServicesNext]_everything,
                      which' = "message"
               PROVE  MessageInv'
    OBVIOUS
  <2>1. /\ which = "message"
        /\ UNCHANGED message \/ Message!Marshal \/ Message!Serve \/ Message!Unmarshal
    BY DEF ServicesNext, CallsStep, QueuedStep, MessageStep, SearchStep, MarStep, WebStep,
           everything, message, Message!Next
  <2>2. QED
    BY <2>1, MessageKept, MarshalStep, ServeStep, UnmarshalStep
<1>3. Inv => MessagesKeepTheirMeaning
  BY MessageSays DEF MessagesKeepTheirMeaning
<1>4. QED
  BY <1>1, <1>2, <1>3, PTL DEF ServicesSpec
=============================================================================
