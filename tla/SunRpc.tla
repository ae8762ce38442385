------------------------------- MODULE SunRpc -------------------------------
(***************************************************************************)
(* Calls of several clients to the one thread of the SunRPC server         *)
(* (src/src/sunrpc).  A wrapper of ocl_rpc_clnt.c sends a request over its *)
(* client's TCP connection and waits at most TIMEOUT for the reply with    *)
(* the request's xid; the library drops the replies to requests it no      *)
(* longer waits for.  svc_run takes one request at a time: ocl_prog_1      *)
(* decodes the arguments into blocks it allocates, the handler calls the   *)
(* driver, svc_sendreply answers, svc_freeargs frees the blocks.  Commands *)
(* that do not block are left to the driver, which runs each client's      *)
(* queue in order; reads and writes point into the argument block.         *)
(*                                                                         *)
(* A request is its xid: the number of the call in its client's log.  An   *)
(* object is <<client, xid>> of the create that made it.                   *)
(***************************************************************************)
EXTENDS Naturals, Sequences, SequencesExt

CONSTANTS
  Clients,
  Values,    \* contents of a buffer
  Unset,     \* contents of a buffer nobody wrote
  JUNK,      \* contents of memory that was freed
  Echo,      \* what the application's own block held before a read
  NULL,      \* no object
  MaxCalls,  \* bound: calls of each client
  Blocking   \* the blocking flags applications use

ASSUME SunAssumption ==
  /\ MaxCalls \in [Clients -> Nat] /\ Blocking \subseteq BOOLEAN
  /\ Unset \notin Values /\ JUNK \notin Values \cup {Unset}
  /\ Echo \notin Values \cup {Unset, JUNK}
  /\ NULL \notin Clients \X Nat

VARIABLES
  log,       \* calls of each client, with what became of them
  handle,    \* the object each client's buffer variable holds
  toServer,  \* xids of requests on the way
  toClient,  \* replies on the way
  server,    \* the request svc_run is busy with
  queue,     \* commands the driver has still to run
  store,     \* contents of the objects that exist
  executed,  \* requests of each client the server has taken up
  up,        \* the server process runs
  corrupt    \* the driver wrote into freed memory

vars == <<log, handle, toServer, toClient, server, queue, store, executed, up, corrupt>>

Ops     == {"create", "write", "read", "ndrange", "map", "finish", "release"}
Objects == UNION {{<<c, i>> : i \in 1..Len(log[c])} : c \in Clients}
Idle    == [stage |-> "idle", client |-> NULL, xid |-> 0, object |-> NULL, block |-> Echo]

Init ==
  /\ log = [c \in Clients |-> <<>>] /\ handle = [c \in Clients |-> NULL]
  /\ toServer = [c \in Clients |-> <<>>] /\ toClient = [c \in Clients |-> <<>>]
  /\ server = Idle /\ queue = [c \in Clients |-> <<>>] /\ store = <<>>
  /\ executed = [c \in Clients |-> 0] /\ up = TRUE /\ corrupt = FALSE

Waiting(c) == log[c] # <<>> /\ Last(log[c]).outcome = "none"
Made(c, op) == \E i \in 1..Len(log[c]) : log[c][i].op = op
-------------------------------------------------------------------------------
(* The client.                                                             *)

\* A call an application may make: it creates one buffer and releases it last.
Legal(c, op) ==
  CASE op = "create" -> ~Made(c, "create")
    [] op = "finish" -> TRUE
    [] OTHER         -> Made(c, "create") /\ ~Made(c, "release")

Transfers == {"write", "read", "map"}

\* A wrapper up to clnt_call's send.
Call(c) ==
  /\ ~Waiting(c) /\ Len(log[c]) < MaxCalls[c]
  /\ \E op \in Ops, b \in Blocking, v \in Values \cup {Unset} :
       /\ Legal(c, op)
       /\ op \in Transfers \/ b
       /\ op \in {"write", "ndrange"} <=> v # Unset
       /\ log' = [log EXCEPT ![c] = Append(@,
                   [op |-> op, blocking |-> b, val |-> v, object |-> handle[c],
                    outcome |-> "none", got |-> Echo])]
  /\ toServer' = [toServer EXCEPT ![c] = Append(@, Len(log[c]) + 1)]
  /\ UNCHANGED <<handle, toClient, server, queue, store, executed, up, corrupt>>

Ends(c, how, got) ==
  log' = [log EXCEPT ![c][Len(log[c])].outcome = how, ![c][Len(log[c])].got = got]

\* clnt_call reads a reply: the one it waits for ends the call, whose object
\* is the new value of the application's variable; any other is dropped.
ReceiveM1(c) ==
  /\ Waiting(c) /\ toClient[c] # <<>>
  /\ toClient' = [toClient EXCEPT ![c] = Tail(@)]
  /\ LET r == Head(toClient[c]) IN
       /\ Ends(c, r.code, r.got)
       /\ handle' = IF Last(log[c]).op = "create"
                    THEN [handle EXCEPT ![c] = r.object] ELSE handle
  /\ UNCHANGED <<toServer, server, queue, store, executed, up, corrupt>>
Receive(c) ==
  /\ Waiting(c) /\ toClient[c] # <<>>
  /\ toClient' = [toClient EXCEPT ![c] = Tail(@)]
  /\ LET r == Head(toClient[c]) IN
       IF r.xid = Len(log[c])
       THEN /\ Ends(c, r.code, r.got)
            /\ handle' = IF Last(log[c]).op = "create"
                         THEN [handle EXCEPT ![c] = r.object] ELSE handle
       ELSE UNCHANGED <<log, handle>>
  /\ UNCHANGED <<toServer, server, queue, store, executed, up, corrupt>>

\* TIMEOUT passes, or the connection is lost: the wrapper returns -1, or NULL.
CallFails(c) ==
  /\ Waiting(c)
  /\ Ends(c, "failed", Echo)
  /\ handle' = IF Last(log[c]).op = "create"
               THEN [handle EXCEPT ![c] = NULL] ELSE handle
  /\ UNCHANGED <<toServer, toClient, server, queue, store, executed, up, corrupt>>
-------------------------------------------------------------------------------
(* The server.                                                             *)

Alive == up /\ ~corrupt
Now   == log[server.client][server.xid]

\* svc_getargs and the handler, up to the driver's queue.
Handle(c) ==
  LET i    == Head(toServer[c])
      call == log[c][i]
      o    == IF call.op = "create" THEN <<c, i>> ELSE call.object
  IN
  /\ Alive /\ server.stage = "idle" /\ toServer[c] # <<>>
  /\ toServer' = [toServer EXCEPT ![c] = Tail(@)]
  /\ executed' = [executed EXCEPT ![c] = @ + 1]
  /\ CASE call.op = "create" ->
            /\ \E made \in {o, NULL} :
                 /\ server' = [stage |-> "handled", client |-> c, xid |-> i,
                               object |-> made, block |-> Echo]
                 /\ store' = IF made = NULL THEN store
                             ELSE [x \in DOMAIN store \cup {o} |->
                                     IF x = o THEN Unset ELSE store[x]]
            /\ UNCHANGED queue
       [] call.op = "release" /\ o # NULL ->
            /\ store' = [x \in DOMAIN store \ {o} |-> store[x]]
            /\ server' = [stage |-> "handled", client |-> c, xid |-> i,
                          object |-> o, block |-> Echo]
            /\ UNCHANGED queue
       [] OTHER ->
            /\ server' = [stage |-> "handled", client |-> c, xid |-> i,
                          object |-> o, block |-> Echo]
            /\ queue' = IF call.op = "finish" \/ o = NULL THEN queue
                        ELSE [queue EXCEPT ![c] = Append(@, [xid |-> i, freed |-> FALSE])]
            /\ UNCHANGED store
  /\ UNCHANGED <<log, handle, toClient, up, corrupt>>

\* The driver runs the oldest command of a client's queue.  A write takes its
\* data from the argument block and a read puts them there, freed or not.
Drive(c) ==
  LET cmd  == Head(queue[c])
      call == log[c][cmd.xid]
      o    == call.object
  IN
  /\ Alive /\ queue[c] # <<>>
  /\ queue' = [queue EXCEPT ![c] = Tail(@)]
  /\ store' \in IF o \notin DOMAIN store THEN {store}
                ELSE CASE call.op = "ndrange" -> {[store EXCEPT ![o] = call.val]}
                       [] call.op = "write"   -> {[store EXCEPT ![o] = v] :
                              v \in IF cmd.freed THEN {call.val, JUNK} ELSE {call.val}}
                       [] OTHER -> {store}
  /\ corrupt' = (call.op = "read" /\ cmd.freed)
  /\ server' = IF call.op \in {"read", "map"} /\ ~cmd.freed
               THEN [server EXCEPT !.block = IF o \in DOMAIN store THEN store[o] ELSE Echo]
               ELSE server
  /\ UNCHANGED <<log, handle, toServer, toClient, executed, up>>

BlocksM1(call) == call.op = "finish"
\* A blocking call and clFinish keep the thread until the queue is empty.
Blocks(call) == call.op = "finish" \/ (call.op \in Transfers /\ call.blocking)

\* A map without a block to send kills the process in svc_sendreply.
FatalM1 == Now.op \in {"map", "read"} /\ server.object = NULL
Fatal   == Now.op = "map" /\ server.object = NULL

\* svc_sendreply.
Answer ==
  LET c == server.client IN
  /\ Alive /\ server.stage = "handled"
  /\ Blocks(Now) => queue[c] = <<>>
  /\ IF Fatal
     THEN up' = FALSE /\ UNCHANGED <<server, toClient>>
     ELSE /\ toClient' = [toClient EXCEPT ![c] = Append(@,
               [xid |-> server.xid, object |-> server.object, got |-> server.block,
                code |-> IF Now.op \in {"create", "finish"} \/ server.object # NULL
                         THEN "ok" ELSE "error"])]
          /\ server' = [server EXCEPT !.stage = "answered"]
          /\ UNCHANGED up
  /\ UNCHANGED <<log, handle, toServer, queue, store, executed, corrupt>>

\* svc_freeargs: the blocks of the request go, whoever still points to them.
FreeArgs ==
  /\ Alive /\ server.stage = "answered"
  /\ queue' = [queue EXCEPT ![server.client] =
                 [k \in 1..Len(@) |-> IF @[k].xid = server.xid
                                      THEN [@[k] EXCEPT !.freed = TRUE] ELSE @[k]]]
  /\ server' = Idle
  /\ UNCHANGED <<log, handle, toServer, toClient, store, executed, up, corrupt>>
-------------------------------------------------------------------------------
Next ==
  \/ \E c \in Clients : Call(c) \/ Receive(c) \/ CallFails(c) \/ Handle(c) \/ Drive(c)
  \/ Answer \/ FreeArgs

\* svc_run serves every connection that has a request; the driver works.
Fairness ==
  /\ WF_vars(Answer \/ FreeArgs)
  /\ \A c \in Clients : SF_vars(Handle(c)) /\ WF_vars(Drive(c))

Spec == Init /\ [][Next]_vars /\ Fairness
-------------------------------------------------------------------------------
(* Properties.                                                             *)

TypeOK ==
  /\ \A c \in Clients :
       /\ \A i \in 1..Len(log[c]) :
            /\ log[c][i].op \in Ops /\ log[c][i].val \in Values \cup {Unset}
            /\ log[c][i].outcome \in {"none", "ok", "error", "failed"}
            /\ log[c][i].got \in Values \cup {Unset, JUNK, Echo}
            /\ log[c][i].object \in Objects \cup {NULL}
       /\ ToSet(toServer[c]) \subseteq 1..Len(log[c])
       /\ executed[c] + Len(toServer[c]) = Len(log[c])
  /\ DOMAIN store \subseteq Objects
  /\ server.stage \in {"idle", "handled", "answered"}
  /\ up \in BOOLEAN /\ corrupt \in BOOLEAN

\* Calls are executed in order and at most once, and one that returns was
\* executed after all that its client made before it.
Outcome(o) == IF o \in {"ok", "error"} THEN "returned" ELSE o
Abstract == INSTANCE SunCalls WITH
  outcome <- [c \in Clients |-> [i \in 1..Len(log[c]) |-> Outcome(log[c][i].outcome)]]
ImplementsSunCalls == Abstract!Spec

\* The writes to call i's object that were made before it.
Earlier(c, i) == {j \in 1..(i - 1) : log[c][j].op \in {"write", "ndrange"}
                                     /\ log[c][j].object = log[c][i].object}

\* A read that returns brings what the last write or kernel before it left,
\* also when that call was reported to have failed; or, if it does not block,
\* what the application's block held before.
ReadSeesWrites ==
  \A c \in Clients : \A i \in 1..Len(log[c]) :
    LET r == log[c][i]
        W == Earlier(c, i)
        w == log[c][CHOOSE j \in W : \A k \in W : k <= j]
    IN r.op \in {"read", "map"} /\ r.outcome = "ok" =>
         \/ r.got = IF W = {} THEN Unset ELSE w.val
         \/ r.got = JUNK /\ W # {} /\ ~w.blocking
         \/ r.got = Echo /\ ~r.blocking

\* An object in the driver that its client does not hold comes from a create
\* that was reported to have failed or has not been answered; the object a
\* client holds is in the driver until the client releases it.
NoOtherOrphans ==
  /\ \A o \in DOMAIN store :
       handle[o[1]] = o \/ log[o[1]][o[2]].outcome \in {"none", "failed"}
  /\ \A c \in Clients :
       handle[c] # NULL => handle[c] \in DOMAIN store \/ Made(c, "release")

\* Freed memory is touched only for a read or a write that does not block.
HarmOnlyWithoutBlocking ==
  corrupt \/ (\E o \in DOMAIN store : store[o] = JUNK) =>
    \E c \in Clients : \E i \in 1..Len(log[c]) :
      log[c][i].op \in {"read", "write"} /\ ~log[c][i].blocking

\* The server dies only for a client whose create had failed and who maps
\* the object it did not get.
DiesOfLostObject ==
  ~up => \E c \in Clients : \E i, j \in 1..Len(log[c]) :
           /\ i < j /\ log[c][i].op = "create" /\ log[c][j].op = "map"
           /\ log[c][j].object = NULL

\* Every variable keeps its type, and what is lost of a call is what its
\* failure says: objects nobody holds come from creates that failed, freed
\* blocks hurt only calls that do not block, and the server dies only of a map
\* of an object that was not made.
LossIsExplained ==
  TypeOK /\ NoOtherOrphans /\ HarmOnlyWithoutBlocking /\ DiesOfLostObject

\* A request that was sent is executed, also when its client gave it up.
SentIsExecuted ==
  \A c \in Clients : \A i \in 1..MaxCalls[c] :
    Len(log[c]) >= i ~> executed[c] >= i \/ ~up \/ corrupt
==============================================================================
