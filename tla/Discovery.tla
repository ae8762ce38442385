------------------------------ MODULE Discovery ------------------------------
(***************************************************************************)
(* How a client finds a server and decides where its OpenCL calls go.      *)
(*                                                                         *)
(* The client multicasts "hello", takes the first datagram that comes to   *)
(* its port for an answer, measures a TCP connection to the sender and     *)
(* runs its calls remotely when that was fast.  A server has a thread that *)
(* answers (mcast_listen), started before the one that listens for         *)
(* connections (tcp_listen).                                               *)
(*                                                                         *)
(* There are two variants of both.  "tpl" (and_rpc_clnt.c, init_rpc2)      *)
(* keeps the measured connection and has no local path: calls use tcp_sock *)
(* whatever was decided.  "sunrpc" (ocl_rpc_clnt.c, init_rpc) closes it,   *)
(* sets `local`, and opens a connection of its own to the RPC service.     *)
(***************************************************************************)
EXTENDS Naturals, FiniteSets

CONSTANTS
  Servers,
  Nobody,    \* no address: nothing received, no connection
  Stranger   \* a host that sends to the client's port and is no server

DiscoveryAssumption ==
  Nobody \notin Servers /\ Stranger \notin Servers \cup {Nobody}

VARIABLES
  variant,    \* the program: "tpl" or "sunrpc"
  pc,         \* where init_rpc is
  udp,        \* create_sock succeeded
  peer,       \* sender of the first datagram
  tcp_sock,   \* tpl: the host connected to
  clnt,       \* sunrpc: the host of the RPC handle
  local,      \* sunrpc: calls go to the local library
  hello,      \* servers whose copy of "hello" is on the way
  answers,    \* hosts whose datagram is on the way to the client
  lost,       \* servers that will not answer: a datagram was lost
  announcer,  \* of each server: "starting", "running", "ended"
  listener,   \* of each server: "starting", "accepting", "deaf", "closed"
  service     \* sunrpc, of each server: "starting", "serving", "gone"

client == <<variant, pc, udp, peer, tcp_sock, clnt, local>>
server == <<announcer, listener, service>>
vars   == <<client, server, hello, answers, lost>>

Init ==
  /\ variant \in {"tpl", "sunrpc"}
  /\ pc = "start" /\ udp = FALSE /\ peer = Nobody /\ tcp_sock = Nobody /\ clnt = Nobody
  /\ local = (variant = "sunrpc")
  /\ hello = {} /\ answers = {} /\ lost = {}
  /\ announcer = [s \in Servers |-> "starting"] /\ listener = [s \in Servers |-> "starting"]
  /\ service = [s \in Servers |-> "starting"]
-------------------------------------------------------------------------------
(* The client.                                                             *)

\* create_sock; discover_services goes on with a socket of -1.
create_sock ==
  /\ pc = "start"
  /\ udp' \in BOOLEAN /\ pc' = "hello"
  /\ UNCHANGED <<variant, peer, tcp_sock, clnt, local, server, hello, answers, lost>>

\* mcast_connect: a copy to every server, any of which may be lost.
mcast_connect ==
  /\ pc = "hello"
  /\ pc' = "waiting"
  /\ \E S \in SUBSET Servers :
       hello' = (IF udp THEN S ELSE {}) /\ lost' = Servers \ hello'
  /\ UNCHANGED <<variant, udp, peer, tcp_sock, clnt, local, server, answers>>

\* recvfrom, without a timeout; on a bad socket it fails and addr is garbage.
recvfrom ==
  /\ pc = "waiting"
  /\ IF udp
     THEN \E h \in answers : peer' = h /\ answers' = answers \ {h}
     ELSE peer' = Stranger /\ UNCHANGED answers
  /\ pc' = "measure"
  /\ UNCHANGED <<variant, udp, tcp_sock, clnt, local, server, hello, lost>>

Listens(h) == h \in Servers /\ listener[h] \in {"accepting", "deaf"}

\* get_tcp_bw times a connect that may fail, and keeps the connection; what
\* discover_services makes of the time changes nothing.
get_tcp_bw ==
  /\ pc = "measure" /\ variant = "tpl"
  /\ \E connected \in {Listens(peer), FALSE} :
       tcp_sock' = IF connected THEN peer ELSE tcp_sock
  /\ pc' = "ready"
  /\ UNCHANGED <<variant, udp, peer, clnt, local, server, hello, answers, lost>>

\* The SunRPC one sends something and closes the connection, if there is one;
\* its discover_services decides by the time alone.
measure_and_close ==
  /\ pc = "measure" /\ variant = "sunrpc"
  /\ \E fast \in BOOLEAN : local' = ~fast /\ pc' = IF fast THEN "create" ELSE "ready"
  /\ UNCHANGED <<variant, udp, peer, tcp_sock, clnt, server, hello, answers, lost>>

Serves(h) == h \in Servers /\ service[h] = "serving"

clnt_createM1 ==
  /\ pc = "create"
  /\ \E found \in {Serves(peer), FALSE} :
       /\ clnt' = IF found THEN peer ELSE Nobody
       /\ pc' = "ready"
  /\ UNCHANGED <<variant, udp, peer, tcp_sock, local, server, hello, answers, lost>>
\* clnt_create: without a service the application exits.
clnt_create ==
  /\ pc = "create"
  /\ \E found \in {Serves(peer), FALSE} :
       IF found THEN clnt' = peer /\ pc' = "ready" ELSE UNCHANGED clnt /\ pc' = "exited"
  /\ UNCHANGED <<variant, udp, peer, tcp_sock, local, server, hello, answers, lost>>

\* A datagram that is no answer to anything.
Stray ==
  /\ Stranger \notin answers /\ pc = "waiting"
  /\ answers' = answers \cup {Stranger}
  /\ UNCHANGED <<client, server, hello, lost>>
-------------------------------------------------------------------------------
(* A server.                                                               *)

\* start_mcast_thread: create_mcast_sock may have failed.
StartAnnouncer(s) ==
  /\ announcer[s] = "starting"
  /\ \E how \in {"running", "ended"} : announcer' = [announcer EXCEPT ![s] = how]
  /\ UNCHANGED <<client, listener, service, hello, answers, lost>>

\* tcp_listen up to listen; the process lives on in its other thread.
StartListener(s) ==
  /\ announcer[s] # "starting" /\ listener[s] = "starting"
  /\ \E how \in {"accepting", "closed"} : listener' = [listener EXCEPT ![s] = how]
  /\ UNCHANGED <<client, announcer, service, hello, answers, lost>>

\* main of ocl_rpc_svc.c: svctcp_create and svc_register, or exit(1).
Register(s) ==
  /\ variant = "sunrpc" /\ announcer[s] # "starting" /\ service[s] = "starting"
  /\ \/ service' = [service EXCEPT ![s] = "serving"] /\ UNCHANGED <<announcer, listener>>
     \/ /\ service' = [service EXCEPT ![s] = "gone"]
        /\ announcer' = [announcer EXCEPT ![s] = "ended"]
        /\ listener' = [listener EXCEPT ![s] = "closed"]
  /\ UNCHANGED <<client, hello, answers, lost>>

\* mcast_listen answers "hello"; its answer may be lost.
mcast_listen(s) ==
  /\ announcer[s] = "running" /\ s \in hello
  /\ hello' = hello \ {s}
  /\ \/ answers' = answers \cup {s} /\ UNCHANGED lost
     \/ UNCHANGED answers /\ lost' = lost \cup {s}
  /\ UNCHANGED <<client, server>>

\* A recvfrom that fails, or brings an empty datagram, ends the thread.
AnnouncerEnds(s) ==
  /\ announcer[s] = "running"
  /\ announcer' = [announcer EXCEPT ![s] = "ended"]
  /\ UNCHANGED <<client, listener, service, hello, answers, lost>>

\* accept or pthread_create fails: the loop ends, the socket stays open.
AcceptFails(s) ==
  /\ listener[s] = "accepting"
  /\ listener' = [listener EXCEPT ![s] = "deaf"]
  /\ UNCHANGED <<client, announcer, service, hello, answers, lost>>
-------------------------------------------------------------------------------
ClientStep == create_sock \/ mcast_connect \/ recvfrom \/ get_tcp_bw \/ measure_and_close
              \/ clnt_create

ServerStep(s) == StartAnnouncer(s) \/ StartListener(s) \/ Register(s) \/ mcast_listen(s)

Next ==
  \/ ClientStep \/ Stray
  \/ \E s \in Servers : ServerStep(s) \/ AnnouncerEnds(s) \/ AcceptFails(s)

\* The client and the servers run; a server has few steps to make, each once.
Fairness == WF_vars(ClientStep) /\ \A s \in Servers : WF_vars(ServerStep(s))

Spec == Init /\ [][Next]_vars /\ Fairness
-------------------------------------------------------------------------------
(* Properties.                                                             *)

TypeOK ==
  /\ pc \in {"start", "hello", "waiting", "measure", "create", "ready", "exited"}
  /\ peer \in Servers \cup {Nobody, Stranger} /\ clnt \in Servers \cup {Nobody}
  /\ tcp_sock \in Servers \cup {Nobody}
  /\ hello \cup lost \subseteq Servers /\ answers \subseteq Servers \cup {Stranger}

\* An application whose init_rpc came back either calls the local library or
\* has a handle to a service, and not both (ocl_rpc_clnt.c: every wrapper
\* looks at `local` and then uses clnt).
CallsHaveAPath ==
  variant = "sunrpc" /\ pc = "ready" => local # (clnt # Nobody)

\* Where the calls go answered the client, and has a thread for connections:
\* that is not yet so while it announces itself, but nobody connects then.
ReachesAnAnnouncer ==
  \A h \in {tcp_sock, clnt} \ {Nobody} :
    /\ h \in Servers /\ h = peer /\ announcer[h] # "starting"
    /\ variant = "tpl" => Listens(h)

\* Discovery hangs only when no server will answer: each one's "hello" or
\* answer was lost, or its thread has ended.
WaitsOnlyForLoss ==
  pc = "waiting" ~>
    pc # "waiting" \/ \A s \in Servers : s \in lost \/ announcer[s] = "ended"
==============================================================================
