----------------------------- MODULE ServerConns -----------------------------
(***************************************************************************)
(* The connections of and_rpc_server.c: tcp_listen accepts them and starts *)
(* a handle_client thread with the descriptor's number for each; threads   *)
(* receive requests and send replies by that number.  A connection that    *)
(* ends inside a request has its descriptor closed in the receive loop,    *)
(* which goes on receiving from the number: whatever it stands for then.   *)
(*                                                                         *)
(* A request comes in two pieces (RpcFraming has them byte by byte), and   *)
(* the client waits for the reply.  Piece k of client c is <<c, k>>.       *)
(***************************************************************************)
EXTENDS Naturals, Sequences, FiniteSetsExt, SequencesExt

CONSTANTS
  Clients,
  Fds,       \* numbers of the descriptors the process may have open
  Free,      \* what a closed descriptor stands for
  MaxCalls   \* bound: requests of each client

ASSUME ConnsAssumption ==
  Fds \subseteq Nat /\ Fds # {} /\ Free \notin Clients /\ MaxCalls \in Nat

VARIABLES
  link,     \* of each client: "none", "connected", "left"
  sent,     \* pieces each client has sent
  read,     \* pieces taken from each connection
  replies,  \* replies sent to each connection
  backlog,  \* connections waiting for accept
  loop,     \* tcp_listen is in its loop
  file,     \* the connection of each descriptor
  thread,   \* the thread started for each client
  done,     \* the requests executed, as the pieces they were made of
  up        \* the process runs

vars  == <<link, sent, read, replies, backlog, loop, file, thread, done, up>>
peers == <<link, sent>>

NoThread == [pc |-> "none", fd |-> Min(Fds), got |-> <<>>]

Init ==
  /\ link = [c \in Clients |-> "none"] /\ sent = [c \in Clients |-> 0]
  /\ read = [c \in Clients |-> 0] /\ replies = [c \in Clients |-> 0]
  /\ backlog = <<>> /\ loop = TRUE /\ file = [f \in Fds |-> Free]
  /\ thread = [c \in Clients |-> NoThread] /\ done = {} /\ up = TRUE
-------------------------------------------------------------------------------
(* Clients.                                                                *)

Connect(c) ==
  /\ up /\ link[c] = "none"
  /\ link' = [link EXCEPT ![c] = "connected"] /\ backlog' = Append(backlog, c)
  /\ UNCHANGED <<sent, read, replies, loop, file, thread, done, up>>

\* tpl_rpc_call sends a request's pieces and then receives its reply.
Send(c) ==
  /\ link[c] = "connected" /\ sent[c] < 2 * MaxCalls
  /\ sent[c] % 2 = 0 => 2 * replies[c] >= sent[c]
  /\ sent' = [sent EXCEPT ![c] = @ + 1]
  /\ UNCHANGED <<link, read, replies, backlog, loop, file, thread, done, up>>

\* A client exits, anywhere.
Leave(c) ==
  /\ link[c] = "connected"
  /\ link' = [link EXCEPT ![c] = "left"]
  /\ UNCHANGED <<sent, read, replies, backlog, loop, file, thread, done, up>>
-------------------------------------------------------------------------------
(* The accept loop.                                                        *)

FreeFds == {f \in Fds : file[f] = Free}

AcceptM1 ==
  /\ up /\ loop /\ backlog # <<>> /\ FreeFds # {}
  /\ file' = [file EXCEPT ![Min(FreeFds)] = Head(backlog)]
  /\ thread' = [t \in Clients |->
       IF t = Head(backlog) THEN [pc |-> "recv", fd |-> Min(FreeFds), got |-> <<>>]
       ELSE [thread[t] EXCEPT !.fd = Min(FreeFds)]]
  /\ backlog' = Tail(backlog)
  /\ UNCHANGED <<peers, read, replies, loop, done, up>>
AcceptM2 ==
  /\ up /\ loop /\ backlog # <<>> /\ FreeFds = Fds
  /\ file' = [file EXCEPT ![Min(FreeFds)] = Head(backlog)]
  /\ thread' = [thread EXCEPT ![Head(backlog)] =
                  [pc |-> "recv", fd |-> Min(FreeFds), got |-> <<>>]]
  /\ backlog' = Tail(backlog)
  /\ UNCHANGED <<peers, read, replies, loop, done, up>>
\* accept takes the lowest descriptor that is free; pthread_create succeeds.
Accept ==
  /\ up /\ loop /\ backlog # <<>> /\ FreeFds # {}
  /\ file' = [file EXCEPT ![Min(FreeFds)] = Head(backlog)]
  /\ thread' = [thread EXCEPT ![Head(backlog)] =
                  [pc |-> "recv", fd |-> Min(FreeFds), got |-> <<>>]]
  /\ backlog' = Tail(backlog)
  /\ UNCHANGED <<peers, read, replies, loop, done, up>>

\* accept or pthread_create fails, as accept does without a free descriptor:
\* the loop ends, the sockets already connected stay in the backlog.
AcceptFails ==
  /\ up /\ loop /\ backlog # <<>>
  /\ loop' = FALSE
  /\ backlog' \in {backlog, Tail(backlog)}
  /\ FreeFds = {} => UNCHANGED backlog
  /\ UNCHANGED <<peers, read, replies, file, thread, done, up>>
-------------------------------------------------------------------------------
(* handle_client, in the thread started for client t.                      *)

Conn(t)    == file[thread[t].fd]
Unread(c)  == c # Free /\ read[c] < sent[c]
AtEnd(c)   == c # Free /\ read[c] = sent[c] /\ link[c] = "left"
Close(t)   == file' = [file EXCEPT ![thread[t].fd] = Free]
Becomes(t, pc, got) == thread' = [thread EXCEPT ![t].pc = pc, ![t].got = got]

\* recv brings a piece: the first or the second of the thread's request.
Receive(t) ==
  LET c == Conn(t) IN
  /\ up /\ thread[t].pc \in {"recv", "more"} /\ Unread(c)
  /\ read' = [read EXCEPT ![c] = @ + 1]
  /\ Becomes(t, IF thread[t].pc = "recv" THEN "more" ELSE "run",
             Append(thread[t].got, <<c, read[c] + 1>>))
  /\ UNCHANGED <<peers, replies, backlog, loop, file, done, up>>

\* recv brings the end: between two requests the thread ends, inside one it
\* closes the descriptor and goes on in its loop.
SeesEnd(t) ==
  /\ up /\ thread[t].pc \in {"recv", "more"} /\ AtEnd(Conn(t))
  /\ Close(t)
  /\ Becomes(t, IF thread[t].pc = "recv" THEN "ended" ELSE "more", thread[t].got)
  /\ UNCHANGED <<peers, read, replies, backlog, loop, done, up>>

\* recv on a closed descriptor returns -1 into a size_t: memcpy of SIZE_MAX.
ReceiveFails(t) ==
  /\ up /\ thread[t].pc \in {"recv", "more"} /\ Conn(t) = Free
  /\ up' = FALSE
  /\ UNCHANGED <<peers, read, replies, backlog, loop, file, thread, done>>

\* process_request, and send to what the descriptor stands for.
Run(t) ==
  LET c == Conn(t) IN
  /\ up /\ thread[t].pc = "run"
  /\ done' = done \cup {thread[t].got}
  /\ IF c = Free \/ (c # Free /\ link[c] = "left")
     THEN /\ Close(t) /\ Becomes(t, "ended", <<>>)
          /\ up' \in {TRUE, c = Free} /\ UNCHANGED replies
     ELSE /\ replies' = [replies EXCEPT ![c] = @ + 1] /\ Becomes(t, "recv", <<>>)
          /\ UNCHANGED <<file, up>>
  /\ UNCHANGED <<peers, read, backlog, loop>>

Step(t) == Receive(t) \/ SeesEnd(t) \/ ReceiveFails(t) \/ Run(t)
-------------------------------------------------------------------------------
Next ==
  \/ \E c \in Clients : Connect(c) \/ Send(c) \/ Leave(c) \/ Step(c)
  \/ Accept \/ AcceptFails

\* The accept loop and every thread run: accept returns a connection that
\* waits, and fails at once when no descriptor is free.
Fairness ==
  /\ WF_vars(Accept) /\ WF_vars(FreeFds = {} /\ AcceptFails)
  /\ \A t \in Clients : WF_vars(Step(t))
Spec == Init /\ [][Next]_vars /\ Fairness
-------------------------------------------------------------------------------
(* Properties.                                                             *)

TypeOK ==
  /\ \A c \in Clients : read[c] <= sent[c] /\ sent[c] <= 2 * MaxCalls
  /\ \A f \in Fds : file[f] \in Clients \cup {Free}
  /\ \A t \in Clients : /\ thread[t].pc \in {"none", "recv", "more", "run", "ended"}
                        /\ thread[t].fd \in Fds /\ Len(thread[t].got) <= 2

\* A client has left inside a request; or else with its reply to come.
HalfSent == \E c \in Clients : link[c] = "left" /\ sent[c] % 2 = 1
CutShort == HalfSent \/ \E c \in Clients : link[c] = "left" /\ sent[c] > 2 * replies[c]

Working(t) == thread[t].pc \in {"recv", "more", "run"}

\* As long as no client leaves inside a request, a thread has its own
\* client's connection behind its number, and no two threads the same one.
OwnDescriptor ==
  up /\ ~HalfSent => \A t \in Clients : Working(t) => Conn(t) = t

\* A request is executed only as one client sent it, whole: or else some
\* client has left inside one (and_rpc_server.c: close() in the inner loop).
RequestsAreWhole ==
  ~HalfSent => \A r \in done : \E c \in Clients, k \in 1..MaxCalls :
                 r = <<<<c, 2 * k - 1>>, <<c, 2 * k>>>>

\* Clients that leave between two calls do not bring the server down.
DiesOfCutCall == ~up => CutShort

\* Every variable keeps its type, threads keep to their own client's
\* connection and execute its requests whole, and clients that leave between
\* two calls end nothing: unless one leaves inside a request (or, for the
\* process, inside a call).
ThreadsKeepApart == TypeOK /\ OwnDescriptor /\ RequestsAreWhole /\ DiesOfCutCall

\* A client whose request is sent is answered, for all that other clients
\* leave: unless the process or the accept loop ends, or one leaves inside a request.
EveryoneAnswered ==
  \A c \in Clients : \A k \in 1..MaxCalls :
    sent[c] = 2 * k ~> \/ replies[c] >= k \/ link[c] = "left"
                       \/ HalfSent \/ ~up \/ ~loop
==============================================================================
