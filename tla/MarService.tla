----------------------------- MODULE MarService -----------------------------
(***************************************************************************)
(* marclient.py and marservice.py.  The client's main thread asks over     *)
(* multicast which servers there are and polls the dictionary that its     *)
(* ServiceDiscover thread fills; it sends the task to the server of lowest *)
(* latency and asks again for the next.  A ServiceAnnouncer thread answers *)
(* every datagram it receives; stop() wakes it with one of its own.        *)
(* Datagrams may be lost, delayed and overtake each other.                 *)
(***************************************************************************)
EXTENDS Integers, SequencesExt

CONSTANTS
  Servers,
  None,
  MaxRounds,  \* bound: discoveries
  MaxTime     \* bound: of the clock

\* A datagram is <<sender, the discovery it answers>>; a question is the number
\* of its discovery, and Self is the datagram an announcer sends itself.
STOP_MSG == <<None, 0>>
Self == 0

MarAssumption ==
  MaxRounds \in Nat \ {0} /\ MaxTime \in Nat /\ "client" \notin Servers

VARIABLES
  main,       \* the client's main thread
  round,      \* discoveries begun
  discover_time,
  chosen,     \* mar_server
  servers,    \* of each address: the last answer, or None
  disc,       \* ServiceDiscover: its place, and what it has received
  running,    \* the client's, and each announcer's, `running`
  inbox,      \* datagrams waiting on the client's socket
  ann,        \* ServiceAnnouncer of each server
  asked,      \* the queue of each announcer's socket
  service,    \* serve_forever of each server: "up" or "down"
  now, sentAt,  \* the clock, and when each question was sent
  unheard,    \* servers whose datagrams of this discovery were lost
  talk,       \* how often an announcer has answered itself
  forgot      \* announcers stopped before they ran

client  == <<main, chosen, round, discover_time, servers, disc, inbox, sentAt>>
server  == <<ann, asked, service, talk, forgot>>
vars    == <<client, server, running, now, unheard>>

Init ==
  /\ main = "clear" /\ chosen = None /\ round = 0 /\ discover_time = 0
  /\ servers = [s \in Servers |-> None] /\ disc = [at |-> "new"]
  /\ running = [t \in Servers \cup {"client"} |-> FALSE]
  /\ inbox = {} /\ sentAt = [r \in 1..MaxRounds |-> 0]
  /\ ann = [s \in Servers |-> "new"] /\ asked = [s \in Servers |-> <<>>]
  /\ service = [s \in Servers |-> "up"] /\ now = 0 /\ unheard = {}
  /\ talk = [s \in Servers |-> 0] /\ forgot = {}

Tick == now < MaxTime /\ now' = now + 1 /\ UNCHANGED <<client, server, running, unheard>>
-------------------------------------------------------------------------------
(* The client's main thread.                                               *)

At(pc, next) == main = pc /\ main' = next

Clear ==
  /\ At("clear", "time") /\ round < MaxRounds
  /\ servers' = [s \in Servers |-> None]
  /\ UNCHANGED <<chosen, round, discover_time, disc, inbox, sentAt, server, running, now, unheard>>

SetTimeM1 ==
  /\ At("time", "ask") /\ round' = round + 1 /\ discover_time' = now + 1
  /\ UNCHANGED <<chosen, servers, disc, inbox, sentAt, server, running, now, unheard>>
SetTime ==
  /\ At("time", "ask") /\ round' = round + 1 /\ discover_time' = now
  /\ UNCHANGED <<chosen, servers, disc, inbox, sentAt, server, running, now, unheard>>

\* A question may overtake the ones before it.
Arrives(queue, place, d) ==
  IF place <= Len(queue) THEN InsertAt(queue, place, d) ELSE Append(queue, d)

\* sock.sendto('discover', addr): it reaches some of the servers.
Ask ==
  /\ At("ask", "wait") /\ sentAt' = [sentAt EXCEPT ![round] = now]
  /\ \E reached \in SUBSET Servers :
       /\ \E place \in 1..MaxRounds : asked' = [s \in Servers |->
            IF s \in reached /\ ann[s] # "ended" THEN Arrives(asked[s], place, round) ELSE asked[s]]
       /\ unheard' = {s \in Servers : s \notin reached \/ ann[s] = "ended"}
  /\ UNCHANGED <<chosen, round, discover_time, servers, disc, inbox, ann, service, talk, forgot, running, now>>

Known == {s \in Servers : servers[s] # None}

Best == {s \in Known : \A o \in Known : servers[s].latency <= servers[o].latency}

\* while len(sdthread.servers) == 0, and then the lowest latency.
Choose ==
  /\ At("wait", "request") /\ chosen' \in Best
  /\ UNCHANGED <<round, discover_time, servers, disc, inbox, sentAt, server, running, now, unheard>>

\* mar_request: a server that is gone raises what main does not catch.
Request ==
  /\ At("request", IF service[chosen] = "up" THEN "clear" ELSE "raised") /\ chosen' = None
  /\ UNCHANGED <<round, discover_time, servers, disc, inbox, sentAt, server, running, now, unheard>>

StopM1 == inbox' = inbox
\* sdthread.stop() sends STOP_MSG to its own socket.
Stop == inbox' = inbox \cup {STOP_MSG}

Interrupt ==
  /\ main \notin {"ended", "raised"} /\ main' = "ended" /\ chosen' = None
  /\ running' = [running EXCEPT !["client"] = FALSE] /\ Stop
  /\ UNCHANGED <<round, discover_time, servers, disc, sentAt, server, now, unheard>>
-------------------------------------------------------------------------------
(* ServiceDiscover.                                                        *)

DiscRuns ==
  /\ disc.at = "new" /\ disc' = [at |-> "check"]
  /\ running' = [running EXCEPT !["client"] = TRUE]
  /\ UNCHANGED <<main, chosen, round, discover_time, servers, inbox, sentAt, server, now, unheard>>

DiscChecks ==
  /\ disc.at = "check"
  /\ disc' = [at |-> IF running["client"] THEN "recv" ELSE "ended"]
  /\ UNCHANGED <<main, chosen, round, discover_time, servers, inbox, sentAt, server, running, now, unheard>>

\* recvfrom, and time.time(): the subtrahend is read in the next step.
DiscReceives ==
  /\ disc.at = "recv"
  /\ \E d \in inbox :
       /\ inbox' = inbox \ {d}
       /\ disc' = IF d = STOP_MSG THEN [at |-> "ended"]
                  ELSE [at |-> "store", time |-> now, from |-> d[1], round |-> d[2]]
  /\ UNCHANGED <<main, chosen, round, discover_time, servers, sentAt, server, running, now, unheard>>

update_service ==
  /\ disc.at = "store" /\ disc' = [at |-> "check"]
  /\ servers' = [servers EXCEPT ![disc.from] =
       [latency |-> disc.time - discover_time, time |-> disc.time, round |-> disc.round]]
  /\ UNCHANGED <<main, chosen, round, discover_time, inbox, sentAt, server, running, now, unheard>>
-------------------------------------------------------------------------------
(* ServiceAnnouncer of server s.                                           *)

Runs(s) ==
  /\ ann[s] = "new" /\ ann' = [ann EXCEPT ![s] = "check"]
  /\ running' = [running EXCEPT ![s] = TRUE]
  /\ forgot' = IF service[s] = "down" THEN forgot \cup {s} ELSE forgot
  /\ UNCHANGED <<client, asked, service, talk, now, unheard>>

Checks(s) ==
  /\ ann[s] = "check"
  /\ ann' = [ann EXCEPT ![s] = IF running[s] THEN "recv" ELSE "ended"]
  /\ unheard' = IF running[s] THEN unheard ELSE unheard \cup {s}
  /\ UNCHANGED <<client, asked, service, talk, forgot, running, now>>

\* Any datagram is answered, to whoever sent it.
Answers(s) ==
  /\ ann[s] = "recv" /\ asked[s] # <<>>
  /\ ann' = [ann EXCEPT ![s] = "check"]
  /\ LET d == Head(asked[s]) IN
       \/ /\ d = Self /\ talk' = [talk EXCEPT ![s] = IF @ < 2 THEN @ + 1 ELSE @]
          /\ asked' = [asked EXCEPT ![s] = Append(Tail(@), Self)]
          /\ UNCHANGED <<inbox, unheard>>
       \/ /\ d # Self /\ asked' = [asked EXCEPT ![s] = Tail(@)] /\ UNCHANGED talk
          /\ \/ inbox' = inbox \cup {<<s, d>>} /\ UNCHANGED unheard
             \/ UNCHANGED inbox
                /\ unheard' = IF d = round THEN unheard \cup {s} ELSE unheard
  /\ UNCHANGED <<main, chosen, round, discover_time, servers, disc, sentAt, service, forgot, running, now>>

\* KeyboardInterrupt in serve_forever: announce_thread.stop().
Stops(s) ==
  /\ service[s] = "up" /\ service' = [service EXCEPT ![s] = "down"]
  /\ running' = [running EXCEPT ![s] = FALSE]
  /\ asked' = [asked EXCEPT ![s] = Append(@, Self)]
  /\ UNCHANGED <<client, ann, talk, forgot, now, unheard>>
-------------------------------------------------------------------------------
Discoverer == DiscRuns \/ DiscChecks \/ DiscReceives \/ update_service
Announcer(s) == Runs(s) \/ Checks(s) \/ Answers(s)

Next ==
  \/ Tick \/ Clear \/ SetTime \/ Ask \/ Choose \/ Request \/ Interrupt
  \/ Discoverer
  \/ \E s \in Servers : Announcer(s) \/ Stops(s)

\* The threads run, and main polls; when it asks, and who interrupts, is open.
Fairness == /\ WF_vars(Choose) /\ WF_vars(Discoverer)
            /\ \A s \in Servers : WF_vars(Announcer(s))
Spec == Init /\ [][Next]_vars /\ Fairness
-------------------------------------------------------------------------------
(* Properties.                                                             *)

TypeOK ==
  /\ main \in {"clear", "time", "ask", "wait", "request", "ended", "raised"}
  /\ round \in 0..MaxRounds /\ discover_time \in 0..MaxTime
  /\ disc.at \in {"new", "check", "recv", "store", "ended"}
  /\ \A s \in Known : servers[s].time \in 0..MaxTime /\ servers[s].round \in 1..round
  /\ chosen \in Servers \cup {None} /\ unheard \subseteq Servers /\ forgot \subseteq Servers

\* A server looks faster than it was only by an answer to an earlier discovery
\* that came, or was taken up, after discover_time was set again.
FlatteredOnlyWhenLate ==
  \A s \in Known : servers[s].latency < servers[s].time - sentAt[servers[s].round] =>
    servers[s].round < round

\* The client hears of no server for ever only when every server's question
\* or answer was lost, or its announcer has ended.
FindsAServer ==
  main = "wait" ~> main # "wait" \/ unheard = Servers

\* An interrupted client ends both its threads, wherever they are.
ClientEnds == main = "ended" ~> disc.at = "ended"

\* A service that is interrupted ends its announcer, unless that had not run
\* yet: run() then sets `running` again (marservice.py 28).
AnnouncerEnds ==
  \A s \in Servers : service[s] = "down" ~> ann[s] = "ended" \/ s \in forgot

\* An announcer answers its own datagram once at most, with the same exception:
\* then it answers each answer of its own, for ever.
SelfTalkOnlyForgotten == \A s \in Servers : talk[s] > 1 => s \in forgot
==============================================================================
