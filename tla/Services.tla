------------------------------ MODULE Services ------------------------------
(***************************************************************************)
(* The services around the tpl variant, each with variables of its own:    *)
(* the SunRPC variant's calls (SunRpc) and messages (SunRpcXdr), discovery *)
(* of a server (Discovery), the MAR service and the web service.  A        *)
(* behaviour is one of the part `which`; the others stay as they begin.    *)
(***************************************************************************)
EXTENDS SunRpc

CONSTANTS
  MaxQueued, Queueing,        \* MaxCalls and Blocking of SunRpc, once more
  Word, Codes, Given,         \* of SunRpcXdr
  Hosts, Nobody, Stranger,    \* of Discovery
  MarHosts, MaxRounds, MaxTime,  \* of MarService
  MaxRequests, MaxRuns        \* of WebService

VARIABLES
  which,
  pc, proc, app, wire, driver, block, answer, out,
  variant, at, udp, peer, tcp_sock, clnt, local, hello, answers, lost,
  announcer, listener, announced,
  main, round, discover_time, chosen, servers, disc, running, inbox, ann, asked,
  service, now, sentAt, unheard, talk, forgot,
  run, stdin, post, request, jpeg, tmp_ppm, out_ppm, reply, began, failed

message == <<pc, proc, app, wire, driver, block, answer, out>>
search  == <<variant, at, udp, peer, tcp_sock, clnt, local, hello, answers, lost,
             announcer, listener, announced>>
mar     == <<main, round, discover_time, chosen, servers, disc, running, inbox, ann,
             asked, service, now, sentAt, unheard, talk, forgot>>
web     == <<run, stdin, post, request, jpeg, tmp_ppm, out_ppm, reply, began, failed>>

Queues  == INSTANCE SunRpc WITH MaxCalls <- MaxQueued, Blocking <- Queueing
Message == INSTANCE SunRpcXdr
Search  == INSTANCE Discovery WITH Servers <- Hosts, pc <- at, service <- announced
Mar     == INSTANCE MarService WITH Servers <- MarHosts, None <- Nobody
Web     == INSTANCE WebService WITH None <- 0, pc <- post

ASSUME PartsAssumption ==
  /\ Queues!SunAssumption /\ Message!XdrAssumption
  /\ Search!DiscoveryAssumption /\ Mar!MarAssumption /\ Web!WebAssumption

MessageIdle ==
  /\ pc = "idle" /\ proc = "none" /\ app = <<>> /\ wire = <<>> /\ driver = <<>>
  /\ block = 0 /\ answer = <<>> /\ out = <<>>

ServicesInit ==
  /\ which \in {"calls", "queued", "message", "search", "mar", "web"}
  /\ Init /\ Search!Init /\ Mar!Init /\ Web!Init
  /\ IF which = "message" THEN Message!Init ELSE MessageIdle
  /\ which # "search" => variant = "tpl"

CallsStep(A)  == which = "calls" /\ A /\ UNCHANGED <<which, message, search, mar, web>>
QueuedStep    == which = "queued" /\ Queues!Next /\ UNCHANGED <<which, message, search, mar, web>>
MessageStep   == which = "message" /\ Message!Next /\ UNCHANGED <<which, vars, search, mar, web>>
SearchStep(A) == which = "search" /\ A /\ UNCHANGED <<which, vars, message, mar, web>>
MarStep(A)    == which = "mar" /\ A /\ UNCHANGED <<which, vars, message, search, web>>
WebStep(A)    == which = "web" /\ A /\ UNCHANGED <<which, vars, message, search, mar>>

ServicesNext ==
  \/ CallsStep(Next) \/ QueuedStep \/ MessageStep
  \/ SearchStep(Search!Next) \/ MarStep(Mar!Next) \/ WebStep(Web!Next)

everything == <<which, vars, message, search, mar, web>>

\* The fairness of the parts.
CallsFair ==
  /\ WF_vars(CallsStep(Answer \/ FreeArgs))
  /\ \A c \in Clients : SF_vars(CallsStep(Handle(c))) /\ WF_vars(CallsStep(Drive(c)))
SearchFair ==
  /\ WF_search(SearchStep(Search!ClientStep))
  /\ \A s \in Hosts : WF_search(SearchStep(Search!ServerStep(s)))
MarFair ==
  /\ WF_mar(MarStep(Mar!Choose)) /\ WF_mar(MarStep(Mar!Discoverer))
  /\ \A s \in MarHosts : WF_mar(MarStep(Mar!Announcer(s)))

ServicesSpec ==
  /\ ServicesInit /\ [][ServicesNext]_everything
  /\ CallsFair /\ SearchFair /\ MarFair /\ WF_web(WebStep(Web!Handles))
-------------------------------------------------------------------------------
\* Parameters reach the remote driver, and its answer the caller, exactly when
\* they are sent and fit; blocks have the length of the transfer, no message is
\* refused on its way, and what the stations pass on has its type.
MessagesKeepTheirMeaning ==
  which = "message" =>
    /\ Message!TypeOK /\ Message!RemoteMeansLocal /\ Message!BlockCoversTransfer
    /\ Message!NothingRefused /\ Message!AnswerReachesCaller

\* Calls go to a server that answered and can be connected to, or, where there
\* is a local library, to that; the search keeps its types.
CallsHaveATarget ==
  Search!TypeOK /\ Search!CallsHaveAPath /\ Search!ReachesAnAnnouncer

\* A latency is too small only by a late answer, and an announcer talks to
\* itself only when it was stopped before it ran; the service keeps its types.
LatenciesAreReal ==
  Mar!TypeOK /\ Mar!FlatteredOnlyWhenLate /\ Mar!SelfTalkOnlyForgotten

\* A run of the web service sends one image at most, and another request's
\* image only when the filter failed.
ImagesAreTheirOwn == Web!OneImagePerRun /\ Web!StaleOnlyAfterFailure

\* A SunRPC request that was sent is executed, a client that looks for a
\* server finds one unless datagrams are lost, threads that are stopped end,
\* and every POST is answered to its end.
WaitsEnd ==
  /\ which = "calls" => SentIsExecuted
  /\ Search!WaitsOnlyForLoss
  /\ Mar!FindsAServer /\ Mar!ClientEnds /\ Mar!AnnouncerEnds
  /\ Web!EveryReplyEndsInError
==============================================================================
