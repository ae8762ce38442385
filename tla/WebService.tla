------------------------------ MODULE WebService ------------------------------
(***************************************************************************)
(* cl_webserver.py: a POST of an image is answered with its edges.  The    *)
(* server handles one request at a time, through files of fixed names in   *)
(* its directory, and has the filter oclSobelFilter as a child that waits  *)
(* for "go" on its standard input.  communicate() closes that input and    *)
(* waits for the child to end.  The files outlive the server.              *)
(***************************************************************************)
EXTENDS Integers, Sequences

CONSTANTS
  None,
  MaxRequests,  \* bound
  MaxRuns       \* bound: starts of the server

WebAssumption == MaxRequests \in Nat \ {0} /\ MaxRuns \in Nat \ {0}

Requests == 1..MaxRequests

VARIABLES
  run,        \* starts of the server so far
  stdin,      \* of the child: "open" or "closed"
  pc,         \* of do_POST: "idle", "files", "filter", "image", "end"
  request,    \* requests taken so far; the current one while pc is not "idle"
  jpeg,       \* whether the current request has a JPEG image
  tmp_ppm,    \* whose image a file holds: a request, or None
  out_ppm,
  reply,      \* of each request: what has been sent
  began,      \* of each request: the run it came in
  failed      \* requests for which the child ended without writing out.ppm

vars == <<run, stdin, pc, request, jpeg, tmp_ppm, out_ppm, reply, began, failed>>

Init ==
  /\ run = 1 /\ stdin = "open" /\ pc = "idle" /\ request = 0 /\ jpeg = FALSE
  /\ tmp_ppm = None /\ out_ppm = None
  /\ reply = [r \in Requests |-> <<>>] /\ began = [r \in Requests |-> 0] /\ failed = {}

Sends(part) == reply' = [reply EXCEPT ![request'] = Append(@, part)]

\* A POST that names a method: an image for the filter, or something else.
do_POST ==
  /\ pc = "idle" /\ request < MaxRequests /\ request' = request + 1
  /\ began' = [began EXCEPT ![request'] = run]
  /\ jpeg' \in BOOLEAN
  /\ \/ pc' = "files" /\ Sends([status |-> 200])
     \/ pc' = "end" /\ UNCHANGED reply
  /\ UNCHANGED <<run, stdin, tmp_ppm, out_ppm, failed>>

\* tmp.jpg is written and converted.  tmp.ppm is emptied first.
Files ==
  /\ pc = "files"
  /\ IF jpeg THEN tmp_ppm' = request /\ pc' = "filter"
     ELSE tmp_ppm' = None /\ pc' = "end"
  /\ UNCHANGED <<run, stdin, request, jpeg, out_ppm, reply, began, failed>>

CommunicateM1 ==
  /\ pc = "filter"
  /\ IF stdin = "open" THEN pc' = "image" /\ UNCHANGED stdin ELSE pc' = "end" /\ UNCHANGED stdin
  /\ out_ppm' = tmp_ppm /\ UNCHANGED failed
  /\ UNCHANGED <<run, request, jpeg, tmp_ppm, reply, began>>
\* communicate("go\n"); how the child ends is not looked at.  On an input that
\* is closed it raises ValueError.
Communicate ==
  /\ pc = "filter"
  /\ \/ /\ stdin = "open" /\ stdin' = "closed" /\ pc' = "image"
        /\ \/ out_ppm' = tmp_ppm /\ UNCHANGED failed
           \/ UNCHANGED out_ppm /\ failed' = failed \cup {request}
     \/ stdin = "closed" /\ pc' = "end" /\ UNCHANGED <<stdin, out_ppm, failed>>
  /\ UNCHANGED <<run, request, jpeg, tmp_ppm, reply, began>>

\* out.ppm is converted to out.jpg and sent; without an out.ppm open() raises.
Image ==
  /\ pc = "image" /\ pc' = "end" /\ UNCHANGED request
  /\ IF out_ppm = None THEN UNCHANGED reply ELSE Sends([image |-> out_ppm])
  /\ UNCHANGED <<run, stdin, jpeg, tmp_ppm, out_ppm, began, failed>>

\* send_error(404), whatever has been sent before.
SendError ==
  /\ pc = "end" /\ pc' = "idle" /\ UNCHANGED request /\ Sends([status |-> 404])
  /\ UNCHANGED <<run, stdin, jpeg, tmp_ppm, out_ppm, began, failed>>

\* main: interrupted anywhere, the server is started again in its directory.
Restart ==
  /\ run < MaxRuns /\ run' = run + 1 /\ stdin' = "open" /\ pc' = "idle"
  /\ UNCHANGED <<request, jpeg, tmp_ppm, out_ppm, reply, began, failed>>

Handles == Files \/ Communicate \/ Image \/ SendError
Next == do_POST \/ Handles \/ Restart
\* A request that was taken is worked on; the filter ends.
Spec == Init /\ [][Next]_vars /\ WF_vars(Handles)
-------------------------------------------------------------------------------
Images(r) == {reply[r][n].image : n \in {m \in DOMAIN reply[r] : "image" \in DOMAIN reply[r][m]}}

\* A run of the server answers one request with an image at most, the first
\* whose image could be converted: the child does not outlive it.
OneImagePerRun ==
  \A r, s \in Requests : Images(r) # {} /\ Images(s) # {} /\ r # s => began[r] # began[s]

\* Who is answered with another request's image came in a later run, and the
\* child failed.
StaleOnlyAfterFailure ==
  \A r \in Requests : \A i \in Images(r) : i # r => r \in failed /\ began[i] < began[r]

\* A request is answered to its end, which is an error 404 whatever came before,
\* unless the server is interrupted.
EveryReplyEndsInError ==
  \A r \in Requests : began[r] # 0 ~>
    run > began[r] \/ (reply[r] # <<>> /\ reply[r][Len(reply[r])] = [status |-> 404])
==============================================================================
