------------------------------- MODULE RpcCall -------------------------------
(***************************************************************************)
(* What one TCP connection of the offloading library promises a            *)
(* single-threaded application: calls are synchronous (the next one starts *)
(* only after the previous one returned), the server runs the handler of   *)
(* every call exactly once and in order, and a call returns only after its *)
(* own handler ran.  Nothing is said about how bytes travel.               *)
(*                                                                         *)
(*   calls   - calls the application has made                              *)
(*   execs   - handlers the server has run (process_request)               *)
(*   returns - calls whose reply the application has been handed           *)
(***************************************************************************)
EXTENDS Naturals

VARIABLES calls, execs, returns

callVars == <<calls, execs, returns>>

CallInit == calls = 0 /\ execs = 0 /\ returns = 0

\* The application makes a call; it is not inside another one.
Begin ==
  /\ returns = calls
  /\ calls' = calls + 1
  /\ UNCHANGED <<execs, returns>>

\* The server runs the handler of the call that is outstanding.
Execute ==
  /\ execs < calls
  /\ execs' = execs + 1
  /\ UNCHANGED <<calls, returns>>

\* The call returns to the application.
Finish ==
  /\ returns < execs
  /\ returns' = returns + 1
  /\ UNCHANGED <<calls, execs>>

CallNext == Begin \/ Execute \/ Finish

CallSpec == CallInit /\ [][CallNext]_callVars
==============================================================================
