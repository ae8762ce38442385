------------------------------ MODULE SunCalls ------------------------------
(***************************************************************************)
(* What the SunRPC variant promises of the calls of a client: they are     *)
(* executed in the order they were made and none of them twice, and a call *)
(* that returns a result has been executed, with all that were made before *)
(* it.  A call that returns a failure promises nothing: it may have been   *)
(* executed, it may never be, and it may be executed later, while the      *)
(* calls after it wait their turn.                                         *)
(***************************************************************************)
EXTENDS Naturals, Sequences

CONSTANT Clients

VARIABLES
  outcome,   \* of every call a client made: "none" while it waits
  executed   \* how many of them the server has executed

vars == <<outcome, executed>>

Init == outcome = [c \in Clients |-> <<>>] /\ executed = [c \in Clients |-> 0]

Waits(c) == outcome[c] # <<>> /\ outcome[c][Len(outcome[c])] = "none"
Ends(c, how) == outcome' = [outcome EXCEPT ![c][Len(outcome[c])] = how]

Make(c) ==
  /\ ~Waits(c)
  /\ outcome' = [outcome EXCEPT ![c] = Append(@, "none")]
  /\ UNCHANGED executed

Execute(c) ==
  /\ executed[c] < Len(outcome[c])
  /\ executed' = [executed EXCEPT ![c] = @ + 1]
  /\ UNCHANGED outcome

Return(c) ==
  /\ Waits(c) /\ executed[c] = Len(outcome[c])
  /\ Ends(c, "returned")
  /\ UNCHANGED executed

Fail(c) == Waits(c) /\ Ends(c, "failed") /\ UNCHANGED executed

Next == \E c \in Clients : Make(c) \/ Execute(c) \/ Return(c) \/ Fail(c)
Spec == Init /\ [][Next]_vars
==============================================================================
