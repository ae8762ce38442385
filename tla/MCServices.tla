----------------------------- MODULE MCServices -----------------------------
(* The services on small parameters.                                       *)
EXTENDS Services, TLC

CONSTANTS c1, c2

\* One client makes enough calls to create and to use what it made; the other
\* one enough to be held up by it, and to bring the server down.
OneBusy == c1 :> 2 @@ c2 :> 1
\* A client alone, which may also transfer without blocking, and makes enough
\* calls to create, write, and read or map.
Alone  == c1 :> 3 @@ c2 :> 0

\* Units of 64 values: an int holds -32..31, a quad 0..4095.  The probes are
\* the ends of an int's two halves, of a unit and of a quad, and 36, the size
\* the server makes up for a local kernel argument.
Probes == {0, 1, 31, 32, 36, 63, 64, 65, 100, 4063, 4064, 4095}

\* The tables of SunRpcXdr, which do not depend on what is given.
Xdr == INSTANCE SunRpcXdr WITH Given <- <<>>

\* One parameter is probed; the others are told apart by their positions.
Probed(p) ==
  LET T == Xdr!Prototype[p] IN
  {[f \in Xdr!Params(p) |-> IF f = T[i] THEN v ELSE CHOOSE j \in 1..Len(T) : T[j] = f] :
     <<i, v>> \in {x \in (1..Len(T)) \X Probes : T[x[1]] \in Xdr!Uints => x[2] < Word}}
MCGiven == [p \in Xdr!Procs |-> Probed(p)]
==============================================================================
