------------------------------ MODULE Lifetimes ------------------------------
(***************************************************************************)
(* The objects that clients of and_rpc_server.c create and release in the  *)
(* server's one process.  A client holds the server's address of an object *)
(* in a slot that clRelease... leaves as it is; a release handler passes   *)
(* the address it is sent to the driver.  A client that leaves releases    *)
(* nothing, and nobody does it for it.                                     *)
(*                                                                         *)
(* The driver is external: it counts references, an object is kept as long *)
(* as one made from it is, and it may give an address again.               *)
(***************************************************************************)
EXTENDS Naturals, FiniteSets

CONSTANTS
  Clients,
  Careless,   \* clients that may use a handle after its release
  Addrs,      \* addresses the driver gives
  None,
  MaxMade     \* bound: objects each client creates

Kinds  == {"context", "queue", "program", "kernel"}
\* clCreateCommandQueue, clCreateProgramWithSource, clCreateKernel.
Parent == [k \in Kinds |->
  CASE k \in {"queue", "program"} -> "context" [] k = "kernel" -> "program"
    [] OTHER -> "none"]

\* An object of the driver; None is none.
Records ==
  [kind: Kinds, owner: Clients, from: Addrs \cup {None}, released: BOOLEAN]

LifetimesAssumption ==
  Careless \subseteq Clients /\ None \notin Addrs \cup Records
  /\ MaxMade \in [Clients -> Nat]

VARIABLES
  obj,      \* the driver's object at each address
  slot,     \* of each client and kind: the address in mem_ptrs
  held,     \* kinds each client has created and not released
  made,     \* objects each client has created
  conn,     \* clients connected
  stale,    \* a client has used a handle after its release
  up        \* the process runs

vars == <<obj, slot, held, made, conn, stale, up>>

Init ==
  /\ obj = [a \in Addrs |-> None] /\ slot = [c \in Clients |-> [k \in Kinds |-> None]]
  /\ held = [c \in Clients |-> {}] /\ made = [c \in Clients |-> 0]
  /\ conn = Clients /\ stale = FALSE /\ up = TRUE
-------------------------------------------------------------------------------
(* The driver.                                                             *)

Object(k, c, from) == [kind |-> k, owner |-> c, from |-> from, released |-> FALSE]

IsA(a, k) == a # None /\ obj[a] # None /\ obj[a].kind = k

\* What object a was made from, what that was made from, and a itself.
From(o, a) == IF a = None THEN None ELSE o[a].from
Lineage(o, a) == {a, From(o, a), From(o, From(o, a))} \ {None}

\* An object stays while it, or one made from it, has not been released.
Kept(o) ==
  LET live == {a \in Addrs : o[a] # None}
      kept == UNION {Lineage(o, a) : a \in {b \in live : ~o[b].released}}
  IN  [a \in Addrs |-> IF a \in kept THEN o[a] ELSE None]
-------------------------------------------------------------------------------
(* Clients.                                                                *)

Calls(c) == up /\ c \in conn

\* A creating call sends the address in the slot of its parent; the handler
\* answers with the new object's, or NULL when the driver refused.
Create(c, k) ==
  LET from == IF k = "context" THEN None ELSE slot[c][Parent[k]] IN
  /\ Calls(c) /\ k \notin held[c] /\ made[c] < MaxMade[c]
  /\ k # "context" => \/ Parent[k] \in held[c]
                      \/ c \in Careless /\ from # None
  /\ made' = [made EXCEPT ![c] = @ + 1]
  /\ stale' = (stale \/ (k # "context" /\ Parent[k] \notin held[c]))
  /\ \/ /\ k = "context" \/ IsA(from, Parent[k])
        /\ \E a \in Addrs :
             /\ obj[a] = None
             /\ obj' = [obj EXCEPT ![a] = Object(k, c, from)]
             /\ slot' = [slot EXCEPT ![c][k] = a]
        /\ held' = [held EXCEPT ![c] = @ \cup {k}] /\ UNCHANGED up
     \/ /\ k # "context" /\ ~IsA(from, Parent[k]) /\ up' \in BOOLEAN
        /\ slot' = [slot EXCEPT ![c][k] = None] /\ UNCHANGED <<obj, held>>
  /\ UNCHANGED conn

\* What clRelease... of the driver does with address a, taken for a k.
Released(a, k) ==
  IF IsA(a, k) /\ ~obj[a].released
  THEN obj' = Kept([obj EXCEPT ![a].released = TRUE]) /\ UNCHANGED up
  ELSE up' \in BOOLEAN /\ UNCHANGED obj

\* tpl packs "I" from the slot's address: the server's address in it.
Sent(c, k) == slot[c][k]

\* clReleaseProgram, clReleaseKernel, clReleaseCommandQueue, clReleaseContext.
Release(c, k) ==
  /\ Calls(c) /\ slot[c][k] # None
  /\ k \in held[c] \/ c \in Careless
  /\ Released(Sent(c, k), k)
  /\ held' = [held EXCEPT ![c] = @ \ {k}]
  /\ stale' = (stale \/ k \notin held[c])
  /\ UNCHANGED <<slot, made, conn>>

LeaveM1(c) ==
  /\ Calls(c)
  /\ conn' = conn \ {c} /\ obj' = [a \in Addrs |-> None]
  /\ UNCHANGED <<slot, held, made, stale, up>>
\* The connection ends: handle_client returns and releases nothing.
Leave(c) ==
  /\ Calls(c)
  /\ conn' = conn \ {c}
  /\ UNCHANGED <<obj, slot, held, made, stale, up>>

Next == \E c \in Clients :
          Leave(c) \/ \E k \in Kinds : Create(c, k) \/ Release(c, k)

Spec == Init /\ [][Next]_vars
-------------------------------------------------------------------------------
(* Properties.                                                             *)

Live == {a \in Addrs : obj[a] # None}

TypeOK ==
  /\ \A a \in Live : obj[a] \in Records
  /\ \A c \in Clients : /\ \A k \in Kinds : slot[c][k] \in Addrs \cup {None}
                        /\ held[c] \subseteq Kinds /\ made[c] <= MaxMade[c]

\* What a client holds is there and its own, whatever the others create,
\* release in any order, or leave: until one uses a handle it has released.
HeldIsThere ==
  up /\ ~stale => \A c \in Clients : \A k \in held[c] :
    IsA(slot[c][k], k) /\ obj[slot[c][k]].owner = c /\ ~obj[slot[c][k]].released

\* An object outlives its client only if the client left without releasing it
\* or one made from it; the server keeps nothing of clients that released all.
OnlyForgottenRemains ==
  ~stale => \A a \in Live :
    \E c \in Clients : \E k \in held[c] : a \in Lineage(obj, slot[c][k])

\* The process, and with it every other client, ends only by a stale handle.
DiesOfStaleHandle == ~up => stale
==============================================================================
