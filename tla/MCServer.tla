------------------------------ MODULE MCServer ------------------------------
(***************************************************************************)
(* Server with three clients on two descriptors; one buffer above the      *)
(* limit of compression and one at it, and one content of three that does  *)
(* not compress; two applications that hold objects, one of them careless, *)
(* and fewer addresses than objects created.                               *)
(***************************************************************************)
EXTENDS Server

MCSize    == [small |-> 2, large |-> 3]
MCMaxMade == [careful |-> 3, careless |-> 2]
==============================================================================
