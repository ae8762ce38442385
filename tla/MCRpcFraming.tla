---------------------------- MODULE MCRpcFraming -----------------------------
(* RpcFraming on a buffer of 4 bytes and a length word of 2: the sizes are *)
(* below, at and above the buffer, and above twice the buffer.             *)
EXTENDS RpcFramingProofs

MCReqSizes == {3, 4, 5, 9}
MCRepSizes == {3, 4, 5, 9}
MCWords    == {0, 1, 3, 6}
==============================================================================
