---------------------- MODULE MCRequestSerialization ----------------------
(* Instances of RequestSerialization for TLC.                              *)
EXTENDS RequestSerialization

CONSTANTS r1, r2, r3, c1

(* One global key with readers and writers: the whole bound goes into the  *)
(* interplay on it, beside requests that go through no queue.              *)
MCScopes == {[kind |-> "Global", name |-> "config"],
             [kind |-> "GlobalSharedRead", name |-> "config"]}
=============================================================================
