-------------------------- MODULE MCResourceLoader --------------------------
(* A small instance of ResourceLoader for TLC. *)
EXTENDS ResourceLoader, TLC

CONSTANTS t1, t2, t3, r1, r2, r3

HeldByClients == [t \in Threads |-> IF t = t1 THEN 2 ELSE 1]
=============================================================================
