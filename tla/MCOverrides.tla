---------------------------- MODULE MCOverrides ----------------------------
(* Two tests against one application, and a task that one of them creates. *)
EXTENDS Overrides

CONSTANTS t1, t2, k1, k2, k3

MCTestOf == k1 :> t1 @@ k2 :> t2 @@ k3 :> t1
=============================================================================
