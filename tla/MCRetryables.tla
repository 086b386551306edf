---------------------------- MODULE MCRetryables ----------------------------
(* Retryables on two tickets with different call values. *)
EXTENDS Retryables
CONSTANTS t1, t2
MCCallValue == (t1 :> 1) @@ (t2 :> 2)
=============================================================================
