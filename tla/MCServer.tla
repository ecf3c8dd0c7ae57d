------------------------------ MODULE MCServer ------------------------------
(* Two workers whose clients write one key. *)
EXTENDS Server, TLC

CONSTANTS w1, w2, c1, c2, k1

SharedWorkerOf == (c1 :> w1) @@ (c2 :> w2)
SharedWriters == k1 :> {c1, c2}
=============================================================================
