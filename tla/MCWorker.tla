------------------------------ MODULE MCWorker ------------------------------
(* Two worker processes on small instances of the tables.                   *)
EXTENDS Worker, TLC

CONSTANTS p1, p2, w1, w2

OwnIds == p1 :> w1 @@ p2 :> w2
SharedId == p1 :> w1 @@ p2 :> w1
=============================================================================
