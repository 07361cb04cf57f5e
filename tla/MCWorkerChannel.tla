-------------------------- MODULE MCWorkerChannel --------------------------
(* Instances of WorkerChannel for TLC. *)
EXTENDS WorkerChannel
=============================================================================
