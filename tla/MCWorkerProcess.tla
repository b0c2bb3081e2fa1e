-------------------------- MODULE MCWorkerProcess --------------------------
(* WorkerProcess has no parameters: its one instance is explored in full. *)
EXTENDS WorkerProcess
=============================================================================
