---------------------------- MODULE MCSupervisor ----------------------------
(* Supervisor for three workers, as in TASK_QUEUES. *)
EXTENDS Supervisor
=============================================================================
