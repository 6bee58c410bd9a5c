---------------------------- MODULE MCSupervisor ----------------------------
(* A waiting service, a service with one attempt and an init on one volume. *)
EXTENDS Supervisor, TLC
=============================================================================
