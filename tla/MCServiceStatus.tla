-------------------------- MODULE MCServiceStatus --------------------------
(* Instances of ServiceStatus for TLC. *)
EXTENDS ServiceStatus

\* A configuration without repeated names.
MCNames == [s \in Service |-> s]
=============================================================================
