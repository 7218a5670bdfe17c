---------------------------- MODULE MCAuditLog ----------------------------
(* AuditLog on a small instance.  Requests and keys are model values; they *)
(* are not declared symmetric because the run checks a liveness property.  *)
EXTENDS AuditLog
===========================================================================
