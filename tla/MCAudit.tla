------------------------------- MODULE MCAudit -------------------------------
(* A small instance of AuditSink for TLC. *)
EXTENDS AuditSink

CONSTANTS t1, t2, t3

\* The second record of the thread cannot be encoded.
OneBad == {<<t2, 2>>}
=============================================================================
