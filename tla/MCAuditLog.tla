----------------------------- MODULE MCAuditLog -----------------------------
(* Small instances of AuditLog.                                             *)
EXTENDS AuditLog, TLC

ThreadSymmetry == Permutations(Thread)

\* "A crash loses at most the in-flight line" (audit.rs): every event whose
\* record returned can be read back.
OnlyInFlightLost == Unreadable = {}
=============================================================================
