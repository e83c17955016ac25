----------------------------- MODULE MCJobStream -----------------------------
(* Small instances of JobStream for TLC. *)
EXTENDS JobStream, TLC

CONSTANTS p1, p2
=============================================================================
