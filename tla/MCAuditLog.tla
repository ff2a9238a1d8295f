----------------------------- MODULE MCAuditLog -----------------------------
(***************************************************************************)
(* A few writers of one audit file.                                        *)
(***************************************************************************)
EXTENDS AuditLog, TLC

CONSTANTS w1, w2, w3

WriterSymmetry == Permutations(Writers)
=============================================================================
