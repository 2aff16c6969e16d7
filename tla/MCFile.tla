------------------------------- MODULE MCFile -------------------------------
(* Small instances of FileHorsLigne for TLC.                                *)
EXTENDS FileHorsLigne

CONSTANTS v1, v2, s1, awa, binta, b1, b2
=============================================================================
