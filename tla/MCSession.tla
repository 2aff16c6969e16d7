------------------------------ MODULE MCSession ------------------------------
(* Small instances of Session for TLC.                                      *)
EXTENDS Session

CONSTANTS t1, t2, q1, q2
=============================================================================
