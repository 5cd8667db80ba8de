----------------------------- MODULE MCSqlConnPool -----------------------------
(***************************************************************************)
(* Instances of SqlConnPool for TLC.                                       *)
(***************************************************************************)
EXTENDS SqlConnPool, TLC

CONSTANTS t1, t2, t3, t4, k1, k2, k3
=============================================================================
