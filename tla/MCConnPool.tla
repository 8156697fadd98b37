----------------------------- MODULE MCConnPool -----------------------------
(* Model values and bounds for checking ConnPool with TLC. *)
EXTENDS ConnPool

CONSTANTS c1, c2, k1, k2, k3

MCCallers1 == {c1}
MCCallers2 == {c1, c2}
MCConnIds == {k1, k2, k3}
=============================================================================
