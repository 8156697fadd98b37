------------------------------- MODULE MCConn -------------------------------
(* Model values and bounds for checking Conn with TLC. *)
EXTENDS Conn

CONSTANTS s1

MCNames == {s1}
=============================================================================
