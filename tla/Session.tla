------------------------------ MODULE Session -------------------------------
(***************************************************************************)
(* What a connection promises about the protocol, with the message flow    *)
(* abstracted away (spec.md 3 and 4.C): the client has at most one request *)
(* the server owes a ReadyForQuery for; it writes the next one only after  *)
(* that ReadyForQuery has been read; and the transaction status it keeps   *)
(* is the server's status when the server answered.                        *)
(*                                                                         *)
(*   owed   ReadyForQuery messages owed to the client (0 or 1)             *)
(*   tx     the client's TxStatus ("none" before the first)                *)
(*   stx    the server session's transaction status                        *)
(*   open   the connection is alive                                        *)
(***************************************************************************)
EXTENDS Naturals

VARIABLES owed, tx, stx, open

vars == <<owed, tx, stx, open>>

TxStates == {"I", "T", "E"}

Init ==
    /\ owed = 0
    /\ tx = "none"
    /\ stx = "I"
    /\ open = FALSE

\* The startup message is sent: the server owes the greeting's ReadyForQuery.
Connect ==
    /\ ~open /\ tx = "none" /\ owed = 0
    /\ open' = TRUE
    /\ owed' = 1
    /\ UNCHANGED <<tx, stx>>

\* A request is written on a live connection that owes nothing.
Send ==
    /\ open /\ owed = 0
    /\ owed' = 1
    /\ UNCHANGED <<tx, stx, open>>

\* The server executes the outstanding request.
Execute ==
    /\ owed = 1
    /\ stx' \in TxStates
    /\ UNCHANGED <<owed, tx, open>>

\* The client reads the ReadyForQuery and records the server's status.
Ready ==
    /\ open /\ owed = 1
    /\ owed' = 0
    /\ tx' = stx
    /\ UNCHANGED <<stx, open>>

\* The connection dies (transport error, FATAL, Close).
Die ==
    /\ open
    /\ open' = FALSE
    /\ UNCHANGED <<owed, tx, stx>>

Next == Connect \/ Send \/ Execute \/ Ready \/ Die

Spec == Init /\ [][Next]_vars

(* The status the client holds is the server's whenever nothing is owed. *)
StatusCurrent == (open /\ owed = 0 /\ tx # "none") => tx = stx
=============================================================================
