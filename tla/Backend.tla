------------------------------ MODULE Backend ------------------------------
(***************************************************************************)
(* The database server, as the environment of the driver in src/conn.go.  *)
(* These are pure operators: given the server's session state and one     *)
(* frontend request, the messages the server answers with and its next    *)
(* state, following the protocol 3.0 message flow of spec.md 4.C and 6.   *)
(*                                                                         *)
(* SQL is abstracted to what it does to the session:                       *)
(*   "sel"    a row-returning statement (one column)                       *)
(*   "selErr" a row-returning statement that fails after its first row     *)
(*   "ins"    a statement without rows                                     *)
(*   "bad"    a statement the server rejects                               *)
(*   "begin", "commit", "rollback", "listen", and "dealloc" of a name;      *)
(*   "name"   the text of a statement name sent as SQL (a syntax error).   *)
(***************************************************************************)
EXTENDS Naturals, Sequences

CONSTANTS
    Names,   \* names of prepared statements
    NoPs     \* model value: "no statement of that name"

ASSUME NoPs \notin Names

TxStates == {"I", "T", "E"}

\* A SQL string, abstracted to its kind and the statement name it mentions.
Sql(k) == [k |-> k, n |-> NoPs]
NamedSql(k, n) == [k |-> k, n |-> n]

RowKinds == {"sel", "selErr"}
PreparableKinds == {"sel", "selErr", "ins", "bad"}

\* Number of result columns of a statement kind.
Cols(k) == IF k \in RowKinds THEN 1 ELSE 0

\* A backend message: tag t, the request it answers (0 if asynchronous), a
\* status string st (transaction status, error severity, auth method) and a
\* number n (column count, notification id, parameter value).
Msg(t, req, st, n) == [t |-> t, req |-> req, st |-> st, n |-> n]

Err(req) == Msg("E", req, "ERROR", 0)
FatalErr == Msg("E", 0, "FATAL", 0)
Ready(req, tx) == Msg("Z", req, tx, 0)
RowDesc(req, c) == Msg("T", req, "", c)
DataRow(req, c) == Msg("D", req, "", c)
Done(req) == Msg("C", req, "", 0)
Notice(req) == Msg("N", req, "", 0)

\* What an error does to the transaction: a failed statement in a block
\* aborts the block; outside one it leaves the session idle.
AfterError(tx) == IF tx = "I" THEN "I" ELSE "E"

\* The server's answer to a request: its next session state s2 and the
\* messages it sends, always closed by ReadyForQuery carrying s2.tx.
Answer(req, s2, body, falseCommit) ==
    [s |-> s2, out |-> body \o <<Ready(req, s2.tx)>>, falseCommit |-> falseCommit]

Failed(req, s) == Answer(req, [s EXCEPT !.tx = AfterError(s.tx)], <<Err(req)>>, FALSE)

\* A simple 'Q' query.  In an aborted block everything but commit and
\* rollback fails; commit of an aborted block (or of no block) is accepted
\* but commits nothing, which the server reports with an ordinary
\* CommandComplete: it is recorded as a false commit.
SimpleAnswer(req, sql, s) ==
    LET k == sql.k IN
    CASE s.tx = "E" /\ k \notin {"commit", "rollback"} -> Failed(req, s)
      [] k = "sel" ->
            Answer(req, s, <<RowDesc(req, 1), DataRow(req, 1), Done(req)>>, FALSE)
      [] k = "selErr" ->
            Answer(req, [s EXCEPT !.tx = AfterError(s.tx)],
                   <<RowDesc(req, 1), DataRow(req, 1), Err(req)>>, FALSE)
      [] k = "ins" -> Answer(req, s, <<Done(req)>>, FALSE)
      [] k = "listen" -> Answer(req, [s EXCEPT !.listening = TRUE], <<Done(req)>>, FALSE)
      [] k = "begin" ->
            Answer(req, [s EXCEPT !.tx = "T"],
                   IF s.tx = "T" THEN <<Notice(req), Done(req)>> ELSE <<Done(req)>>, FALSE)
      [] k = "commit" ->
            Answer(req, [s EXCEPT !.tx = "I"],
                   IF s.tx = "I" THEN <<Notice(req), Done(req)>> ELSE <<Done(req)>>,
                   s.tx # "T")
      [] k = "rollback" ->
            Answer(req, [s EXCEPT !.tx = "I"],
                   IF s.tx = "I" THEN <<Notice(req), Done(req)>> ELSE <<Done(req)>>, FALSE)
      [] k = "dealloc" /\ s.stmts[sql.n] # NoPs ->
            Answer(req, [s EXCEPT !.stmts[sql.n] = NoPs], <<Done(req)>>, FALSE)
      [] OTHER -> Failed(req, s)   \* "bad", a bare name, deallocate of nothing

\* Parse + Describe(statement) + Sync, as sent by Conn.Prepare.
PrepareAnswer(req, name, k, s) ==
    IF s.tx = "E" \/ s.stmts[name] # NoPs \/ k = "bad"
    THEN Failed(req, s)
    ELSE Answer(req, [s EXCEPT !.stmts[name] = k],
                <<Msg("1", req, "", 0), Msg("t", req, "", 0),
                  IF Cols(k) > 0 THEN RowDesc(req, Cols(k)) ELSE Msg("n", req, "", 0)>>,
                FALSE)

\* Bind + Execute + Sync of a prepared statement, as sent by sendPreparedQuery.
ExecuteAnswer(req, name, s) ==
    LET k == s.stmts[name] IN
    CASE s.tx = "E" \/ k = NoPs -> Failed(req, s)
      [] k = "sel" ->
            Answer(req, s, <<Msg("2", req, "", 0), DataRow(req, 1), Done(req)>>, FALSE)
      [] k = "selErr" ->
            Answer(req, [s EXCEPT !.tx = AfterError(s.tx)],
                   <<Msg("2", req, "", 0), DataRow(req, 1), Err(req)>>, FALSE)
      [] OTHER -> Answer(req, s, <<Msg("2", req, "", 0), Done(req)>>, FALSE)

\* Whether the server answers a query with rows or a plain completion and
\* without an ErrorResponse: a simple query must also return rows, since
\* Conn.Query waits for a RowDescription.  Used only to describe a
\* workload in which no cursor meets an error.
CursorSafe(sql, prepared, s) ==
    IF prepared THEN s.tx # "E" /\ s.stmts[sql.n] \in {"sel", "ins"}
    ELSE s.tx # "E" /\ sql.k = "sel"
=============================================================================
