-------------------------------- MODULE Conn --------------------------------
(***************************************************************************)
(* The connection of src/conn.go: one Conn, used by one caller, talking to *)
(* one server session over one socket.                                     *)
(*                                                                         *)
(* Client steps follow the code's suspension points: a call that writes a  *)
(* request is one step (c.conn.Write of the whole buffer), and each pass   *)
(* of a receive loop -- one c.rxMsg() and the switch on its tag -- is one  *)
(* step.  The server (module Backend) answers requests and interleaves     *)
(* asynchronous ParameterStatus, Notice and Notification messages; the     *)
(* link may fail and the server may terminate the session.                 *)
(***************************************************************************)
EXTENDS Backend, Integers, Sequences, SequencesExt

CONSTANTS
    ExecSql,       \* SQL kinds a caller passes to Exec
    QuerySql,      \* SQL kinds a caller passes to Query
    PrepareSql,    \* SQL kinds a caller passes to Prepare
    AuthMethods,   \* methods the server may ask for: "ok", "cleartext", "md5", "other"
    UseTLS,        \* ConnConfig.TLSConfig # nil
    TLSAnswers,    \* bytes the server may answer the SSL request with: "S", "N"
    AsyncTags,     \* asynchronous messages the server may send: "A", "S", "N"
    Faults,        \* "net" (link failure), "terminate" (FATAL from the server)
    MaxCalls,      \* bound on the caller's API calls
    MaxAsync,      \* bound on asynchronous messages
    QueryMayFail   \* FALSE: the caller opens cursors only on queries the server
                   \* answers with rows or a completion and no error

ASSUME MaxCalls \in Nat /\ MaxAsync \in Nat /\ UseTLS \in BOOLEAN
ASSUME QueryMayFail \in BOOLEAN

VARIABLES
    \* --- Conn (src/conn.go:48-64) ---
    op,         \* the Conn method in progress, or "idle"
    cur,        \* locals of that method: request id, softErr, columns, name, and
                \* the phase of a Row.Scan in progress
    alive,      \* c.alive
    cause,      \* c.causeOfDeath, abstracted
    sockOpen,   \* c.conn not yet closed
    deadline,   \* a read deadline is armed on c.conn
    txStatus,   \* c.TxStatus
    ps,         \* c.preparedStatements: name -> result column count, or NoPs
    notifs,     \* c.notifications
    rtParam,    \* c.RuntimeParams, abstracted to the last reported value
    keyData,    \* c.Pid / c.SecretKey received
    qr,         \* c.qr: the cursor of the last Query; col is qr.columnIdx, row
                \* whether qr.mr holds a data row
    lastErr,    \* whether the last completed call returned an error
    \* --- Conn.transaction (src/conn.go:881-906) ---
    txh,        \* phase of the transaction helper
    \* --- the caller ---
    calls,
    \* --- the server and the socket ---
    srv,        \* [phase, tx, stmts, listening]
    srvOut,     \* rest of the answer the server is sending
    toSrv,      \* requests written and not yet read by the server
    inbound,    \* messages received and not yet read by the client
    link,       \* "up" or "down"
    faulted,    \* a fault has happened
    async,      \* asynchronous messages sent
    \* --- history ---
    nreq,           \* requests written so far (request ids)
    zDue,           \* ReadyForQuery messages owed to the client and not yet read
    delivered,      \* notification ids returned by WaitForNotification, in order
    emitted,        \* notifications the server has sent (ids 1..emitted)
    reported,       \* commit requests for which the helper returned committed
    falseCommits,   \* commit requests the server executed as no commit
    ioErrSeen       \* a call has observed a transport error

envVars == <<srv, srvOut, link, faulted, async>>
obsVars == <<delivered, emitted, reported, falseCommits>>
connVars == <<op, cur, alive, cause, sockOpen, deadline, txStatus, ps, notifs,
              rtParam, keyData, qr, lastErr>>
histVars == <<nreq, zDue, ioErrSeen, obsVars>>
vars == <<connVars, txh, calls, toSrv, inbound, envVars, histVars>>

\* What a call step leaves alone, besides ps, qr and txh.
callFrame == <<alive, cause, sockOpen, deadline, txStatus, notifs, rtParam, keyData,
               inbound, envVars, obsVars>>
\* What a receive step leaves alone, besides cur, ps, qr and lastErr.
rxFrame == <<deadline, keyData, txh, calls, toSrv, nreq, ioErrSeen, envVars, obsVars>>

-----------------------------------------------------------------------------
(* Frontend requests.  Every request but the startup, password and         *)
(* terminate messages ends with Sync (or is a 'Q') and is owed one         *)
(* ReadyForQuery.                                                          *)
NoSql == Sql("none")
Req(f, req, sql, name) == [f |-> f, req |-> req, sql |-> sql, name |-> name]
Synced(f) == f \in {"Q", "PDS", "BES"}

\* c.conn.Write of one buffer: it fails on a closed socket; once the link is
\* down it may fail or succeed with the bytes lost.
WriteResults == IF ~sockOpen THEN {FALSE}
                ELSE IF link = "up" THEN {TRUE} ELSE {TRUE, FALSE}

\* The effect of a write with result ok on the socket and the history.
Write(m, ok) ==
    /\ toSrv' = IF ok /\ link = "up" THEN Append(toSrv, m) ELSE toSrv
    /\ nreq' = IF ok /\ Synced(m.f) THEN m.req ELSE nreq
    /\ zDue' = IF ok /\ Synced(m.f) THEN zDue + 1 ELSE zDue
    /\ ioErrSeen' = (ioErrSeen \/ (~ok /\ sockOpen))

\* c.die(err): src/conn.go:1068-1071.
die(why) ==
    /\ alive' = FALSE
    /\ cause' = why
    /\ sockOpen' = FALSE

(* c.rxMsg(): src/conn.go:928-939.  What one call of it yields: DeadConnError
   on a dead connection, else the next message if one has arrived, an I/O
   error once the link is down and nothing is left, and a timeout if a read
   deadline is still armed. *)
Dead == Msg("dead", 0, "", 0)
Received ==
    IF ~alive THEN {Dead}
    ELSE (IF inbound # <<>> THEN {Head(inbound)} ELSE {})
         \cup (IF inbound = <<>> /\ link = "down" THEN {Msg("io", 0, "", 0)} ELSE {})
         \cup (IF deadline THEN {Msg("timeout", 0, "", 0)} ELSE {})

RxError(m) == m.t \in {"dead", "io", "timeout"}

\* processContextFreeMsg (911-926) returns an error: an ErrorResponse or an
\* unknown tag.
CtxFreeError(m) == m.t \notin {"S", "N", "A"}

\* A message the loop's own switch does not handle goes to processContextFreeMsg.
CtxFree(m, handled) == ~RxError(m) /\ m.t \notin handled

\* rxErrorResponse, src/conn.go:969-987: an ErrorResponse whose severity is
\* FATAL kills the connection; any other is only returned.
FatalResponse(m, handled) == CtxFree(m, handled) /\ m.t = "E" /\ m.st = "FATAL"

\* Mutant: the status byte of ReadyForQuery is not recorded.
rxReadyForQueryIgnored(m, handled) == txStatus

\* rxReadyForQuery (994-996), called by the loops whose switch handles 'Z'.
rxReadyForQuery(m, handled) == IF m.t = "Z" /\ m.t \in handled THEN m.st ELSE txStatus

\* rxParameterStatus (963-967), reached through processContextFreeMsg.
rxParameterStatus(m, handled) == IF CtxFree(m, handled) /\ m.t = "S" THEN m.n ELSE rtParam

\* Mutant: the field count is taken one too high.
rxRowDescriptionOneMore(m) == m.n + 1

\* rxRowDescription (998-1012): the fields, abstracted to their number.
rxRowDescription(m) == m.n

(* One pass of a receive loop, for the effects every loop shares: rxMsg
   (consuming the message, or dying of an I/O error), rxReadyForQuery when
   the loop handles 'Z', and, for a tag the loop's switch does not handle,
   processContextFreeMsg: rxParameterStatus and rxErrorResponse. *)
Receive(m, handled) ==
    LET kills == m.t \in {"io", "timeout"} \/ FatalResponse(m, handled) IN
    /\ inbound' = IF RxError(m) THEN inbound ELSE Tail(inbound)
    /\ zDue' = IF m.t = "Z" THEN zDue - 1 ELSE zDue
    /\ IF kills THEN die(IF m.t = "E" THEN "fatal" ELSE m.t)
               ELSE UNCHANGED <<alive, cause, sockOpen>>
    /\ rtParam' = rxParameterStatus(m, handled)
    /\ txStatus' = rxReadyForQuery(m, handled)

\* rxNotificationResponse (src/conn.go:1024-1030), reached through
\* processContextFreeMsg: the queue after the message.
Queued(m, handled) ==
    IF CtxFree(m, handled) /\ m.t = "A" THEN Append(notifs, m.n) ELSE notifs

-----------------------------------------------------------------------------
(* Connect, src/conn.go:110-216.  The initial state is a new Conn with no  *)
(* socket (line 111).                                                      *)

Init ==
    /\ op = "dial"
    /\ cur = [req |-> 0, soft |-> FALSE, cols |-> 0, name |-> NoPs, row |-> "none"]
    /\ alive = FALSE
    /\ cause = "none"
    /\ sockOpen = FALSE
    /\ deadline = FALSE
    /\ txStatus = "none"
    /\ ps = [n \in Names |-> NoPs]
    /\ notifs = <<>>
    /\ rtParam = 0
    /\ keyData = FALSE
    /\ qr = [closed |-> TRUE, cols |-> 0, err |-> FALSE, col |-> 0, row |-> FALSE]
    /\ lastErr = FALSE
    /\ txh = "none"
    /\ calls = 0
    /\ srv = [phase |-> "startup", tx |-> "I", stmts |-> [n \in Names |-> NoPs],
              listening |-> FALSE]
    /\ srvOut = <<>>
    /\ toSrv = <<>>
    /\ inbound = <<>>
    /\ link = "up"
    /\ faulted = FALSE
    /\ async = 0
    /\ nreq = 0
    /\ zDue = 0
    /\ delivered = <<>>
    /\ emitted = 0
    /\ reported = {}
    /\ falseCommits = {}
    /\ ioErrSeen = FALSE

(* Lines 113-157: User and Port defaults, then net.Dial of the unix socket
   or the TCP address.  user.Current or the dial may fail; either returns
   before the deferred cleanup is installed, with no socket open.  A dial
   after the link has failed fails. *)
ConnectDial ==
    /\ op = "dial"
    /\ \E ok \in IF link = "up" THEN BOOLEAN ELSE {FALSE} :
        /\ op' = IF ok THEN "start" ELSE "failed"
        /\ sockOpen' = ok
    /\ UNCHANGED <<cur, alive, cause, deadline, txStatus, ps, notifs, rtParam, keyData,
                   qr, lastErr, txh, calls, toSrv, inbound, envVars, histVars>>

\* startTLS (1032-1051): the SSLRequest is written and one byte read back;
\* anything but 'S', or a failed write or read, is an error.
startTLS == {a = "S" /\ link = "up" : a \in TLSAnswers}

\* Lines 166-188: alive := TRUE, startTLS when configured, then the startup
\* message.  A failure returns through the bare `return`, so the deferred
\* cleanup sees c # nil, closes the socket and clears alive.
ConnectStart ==
    /\ op = "start"
    /\ \E tlsOk \in (IF UseTLS THEN startTLS ELSE {TRUE}), ok \in WriteResults :
        IF tlsOk /\ ok
        THEN /\ op' = "startup"
             /\ alive' = TRUE
             /\ toSrv' = IF link = "up" THEN Append(toSrv, Req("startup", 0, NoSql, NoPs))
                         ELSE toSrv
             /\ zDue' = 1
             /\ UNCHANGED <<cause, sockOpen, ioErrSeen>>
        ELSE /\ op' = "failed"
             /\ alive' = FALSE
             /\ sockOpen' = FALSE
             /\ ioErrSeen' = (ioErrSeen \/ ~ok)
             /\ UNCHANGED <<cause, toSrv, zDue>>
    /\ UNCHANGED <<cur, deadline, txStatus, ps, notifs, rtParam, keyData, qr, lastErr,
                   txh, calls, inbound, nreq, envVars, obsVars>>

\* rxAuthenticationX (941-955): AuthenticationOk, a password to send with
\* txPasswordMessage (1058-1066; MD5 only changes its text), or an error.
rxAuthenticationX(m) ==
    CASE m.st = "ok" -> "ok"
      [] m.st \in {"cleartext", "md5"} -> "password"
      [] OTHER -> "unknown"

(* Lines 190-215.  Every error path here is `return nil, err`, which sets
   the named result c to nil before the deferred cleanup (158-164) runs, so
   the cleanup skips c.conn.Close(). *)
ConnectRecv ==
    /\ op = "startup"
    /\ \E m \in Received :
        LET handled == {"K", "R", "Z"} IN
        /\ Receive(m, handled)
        /\ notifs' = Queued(m, handled)
        /\ CASE RxError(m) \/ (CtxFree(m, handled) /\ CtxFreeError(m))
                   \/ (m.t = "R" /\ rxAuthenticationX(m) = "unknown") ->
                   op' = "failed" /\ UNCHANGED <<keyData, toSrv, ioErrSeen>>
             [] m.t = "R" /\ rxAuthenticationX(m) = "password" ->
                   \E ok \in WriteResults :
                      /\ op' = IF ok THEN op ELSE "failed"
                      /\ toSrv' = IF ok /\ link = "up"
                                  THEN Append(toSrv, Req("pw", 0, NoSql, NoPs)) ELSE toSrv
                      /\ ioErrSeen' = (ioErrSeen \/ ~ok)
                      /\ UNCHANGED keyData
             [] m.t = "K" -> keyData' = TRUE /\ UNCHANGED <<op, toSrv, ioErrSeen>>
             [] m.t = "Z" -> op' = "idle" /\ UNCHANGED <<keyData, toSrv, ioErrSeen>>
             [] OTHER -> UNCHANGED <<op, keyData, toSrv, ioErrSeen>>
    /\ UNCHANGED <<cur, deadline, ps, qr, lastErr, txh, calls, nreq, envVars, obsVars>>
-----------------------------------------------------------------------------
(* Queries: Exec (816-857), Query (646-689), sendQuery (696-702),          *)
(* sendSimpleQuery (704-719), sendPreparedQuery (721-811).                 *)

\* The caller may call a method when none is in progress and the
\* transaction helper is not between two of its own steps.
CanCall ==
    /\ op = "idle"
    /\ calls < MaxCalls
    /\ txh \in {"none", "body"}
    /\ calls' = calls + 1

\* The SQL a caller passes: a statement, or the name of a prepared one.
SqlChoices(kinds) == {Sql(k) : k \in kinds} \cup {NamedSql("name", n) : n \in Names}

\* sendQuery: a name found in c.preparedStatements takes the prepared path.
IsPrepared(sql) == sql.k = "name" /\ ps[sql.n] # NoPs

(* Outcomes of sendQuery with argc arguments: "local" (an error returned
   before anything is written: the argument count check of sendPreparedQuery
   -- statements here take no parameters -- or SanitizeSql failing on an
   argument), "fail" (the write failed) or "sent". *)
SendOutcomes(sql, argc) ==
    LET wrote == {IF ok THEN "sent" ELSE "fail" : ok \in WriteResults} IN
    IF IsPrepared(sql)
    THEN IF argc # 0 THEN {"local"} ELSE wrote
    ELSE IF argc > 0 THEN {"local"} \cup wrote ELSE wrote

QueryReq(sql) ==
    IF IsPrepared(sql) THEN Req("BES", nreq + 1, sql, sql.n)
    ELSE Req("Q", nreq + 1, sql, NoPs)

SendQuery(sql, o) ==
    IF o = "local" THEN UNCHANGED <<toSrv, nreq, zDue, ioErrSeen>>
    ELSE Write(QueryReq(sql), o = "sent")

\* Exec, lines 828-832: send, then read until ReadyForQuery.
ExecStart(sql, argc) ==
    \E o \in SendOutcomes(sql, argc) :
        /\ SendQuery(sql, o)
        /\ op' = IF o = "sent" THEN "exec" ELSE "idle"
        /\ cur' = [cur EXCEPT !.req = nreq + 1, !.soft = FALSE]
        /\ lastErr' = (o # "sent")

ExecTags == {"Z", "T", "D", "2", "C"}

\* Exec, lines 834-856: one pass of the loop.  The first context-free
\* error is kept as softErr and returned with ReadyForQuery.
ExecRecv ==
    /\ op = "exec"
    /\ \E m \in Received :
        /\ Receive(m, ExecTags)
        /\ notifs' = Queued(m, ExecTags)
        /\ CASE RxError(m) -> op' = "idle" /\ lastErr' = TRUE /\ UNCHANGED cur
             [] m.t = "Z" -> op' = "idle" /\ lastErr' = cur.soft /\ UNCHANGED cur
             [] m.t \in ExecTags -> UNCHANGED <<op, lastErr, cur>>
             [] OTHER -> /\ cur' = [cur EXCEPT !.soft = @ \/ CtxFreeError(m)]
                         /\ UNCHANGED <<op, lastErr>>
    /\ UNCHANGED <<ps, qr, rxFrame>>

ExecCall ==
    /\ CanCall
    /\ qr.closed
    /\ \E sql \in SqlChoices(ExecSql), argc \in {0, 1} : ExecStart(sql, argc)
    /\ UNCHANGED <<ps, qr, txh, callFrame>>

\* Listen, lines 337-340.
Listen ==
    /\ CanCall
    /\ qr.closed
    /\ ExecStart(Sql("listen"), 0)
    /\ UNCHANGED <<ps, qr, txh, callFrame>>

\* Deallocate, lines 330-334: the name leaves the map before the Exec.
Deallocate ==
    /\ CanCall
    /\ qr.closed
    /\ \E n \in Names :
        /\ ps' = [ps EXCEPT ![n] = NoPs]
        /\ ExecStart(NamedSql("dealloc", n), 0)
    /\ UNCHANGED <<qr, txh, callFrame>>

(* Query, lines 647-665: c.qr is reset; a prepared statement returns the
   cursor at once with the statement's fields, a simple query reads on
   until the RowDescription.  Any error closes the cursor by setting
   qr.closed directly. *)
QueryCall ==
    /\ CanCall
    /\ qr.closed
    /\ \E sql \in SqlChoices(QuerySql), argc \in {0, 1} :
        /\ QueryMayFail \/ CursorSafe(sql, IsPrepared(sql), srv)
        /\ \E o \in SendOutcomes(sql, argc) :
            /\ SendQuery(sql, o)
            /\ qr' = [closed |-> o # "sent",
                       cols |-> IF IsPrepared(sql) THEN ps[sql.n] ELSE 0,
                       err |-> o # "sent", col |-> 0, row |-> FALSE]
            /\ op' = IF o = "sent" /\ ~IsPrepared(sql) THEN "query" ELSE "idle"
            /\ cur' = [cur EXCEPT !.req = nreq + 1]
            /\ lastErr' = (o # "sent")
    /\ UNCHANGED <<ps, txh, callFrame>>

\* Query, lines 668-688: wait for the RowDescription.  Every other tag goes
\* to processContextFreeMsg, and its error closes the cursor.
QueryRecv ==
    /\ op = "query"
    /\ \E m \in Received :
        /\ Receive(m, {"T"})
        /\ notifs' = Queued(m, {"T"})
        /\ CASE RxError(m) \/ (m.t # "T" /\ CtxFreeError(m)) ->
                   /\ qr' = [qr EXCEPT !.closed = TRUE, !.err = TRUE]
                   /\ op' = "idle" /\ lastErr' = TRUE
             [] m.t = "T" ->
                   /\ qr' = [qr EXCEPT !.cols = rxRowDescription(m)]
                   /\ op' = "idle" /\ lastErr' = FALSE
             [] OTHER -> UNCHANGED <<qr, op, lastErr>>
    /\ UNCHANGED <<cur, ps, rxFrame>>
-----------------------------------------------------------------------------
(* The cursor: QueryResult (431-603).  A call of NextRow or Close on a     *)
(* closed cursor returns at once and changes nothing; it is not a step.    *)

\* close (450-456): the cursor is marked closed (and, from a pool, its
\* connection released).
close == qr' = [qr EXCEPT !.closed = TRUE]

\* Fatal (498-501): the sticky error is set and Close drains the rest.
Fatal == qr' = [qr EXCEPT !.err = TRUE] /\ op' = "drain"

\* NextRow, lines 503-510: the column index restarts.
NextRow ==
    /\ CanCall
    /\ ~qr.closed
    /\ op' = "nextrow"
    /\ qr' = [qr EXCEPT !.col = 0, !.row = FALSE]
    /\ UNCHANGED <<cur, ps, lastErr, txh, toSrv, nreq, zDue, ioErrSeen, callFrame>>

\* Where NextRow and the drain return to: the caller, or a Row.Scan that
\* called them.
Resume == IF cur.row = "none" THEN "idle" ELSE "rowScan"

NextRowTags == {"Z", "D", "C", "2"}

(* NextRow, lines 511-541.  After an rxMsg error the connection is dead,
   so the drain of Fatal fails its first rxMsg at once and the cursor
   closes in the same step. *)
NextRowRecv ==
    /\ op = "nextrow"
    /\ \E m \in Received :
        /\ Receive(m, NextRowTags)
        /\ notifs' = Queued(m, NextRowTags)
        /\ CASE RxError(m) ->
                   qr' = [qr EXCEPT !.closed = TRUE, !.err = TRUE] /\ op' = Resume
             [] m.t = "Z" -> close /\ op' = Resume
             [] m.t = "D" /\ m.n # qr.cols -> Fatal
             [] m.t = "D" -> op' = Resume /\ qr' = [qr EXCEPT !.row = TRUE]
             [] m.t \in NextRowTags -> UNCHANGED <<qr, op>>
             [] CtxFreeError(m) -> Fatal
             [] OTHER -> UNCHANGED <<qr, op>>
    /\ UNCHANGED <<cur, ps, lastErr, rxFrame>>

DrainTags == {"Z", "T", "D", "C", "2"}

\* Mutant: the drain stops at CommandComplete instead of ReadyForQuery.
DrainEndsAtComplete(m) ==
    RxError(m) \/ m.t \in {"Z", "C"} \/ (m.t \notin DrainTags /\ CtxFreeError(m))

\* Mutant: the drain does not return when rxMsg fails.
DrainEndsIgnoringRxError(m) ==
    m.t = "Z" \/ (~RxError(m) /\ m.t \notin DrainTags /\ CtxFreeError(m))

\* readUntilReadyForQuery, lines 461-481: the messages that end the drain.
\* An error -- from rxMsg or from processContextFreeMsg -- ends it at once.
DrainEnds(m) == RxError(m) \/ m.t = "Z" \/ (m.t \notin DrainTags /\ CtxFreeError(m))

\* readUntilReadyForQuery, lines 459-484: discard rows up to ReadyForQuery.
DrainRecv ==
    /\ op = "drain"
    /\ \E m \in Received :
        /\ Receive(m, DrainTags)
        /\ notifs' = Queued(m, DrainTags)
        /\ IF DrainEnds(m) THEN close /\ op' = Resume ELSE UNCHANGED <<qr, op>>
    /\ UNCHANGED <<cur, ps, lastErr, rxFrame>>

\* Close, lines 486-492: drain to ReadyForQuery.
CloseCursor ==
    /\ CanCall
    /\ ~qr.closed
    /\ op' = "drain"
    /\ UNCHANGED <<cur, ps, qr, lastErr, txh, toSrv, nreq, zDue, ioErrSeen, callFrame>>

\* Scan, lines 560-564: a destination count other than the field count is
\* Fatal.  (A Scan with the right count only decodes the current row.)
ScanWrongCount ==
    /\ CanCall
    /\ ~qr.closed
    /\ Fatal
    /\ lastErr' = TRUE
    /\ UNCHANGED <<cur, ps, txh, toSrv, nreq, zDue, ioErrSeen, callFrame>>

(* How reading one column ends.  The intrinsic decoders (decodeBool ...,
   outside src/) decode it or make the cursor Fatal; a Scanner destination
   may return an error, an unknown destination type returns "Unknown type"
   (lines 592-598), and ReadValue of a binary column of unknown OID
   "Unknown format code" (640-641): "soft" errors that leave the cursor as
   it is. *)
ColumnOutcomes == {"ok", "fatal", "soft"}

\* The cursor after nextColumn (544-556) and the decoder with outcome o.
ReadColumn(o) ==
    IF o = "fatal" THEN Fatal
    ELSE qr' = [qr EXCEPT !.col = @ + 1] /\ UNCHANGED op

\* Scan, lines 566-602, with one destination per field, on the row NextRow
\* returned: each destination reads the next column.
ScanRow ==
    /\ CanCall
    /\ ~qr.closed /\ qr.row /\ qr.col = 0
    /\ IF qr.cols = 0
       THEN lastErr' = FALSE /\ UNCHANGED <<op, qr>>
       ELSE \E o \in ColumnOutcomes : ReadColumn(o) /\ lastErr' = (o # "ok")
    /\ UNCHANGED <<cur, ps, txh, toSrv, nreq, zDue, ioErrSeen, callFrame>>

\* ReadValue, lines 605-643: the next column; past the last one nextColumn
\* makes the cursor Fatal (549-551) and ReadValue returns that error.
ReadValue ==
    /\ CanCall
    /\ ~qr.closed /\ qr.row
    /\ IF qr.col >= qr.cols
       THEN Fatal /\ lastErr' = TRUE
       ELSE \E o \in ColumnOutcomes : ReadColumn(o) /\ lastErr' = (o # "ok")
    /\ UNCHANGED <<cur, ps, txh, toSrv, nreq, zDue, ioErrSeen, callFrame>>

(* Row.Scan, lines 411-421, on the cursor QueryRow (691-694) returned: its
   error, or "No rows" from a closed cursor, is returned at once; otherwise
   NextRow runs and returns to RowScanStep. *)
RowScan ==
    /\ CanCall
    /\ IF qr.err \/ qr.closed
       THEN lastErr' = TRUE /\ UNCHANGED <<op, cur, qr>>
       ELSE /\ op' = "nextrow"
            /\ cur' = [cur EXCEPT !.row = "next"]
            /\ qr' = [qr EXCEPT !.col = 0, !.row = FALSE]
            /\ UNCHANGED lastErr
    /\ UNCHANGED <<ps, txh, toSrv, nreq, zDue, ioErrSeen, callFrame>>

\* Line 427: qr.Close() drains the rest of the answer before Row.Scan returns.
RowClose == op' = "drain" /\ cur' = [cur EXCEPT !.row = "close"]

(* Row.Scan, lines 417-428.  After NextRow: no row returns "No rows" or the
   cursor's error.  After a row: qr.Scan, whose own error is discarded
   (line 426), then qr.Close, which drains; after the drain Row.Scan
   returns qr.Err(). *)
RowScanStep ==
    /\ op = "rowScan"
    /\ IF cur.row = "next" /\ ~qr.closed
       THEN /\ \E o \in ColumnOutcomes :
                 qr' = [qr EXCEPT !.err = @ \/ (o = "fatal"), !.col = qr.cols]
            /\ RowClose
            /\ UNCHANGED lastErr
       ELSE /\ op' = "idle"
            /\ cur' = [cur EXCEPT !.row = "none"]
            /\ lastErr' = (cur.row = "next" \/ qr.err)
            /\ UNCHANGED qr
    /\ UNCHANGED <<ps, rxFrame, alive, cause, sockOpen, txStatus, notifs, rtParam, inbound, zDue>>

-----------------------------------------------------------------------------
(* Prepare, lines 265-327. *)

\* Lines 272-292: Parse, Describe and Sync in one write.
Prepare ==
    /\ CanCall
    /\ qr.closed
    /\ \E n \in Names, k \in PrepareSql, ok \in WriteResults :
        /\ Write(Req("PDS", nreq + 1, Sql(k), n), ok)
        /\ op' = IF ok THEN "prepare" ELSE "idle"
        /\ cur' = [req |-> nreq + 1, soft |-> FALSE, cols |-> 0, name |-> n, row |-> "none"]
        /\ lastErr' = ~ok
    /\ UNCHANGED <<ps, qr, txh, callFrame>>

PrepareTags == {"1", "t", "T", "n", "Z"}

(* Lines 296-326.  On ReadyForQuery the statement is stored in
   c.preparedStatements whether or not softErr is set. *)
PrepareRecv ==
    /\ op = "prepare"
    /\ \E m \in Received :
        /\ Receive(m, PrepareTags)
        /\ notifs' = Queued(m, PrepareTags)
        /\ CASE RxError(m) -> op' = "idle" /\ lastErr' = TRUE /\ UNCHANGED <<cur, ps>>
             [] m.t = "Z" ->
                   /\ ps' = [ps EXCEPT ![cur.name] = cur.cols]
                   /\ op' = "idle" /\ lastErr' = cur.soft /\ UNCHANGED cur
             [] m.t = "T" ->
                   /\ cur' = [cur EXCEPT !.cols = rxRowDescription(m)]
                   /\ UNCHANGED <<op, lastErr, ps>>
             [] m.t \in PrepareTags -> UNCHANGED <<cur, op, lastErr, ps>>
             [] OTHER -> /\ cur' = [cur EXCEPT !.soft = @ \/ CtxFreeError(m)]
                         /\ UNCHANGED <<op, lastErr, ps>>
    /\ UNCHANGED <<qr, rxFrame>>
-----------------------------------------------------------------------------
(* WaitForNotification, lines 344-399. *)

\* Mutant: the newest queued notification is taken instead of the oldest.
TakeNewest(q) == [first |-> Last(q), rest |-> Front(q)]

\* Lines 346-347 (and 395-396): the head of c.notifications is returned
\* and removed.
TakeNotification(q) == [first |-> Head(q), rest |-> Tail(q)]

\* Lines 345-366: a queued notification is returned at once; otherwise a
\* read deadline is armed, which fails on a closed socket.
WaitForNotification ==
    /\ CanCall
    /\ qr.closed
    /\ IF notifs # <<>>
       THEN /\ delivered' = Append(delivered, TakeNotification(notifs).first)
            /\ notifs' = TakeNotification(notifs).rest
            /\ lastErr' = FALSE
            /\ UNCHANGED <<op, deadline>>
       ELSE /\ op' = IF sockOpen THEN "waitPeek" ELSE "idle"
            /\ deadline' = sockOpen
            /\ lastErr' = ~sockOpen
            /\ UNCHANGED <<notifs, delivered>>
    /\ UNCHANGED <<cur, alive, cause, sockOpen, txStatus, ps, rtParam, keyData, qr, txh,
                   toSrv, inbound, envVars, nreq, zDue, emitted, reported,
                   falseCommits, ioErrSeen>>

\* Mutant: the deadline is not cleared after a successful peek (line 378).
PeekOkKeepsDeadline == op' = "waitRecv" /\ UNCHANGED <<lastErr, ioErrSeen, deadline>>

\* Lines 377-381: a byte is buffered; the deadline is cleared before the
\* message is read.
PeekOk == op' = "waitRecv" /\ deadline' = FALSE /\ UNCHANGED <<lastErr, ioErrSeen>>

(* Lines 368-381: Peek(1) under the deadline.  With no byte buffered the
   peek times out, or, once the link is down, fails with EOF; both clear
   the deadline and return without killing the connection. *)
WaitPeek ==
    /\ op = "waitPeek"
    /\ IF inbound # <<>>
       THEN PeekOk
       ELSE \E eof \in (IF link = "down" THEN {FALSE, TRUE} ELSE {FALSE}) :
               /\ op' = "idle"
               /\ lastErr' = TRUE
               /\ ioErrSeen' = (ioErrSeen \/ eof)
               /\ deadline' = FALSE
    /\ UNCHANGED <<cur, alive, cause, sockOpen, txStatus, ps, notifs, rtParam, keyData,
                   qr, txh, calls, toSrv, inbound, envVars, nreq, zDue, obsVars>>

(* Lines 383-398: every message goes through processContextFreeMsg; a
   notification ends the wait, anything else loops back to arm the
   deadline again (line 363). *)
WaitRecv ==
    /\ op = "waitRecv"
    /\ \E m \in Received :
        /\ Receive(m, {})
        /\ LET q == Queued(m, {}) IN
           CASE RxError(m) \/ CtxFreeError(m) ->
                   /\ op' = "idle" /\ lastErr' = TRUE
                   /\ notifs' = q /\ UNCHANGED <<delivered, deadline>>
             [] q # <<>> ->
                   /\ delivered' = Append(delivered, TakeNotification(q).first)
                   /\ notifs' = TakeNotification(q).rest
                   /\ op' = "idle" /\ lastErr' = FALSE /\ UNCHANGED deadline
             [] OTHER ->
                   /\ op' = IF sockOpen THEN "waitPeek" ELSE "idle"
                   /\ deadline' = sockOpen
                   /\ notifs' = q /\ lastErr' = ~sockOpen /\ UNCHANGED delivered
    /\ UNCHANGED <<cur, ps, keyData, qr, txh, calls, toSrv, envVars, nreq, emitted,
                   reported, falseCommits, ioErrSeen>>

\* Close, lines 220-233: Terminate is written best-effort, then c.die.  On
\* a dead connection Close returns nil and changes nothing.
Close ==
    /\ CanCall
    /\ alive
    /\ \E ok \in WriteResults : Write(Req("X", 0, NoSql, NoPs), ok)
    /\ die("closed")
    /\ UNCHANGED <<op, cur, deadline, txStatus, ps, notifs, rtParam, keyData, qr,
                   lastErr, txh, inbound, envVars, obsVars>>

-----------------------------------------------------------------------------
(* Transaction / TransactionIso / transaction, lines 865-906.  The         *)
(* isolation level only changes the text of "begin".  The body f is the   *)
(* caller's own calls, made while txh = "body".                           *)

TxBegin ==
    /\ CanCall
    /\ qr.closed
    /\ txh = "none"
    /\ txh' = "begin"
    /\ ExecStart(Sql("begin"), 0)
    /\ UNCHANGED <<ps, qr, callFrame>>

\* Line 889: an error from "begin" returns committed = false at once.
TxBegun ==
    /\ txh = "begin"
    /\ op = "idle"
    /\ txh' = IF lastErr THEN "none" ELSE "body"
    /\ UNCHANGED <<connVars, calls, toSrv, inbound, envVars, histVars>>

\* Mutant: commit whenever f asks to, without looking at c.TxStatus.
CommitIgnoringStatus(committed) == committed

\* Lines 892-894: the deferred function commits only when f asked to and
\* c.TxStatus is 'T'.
CommitWanted(committed) == committed /\ txStatus = "T"

\* Lines 892-904: f returns; commit or roll back.
TxEnd ==
    /\ txh = "body"
    /\ op = "idle"
    /\ qr.closed
    /\ \E committed \in BOOLEAN :
        IF CommitWanted(committed)
        THEN txh' = "commit" /\ ExecStart(Sql("commit"), 0)
        ELSE txh' = "rollback" /\ ExecStart(Sql("rollback"), 0)
    /\ UNCHANGED <<ps, qr, calls, callFrame>>

\* Lines 894-900: committed stays true only if Exec("commit") returned nil.
TxFinish ==
    /\ txh \in {"commit", "rollback"}
    /\ op = "idle"
    /\ txh' = "none"
    /\ reported' = IF txh = "commit" /\ ~lastErr THEN reported \cup {cur.req} ELSE reported
    /\ UNCHANGED <<connVars, calls, toSrv, inbound, envVars, nreq, zDue, ioErrSeen,
                   delivered, emitted, falseCommits>>
-----------------------------------------------------------------------------
(* The server and the link (the environment; not code of this repository). *)

Greeting == <<Msg("S", 0, "", 0), Msg("K", 0, "", 0), Ready(0, "I")>>

ServerStartup ==
    /\ link = "up" /\ srvOut = <<>> /\ toSrv # <<>>
    /\ Head(toSrv).f = "startup"
    /\ \E a \in AuthMethods :
        /\ srvOut' = <<Msg("R", 0, a, 0)>> \o (IF a = "ok" THEN Greeting ELSE <<>>)
        /\ srv' = [srv EXCEPT !.phase = CASE a = "ok" -> "ready"
                                         [] a \in {"cleartext", "md5"} -> "auth"
                                         [] OTHER -> "stuck"]
    /\ toSrv' = Tail(toSrv)
    /\ UNCHANGED <<connVars, txh, calls, inbound, link, faulted, async, histVars>>

\* The password is accepted, or refused with a FATAL error and a close.
ServerPassword ==
    /\ link = "up" /\ srvOut = <<>> /\ toSrv # <<>>
    /\ Head(toSrv).f = "pw"
    /\ \/ /\ srvOut' = <<Msg("R", 0, "ok", 0)>> \o Greeting
          /\ srv' = [srv EXCEPT !.phase = "ready"]
          /\ toSrv' = Tail(toSrv)
          /\ UNCHANGED <<inbound, link>>
       \/ /\ inbound' = Append(inbound, FatalErr)
          /\ srv' = [srv EXCEPT !.phase = "gone"]
          /\ link' = "down" /\ toSrv' = <<>>
          /\ UNCHANGED srvOut
    /\ UNCHANGED <<connVars, txh, calls, faulted, async, histVars>>

\* A 'Q', Parse/Describe/Sync or Bind/Execute/Sync request.
ServerAnswer ==
    /\ link = "up" /\ srvOut = <<>> /\ toSrv # <<>>
    /\ srv.phase = "ready"
    /\ LET m == Head(toSrv)
           a == CASE m.f = "Q" -> SimpleAnswer(m.req, m.sql, srv)
                  [] m.f = "PDS" -> PrepareAnswer(m.req, m.name, m.sql.k, srv)
                  [] m.f = "BES" -> ExecuteAnswer(m.req, m.name, srv)
       IN /\ Synced(m.f)
          /\ srv' = a.s
          /\ srvOut' = a.out
          /\ falseCommits' = IF a.falseCommit THEN falseCommits \cup {m.req}
                             ELSE falseCommits
    /\ toSrv' = Tail(toSrv)
    /\ UNCHANGED <<connVars, txh, calls, inbound, link, faulted, async, nreq, zDue,
                   delivered, emitted, reported, ioErrSeen>>

\* Terminate ends the session.
ServerTerminateMsg ==
    /\ link = "up" /\ toSrv # <<>>
    /\ Head(toSrv).f = "X"
    /\ srv' = [srv EXCEPT !.phase = "gone"]
    /\ toSrv' = Tail(toSrv)
    /\ UNCHANGED <<connVars, txh, calls, srvOut, inbound, link, faulted, async, histVars>>

ServerEmit ==
    /\ link = "up" /\ srvOut # <<>>
    /\ inbound' = Append(inbound, Head(srvOut))
    /\ srvOut' = Tail(srvOut)
    /\ UNCHANGED <<connVars, txh, calls, srv, toSrv, link, faulted, async, histVars>>

\* ParameterStatus, Notice or (on a listening session) a Notification,
\* between any two messages of an answer.
ServerAsync ==
    /\ link = "up" /\ srv.phase = "ready" /\ async < MaxAsync
    /\ \E t \in AsyncTags :
        /\ t = "A" => srv.listening
        /\ inbound' = Append(inbound, Msg(t, 0, "", IF t = "A" THEN emitted + 1 ELSE async + 1))
        /\ emitted' = IF t = "A" THEN emitted + 1 ELSE emitted
    /\ async' = async + 1
    /\ UNCHANGED <<connVars, txh, calls, srv, srvOut, toSrv, link, faulted, nreq, zDue,
                   delivered, reported, falseCommits, ioErrSeen>>

\* The session is terminated by the server (FATAL, then close) ...
ServerKill ==
    /\ "terminate" \in Faults /\ ~faulted
    /\ link = "up" /\ srv.phase = "ready"
    /\ inbound' = Append(inbound, FatalErr)
    /\ srv' = [srv EXCEPT !.phase = "gone"]
    /\ link' = "down" /\ toSrv' = <<>> /\ srvOut' = <<>>
    /\ faulted' = TRUE
    /\ UNCHANGED <<connVars, txh, calls, async, histVars>>

\* ... or the link fails: what is in flight either way is lost.
LinkFail ==
    /\ "net" \in Faults /\ ~faulted
    /\ link = "up"
    /\ link' = "down" /\ toSrv' = <<>> /\ srvOut' = <<>>
    /\ faulted' = TRUE
    /\ UNCHANGED <<connVars, txh, calls, srv, inbound, async, histVars>>

-----------------------------------------------------------------------------

\* The caller has stopped: its calls are spent, or Connect failed.
Finished ==
    /\ \/ op = "failed"
       \/ op = "idle" /\ calls = MaxCalls /\ txh \in {"none", "body"}
    /\ UNCHANGED vars

\* The steps a method takes on its own once called: its receive loop and
\* the transaction helper's continuation.
Callee ==
    \/ ConnectDial \/ ConnectStart \/ ConnectRecv \/ ExecRecv \/ QueryRecv \/ NextRowRecv
    \/ DrainRecv \/ PrepareRecv \/ WaitPeek \/ WaitRecv \/ TxBegun \/ TxFinish
    \/ RowScanStep

\* The calls the caller may make, or not.
Caller ==
    \/ ExecCall \/ Listen \/ Deallocate \/ QueryCall \/ NextRow \/ CloseCursor
    \/ ScanWrongCount \/ ScanRow \/ ReadValue \/ RowScan \/ Prepare
    \/ WaitForNotification \/ Close \/ TxBegin \/ TxEnd

\* The server's replies to what it has been sent.
Replies == ServerStartup \/ ServerPassword \/ ServerAnswer \/ ServerTerminateMsg \/ ServerEmit

Next == Callee \/ Caller \/ Replies \/ ServerAsync \/ ServerKill \/ LinkFail \/ Finished

Spec == Init /\ [][Next]_vars

(* A method runs to its return without waiting on its caller, and a live
   server sends what it owes; neither asynchronous messages nor faults are
   bound to happen. *)
Fairness == WF_vars(Callee) /\ WF_vars(Replies)

FairSpec == Spec /\ Fairness
-----------------------------------------------------------------------------
(* Properties. *)

Messages == [t : STRING, req : Nat, st : STRING, n : Nat]

TypeOK ==
    /\ op \in {"dial", "start", "startup", "failed", "idle", "exec", "query", "nextrow",
               "drain", "prepare", "waitPeek", "waitRecv", "rowScan"}
    /\ alive \in BOOLEAN /\ sockOpen \in BOOLEAN /\ deadline \in BOOLEAN
    /\ cause \in {"none", "closed", "io", "fatal", "timeout"}
    /\ txStatus \in TxStates \cup {"none"}
    /\ ps \in [Names -> {NoPs, 0, 1}]
    /\ notifs \in Seq(Nat) /\ delivered \in Seq(Nat)
    /\ qr \in [closed : BOOLEAN, cols : {0, 1}, err : BOOLEAN, col : {0, 1}, row : BOOLEAN]
    /\ cur.row \in {"none", "next", "close"}
    /\ txh \in {"none", "begin", "body", "commit", "rollback"}
    /\ inbound \in Seq(Messages) /\ srvOut \in Seq(Messages)
    /\ link \in {"up", "down"}
    /\ zDue \in Nat
    /\ calls \in 0..MaxCalls

(* The read deadline WaitForNotification arms is always cleared before a
   message body is read (src/conn.go:363-381): the connection never dies
   of a timeout, since rxMsg treats any error as fatal. *)
NoTimeoutDeath == cause # "timeout"

(* Notifications reach the caller in the order the server sent them, none
   lost and none twice, through whichever receive loop read them
   (processContextFreeMsg appending to c.notifications, and
   WaitForNotification taking from its head, src/conn.go:344-399). *)
NotificationOrder == IsPrefix(delivered \o notifs, [i \in 1..emitted |-> i])

(* Every request/response cycle is read up to and including its own
   ReadyForQuery: when no call is in progress and no cursor is open on a
   live connection, no ReadyForQuery is left unread (spec.md 3, second
   invariant).  A stale one would be taken by the next call as its own. *)
NoStaleResponse == (alive /\ op = "idle" /\ qr.closed) => zDue = 0

(* Transaction reports committed = true only for a commit the server
   executed as a commit: the helper decides on c.TxStatus
   (src/conn.go:893), which must be the status of the caller's own last
   statement. *)
CommitReportsTrue == reported \cap falseCommits = {}

(* A Connect that fails leaves no socket open (the deferred cleanup of
   src/conn.go:158-164). *)
FailedConnectCloses == op = "failed" => ~sockOpen

(* The cached prepared statements are exactly the server's statements,
   with the server's result columns, whenever the connection is live and
   quiet (spec.md 3, third invariant; Prepare, src/conn.go:316-320). *)
PreparedMatchesServer ==
    (alive /\ op = "idle" /\ qr.closed /\ zDue = 0 /\ link = "up")
        => \A n \in Names :
              ps[n] = IF srv.stmts[n] = NoPs THEN NoPs ELSE Cols(srv.stmts[n])

(* A transport error kills the connection (spec.md 3, fourth invariant;
   spec.md 5): once a call on an established connection has seen one, the
   connection is not alive.  (A failed Connect returns no Conn.) *)
IoErrorKills == (ioErrSeen /\ op # "failed") => ~alive

(* Every method returns: each receive loop of src/conn.go ends -- on its
   ReadyForQuery, on the message it waits for, or on an error -- and the
   transaction helper completes, whatever faults happen meanwhile. *)
Returns == (op \notin {"idle", "failed"} \/ txh \in {"begin", "commit", "rollback"})
               ~> (op \in {"idle", "failed"} /\ txh \in {"none", "body"})

(* Row.Scan (src/conn.go:411-428) closes the cursor of QueryRow's query
   (line 427) before it returns: once that Close has run, Row.Scan returns
   only after the answer has been read up to its ReadyForQuery, or with the
   connection dead, so the next call does not take the rest of the answer
   as its own.  The drain (readUntilReadyForQuery, 459-484) is where this
   can go wrong: it runs after rows the caller never asked for. *)
RowScanDrains ==
    [][(op = "rowScan" /\ cur.row = "close" /\ op' = "idle") => (zDue' = 0 \/ ~alive')]_vars

(* The connection behaves as a session that answers one request at a
   time (module Session): a request is written only once the previous
   ReadyForQuery has been read, and c.TxStatus is the server's status as
   of the last ReadyForQuery read. *)
Sess == INSTANCE Session WITH owed <- zDue, tx <- txStatus, stx <- srv.tx, open <- alive

ImplementsSession == Sess!Spec
===============================================================================
