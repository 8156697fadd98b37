# TLA+ models of schemapgx `src/conn.go`

This directory holds TLA+ models of the PostgreSQL protocol-3.0 client in
`src/conn.go` and the TLC configurations that check them. `PROJECT.json`
lists the components, the runs, the mutants, the findings and the hazards.
It also maps each definition to the lines of Go it translates.

## 1. The system (inventory)

`src/conn.go` (1071 lines) is the whole implementation under `src/`. Its
parts, and how they interact:

| Part | Code | State it changes |
|---|---|---|
| Connect | `Connect` 110-216, `rxAuthenticationX` 941-967, `rxBackendKeyData` 996-999 | socket, `alive`, `Pid/SecretKey`, `RuntimeParams`, `TxStatus` |
| Close | `Close` 218-233, `die` 1068-1071 | socket, `alive`, `causeOfDeath` |
| Prepare / Deallocate | 235-334 | `preparedStatements` (cache of server statements) |
| Listen / WaitForNotification | 336-399 | `notifications` queue, read deadline |
| Query cursor (`QueryResult`) | `Query` 646-689, `NextRow` 503-542, `Close`/`close`/`Fatal` 444-492, `readUntilReadyForQuery` 459-484, `Scan` 559-564 | `c.qr`, pool release |
| Request writing | `sendQuery`, `sendSimpleQuery`, `sendPreparedQuery` 696-814 | socket writes, format codes |
| Exec | 816-857 | `TxStatus` via ReadyForQuery |
| Transaction helper | `transaction` 865-906 | begin / commit / rollback |
| Context-free message handling | `processContextFreeMsg` 911-926, `rxMsg` 928-939, `rxErrorResponse` 969-987, `rxReadyForQuery` 989-994, `rxParameterStatus`, `rxNotificationResponse` 1001-1030 | `TxStatus`, `RuntimeParams`, `notifications`, `alive` |
| Format codes | parameters in `sendPreparedQuery` 731-791 (result columns in `Prepare` 308-315 are not modelled) | Bind message |
| `CommandTag.RowsAffected` | 82-86 | none (pure) |

The code has one connection with one caller. It has no goroutines of its
own, so the concurrency is between the client and the server. The server
sends its answer to a request as several messages. Asynchronous
ParameterStatus ('S'), Notice ('N') and Notification ('A') messages can
come between any two of them. The link can fail, and the server can end
the session with a FATAL error. Every API call writes a request and then
runs a receive loop until ReadyForQuery ('Z'). A loop that returns earlier
leaves part of an answer for the next call to read. So the hard
behaviours are:

- the protocol sequence over several calls;
- asynchronous messages interleaved with answers;
- transport failures between a write and a read;
- state cached on the client, such as `TxStatus` and `preparedStatements`,
  that must match the server.

Collaborators not under `src/` are the message reader/writer buffers, the
value encoders, the connection pool, `SanitizeSql` and the logger. They are
abstracted as described in section 5.

## 2. Modules

- **`Backend.tla`** is the server as the environment. It contains only
  pure operators. Given the session state (`tx`, `stmts`, `listening`) and
  one request (a simple query, Parse/Describe/Sync, or Bind/Execute/Sync),
  it returns the server's next state and the messages of its answer,
  ending with ReadyForQuery. SQL is abstracted to its effect: `sel`,
  `selErr` (fails after a row), `ins`, `bad`, `begin`, `commit`,
  `rollback`, `listen`, `dealloc`. Commit of an aborted or absent block is
  accepted but commits nothing. It is recorded as a *false commit*.

- **`Conn.tla`** is the connection. Its variables are the fields of
  `Conn` (`alive`, `TxStatus`, `preparedStatements`, `notifications`,
  `RuntimeParams`, `Pid`, `qr`, socket and read deadline), plus:
  - `op`/`cur`: the method in progress and its locals;
  - the phase of `transaction`;
  - the server state, the two directions of the socket and the link;
  - history variables used only by properties.

  Steps follow the code's suspension points:
  - a write of a request buffer is one step, which can fail or be lost on
    a broken link;
  - each iteration of a receive loop (`rxMsg` plus the switch on the tag,
    with the `processContextFreeMsg` default) is one step.

  Actions:
  - `ConnectDial` (lines 113-157: the user and port defaults and the dial,
    which fails, with no socket, when `user.Current` or `net.Dial` fails),
    `ConnectStart`, `ConnectRecv`
  - `ExecCall`, `Listen`, `Deallocate`, `ExecRecv`
  - `QueryCall`, `QueryRecv`, `NextRow`, `NextRowRecv`, `CloseCursor`,
    `ScanWrongCount`, `ScanRow`, `ReadValue`, `DrainRecv`
  - `RowScan`, `RowScanStep`: `Row.Scan` on the cursor `QueryRow` returned.
    NextRow and the drain return into it (`Resume`), as the nested calls
    do in the code.
  - `Prepare`, `PrepareRecv`
  - `WaitForNotification`, `WaitPeek`, `WaitRecv`
  - `Close`
  - `TxBegin`, `TxBegun`, `TxEnd`, `TxFinish`
  - server and environment: `ServerStartup`, `ServerPassword`,
    `ServerAnswer`, `ServerTerminateMsg`, `ServerEmit`, `ServerAsync`,
    `ServerKill`, `LinkFail`

  `Finished` is the caller having stopped. The caller makes at most
  `MaxCalls` calls. It calls cursor methods only while a cursor is open,
  and it runs `Exec`/`Query` bodies inside `transaction`.

- **`Session.tla`** is the abstract specification of a connection. It
  says what the protocol promises, with messages abstracted away. Its state
  is `owed` (ReadyForQuery messages the server still owes, 0 or 1), `tx` (the
  client's `TxStatus`), `stx` (the server's status) and `open`. Its actions
  are `Connect`, `Send`, `Execute`, `Ready` and `Die`. A request is written
  only when nothing is owed, and `Ready` copies the server's status into
  `tx`. `Conn` refines it under the mapping `owed <- zDue`,
  `tx <- TxStatus`, `stx <- srv.tx`, `open <- alive`.

- **`ConnPool.tla`** composes the pool with the cursor code that borrows
  from it. It has several callers, connection ids, `idle` (the FIFO of idle
  connections), `held` (the connections the pool vended), and one `c.qr` per
  connection, shared by every cursor on it.
  - `Acquire` and `Release` come from spec.md 4.E, because the pool's code is
    not under `src/`. Acquire pops the idle FIFO, discarding a dead
    connection, or creates one below `MaxSize`. Release requeues a live
    connection and forgets a dead one.
  - `PoolQuery`, `NextRow`, `CloseRelease`/`CloseClear` (the two halves of
    `close()`, lines 451-452 and 453-455), `DeferredClose` and `Drain`
    translate conn.go. Each caller has a program counter and a return stack
    for the nested `close()` calls.
  - `LinkBreak` breaks a connection's link. The next read on it then fails,
    and a write fails or is lost.

- **`CommandTag.tla`** holds `RowsAffected` as operators: `Split` is
  `strings.Split(s, " ")`, and `ParseInt` is `strconv.ParseInt`, with its
  sign, its syntax error (0) and its range clamp at `Width` bits. These are
  checked against the tags the server formats.

- **`FormatCodes.tla`** holds pure operators:
  - `ParamFormatCode`: the Bind format code `sendPreparedQuery` writes;
  - `EncodedAs`: the encoder it then calls;
  - `rxParameterDescription`: the number of parameter OIDs `Prepare` keeps.
    The server writes the count as two bytes (`Wire16`), and the client
    reads them as a signed int16 (`ReadInt16`).

  These are checked over every OID class, every kind of argument (nil,
  binary encoder, text encoder, both, neither), and parameter counts
  0, 1, 32767, 32768 and 65535, on both sides of the signed boundary.

- **`MCConn.tla`**, **`MCConnPool.tla`** and **`MCFormatCodes.tla`**
  instantiate these for TLC. `MCFormatCodes` checks FormatCodes and an
  instance of CommandTag in one state space: every input of both is an
  initial state. Statement names,
  callers and connection ids are model values.

## 3. Runs

Deadlock is checked in every run. In `Conn` the only terminal state is
`Finished`, and in `ConnPool` it is `AllDone`.

| Run | Cfg | Expect | What it shows |
|---|---|---|---|
| conn_full | MCConn_full.cfg | pass | Under `FairSpec`: `TypeOK`, `NoTimeoutDeath`, `NotificationOrder` and `Returns`. `Returns`: every call returns and the transaction helper finishes, whatever fault happens, failing Queries included. `NoTimeoutDeath`: the WaitForNotification deadline is cleared before any message is read, so a timeout never kills the connection. `NotificationOrder`: the caller gets exactly the server's notifications, in order, none lost or repeated, across every receive loop that queues them. Every statement kind, faults "net" and "terminate", async 'A' and 'N', MaxCalls 3 (546k states). |
| conn_sync | MCConn_sync.cfg | pass | Three properties. `NoStaleResponse`: when no cursor meets an error, an idle connection has read every ReadyForQuery it is owed. `CommitReportsTrue`: `transaction` reports committed only for commits the server performed. `ImplementsSession`: `Conn` implements `Session`, so one request is outstanding at a time and `TxStatus` is the server's status after each ReadyForQuery. MaxCalls 4 (1.3M states). |
| conn_stale | MCConn_stale.cfg | violation | `NoStaleResponse`: `Query` of a failing or row-less statement returns without reading its ReadyForQuery (conn.go:680). |
| conn_commit | MCConn_commit.cfg | violation | `CommitReportsTrue`: the stale ReadyForQuery then makes `transaction` commit on a stale 'T'. Exec takes the stale 'Z' as the commit's answer and reports committed, while the server rolls back (conn.go:893). |
| conn_prepare | MCConn_prep.cfg | violation | `PreparedMatchesServer`: `Prepare` caches a statement whose Parse failed (conn.go:319). |
| conn_leak | MCConn_leak.cfg | violation | `FailedConnectCloses`: `return nil, err` nils the named result, and the deferred cleanup then leaves the socket open (conn.go:203). |
| conn_ioerr | MCConn_ioerr.cfg | violation | `IoErrorKills`: a failed write returns the error but leaves the connection alive (conn.go:716). spec.md 5 says transport errors kill it. |
| conn_rowscan | MCConn_rowscan.cfg | violation | `RowScanDrains` (action property): `QueryRow` of a statement that fails after its first row. `Row.Scan`'s Close stops draining at the ErrorResponse (conn.go:477), so `Row.Scan` returns nil with the ReadyForQuery unread. |
| pool_one | MCConnPool_one.cfg | pass | One caller, pool size 2, 2 queries, up to 2 link failures. `ReleasedOnce`: a connection is returned to the pool at most once per loan, and never twice onto the idle FIFO. `NoLeak`: when the caller is done, every held connection is idle. These hold on every ending path: rows exhausted, early Close with drain, a failed read and a failed Query write. |
| pool_race | MCConnPool_race.cfg | violation | `NoTruncation`, with two callers. See the finding below (conn.go:453). |
| format_bind | MCFormatCodes_bind.cfg | pass | `BindFormatsAgree`: each parameter is encoded in the format its Bind code announces. `RowsAffectedIsCount`: RowsAffected gives the server's count for INSERT/UPDATE/SELECT tags and 0 for CREATE TABLE, for every count 0..127 at Width 8 (491k states). |
| format_params | MCFormatCodes_params.cfg | violation | `PrepareKeepsParams`: a statement with 32768..65535 parameters makes `rxParameterDescription` read a negative int16 count and panic in `make` (conn.go:1015). |

Each property of a passing run has a mutant in `PROJECT.json`, a plausible
bug in the mapped code that TLC catches. Examples:
- the deadline kept armed across `rxMsg`;
- the newest notification returned first;
- a drain that stops at CommandComplete;
- a drain that ignores an `rxMsg` error (caught by `Returns`);
- `rxReadyForQuery` not updating `TxStatus` (caught by `ImplementsSession`);
- `close()` that leaves `qr.pool` set;
- a failed Query that keeps its connection;
- the count taken from the second word of the tag.

**Bounds.**
- One statement name is enough for the cache properties, since names are
  independent.
- MaxCalls 3 (4 for `conn_sync`) covers a call, a second call that reads
  what the first left, and the commit of the transaction helper.
- MaxAsync 2 lets two notifications come from different receive loops,
  which is what ordering needs.
- Each fault happens at most once, which still allows it before, inside or
  after any answer.
- In `ConnPool`, two queries per caller and pool size 2 let a connection
  be released, reused and replaced after a failure. Two callers with pool
  size 1 force the hand-over that exposes the race.
- In `CommandTag`, Width 8 puts the clamp at 127. Counts 0..127 give one-,
  two- and three-digit words up to the last unclamped value. Width 64
  cannot be used because TLC's integers are 32-bit.

`conn_sync` sets `QueryMayFail = FALSE`. With the code as it
is, a failing Query always desynchronises the connection (`conn_stale`).
That run keeps the caller to the workload the code handles, so that the
properties say something about every other path.

**Fairness (`conn_full`).** `FairSpec` assumes weak fairness of two groups.
- `Callee` is the steps of a method already running: every receive loop,
  `ConnectDial`, `ConnectStart`, `TxBegun` and `TxFinish`. These are plain synchronous Go
  code with no wait other than `rxMsg`, so once one is enabled it stays
  enabled until it is taken.
- `Replies` is the server answering a request and emitting the messages of
  its answer. A live PostgreSQL backend does this.

No fairness is assumed for the caller's own calls, asynchronous messages,
link failures or the server killing the session. So `Returns` holds
whether or not those happen.

**Refinement.** `Sess == INSTANCE Session WITH ...` in `Conn`.
`ImplementsSession` is `Sess!Spec`, checked as a temporal property.
`zDue`, a history variable counting the ReadyForQuery messages owed to the
client, plays the part of `owed`. On the unrestricted workload the mapping
fails at the same point as `conn_stale`: a second request is written while
one is still owed.

## 4. Findings

See `PROJECT.json` "findings". There are seven code bugs:
- the stale ReadyForQuery after a failing Query;
- the false commit that follows from it;
- the cached failed Prepare;
- the socket leak in Connect;
- the `close()` race on the shared cursor;
- the panic in `Prepare` for statements with 32768 or more parameters;
- `Row.Scan` losing the error of a query that fails after its first row.

**`Row.Scan` after a late error (conn_rowscan).** `Row.Scan` reads one row
and then calls `qr.Close()` (427), which drains the rest of the answer.
When the query fails after its first row, the server sends DataRow,
ErrorResponse, ReadyForQuery. The drain gives the ErrorResponse to
`processContextFreeMsg` and on its error calls `close()` and returns
(477-480). It neither sets `qr.err` nor reads the ReadyForQuery. `Row.Scan`
then returns `qr.Err()`, which is nil. The caller sees success, and the
next call takes the unread ReadyForQuery as its own answer.
`RowScanDrains` states that once `Row.Scan` has closed its cursor it
returns only after the ReadyForQuery, or with the connection dead.

Noted while translating `Row.Scan`, and not a separate run: line 426
discards the error `qr.Scan` returns. So an unknown destination type or a
failing Scanner makes `Row.Scan` return nil with the destination unset,
although spec.md 4.F lists "unknown destination type" as a usage error returned
to the caller. `RowScanStep` models exactly this.

There is one divergence from spec.md checked by a run: transport write
errors do not kill the connection (`conn_ioerr`). A second one is plain
from the code and not modelled: `Prepare` switches date and timestamptz
result columns to binary (line 312), while spec.md 4.B says they are
requested in text.

**The `close()` race (pool_race).** `Query` returns `&c.qr`, one
`QueryResult` per connection that every Query resets (647-648). `close()`
calls `Release` first and only then writes `qr.pool = nil; qr.closed =
true` (451-455). This is what TLC finds:
1. Caller 1's `close()` releases connection k.
2. Caller 2 acquires k and runs a Query.
3. Caller 1's next two writes close caller 2's fresh cursor.
4. Caller 2's `NextRow` returns false with `Err()` nil and its rows unread.
5. k is never released again. With pool size 1, every later `Acquire`
   waits forever.

A deferred `Close` through an old pointer does the same to the next
borrower's cursor. Clearing `qr.pool` and setting `qr.closed` before calling `Release`
would keep those writes off the next borrower's cursor.

## 5. Not modelled, and why

- **Wire framing and byte encoding** (`MsgReader`, `WriteBuf`, encoders)
  are not under `src/`. A message is a record and a write is one step.
- **Decoding a column** (`decodeBool` ... `decodeTimestampTz`, Scanner
  implementations) is outside `src/`. A column read ends in one of three
  outcomes: decoded; the cursor made Fatal; or a returned error that leaves
  the cursor as it is ("Unknown type", a Scanner's error, "Unknown format
  code"). A Scan after the row's columns have been read is not modelled.
  There `nextColumn` returns a nil descriptor that the code hands to a
  decoder, and what the decoder does with it is not in `src/`.
- **`Prepare`'s result-column formats** (308-315) are a fixed table from
  OID to format code with no state. The one question about them, whether
  date and timestamptz follow spec.md 4.B, is answered by reading line 312
  (see section 4).
- **The pool's own code** is not under `src/`. `ConnPool` models its
  Acquire and Release from spec.md 4.E. The pool's Exec, its Prepare on
  every held connection, and its Close are not modelled. In `ConnPool` the
  connection's protocol is reduced to "rows pending, then ReadyForQuery",
  and `Conn` checks that protocol itself.
- **`ParseURI`, the values of the OS user and port defaults, TLS handshake
  details, the MD5 digest and logging** are configuration and I/O with no
  protocol state. `ConnectDial` keeps only whether the user lookup and the
  dial succeed. URI parsing is out of scope per spec.md 1. One observation
  from reading it: `ParseURI` splits `url.Host` at its first ':' (line 249).
  An IPv6 literal such as `[::1]:5432` therefore yields the host "[" and a
  port string that `ParseUint` rejects. No run checks this; it is left for
  a model of URI parsing. MD5 and
  cleartext are the same step in the model. TLS is only the server's 'S'
  or 'N' answer.
- **A second Query on a connection while its cursor is open**, by the same
  caller, is not modelled in `Conn`. The cross-caller case is `pool_race`.
- **`int16(len(...))`** counts written in Bind (731, 747, 794) give the
  same two bytes the server reads as unsigned. They are harmless up to
  65535, and a statement with more than 32767 parameters already panics in
  `Prepare` (`format_params`).
- **Parameters** (`sendPreparedQuery` with arguments) enter only through
  FormatCodes. In Conn, Exec/Query use no arguments or, for a prepared
  name, choose between sending a prepared and a simple query.

## 6. Plan for later work

1. Liveness of notifications: a caller waiting in `WaitForNotification`
   eventually gets a queued notification.
2. The pool's Exec and Prepare, composed with `Conn` instead of the reduced
   protocol, including `Prepare` priming every held connection.
3. `Session` on the full workload, as a violation run, once the runs have
   room for it.
