------------------------------ MODULE ConnPool ------------------------------
(***************************************************************************)
(* Callers borrowing connections from a pool (spec.md 4.E) to run queries  *)
(* whose cursors give the connection back: the cursor code of src/conn.go  *)
(* (Query 646-689, NextRow 503-542, Close 486-492, close 450-456,          *)
(* readUntilReadyForQuery 459-484) composed with the pool's Acquire and    *)
(* Release, which are not in src/ and follow spec.md 4.E.                  *)
(*                                                                         *)
(* The cursor Query returns is &c.qr (lines 647-648): one QueryResult per  *)
(* connection, which every Query on that connection resets.  So cqr is a   *)
(* function of the connection, and a caller reaches it through conn[c],    *)
(* the connection its cursor was opened on.                                *)
(*                                                                         *)
(* An answer is abstracted to the DataRows still to come before its        *)
(* ReadyForQuery; a broken link makes the next read fail.  Every pool     *)
(* operation is atomic (the pool serializes them); a caller's steps are   *)
(* one call, or one of the two parts of close() around Release.            *)
(***************************************************************************)
EXTENDS Naturals, FiniteSets, Sequences, SequencesExt

CONSTANTS
    Callers,     \* goroutines using the pool
    ConnIds,     \* identities for the connections the pool may create
    MaxSize,     \* the pool's maximum size
    MaxRows,     \* bound on the rows of an answer
    Queries,     \* queries each caller runs
    MaxBreaks,   \* bound on link failures
    NoConn       \* model value: no connection

ASSUME MaxSize \in Nat \ {0} /\ MaxRows \in Nat /\ Queries \in Nat /\ MaxBreaks \in Nat

VARIABLES
    idle,      \* the pool's FIFO of idle connections
    held,      \* the connections the pool holds (idle or lent)
    made,      \* the identities used so far (a connection is never re-created)
    alive,     \* c.alive of each connection
    broken,    \* the link of each connection has failed
    cqr,       \* c.qr of each connection: [closed, pool (qr.pool # nil), err]
    pending,   \* messages of the current answer not yet read: rows, then 'Z'
    pc,        \* where each caller is
    ret,       \* the continuations of a caller inside close()
    conn,      \* the connection a caller borrowed, and its cursor is on
    done,      \* queries each caller has finished
    want,      \* rows of the answer to the caller's query
    seen,      \* rows the caller's NextRow returned
    lent,      \* history: borrows minus releases, per connection
    short,     \* history: callers whose NextRow ended early without an error
    breaks

vars == <<idle, held, made, alive, broken, cqr, pending, pc, ret, conn, done, want,
          seen, lent, short, breaks>>
callerVars == <<pc, ret, conn, done, want, seen, short>>
poolVars == <<idle, held, made, lent>>

Init ==
    /\ idle = <<>>
    /\ held = {}
    /\ made = {}
    /\ alive = [k \in ConnIds |-> FALSE]
    /\ broken = [k \in ConnIds |-> FALSE]
    /\ cqr = [k \in ConnIds |-> [closed |-> TRUE, pool |-> FALSE, err |-> FALSE]]
    /\ pending = [k \in ConnIds |-> 0]
    /\ pc = [c \in Callers |-> IF Queries > 0 THEN "acquire" ELSE "done"]
    /\ ret = [c \in Callers |-> <<>>]
    /\ conn = [c \in Callers |-> NoConn]
    /\ done = [c \in Callers |-> 0]
    /\ want = [c \in Callers |-> 0]
    /\ seen = [c \in Callers |-> 0]
    /\ lent = [k \in ConnIds |-> 0]
    /\ short = {}
    /\ breaks = 0

-----------------------------------------------------------------------------
(* The pool, spec.md 4.E. *)

\* Release(k): an alive connection goes back on the idle FIFO, a dead one
\* leaves the pool.
Release(k, isAlive) ==
    /\ IF isAlive THEN idle' = Append(idle, k) /\ UNCHANGED held
                  ELSE held' = held \ {k} /\ UNCHANGED idle
    /\ lent' = [lent EXCEPT ![k] = @ - 1]
    /\ UNCHANGED made

Lend(c, k) ==
    /\ conn' = [conn EXCEPT ![c] = k]
    /\ pc' = [pc EXCEPT ![c] = "query"]
    /\ lent' = [lent EXCEPT ![k] = @ + 1]

\* Acquire: pop the idle FIFO, discarding a dead connection; else create
\* one below the maximum size; else wait (the step is not enabled).
Acquire(c) ==
    /\ pc[c] = "acquire"
    /\ \/ /\ idle # <<>>
          /\ idle' = Tail(idle)
          /\ IF alive[Head(idle)]
             THEN Lend(c, Head(idle)) /\ UNCHANGED held
             ELSE held' = held \ {Head(idle)} /\ UNCHANGED <<conn, pc, lent>>
          /\ UNCHANGED <<made, alive>>
       \/ /\ idle = <<>> /\ Cardinality(held) < MaxSize /\ made # ConnIds
          /\ LET k == CHOOSE k \in ConnIds \ made : TRUE IN
                /\ made' = made \cup {k}
                /\ held' = held \cup {k}
                /\ alive' = [alive EXCEPT ![k] = TRUE]
                /\ Lend(c, k)
          /\ UNCHANGED idle
    /\ UNCHANGED <<broken, cqr, pending, ret, done, want, seen, short, breaks>>

-----------------------------------------------------------------------------
(* The cursor, src/conn.go. *)

\* Mutant: the pool does not take back the connection of a failed Query.
QueryFailedKeepsConn(c, k, stillAlive) ==
    /\ alive' = [alive EXCEPT ![k] = stillAlive]
    /\ cqr' = [cqr EXCEPT ![k] = [closed |-> TRUE, pool |-> FALSE, err |-> TRUE]]
    /\ pc' = [pc EXCEPT ![c] = "next"]
    /\ UNCHANGED poolVars

(* Query, lines 651-664 and 671-685: an error sets qr.closed directly,
   without close(), so the pool's Query releases the connection itself. *)
QueryFailed(c, k, stillAlive) ==
    /\ alive' = [alive EXCEPT ![k] = stillAlive]
    /\ cqr' = [cqr EXCEPT ![k] = [closed |-> TRUE, pool |-> FALSE, err |-> TRUE]]
    /\ Release(k, stillAlive)
    /\ pc' = [pc EXCEPT ![c] = "next"]

(* Query (646-689) on the borrowed connection, through the pool: c.qr is
   reset; the send fails (a write error leaves the connection alive), or
   the read of the RowDescription fails and kills it -- both close the
   cursor directly and the pool releases the connection -- or the cursor
   is returned and the pool stores itself in qr.pool. *)
PoolQuery(c) ==
    LET k == conn[c] IN
    /\ pc[c] = "query"
    /\ IF broken[k]
       THEN \E writeFails \in BOOLEAN :
               QueryFailed(c, k, writeFails) /\ UNCHANGED <<pending, want>>
       ELSE \E n \in 0..MaxRows :
               /\ cqr' = [cqr EXCEPT ![k] = [closed |-> FALSE, pool |-> TRUE, err |-> FALSE]]
               /\ pending' = [pending EXCEPT ![k] = n + 1]
               /\ want' = [want EXCEPT ![c] = n]
               /\ pc' = [pc EXCEPT ![c] = "rows"]
               /\ UNCHANGED <<alive, poolVars>>
    /\ seen' = [seen EXCEPT ![c] = 0]
    /\ UNCHANGED <<broken, ret, conn, done, short, breaks>>

\* Enter close() (450-456), then continue at the steps in then.
CallClose(c, then) ==
    /\ pc' = [pc EXCEPT ![c] = "close"]
    /\ ret' = [ret EXCEPT ![c] = then]

\* A read on the connection can complete: a message is there, or it fails.
CanRead(k) == pending[k] > 0 \/ broken[k] \/ ~alive[k]

\* NextRow, lines 519-522: rxReadyForQuery, close(), return false.
NextRowReady(c, k) == CallClose(c, <<"deferClose">>) /\ UNCHANGED cqr

(* NextRow (503-542): false at once on a closed cursor; a failed read
   kills the connection and is Fatal, whose Close drains (its first read
   fails on the dead connection) and calls close() twice; a DataRow is
   returned; ReadyForQuery closes the cursor. *)
NextRow(c) ==
    LET k == conn[c] IN
    /\ pc[c] = "rows"
    /\ cqr[k].closed \/ CanRead(k)
    /\ CASE cqr[k].closed ->
              /\ pc' = [pc EXCEPT ![c] = "deferClose"]
              /\ short' = IF ~cqr[k].err /\ seen[c] < want[c] THEN short \cup {c} ELSE short
              /\ UNCHANGED <<alive, cqr, pending, ret, seen>>
         [] broken[k] \/ ~alive[k] ->
              /\ alive' = [alive EXCEPT ![k] = FALSE]
              /\ cqr' = [cqr EXCEPT ![k].err = TRUE]
              /\ CallClose(c, <<"close", "deferClose">>)
              /\ UNCHANGED <<pending, seen, short>>
         [] pending[k] > 1 ->
              /\ pending' = [pending EXCEPT ![k] = @ - 1]
              /\ seen' = [seen EXCEPT ![c] = @ + 1]
              /\ UNCHANGED <<alive, cqr, pc, ret, short>>
         [] OTHER ->
              /\ pending' = [pending EXCEPT ![k] = 0]
              /\ NextRowReady(c, k)
              /\ UNCHANGED <<alive, seen, short>>
    /\ UNCHANGED <<broken, poolVars, conn, done, want, breaks>>

\* close(), lines 451-454: with qr.pool set, Release the connection.
CloseRelease(c) ==
    LET k == conn[c] IN
    /\ pc[c] = "close"
    /\ IF cqr[k].pool
       THEN Release(k, alive[k]) /\ pc' = [pc EXCEPT ![c] = "clearPool"]
       ELSE pc' = [pc EXCEPT ![c] = "clear"] /\ UNCHANGED poolVars
    /\ UNCHANGED <<alive, broken, cqr, pending, ret, conn, done, want, seen, short, breaks>>

\* Mutant: close() releases but leaves qr.pool set.
CloseClearKeepsPool(c) ==
    LET k == conn[c] IN
    /\ pc[c] \in {"clear", "clearPool"}
    /\ cqr' = [cqr EXCEPT ![k].closed = TRUE]
    /\ pc' = [pc EXCEPT ![c] = Head(ret[c])]
    /\ ret' = [ret EXCEPT ![c] = Tail(ret[c])]
    /\ UNCHANGED <<poolVars, alive, broken, pending, conn, done, want, seen, short, breaks>>

\* close(), lines 453-455: qr.pool = nil (after a Release), qr.closed = true;
\* then return to the caller of close().
CloseClear(c) ==
    LET k == conn[c] IN
    /\ pc[c] \in {"clear", "clearPool"}
    /\ cqr' = [cqr EXCEPT ![k].closed = TRUE,
                          ![k].pool = IF pc[c] = "clearPool" THEN FALSE ELSE @]
    /\ pc' = [pc EXCEPT ![c] = Head(ret[c])]
    /\ ret' = [ret EXCEPT ![c] = Tail(ret[c])]
    /\ UNCHANGED <<poolVars, alive, broken, pending, conn, done, want, seen, short, breaks>>

\* Close (486-492), as deferred by the caller: nothing on a closed cursor.
DeferredClose(c) ==
    LET k == conn[c] IN
    /\ pc[c] = "deferClose"
    /\ pc' = [pc EXCEPT ![c] = IF cqr[k].closed THEN "next" ELSE "drain"]
    /\ UNCHANGED <<poolVars, alive, broken, cqr, pending, ret, conn, done, want, seen,
                   short, breaks>>

(* readUntilReadyForQuery (459-484), then close() from it and from Close:
   the rest of the answer is discarded, or the read fails and kills the
   connection. *)
Drain(c) ==
    LET k == conn[c] IN
    /\ pc[c] = "drain"
    /\ CanRead(k)
    /\ alive' = [alive EXCEPT ![k] = alive[k] /\ ~broken[k]]
    /\ pending' = [pending EXCEPT ![k] = IF broken[k] \/ ~alive[k] THEN @ ELSE 0]
    /\ CallClose(c, <<"close", "next">>)
    /\ UNCHANGED <<poolVars, broken, cqr, conn, done, want, seen, short, breaks>>

-----------------------------------------------------------------------------
(* The callers and the links. *)

\* A caller leaves its row loop early.
Break(c) ==
    /\ pc[c] = "rows"
    /\ pc' = [pc EXCEPT ![c] = "deferClose"]
    /\ UNCHANGED <<poolVars, alive, broken, cqr, pending, ret, conn, done, want, seen,
                   short, breaks>>

Finish(c) ==
    /\ pc[c] = "next"
    /\ done' = [done EXCEPT ![c] = @ + 1]
    /\ pc' = [pc EXCEPT ![c] = IF done[c] + 1 < Queries THEN "acquire" ELSE "done"]
    /\ UNCHANGED <<poolVars, alive, broken, cqr, pending, ret, conn, want, seen, short,
                   breaks>>

\* The link of a pooled connection fails; the connection learns it on its
\* next read or write.
LinkBreak ==
    /\ breaks < MaxBreaks
    /\ \E k \in held :
        /\ ~broken[k]
        /\ broken' = [broken EXCEPT ![k] = TRUE]
    /\ breaks' = breaks + 1
    /\ UNCHANGED <<poolVars, alive, cqr, pending, callerVars>>

AllDone == \A c \in Callers : pc[c] = "done"

Next ==
    \/ \E c \in Callers :
          \/ Acquire(c) \/ PoolQuery(c) \/ NextRow(c) \/ CloseRelease(c)
          \/ CloseClear(c) \/ DeferredClose(c) \/ Drain(c) \/ Break(c) \/ Finish(c)
    \/ LinkBreak
    \/ AllDone /\ UNCHANGED vars

Spec == Init /\ [][Next]_vars
-----------------------------------------------------------------------------
(* Properties. *)

TypeOK ==
    /\ idle \in Seq(ConnIds) /\ held \subseteq made /\ made \subseteq ConnIds
    /\ pc \in [Callers -> {"acquire", "query", "rows", "close", "clear", "clearPool",
                           "deferClose", "drain", "next", "done"}]
    /\ cqr \in [ConnIds -> [closed : BOOLEAN, pool : BOOLEAN, err : BOOLEAN]]
    /\ pending \in [ConnIds -> 0..MaxRows + 1]
    /\ lent \in [ConnIds -> Int]

(* The cursor releases its connection exactly once, whatever path ends it
   (the end of the rows, Close, a Fatal error): close() releases only while
   qr.pool is set and clears it (src/conn.go:450-456), so a connection is
   never given back twice nor idle while lent (spec.md 9). *)
ReleasedOnce ==
    /\ \A k \in ConnIds : lent[k] \in {0, 1}
    /\ \A k \in ToSet(idle) : lent[k] = 0
    /\ Len(idle) = Cardinality(ToSet(idle))

(* No connection is in use by two callers: a caller between its Acquire
   and the end of its rows has the connection to itself (spec.md 3). *)
ExclusiveUse ==
    \A c, d \in Callers :
        (c # d /\ pc[c] \in {"query", "rows"} /\ pc[d] \in {"query", "rows"})
            => conn[c] # conn[d]

(* Once every caller has finished, the pool has every connection it still
   holds back on its idle FIFO: none is leaked by a cursor that never
   released it. *)
NoLeak == AllDone => held = ToSet(idle)

(* A NextRow that returns false without an error has returned every row
   of its caller's own query. *)
NoTruncation == short = {}
=============================================================================
