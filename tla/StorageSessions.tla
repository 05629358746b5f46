-------------------------- MODULE StorageSessions --------------------------
(* The parts of an adapter that live longer than one call.                   *)
(*                                                                           *)
(* `walk`: a caller reads a list page by page with the opaque cursor while   *)
(* rows are inserted (focus "pages").  Instants count clock ticks, several   *)
(* to the millisecond: a JavaScript instant is truncated to its millisecond, *)
(* Postgres keeps the tick.                                                  *)
(*                                                                           *)
(* `conn`: callers that share one memory state or one SQLite connection, in  *)
(* and outside withTransaction, one step per awaited call (focus "tx").      *)
EXTENDS StorageMachine, SequencesExt

CONSTANTS TicksPerMs, MaxTicks,   \* clock of the "pages" focus
          Limits,                 \* page limits a caller asks for
          MaxLimit,               \* the most rows a page holds (500 in the code)
          Procs, MaxWrites        \* callers of the "tx" focus, writes of each

ASSUME TicksAssumption == TicksPerMs \in Nat \ {0}

\* A limit is a number, and "no cursor" no cursor.
ASSUME PagesAssumption == Limits \subseteq Int /\ MaxLimit \in Nat \ {0} /\ Null \notin [at : Nat, id : Nat]

\* Null stands for "no open transaction" and names no caller.
ASSUME ProcsAssumption == Null \notin Procs

VARIABLES walk, conn

sessionVars == <<vars, walk, conn>>

-----------------------------------------------------------------------------
(* Pages.  A cursor is the (created_at, id) of the last row returned.        *)

\* toIso / isoFromMs: what JavaScript keeps of an instant.
toIso(at) == at - (at % TicksPerMs)

\* created_at: the process clock in the memory and SQLite adapters, the
\* server's now() in Postgres.
createdAt(now) == IF adapter = "postgres" THEN now ELSE toIso(now)

\* Mistake: no tie-break on the id.
isAfter_CreatedAtOnly(r, cursor) == r.at < cursor.at

isAfter(r, cursor) == r.at < cursor.at \/ (r.at = cursor.at /\ r.id < cursor.id)

compareDesc(a, b) == isAfter(b, a)

\* The rows in that order, none before one it should follow.
sortedDesc(rows) ==
    CHOOSE s \in [1..Cardinality(rows) -> rows] :
        IsInjective(s) /\ \A i, j \in DOMAIN s : i < j => ~compareDesc(s[j], s[i])

encodeCursor(r) == [at |-> toIso(r.at), id |-> r.id]

pageLimit(limit) == IF limit < 1 THEN 1 ELSE IF limit > MaxLimit THEN MaxLimit ELSE limit

\* Memory: sort everything, find the first row after the cursor, slice.
paginate(rows, cursor, limit) ==
    LET sorted == sortedDesc(rows)
        starts == {i \in DOMAIN sorted : cursor = Null \/ isAfter(sorted[i], cursor)}
        start  == CHOOSE i \in starts : \A k \in starts : i <= k
        end    == IF start + limit - 1 < Len(sorted) THEN start + limit - 1 ELSE Len(sorted)
    IN  IF starts = {} THEN [items |-> <<>>, cursor |-> Null]
        ELSE [items  |-> SubSeq(sorted, start, end),
              cursor |-> IF end < Len(sorted) THEN encodeCursor(sorted[end]) ELSE Null]

\* SQL: WHERE (created_at, id) < cursor ORDER BY ... LIMIT limit + 1.
buildPage(rows, cursor, limit) ==
    LET found == sortedDesc({r \in rows : cursor = Null \/ isAfter(r, cursor)})
    IN  IF Len(found) > limit
        THEN [items |-> SubSeq(found, 1, limit), cursor |-> encodeCursor(found[limit])]
        ELSE [items |-> found, cursor |-> Null]

page(rows, cursor, limit) ==
    IF adapter = "memory" THEN paginate(rows, cursor, pageLimit(limit))
    ELSE buildPage(rows, cursor, pageLimit(limit))

noWalk == [rows |-> {}, now |-> 0, reading |-> FALSE, cursor |-> Null, seen |-> <<>>, due |-> {}]

\* Ids are UUIDv7: within one millisecond their order is random.
InsertRow ==
    \E id \in (1..MaxRows["licenses"]) \ {r.id : r \in walk.rows} :
        walk' = [walk EXCEPT !.rows = @ \cup {[id |-> id, at |-> createdAt(walk.now)]}]

Tick == walk.now < MaxTicks /\ walk' = [walk EXCEPT !.now = @ + 1]

\* A first page, also what a malformed cursor gets.
FirstPage ==
    \E limit \in Limits :
        LET p == page(walk.rows, Null, limit)
        IN  walk' = [walk EXCEPT !.reading = (p.cursor # Null), !.cursor = p.cursor,
                                 !.seen = [i \in DOMAIN p.items |-> p.items[i].id],
                                 !.due = {r.id : r \in walk.rows}]

NextPage ==
    /\ walk.reading
    /\ \E limit \in Limits :
        LET p == page(walk.rows, walk.cursor, limit)
        IN  walk' = [walk EXCEPT !.reading = (p.cursor # Null), !.cursor = p.cursor,
                                 !.seen = @ \o [i \in DOMAIN p.items |-> p.items[i].id]]

Pages == /\ focus = "pages"
         /\ InsertRow \/ Tick \/ FirstPage \/ NextPage
         /\ UNCHANGED <<vars, conn>>

-----------------------------------------------------------------------------
(* Transactions.  A write is <<caller, number>>; `store` is what the shared  *)
(* state or connection holds, `live` what a rollback restores.               *)

noConn == [store |-> {}, live |-> {}, owner |-> Null,
           count |-> [p \in Procs |-> 0], mine |-> {}, committed |-> {}, gone |-> {}, acked |-> {}]

\* The nested-transaction guard (memory), BEGIN on the one connection (SQLite).
BeginTx(p) ==
    conn' = IF conn.owner = Null THEN [conn EXCEPT !.owner = p, !.live = conn.store, !.mine = {}]
            ELSE conn

\* Any statement of any caller runs on what is there, open transaction or not.
Write(p) ==
    /\ conn.count[p] < MaxWrites
    /\ LET w == <<p, conn.count[p] + 1>>
       IN  conn' = [conn EXCEPT !.count[p] = @ + 1, !.store = @ \cup {w},
                                !.mine = IF conn.owner = p THEN @ \cup {w} ELSE @,
                                !.acked = IF conn.owner = p THEN @ ELSE @ \cup {w}]

CommitTx(p) ==
    /\ conn.owner = p
    /\ conn' = [conn EXCEPT !.owner = Null, !.committed = @ \cup conn.mine, !.mine = {}]

\* Mistake: the snapshot is not put back.
RollbackTx_KeepsSnapshot(p) ==
    /\ conn.owner = p
    /\ conn' = [conn EXCEPT !.owner = Null, !.gone = @ \cup conn.mine, !.mine = {}]

RollbackTx(p) ==
    /\ conn.owner = p
    /\ conn' = [conn EXCEPT !.owner = Null, !.store = conn.live, !.gone = @ \cup conn.mine, !.mine = {}]

Transactions ==
    /\ focus = "tx"
    /\ \E p \in Procs : BeginTx(p) \/ Write(p) \/ CommitTx(p) \/ RollbackTx(p)
    /\ UNCHANGED <<vars, walk>>

-----------------------------------------------------------------------------
SessionInit == Init /\ walk = noWalk /\ conn = noConn

SessionNext == (Next /\ UNCHANGED <<walk, conn>>) \/ Pages \/ Transactions

SessionSpec == SessionInit /\ [][SessionNext]_sessionVars

-----------------------------------------------------------------------------
\* A walk returns no row twice, and once it is over it has returned every row
\* that was there when it began, however many rows were inserted meanwhile
\* (paginate, buildPagination, buildPage).
PagesExact ==
    /\ IsInjective(walk.seen)
    /\ ~walk.reading => walk.due \subseteq ToSet(walk.seen)

\* A transaction that ended left all of its writes or none, although other
\* callers' statements and refused BEGINs ran while it was open (withTransaction).
TxAllOrNothing == conn.gone \cap conn.store = {} /\ conn.committed \subseteq conn.store

\* A write made outside any transaction and acknowledged stays.  It does not
\* when it lands in another caller's transaction that rolls back.
AcknowledgedWritesStay == conn.acked \subseteq conn.store
=============================================================================
