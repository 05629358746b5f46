---------------------------- MODULE StorageRows ----------------------------
(* The rows the three storage adapters keep, and the vocabulary their        *)
(* operations share.  A database maps each table to a set of rows, every row *)
(* a record with an `id`.  Columns no property tells apart (labels, metadata,*)
(* instants that only describe) are left out; the pair of instants a CHECK   *)
(* constraint compares is one Boolean column, `ordered`.                     *)
EXTENDS Naturals, FiniteSets, FiniteSetsExt

CONSTANTS Null,       \* SQL NULL and JavaScript null
          WalkCap     \* templates the cycle check visits (64 in the code)

ASSUME WalkCapAssumption == WalkCap \in Nat \ {0}

\* Null is no id.
ASSUME NullAssumption == Null \notin Nat

Tables == {"scopes", "templates", "licenses", "usages", "keys", "audit", "trials"}

emptyState == [t \in Tables |-> {}]

has(db, t, id) == \E r \in db[t] : r.id = id

row(db, t, id) == CHOOSE r \in db[t] : r.id = id

\* The row that comes first in a Map's insertion order.
first(rows) == CHOOSE r \in rows : \A q \in rows : r.id <= q.id

\* newUuidV7: an id no row of the table carries.
newUuidV7(db, t) == Min({n \in 1..(Cardinality(db[t]) + 1) : ~has(db, t, n)})

created(db, t, input) ==
    [c \in {"id"} \cup DOMAIN input |-> IF c = "id" THEN newUuidV7(db, t) ELSE input[c]]

\* A patch is a record of the columns it names; they win over the row's own.
patched(db, t, id, patch) ==
    LET r == row(db, t, id)
    IN  [c \in DOMAIN r \cup DOMAIN patch |-> IF c \in DOMAIN patch THEN patch[c] ELSE r[c]]

\* An outcome: the database afterwards, and "ok" or the error raised.
wrote(db, t, r) ==
    [db |-> [db EXCEPT ![t] = {q \in @ : q.id # r.id} \cup {r}], out |-> "ok"]

refused(db, e) == [db |-> db, out |-> e]

\* The template reached from `start` after n parent links; Null past the root
\* or past a missing row.
ancestor(db, start, n) ==
    LET hop[k \in 0..n] ==
          IF k = 0 THEN start
          ELSE IF has(db, "templates", hop[k - 1])
               THEN row(db, "templates", hop[k - 1]).parent ELSE Null
    IN  hop[n]
=============================================================================
