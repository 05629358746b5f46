----------------------------- MODULE PostgresTx -----------------------------
(***************************************************************************)
(* registerUsage, revokeUsage and a lifecycle transition of one license on *)
(* the Postgres adapter (typescript/src/storage/postgres/adapter.ts).      *)
(* withTransaction issues a plain BEGIN, so statements run at the server's *)
(* default level, READ COMMITTED: each sees what is committed when it      *)
(* starts, and what a transaction writes shows at its COMMIT.  Every       *)
(* statement that can wait is a step: for a lock on the license row, taken *)
(* by FOR UPDATE, by UPDATE and by the foreign keys of an INSERT, for the  *)
(* row an uncommitted UPDATE holds, for an index entry an uncommitted      *)
(* transaction may still free.  Two transactions can come to wait for each *)
(* other; Postgres then aborts one of them.                                *)
(***************************************************************************)
EXTENDS Naturals, FiniteSets

CONSTANTS Null, Procs, Fingerprints, UsageIds,
          MaxUsages         \* the license's max_usages

ASSUME PgAssumption == MaxUsages \in Nat \ {0} /\ Null \notin Procs

VARIABLES status,           \* licenses.status, committed
          usage,            \* the license_usages rows, committed
          seatAudit,        \* per usage: committed usage.revoked rows
          hold,             \* per connection: its lock on the license row
          tx                \* per connection: the transaction it runs

vars == <<status, usage, seatAudit, hold, tx>>

Status == {"pending", "active", "suspended", "revoked"}
Usage == [fingerprint : Fingerprints \cup {Null},
          status : {"none", "active", "revoked"}]

Mode == {"none", "keyShare", "noKeyUpdate", "update"}

Tx == [op     : {"idle", "register", "transition", "revokeUsage"},
       at     : {"-", "find", "count", "lock", "insert", "write", "audit",
                 "commit"},
       f      : Fingerprints \cup {Null},
       u      : UsageIds \cup {Null},       \* the usage row it writes
       status : Status \cup {Null},         \* the license row it read
       to     : Status \cup {Null}]
Idle == [op |-> "idle", at |-> "-", f |-> Null, u |-> Null, status |-> Null,
         to |-> Null]

----------------------------------------------------------------------------
(* Slips, as in Lifecycle.                                                 *)

uniqueIndexAllows_Anything(f) == TRUE
rollback_KeepsLock(p) == /\ tx' = [tx EXCEPT ![p] = Idle]
                         /\ UNCHANGED <<status, usage, seatAudit, hold>>

----------------------------------------------------------------------------
(* Postgres' row locks.                                                    *)

conflicts(m, n) == \/ m = "update" /\ n # "none"
                   \/ n = "update" /\ m # "none"
                   \/ m = "noKeyUpdate" /\ n = "noKeyUpdate"

grants(p, mode) == \A q \in Procs \ {p} : ~conflicts(mode, hold[q])

activeUsages == {u \in UsageIds : usage[u].status = "active"}

\* license_usages_active_fp_key: (license_id, fingerprint) is unique
\* among active rows.
uniqueIndexAllows(f) == \A u \in activeUsages : usage[u].fingerprint # f

\* q's UPDATE of the row of u is not committed.
updating(q, u) == /\ tx[q].op = "revokeUsage" /\ tx[q].at \in {"audit", "commit"}
                  /\ tx[q].u = u

\* An INSERT into the index waits while a transaction that added or may free
\* an entry of its key runs.
indexWaitsFor(p, q) ==
    \/ \E u \in activeUsages : updating(q, u) /\ usage[u].fingerprint = tx[p].f
    \/ tx[q].op = "register" /\ tx[q].at = "commit" /\ tx[q].f = tx[p].f

----------------------------------------------------------------------------
\* ROLLBACK, and the COMMIT of a transaction that wrote nothing.
rollback(p) == /\ tx' = [tx EXCEPT ![p] = Idle]
               /\ hold' = [hold EXCEPT ![p] = "none"]
               /\ UNCHANGED <<status, usage, seatAudit>>

next(p, label) == /\ tx' = [tx EXCEPT ![p].at = label]
                  /\ UNCHANGED <<status, usage, seatAudit, hold>>

\* A statement that takes a lock on the license row.
locks(p, mode, label) == /\ grants(p, mode)
                         /\ hold' = [hold EXCEPT ![p] = mode]
                         /\ tx' = [tx EXCEPT ![p].at = label]
                         /\ UNCHANGED <<status, usage, seatAudit>>

\* getLicense and assertUsable.
RegisterGetLicense(p, f) ==
    /\ tx[p].op = "idle" /\ status \in {"pending", "active"}
    /\ tx' = [tx EXCEPT ![p] = [Idle EXCEPT !.op = "register", !.at = "find",
                                            !.f = f, !.status = status]]
    /\ UNCHANGED <<status, usage, seatAudit, hold>>

\* The idempotent path returns the row it finds.
RegisterFind(p) ==
    /\ tx[p].at = "find"
    /\ IF \E u \in activeUsages : usage[u].fingerprint = tx[p].f
       THEN rollback(p) ELSE next(p, "count")

RegisterCount(p) ==
    /\ tx[p].at = "count"
    /\ IF \/ Cardinality(activeUsages) >= MaxUsages
          \/ \A u \in UsageIds : usage[u].status # "none"       \* bound
       THEN rollback(p) ELSE next(p, "lock")

\* createUsage: SELECT id FROM licenses WHERE id = $1 FOR UPDATE.
ForUpdate(p) == tx[p].at = "lock" /\ locks(p, "update", "insert")

\* INSERT INTO license_usages.  The foreign key, the audit row and activate()
\* after it lock the license row again, which this transaction holds.
Insert(p) ==
    /\ tx[p].at = "insert"
    /\ \A q \in Procs \ {p} : ~indexWaitsFor(p, q)
    /\ IF ~uniqueIndexAllows(tx[p].f) \/ \A u \in UsageIds : usage[u].status # "none"
       THEN rollback(p)
       ELSE /\ LET u == CHOOSE v \in UsageIds : usage[v].status = "none" IN
               tx' = [tx EXCEPT ![p] = [@ EXCEPT !.at = "commit", !.u = u]]
            /\ UNCHANGED <<status, usage, seatAudit, hold>>

\* activate() on the row read at the start.
activated(read) == IF read = "pending" THEN "active" ELSE status

RegisterCommit(p) ==
    /\ tx[p].op = "register" /\ tx[p].at = "commit"
    /\ usage' = [usage EXCEPT ![tx[p].u] = [fingerprint |-> tx[p].f,
                                            status |-> "active"]]
    /\ status' = activated(tx[p].status)
    /\ tx' = [tx EXCEPT ![p] = Idle] /\ hold' = [hold EXCEPT ![p] = "none"]
    /\ UNCHANGED seatAudit

\* suspend, resume or revoke: read, then UPDATE licenses, which changes no
\* key column, and the audit row.
TransitionGetLicense(p, to) ==
    /\ tx[p].op = "idle"
    /\ CASE to = "suspended" -> status = "active"
         [] to = "active" -> status = "suspended"
         [] to = "revoked" -> status # "revoked"
         [] OTHER -> FALSE
    /\ tx' = [tx EXCEPT ![p] = [Idle EXCEPT !.op = "transition", !.at = "write",
                                            !.status = status, !.to = to]]
    /\ UNCHANGED <<status, usage, seatAudit, hold>>

TransitionUpdate(p) == /\ tx[p].op = "transition" /\ tx[p].at = "write"
                       /\ locks(p, "noKeyUpdate", "commit")

TransitionCommit(p) ==
    /\ tx[p].op = "transition" /\ tx[p].at = "commit"
    /\ status' = tx[p].to
    /\ tx' = [tx EXCEPT ![p] = Idle] /\ hold' = [hold EXCEPT ![p] = "none"]
    /\ UNCHANGED <<usage, seatAudit>>

\* revokeUsage: getUsage, UPDATE license_usages, then the audit row, whose
\* foreign key locks the license row.
RevokeGetUsage(p, u) ==
    /\ tx[p].op = "idle" /\ usage[u].status = "active"
    /\ tx' = [tx EXCEPT ![p] = [Idle EXCEPT !.op = "revokeUsage", !.at = "write",
                                            !.u = u]]
    /\ UNCHANGED <<status, usage, seatAudit, hold>>

RevokeUpdate(p) ==
    /\ tx[p].op = "revokeUsage" /\ tx[p].at = "write"
    /\ \A q \in Procs \ {p} : ~updating(q, tx[p].u)
    /\ next(p, "audit")

RevokeAudit(p) == tx[p].at = "audit" /\ locks(p, "keyShare", "commit")

RevokeCommit(p) ==
    /\ tx[p].op = "revokeUsage" /\ tx[p].at = "commit"
    /\ usage' = [usage EXCEPT ![tx[p].u].status = "revoked"]
    /\ seatAudit' = [seatAudit EXCEPT ![tx[p].u] = @ + 1]
    /\ tx' = [tx EXCEPT ![p] = Idle] /\ hold' = [hold EXCEPT ![p] = "none"]
    /\ UNCHANGED status

\* A registration waits for the index entry of a seat another transaction is
\* ending, which waits for the license row the registration holds.
lockCycle(p, q) == /\ tx[p].at = "insert" /\ indexWaitsFor(p, q)
                   /\ tx[q].at = "audit" /\ ~grants(q, "keyShare")

\* After deadlock_timeout Postgres fails a statement of the cycle, whose
\* error withTransaction answers with ROLLBACK.
DeadlockVictim(p) ==
    /\ \E q \in Procs \ {p} : lockCycle(p, q) \/ lockCycle(q, p)
    /\ rollback(p)

----------------------------------------------------------------------------
Init == /\ status = "pending" /\ hold = [p \in Procs |-> "none"]
        /\ usage = [u \in UsageIds |-> [fingerprint |-> Null, status |-> "none"]]
        /\ seatAudit = [u \in UsageIds |-> 0]
        /\ tx = [p \in Procs |-> Idle]

Begin(p) == \/ \E f \in Fingerprints : RegisterGetLicense(p, f)
            \/ \E to \in Status : TransitionGetLicense(p, to)
            \/ \E u \in UsageIds : RevokeGetUsage(p, u)

Continue(p) == \/ RegisterFind(p) \/ RegisterCount(p) \/ ForUpdate(p)
               \/ Insert(p) \/ RegisterCommit(p)
               \/ TransitionUpdate(p) \/ TransitionCommit(p)
               \/ RevokeUpdate(p) \/ RevokeAudit(p) \/ RevokeCommit(p)

Next == \E p \in Procs : Begin(p) \/ Continue(p) \/ DeadlockVictim(p)

Spec == Init /\ [][Next]_vars

\* Statements return, Postgres grants a row lock in the order of the queue,
\* so a transaction whose next statement can run again and again does, and
\* its deadlock detector fails one transaction of a cycle.
FairSpec == /\ Spec
            /\ \A p \in Procs : SF_vars(Continue(p))
            /\ WF_vars(\E p \in Procs : DeadlockVictim(p))

----------------------------------------------------------------------------
\* The rows and the transactions are well formed.
PgTypeOK ==
    /\ status \in Status
    /\ usage \in [UsageIds -> Usage]
    /\ seatAudit \in [UsageIds -> Nat]
    /\ hold \in [Procs -> Mode]
    /\ tx \in [Procs -> Tx]

\* Two registrations of one device both miss its row and both insert: the
\* partial unique index still leaves the device one live seat.
PgOneSeatPerDevice ==
    \A u, v \in activeUsages :
        usage[u].fingerprint = usage[v].fingerprint => u = v

\* Waiting never wedges the issuer: every transaction ends, the ones that
\* roll back while holding the license row and the ones that wait for each
\* other, the row one way and an entry of the unique index the other,
\* included.
PgTransactionsEnd == \A p \in Procs : tx[p].op # "idle" ~> tx[p].op = "idle"

\* adapter.ts: the lock "serializes concurrent registration attempts so only
\* one tx can observe active_count == max_usages - 1 and commit".
PgSeatsWithinCap == Cardinality(activeUsages) <= MaxUsages

\* revokeUsage: "No-op if already revoked".  The end of a seat is audited
\* once, however many requests end it.
PgSeatEndAuditedOnce == \A u \in UsageIds : seatAudit[u] <= 1

\* lifecycle.ts: revoked is "terminal (no further transitions allowed)", for
\* an activation that read the license as pending too.
PgRevokedIsTerminal ==
    [][(\E p \in Procs : tx[p].op = "register" /\ tx'[p] = Idle)
         => (status = "revoked" => status' = "revoked")]_vars
=============================================================================
